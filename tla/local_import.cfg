SPECIFICATION ImportFairSpec
CONSTANTS
  None = None
  TornFile = TornFile
  Torn = TornFile
  Packs <- Names
  Manifest <- Contents
  Files <- FilesThere
  Bundled <- PreviewPack
INVARIANTS
  ImportInv
PROPERTIES
  QuietAfterClose
  ImportEnds
