---------------------------- MODULE PackAdmission ----------------------------
(***************************************************************************)
(* What makes a character pack acceptable, in the three places that decide *)
(* it: the validator (validate_petpack), the inspector of local imports    *)
(* (inspect_local_pack, run in the child process) and the runtime that     *)
(* draws an installed character (PackCharacterRuntime).  Each reads the    *)
(* manifest for itself.  Pure operators over a pack, no state.             *)
(*                                                                         *)
(* A pack is a record of the parts of its manifest that these three        *)
(* decide on:                                                              *)
(*   members     of the archive, in order; sizes in MiB                    *)
(*   size        of the file, in MiB                                       *)
(*   publisher   namespace of the publisher                                *)
(*   version     a frozen historical revision, or any other                *)
(*   pubRef      publisher_ref: "declared", "dangling" or "absent"         *)
(*   engine      the engine versions it is for: min, below (None: any)     *)
(*   required, optional     capabilities                                   *)
(*   legal       [path -> intact] of the declared legal files              *)
(*   assets      [id -> asset], actions [id -> action],                    *)
(*   characters  [id -> character], contracts: declared rig contracts      *)
(* An asset's path is its id.  Pixels are counted in units of 2^20, sounds *)
(* in seconds, versions by their place in the order.  The lexical rules of *)
(* paths are abstracted to the class a name falls in.                      *)
(* Text profiles, and of variants all but the geometry, are left out.      *)
(***************************************************************************)
EXTENDS CharacterLayout, FiniteSets, FiniteSetsExt

MaxFileCount     == 2000
MaxPathDepth     == 8
MaxSingleFile    == 100
MaxTotal         == 500
MaxRatio         == 100
ManifestName     == "petpack.json"

MaxSfxSeconds      == 60
MaxTotalSfxSeconds == 600

MaxLocalImportSize == 64
MaxLocalUncompressed == 96
MaxLocalCharacters == 16
MaxLocalBodyPixels == 24
MaxImagePixels     == 16   \* 4096 x 4096
CachePixels        == 12   \* 48 MiB at four bytes a pixel
MaxFramesPerAction == 300
MinFrameDuration   == 33

EngineVersion == 2   \* releases by their order

SupportedCapabilities ==
  {"renderer.static", "renderer.sequence", "asset.png", "core.idle", "core.work"}
KnownCoreSemantics == {"core.idle", "core.work"}
CoreSemantics      == KnownCoreSemantics \cup {"core.dance"}
DrawableKinds      == {"static", "sequence"}
RendererKinds      == DrawableKinds \cup {"builtin_effect", "layered"}
KnownLayouts       == {"pet_only", "compact", "standard", "hover_expand", "focus"}
Bases              == {"original", "licensed", "unknown"}

\* The lists of a manifest are lists.
PackTyped(p) ==
  /\ \A action \in Range(p.actions) :
       action.loop # None /\ action.loop.type = "sequence" =>
         DOMAIN action.loop.frames = 1 .. Len(action.loop.frames)
  /\ \A c \in Range(p.characters) : c.geometry # None => GeometryTyped(c.geometry)

-----------------------------------------------------------------------------
(***************************************************************************)
(* The validator.                                                          *)
(***************************************************************************)
\* normalize_member_name: relative, composed, no device and no drive.
NameSafe(m) == m.name = "plain" /\ m.depth \in 1 .. MaxPathDepth

\* A directory entry is passed over.
Members(p) == SelectSeq(p.members, LAMBDA m : ~m.directory)

MemberSound(m) ==
  /\ NameSafe(m)
  /\ ~m.link
  /\ m.method \in {"stored", "deflated"}
  /\ m.size <= MaxSingleFile /\ m.ratio <= MaxRatio
  /\ m.whole /\ m.size = m.declared

Uncompressed(p) ==
  LET files == Members(p) IN MapThenSumSet(LAMBDA i : files[i].declared, DOMAIN files)

\* PetpackArchive: no two members are one file to Windows.
ArchiveOpens(p) ==
  LET files == Members(p) IN
    /\ files # <<>> => Len(p.members) <= MaxFileCount
    /\ \A m \in Range(files) : MemberSound(m)
    /\ \A i, j \in DOMAIN files : files[i].folded = files[j].folded => i = j
    /\ Uncompressed(p) <= MaxTotal
    /\ \E m \in Range(files) : m.path = ManifestName

Paths(p) == {m.path : m \in Range(Members(p))} \ {ManifestName}

\* External packs may not claim the engine's namespaces.
NamespaceAllowed(p, channel) ==
  channel = "BUILTIN_OFFICIAL" \/ p.publisher # "official"

\* Every file is declared, every declared file is there, and nothing twice.
InventoryClosed(p) == Paths(p) = DOMAIN p.assets \cup DOMAIN p.legal

AssetIntact(a) ==
  /\ a.intact
  /\ a.media \in {"image/png", "audio/wav", "audio/ogg", "text/plain"}
  /\ a.content = a.media
  /\ a.media = "image/png" => a.pixels \in 1 .. MaxImagePixels
  /\ a.media = "audio/wav" => a.seconds \in 0 .. MaxSfxSeconds

AssetsIntact(p) ==
  /\ \A id \in DOMAIN p.assets : AssetIntact(p.assets[id])
  /\ MapThenSumSet(LAMBDA id : p.assets[id].seconds,
                   {i \in DOMAIN p.assets : p.assets[i].media = "audio/wav"})
       <= MaxTotalSfxSeconds

\* refs: rights_ref and source_ref lead to declarations, and a licence file the
\* declaration names to the legal files.
RightsHold(p, channel) ==
  \A id \in DOMAIN p.assets :
     LET a == p.assets[id] IN
       /\ a.refs
       /\ a.basis \in Bases
       /\ a.basis = "licensed" => a.evidence
       /\ a.basis = "unknown" => channel # "BUILTIN_OFFICIAL" /\ ~a.official

Compatible(p) ==
  /\ p.engine.min # None => p.engine.min <= EngineVersion
  /\ p.engine.below # None => EngineVersion < p.engine.below
  /\ p.required \subseteq SupportedCapabilities

LegalFilesIntact(p) == \A path \in DOMAIN p.legal : p.legal[path]

Stages(action) == {action.loop, action.enter, action.exit} \ {None}

FrameAssets(r) ==
  CASE r.type = "static"   -> {r.asset}
    [] r.type = "sequence" -> {f.asset : f \in Range(r.frames)}
    [] OTHER               -> {}

TimelineValid(p, action) ==
  \A r \in Stages(action) :
    /\ r.type \in RendererKinds
    /\ FrameAssets(r) \subseteq DOMAIN p.assets
    /\ r.type = "sequence" =>
         /\ Len(r.frames) \in 1 .. MaxFramesPerAction
         /\ \A f \in Range(r.frames) : f.ms >= MinFrameDuration

\* The loop decides, and only without one the enter stage: as the runtime does.
Shown(action) == IF action.loop # None THEN action.loop ELSE action.enter

Drawable(action) == Shown(action) # None /\ Shown(action).type \in DrawableKinds

SemanticValid(p, action) ==
  \/ action.semantic \in KnownCoreSemantics \cup {None, "own"}
  \/ action.semantic \in p.optional

CharacterValid(p, c) ==
  /\ Range(c.bind) \subseteq DOMAIN p.actions
  /\ "core.idle" \in DOMAIN c.bind
  /\ Drawable(p.actions[c.bind["core.idle"]])
  /\ c.thumbnail \in DOMAIN p.assets

\* An action bound more than once, be it by one character, is a layered template
\* under one contract.
RigSharingValid(p) ==
  /\ \A c \in Range(p.characters) : c.contract \in p.contracts \cup {None}
  /\ \A id \in DOMAIN p.actions :
       LET Uses(c) == {s \in DOMAIN p.characters[c].bind : p.characters[c].bind[s] = id}
           users == {c \in DOMAIN p.characters : Uses(c) # {}}
           action == p.actions[id]
       IN MapThenSumSet(LAMBDA c : Cardinality(Uses(c)), users) > 1 =>
            /\ action.contract # None
            /\ \A c \in users : p.characters[c].contract = action.contract
            /\ Shown(action) # None /\ Shown(action).type = "layered"

ActionsValid(p) ==
  /\ \A action \in Range(p.actions) :
       SemanticValid(p, action) /\ TimelineValid(p, action)
  /\ \A c \in Range(p.characters) : CharacterValid(p, c)
  /\ RigSharingValid(p)

PublisherRefValid(p) ==
  p.pubRef = "declared" \/ (p.pubRef = "absent" /\ p.version = "historical")

\* What a pack may be accepted with: each is one stable warning.
Warnings(p) ==
  UNION {
    {"RGT_W001" : id \in {i \in DOMAIN p.assets : p.assets[i].basis = "unknown"}},
    {"ACT_W001" : a \in {b \in Range(p.actions) :
                           b.semantic \in CoreSemantics \ KnownCoreSemantics}},
    {"ACT_W002" : c \in {d \in Range(p.characters) :
                           \E s \in DOMAIN d.bind : ~Drawable(p.actions[d.bind[s]])}},
    {"MAN_W001" : c \in {d \in Range(p.characters) :
                           d.layout \notin KnownLayouts \cup {None}}},
    {"MAN_W002" : x \in {q \in {p} : q.pubRef = "absent"}}}

\* validate_petpack: the phases in order, failing closed.
Validated(p, channel) ==
  /\ ArchiveOpens(p)
  /\ NamespaceAllowed(p, channel)
  /\ InventoryClosed(p)
  /\ AssetsIntact(p)
  /\ RightsHold(p, channel)
  /\ Compatible(p)
  /\ LegalFilesIntact(p)
  /\ \A c \in Range(p.characters) : GeometriesValid(c)
  /\ ActionsValid(p)
  /\ PublisherRefValid(p)

-----------------------------------------------------------------------------
(***************************************************************************)
(* The inspector of local imports.                                         *)
(***************************************************************************)
\* _renderer_asset_ids: the loop, and a renderer this build draws.
Renderable(action) == action.loop # None /\ action.loop.type \in DrawableKinds

FirstAsset(r) == IF r.type = "static" THEN r.asset ELSE r.frames[1].asset

IdleAssets(p) ==
  UNION {FrameAssets(p.actions[c.bind["core.idle"]].loop) : c \in Range(p.characters)}

BodyAssets(p) ==
  UNION {FrameAssets(p.actions[id].loop) :
           id \in UNION {Range(c.bind) : c \in Range(p.characters)}}

\* _decode_png
Decodes(a)      == a.media = "image/png" /\ a.decodes /\ a.sizeDeclared
Transparent(a)  == Decodes(a) /\ a.alpha

\* inspect_local_pack, then validate_local_pack_first_frames.
Inspected(p) ==
  /\ p.size <= MaxLocalImportSize /\ Uncompressed(p) <= MaxLocalUncompressed
  /\ Validated(p, "LOCAL_IMPORTED")
  /\ Cardinality(DOMAIN p.characters) <= MaxLocalCharacters
  /\ \A c \in Range(p.characters) :
       /\ Decodes(p.assets[c.thumbnail])
       /\ \A id \in Range(c.bind) : Renderable(p.actions[id])
  /\ \A id \in BodyAssets(p) : Transparent(p.assets[id])
  /\ MapThenSumSet(LAMBDA id : p.assets[id].pixels, BodyAssets(p))
       <= MaxLocalBodyPixels

\* The frame of core.idle the inspector decoded for a character.
VerifiedFrame(p, c) == FirstAsset(p.actions[p.characters[c].bind["core.idle"]].loop)

-----------------------------------------------------------------------------
(***************************************************************************)
(* The runtime of one character of an installed pack.                      *)
(***************************************************************************)
\* _resolve_profile: None is a semantic the character does not draw.
Profile(p, c, semantic) ==
  LET bind == p.characters[c].bind IN
    IF /\ semantic \in DOMAIN bind
       /\ bind[semantic] \in DOMAIN p.actions
       /\ Drawable(p.actions[bind[semantic]])
    THEN Shown(p.actions[bind[semantic]])
    ELSE None

\* _working_set_fits: the distinct frames of these profiles, decoded at once.
Fits(p, profiles) ==
  LET ids == UNION {FrameAssets(r) : r \in profiles} IN
    /\ ids # {}
    /\ ids \subseteq DOMAIN p.assets
    /\ \A id \in ids : p.assets[id].media = "image/png"
    /\ MapThenSumSet(LAMBDA id : p.assets[id].pixels, ids) <= CachePixels

\* prepare: the character can be activated.
Prepared(p, c) ==
  LET idle == Profile(p, c, "core.idle") IN
    /\ idle # None
    /\ Fits(p, {idle})
    /\ \A id \in FrameAssets(idle) : p.assets[id].decodes

\* An action that does not fit beside the idle is shown as the idle.
MissingSemantics(p, c) ==
  LET idle == Profile(p, c, "core.idle") IN
    {s \in KnownCoreSemantics \ {"core.idle"} :
       \/ Profile(p, c, s) = None
       \/ ~Fits(p, {idle, Profile(p, c, s)})}

\* _asset_for_elapsed at the start of an action, as render_body draws it.
FirstFrame(p, c, semantic) ==
  LET r == IF semantic \in MissingSemantics(p, c) \/ Profile(p, c, semantic) = None
           THEN Profile(p, c, "core.idle") ELSE Profile(p, c, semantic)
  IN FirstAsset(r)

\* Whether a declared geometry does without what the validator tolerates.
Untolerated(g) ==
  /\ \A r \in {g.content, g.motion} \cup {h.rect : h \in {k \in Range(g.hits) : k.shape = "rect"}} :
       r.x >= 0 /\ r.y >= 0
  /\ OnCanvas(g.base, g.canvas) /\ OnCanvas(g.bubble, g.canvas)

\* The window places the character by what its manifest declares: it is not
\* fitted whole, no region it can be clicked in is lost, and nothing that lies
\* within its motion is cut off by the window.
Placed(g) ==
  /\ Parses(g) /\ HitShapes(g) = DOMAIN g.hits
  /\ LET m == MotionRect(g)
         l == BodyLayout(g)
     IN /\ m.x >= 0 /\ m.x + m.w <= Window.w * l.den
        /\ m.y >= 0 /\ m.y + m.h <= Window.h * l.den

=============================================================================
