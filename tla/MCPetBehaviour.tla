--------------------------- MODULE MCPetBehaviour ---------------------------
(* Constants of PetBehaviour for TLC. *)
EXTENDS PetBehaviour

MCFacts  == {"work", "rest", "eat", "meeting", "music"}
MCKinds  == {"eat"}
MCBodies == {MCFacts, MCFacts \ {"work", "music"}}
MCGated  == {"meeting"}
MCAsked   == {"work"}
MCOffered == {"random"}
=============================================================================
