---------------------------- MODULE MCNoteEditor ----------------------------
(***************************************************************************)
(* Instances of NoteEditor for TLC: two tasks in the store and one that    *)
(* may be added below the first.                                           *)
(***************************************************************************)
EXTENDS NoteEditor

CONSTANTS a, b, c

MCParent == [t \in Tasks |-> IF t = b THEN a ELSE Null]
=============================================================================
