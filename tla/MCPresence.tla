----------------------------- MODULE MCPresence -----------------------------
(* Constants of Presence for TLC. *)
EXTENDS Presence

MCCauses == AllCauses
=============================================================================
