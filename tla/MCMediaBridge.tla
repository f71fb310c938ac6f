---------------------------- MODULE MCMediaBridge ----------------------------
(* Constants of MediaBridge for TLC. *)
EXTENDS MediaBridge

CONSTANT player1
=============================================================================
