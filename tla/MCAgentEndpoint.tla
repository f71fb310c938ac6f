-------------------------- MODULE MCAgentEndpoint --------------------------
(***************************************************************************)
(* Instances of AgentEndpoint for TLC.                                     *)
(***************************************************************************)
EXTENDS AgentEndpoint, TLC

CONSTANTS c1, c2, k1, k2

MCSymmetry == Permutations(Clients) \cup Permutations(Keys)
=============================================================================
