-------------------------- MODULE MCRuntimeSwitcher --------------------------
(***************************************************************************)
(* Instances of RuntimeSwitcher for TLC: the official character and one    *)
(* or two others, and a handful of runtime objects.                        *)
(***************************************************************************)
EXTENDS RuntimeSwitcher

CONSTANTS cat, mocha
=============================================================================
