-------------------------- MODULE CharacterLibrary --------------------------
(***************************************************************************)
(* What the character library promises to the picker, to the uninstall     *)
(* page and to the start-up restore: every operation is one atomic change  *)
(* of the catalog.  PackLibrary implements it.                             *)
(***************************************************************************)
EXTENDS Naturals

CONSTANTS Revisions, Builtins, VersionOf, Initial, None

VARIABLES
  listed,     \* the installed revisions
  scheduled,  \* the revisions to be deleted at the next start
  active,     \* the selected revision
  lkg         \* the revision the next start falls back to

vars == <<listed, scheduled, active, lkg>>

Init == listed = Initial /\ scheduled = {} /\ active = None /\ lkg = None

\* New revisions appear only in version slots that nothing else holds.
Register(S) ==
  /\ \A r \in S, s \in listed \cup S : VersionOf[r] = VersionOf[s] => r = s
  /\ listed' = listed \cup S
  /\ UNCHANGED <<scheduled, active, lkg>>

Deletable(r) == r \in listed \ (Builtins \cup {active, lkg})

Remove(r) ==
  /\ Deletable(r)
  /\ listed' = listed \ {r}
  /\ UNCHANGED <<scheduled, active, lkg>>

Schedule(r) ==
  /\ Deletable(r)
  /\ scheduled' = scheduled \cup {r}
  /\ UNCHANGED <<listed, active, lkg>>

\* A scheduled deletion ends by being carried out, or because the revision
\* has been chosen again; it is never forgotten.
Settle(r) ==
  /\ r \in scheduled /\ ~ Deletable(r)
  /\ scheduled' = scheduled \ {r}
  /\ UNCHANGED <<listed, active, lkg>>

Choose(r) ==
  /\ r \in listed
  /\ active' = r
  /\ UNCHANGED <<listed, scheduled, lkg>>

Promote ==
  /\ lkg' = active
  /\ UNCHANGED <<listed, scheduled, active>>

Next == \/ Promote
        \/ \E S \in SUBSET Revisions : Register(S)
        \/ \E r \in Revisions : Remove(r) \/ Schedule(r) \/ Settle(r) \/ Choose(r)

Spec == Init /\ [][Next]_vars
=============================================================================
