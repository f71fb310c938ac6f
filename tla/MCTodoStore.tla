---------------------------- MODULE MCTodoStore ----------------------------
(***************************************************************************)
(* Instances of TodoStore for TLC: a data directory without a store, or    *)
(* with a v1 store of one task, focused or not.                            *)
(***************************************************************************)
EXTENDS TodoStore, TLC

CONSTANTS short, long, blank, text, a, b, c

V1Store(t, f) ==
  [version |-> 1, focus |-> f,
   rows |-> [x \in {t} |-> [up |-> None, hor |-> short, done |-> FALSE,
                            arch |-> FALSE, note |-> blank]]]

MCFirstStores ==
  {NoStore} \cup {V1Store(t, t) : t \in Tasks} \cup {V1Store(t, None) : t \in Tasks}

MCSymmetry == Permutations(Tasks)
=============================================================================
