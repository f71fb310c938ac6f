--------------------------- MODULE MCPackLibrary ---------------------------
(***************************************************************************)
(* Instances of PackLibrary for TLC: a builtin revision, two local ones    *)
(* that share a version slot and differ in digest, and one installed by an *)
(* earlier build.                                                          *)
(***************************************************************************)
EXTENDS PackLibrary

CONSTANTS official, mocha1, mocha2, old, t1, t2

AllRevisions == {official, mocha1, mocha2, old}
Slots == [r \in Revisions |->
            CASE r = official -> "official"
              [] r = old      -> "old"
              [] OTHER        -> "mocha"]

\* The install and recovery steps between which a kill is harmless.
InstallCrashes == {"stage", "receipt", "intent", "publish", "abandon",
                   "commit", "log", "unlink", "next", "restore", "relog",
                   "cleanup", "rollback"}
DeleteCrashes  == {"trash", "schedule", "unpend", "withdraw"}

SafeCrashes == InstallCrashes \cup DeleteCrashes \cup {"power"}

\* The I/O errors after which the stores still agree and no intent is left to
\* wait for a start that may not come.
PassingFailures == {"locked", "stage", "receipt", "intent", "abandon",
                    "schedule", "cleanup", "rollback"}

EveryCrash   == Steps \cup {"power"}
EveryFailure == Steps \cup {"locked"}
=============================================================================
