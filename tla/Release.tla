------------------------------ MODULE Release ------------------------------
(***************************************************************************)
(* A build and an acceptance run over one working tree and one dist/       *)
(* directory.  Nothing keeps them apart but the operating system, which    *)
(* does not move a directory a process runs from.                          *)
(***************************************************************************)
EXTENDS ReleaseBuild, ReleaseGate

VARIABLE swapped  \* a build replaced the artifact during the acceptance run

vars == <<world, builder, controller, swapped>>

TypeOK == WorldTypeOK /\ BuilderTypeOK /\ ControllerTypeOK /\ swapped \in BOOLEAN

\* An earlier build published an artifact, for this commit or another.
Init ==
  /\ head \in Commits /\ clean = TRUE
  /\ tools \in Locked /\ attested = [of |-> tools, stamp |-> 0]
  /\ \E c \in Commits :
       LET info == [commit |-> c, attest |-> attested, run |-> 0]
       IN dist = [exe |-> info, info |-> info, rest |-> "built"]
  /\ using = {} /\ supplied = dist /\ events = 0
  /\ BuilderInit /\ ControllerInit
  /\ swapped = FALSE

\* The acceptance run is given the receipt of the build that succeeded.
GiveReceipt ==
  /\ bpc = "ok" /\ at = "idle" /\ supplied # build.receipt
  /\ supplied' = build.receipt
  /\ UNCHANGED <<head, clean, tools, attested, dist, using, events>>

Builds ==
  /\ BuilderStep
  /\ swapped' = (swapped \/ (at # "idle" /\ dist' # dist))
  /\ UNCHANGED controller

Accepts == ControllerStep /\ UNCHANGED <<builder, swapped>>

Meanwhile == (WorldStep \/ GiveReceipt) /\ UNCHANGED <<builder, controller, swapped>>

Next == Builds \/ Accepts \/ Meanwhile

Spec == Init /\ [][Next]_vars

-----------------------------------------------------------------------------
Passed(g) == checks[g] = "PASS" \/ (g = Optional /\ checks[g] = "SKIP")

\* A GO speaks of the artifact of one receipt, unchanged since the run began,
\* of the commit and toolchain attestation the run was started with; every
\* gate ran a candidate, and that executable, unless a build replaced the artifact and put it
\* back meanwhile, and the display gate even then, because it hashes the
\* image of the process it watched.
GoIsEarned ==
  report = "GO" =>
    /\ \A g \in Gates : Passed(g)
    /\ gate.receipt = gate.observed
    /\ gate.receipt.info.commit = gate.commit
    /\ gate.receipt.info.attest = gate.attest
    /\ \A g \in Candidates : ran[g] # None
    /\ ran["displays_exe_harness"] = gate.receipt.exe
    /\ ~swapped => \A g \in Candidates : ran[g] = gate.receipt.exe

\* No candidate process is started after a gate that did not pass, and none
\* from an artifact no build has validated.
RunsAreGuarded ==
  \A g \in Candidates : ran[g] # None =>
    /\ \A i \in 1..(Position(g) - 1) : Passed(Order[i])
    /\ ran[g].run = 1 => build.receipt # None

\* The exit code is what the report says: 0 only with GO, and another code
\* with a GO on disk only when finish() failed after writing it.
ExitAgrees ==
  exit # None => /\ exit = 0 => report = "GO" /\ ~broken
                 /\ report = "GO" /\ ~broken => exit = 0
                 /\ \A g \in Gates : checks[g] # None

GateInv == TypeOK /\ GoIsEarned /\ RunsAreGuarded /\ ExitAgrees
=============================================================================
