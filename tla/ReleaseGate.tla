----------------------------- MODULE ReleaseGate -----------------------------
(***************************************************************************)
(* scripts/go_no_go.py: the acceptance run of a published artifact.  The   *)
(* gates run in a fixed order; the first that does not pass ends the run,  *)
(* and whatever was not reached is recorded as skipped.  A gate that runs  *)
(* the candidate first binds it (hashes it against the receipt), then      *)
(* launches it, then reads the harness's report: between these steps       *)
(* anything else may happen.                                               *)
(***************************************************************************)
EXTENDS ReleaseWorld, Sequences

VARIABLES
  at,      \* the gate to run next, or where the run is otherwise
  phase,   \* "bind", "launch" or "collect" of a gate that runs the candidate
  gate,    \* the receipt as first observed and as parsed, and the commit and
           \* attestation of the preflight
  run,     \* what the harness that runs bound: whether its checks of the
           \* candidate pass, and the source it saw
  checks,  \* GateRun.checks, by name
  ran,     \* the executable each gate ran
  broken,  \* acceptance_internal was recorded
  report,  \* the verdict of acceptance.json
  exit     \* the exit code

controller == <<at, phase, gate, run, checks, ran, broken, report, exit>>

\* _ACCEPTANCE_GATE_ORDER without the last, which finish() records.
Order == <<"receipt_schema", "source_toolchain_preflight", "static_artifact_binding",
  "receipt_bytes_before_runtime", "dist_manifest", "pytest_regular", "pytest_native",
  "window_harness_source", "static_before_window_exe", "window_harness_exe",
  "static_before_smoke_exe", "smoke_exe", "displays_exe_harness",
  "displays_single_screen_exe", "displays_multi_screen_exe",
  "static_before_performance_alpha", "performance_alpha_health",
  "static_before_stability_alpha", "stability_alpha", "static_before_final_dist",
  "dist_manifest_final", "final_source_clean", "final_toolchain_lock">>

Gates    == {Order[i] : i \in DOMAIN Order} \cup {"final_receipt_bytes"}
Outcomes == {"PASS", "FAIL", "INVALID", "SKIP"}

Validators == {"dist_manifest", "dist_manifest_final"}
Health     == {"performance_alpha_health", "stability_alpha"}
Candidates == Validators \cup Health
              \cup {"window_harness_exe", "smoke_exe", "displays_exe_harness"}
Sources    == {"pytest_regular", "pytest_native", "window_harness_source"}
Rechecks   == {"static_before_window_exe", "static_before_smoke_exe",
               "static_before_performance_alpha", "static_before_stability_alpha",
               "static_before_final_dist"}
\* The gates after which the run goes on whatever they say.
Finals     == {"dist_manifest_final", "final_source_clean", "final_toolchain_lock"}
Optional   == "displays_multi_screen_exe"

Position(g) == CHOOSE i \in DOMAIN Order : Order[i] = g
After(g) == IF Position(g) = Len(Order) THEN "finish" ELSE Order[Position(g) + 1]

ControllerTypeOK ==
  /\ at \in {"idle", "capture", "finish", "ended"} \cup Gates
  /\ phase \in {"bind", "launch", "collect"}
  /\ gate \in [observed : Artifacts \cup {None}, receipt : Artifacts \cup {None},
               commit : Commits \cup {None}, attest : Attestations \cup {None}]
  /\ run \in [bound : BOOLEAN, source : [commit : Commits, clean : BOOLEAN] \cup {None}]
  /\ checks \in [Gates -> Outcomes \cup {None}]
  /\ ran \in [Candidates -> BuildInfo \cup {None}]
  /\ broken \in BOOLEAN
  /\ report \in {None, "GO", "NO-GO", "INVALID_RUN"} /\ exit \in {None, 0, 1, 2}

ControllerInit ==
  /\ at = "idle" /\ phase = "bind"
  /\ gate = [observed |-> None, receipt |-> None, commit |-> None, attest |-> None]
  /\ run = [bound |-> FALSE, source |-> None]
  /\ checks = [g \in Gates |-> None]
  /\ ran = [g \in Candidates |-> None]
  /\ broken = FALSE /\ report = None /\ exit = None

-----------------------------------------------------------------------------
\* GateRun.record, and the early return of every gate but the last three.
Record(g, outcome) ==
  /\ checks' = [checks EXCEPT ![g] = outcome]
  /\ at' = IF outcome = "PASS" \/ g \in Finals THEN After(g) ELSE "finish"
  /\ phase' = "bind"

Keep == UNCHANGED <<ran, broken, report, exit>>

StartGate ==
  /\ at = "idle" /\ at' = "receipt_schema"
  /\ gate' = [gate EXCEPT !.observed = supplied]
  /\ UNCHANGED <<phase, run, checks, world>> /\ Keep

LoadReceipt ==
  /\ at = "receipt_schema"
  /\ gate' = [gate EXCEPT !.receipt = supplied]
  /\ Record(at, IF supplied = None THEN "INVALID" ELSE "PASS")
  /\ UNCHANGED <<run, world>> /\ Keep

\* assert-clean and verify-toolchain, then HEAD and the attestation are read.
Preflight ==
  /\ at = "source_toolchain_preflight"
  /\ IF clean /\ ToolchainVerified(attested, None)
       THEN at' = "capture" /\ UNCHANGED <<phase, checks>>
       ELSE Record(at, "INVALID")
  /\ UNCHANGED <<gate, run, world>> /\ Keep

CaptureSource ==
  /\ at = "capture"
  /\ gate' = [gate EXCEPT !.commit = head, !.attest = attested]
  /\ Record("source_toolchain_preflight", "PASS")
  /\ UNCHANGED <<run, world>> /\ Keep

\* _static_artifact_binding: the whole tree against the receipt, and the
\* receipt against the source and attestation of the preflight.
StaticallyBound ==
  /\ Distribution(dist, [commit |-> gate.commit, clean |-> TRUE],
                  gate.receipt.info, gate.receipt, FALSE, None)
  /\ gate.receipt.info.commit = gate.commit
  /\ dist.info.attest = gate.attest

\* The inventory may be unreadable.
StaticBinding ==
  /\ at = "static_artifact_binding"
  /\ \E outcome \in {IF StaticallyBound THEN "PASS" ELSE "FAIL", "INVALID"} :
       Record(at, outcome)
  /\ UNCHANGED <<gate, run, world>> /\ Keep

ReceiptBytes ==
  /\ at = "receipt_bytes_before_runtime"
  /\ Record(at, IF supplied = gate.observed THEN "PASS" ELSE "INVALID")
  /\ UNCHANGED <<gate, run, world>> /\ Keep

RecheckStatic ==
  /\ at \in Rechecks
  /\ IF supplied # gate.observed THEN Record(at, "INVALID")
     ELSE \E outcome \in {IF StaticallyBound THEN "PASS" ELSE "FAIL", "INVALID"} :
            Record(at, outcome)
  /\ UNCHANGED <<gate, run, world>> /\ Keep

\* GateRun.command on the tests and the source harness: any exit, or a timeout.
RunSource ==
  /\ at \in Sources
  /\ \E outcome \in {"PASS", "FAIL", "INVALID"} : Record(at, outcome)
  /\ UNCHANGED <<gate, run, world>> /\ Keep

-----------------------------------------------------------------------------
\* The candidate's own harnesses: each looks at it before it launches it.

\* dist_manifest.py: the data-only pass with the receipt's expectations.
ValidatorBinds ==
  Distribution(dist, Source, gate.receipt.info, gate.receipt, FALSE, None)

\* verify_windows.Target, also of verify_displays.py; smoke_test.ps1.
ExecutableBinds ==
  /\ dist # None
  /\ dist.info = gate.receipt.info
  /\ dist.exe = gate.receipt.exe

\* bind_target of soak_24h.py, also of perf_sample.py; the report names what it
\* read, and the gate holds that against the receipt parsed and the one observed.
HealthBinds ==
  /\ supplied # None /\ supplied = gate.receipt /\ supplied = gate.observed
  /\ dist = supplied

Bind ==
  /\ at \in Candidates /\ phase = "bind"
  /\ LET bound == CASE at \in Validators -> ValidatorBinds
                    [] at \in Health     -> HealthBinds
                    [] OTHER             -> ExecutableBinds
     IN run' = [bound |-> bound, source |-> IF dist = None THEN None ELSE Source]
  \* smoke_test.ps1 notes the mismatch and goes on.
  /\ phase' = IF run'.bound \/ (at = "smoke_exe" /\ dist # None) THEN "launch" ELSE "collect"
  /\ UNCHANGED <<at, gate, checks, world>> /\ Keep

Launch ==
  /\ phase = "launch"
  /\ IF dist = None THEN UNCHANGED <<ran, using>>
     ELSE /\ ran' = [ran EXCEPT ![at] = dist.exe]
          /\ using' = using \cup {"gate"}
  /\ phase' = "collect"
  /\ UNCHANGED <<at, gate, run, checks, broken, report, exit,
                 head, clean, tools, attested, dist, supplied, events>>

\* The second pass of dist_manifest.py and receipt_postcheck.  The manifest of a
\* missing directory names no source.
ValidatorOutcome(answered) ==
  IF \/ run.source # [commit |-> gate.commit, clean |-> TRUE]
     \/ run.bound /\ dist = None
    THEN "INVALID"
  ELSE IF /\ run.bound /\ answered
          /\ Distribution(dist, run.source, gate.receipt.info, gate.receipt, TRUE, ran[at])
         THEN "PASS" ELSE "FAIL"

\* result_postcheck_with_binding: without a report the run is invalid.
WindowOutcome(healthy) ==
  IF ~run.bound \/ ran[at] = None THEN "INVALID"
  ELSE IF healthy THEN "PASS" ELSE "FAIL"

\* _smoke_report_outcome
SmokeOutcome(healthy) ==
  IF ran[at] = None THEN "INVALID"
  ELSE IF healthy /\ run.bound THEN "PASS" ELSE "FAIL"

\* verify_artifact_unchanged
ArtifactUnchanged == supplied = gate.observed /\ dist = gate.receipt

\* verify_harness_inputs: the bytes of the harness are surely those the receipt's
\* build recorded only while the tree is of its commit; after an edit or another
\* commit they may be.
HarnessMayDiffer == ~(clean /\ head = gate.receipt.info.commit)

\* Mutant: what a stale report says counts without the binding.
HealthUnbound(healthy, same) == IF healthy THEN "PASS" ELSE "FAIL"

\* Without the binding, or with a harness that is not the same, the report
\* proves nothing.
HealthOutcome(healthy, same) ==
  IF ~run.bound \/ ~same THEN "INVALID"
  ELSE IF healthy /\ ran[at] # None /\ ArtifactUnchanged THEN "PASS" ELSE "FAIL"

\* A harness that is killed leaves the pet it started; one that ends may, when
\* shutting the pet down by IPC failed.
MayLeave(healthy, timeout) ==
  timeout \/ (~healthy /\ at \in Health \cup {"displays_exe_harness"})

\* The harness ends, or is ended by the timeout of GateRun.command; what it
\* started may stay behind.
Collect ==
  /\ at \in Candidates /\ phase = "collect"
  /\ \E healthy \in BOOLEAN, timeout \in BOOLEAN, left \in BOOLEAN, same \in BOOLEAN :
       /\ left => MayLeave(healthy, timeout)
       /\ ~same => HarnessMayDiffer
       /\ using' = (using \ {"gate"}) \cup (IF left /\ "gate" \in using THEN {"stray"} ELSE {})
       /\ Record(at, IF timeout THEN "INVALID"
                     ELSE CASE at \in Validators -> ValidatorOutcome(healthy)
                            [] at \in Health     -> HealthOutcome(healthy, same)
                            [] at = "smoke_exe"  -> SmokeOutcome(healthy)
                            [] OTHER             -> WindowOutcome(healthy))
  /\ UNCHANGED <<gate, run, head, clean, tools, attested, dist, supplied, events>> /\ Keep

\* aggregate_display_verdicts over the derived scenarios that the harness let
\* pass (none failed): the baseline, and what needs more than one display.
DisplayVerdicts(baseline, certified) ==
  [single |-> IF baseline THEN "PASS" ELSE "SKIP",
   multi  |-> IF baseline /\ certified THEN "PASS" ELSE "SKIP"]

\* Mutant: the verdicts of the report, whatever image it was taken from.
RecordAnyImage ==
  /\ at = "displays_single_screen_exe"
  /\ \E baseline, certified \in BOOLEAN :
       LET verdicts == DisplayVerdicts(baseline, certified)
       IN /\ checks' = [checks EXCEPT !["displays_single_screen_exe"] = verdicts.single,
                                      !["displays_multi_screen_exe"]  = verdicts.multi]
          /\ at' = IF verdicts.single = "PASS" THEN After(Optional) ELSE "finish"
  /\ UNCHANGED <<phase, gate, run, world>> /\ Keep

\* _displays_outcomes: the image of the process that ran is the receipt's.
RecordDisplays ==
  /\ at = "displays_single_screen_exe"
  /\ \E baseline, certified \in BOOLEAN :
       LET verdicts == IF ran["displays_exe_harness"] # gate.receipt.exe
                         THEN [single |-> "INVALID", multi |-> "INVALID"]
                         ELSE DisplayVerdicts(baseline, certified)
       IN /\ checks' = [checks EXCEPT !["displays_single_screen_exe"] = verdicts.single,
                                      !["displays_multi_screen_exe"]  = verdicts.multi]
          /\ at' = IF verdicts.single = "PASS" THEN After(Optional) ELSE "finish"
  /\ UNCHANGED <<phase, gate, run, world>> /\ Keep

FinalSource ==
  /\ at = "final_source_clean"
  /\ Record(at, IF clean THEN "PASS" ELSE "INVALID")
  /\ UNCHANGED <<gate, run, world>> /\ Keep

FinalToolchain ==
  /\ at = "final_toolchain_lock"
  /\ Record(at, IF ToolchainVerified(attested, gate.attest) THEN "PASS" ELSE "INVALID")
  /\ UNCHANGED <<gate, run, world>> /\ Keep

-----------------------------------------------------------------------------
\* finish(): the receipt once more, and the gates that were not reached.
FinalReceipt ==
  IF checks["final_receipt_bytes"] # None THEN checks["final_receipt_bytes"]
  ELSE IF gate.receipt = None THEN "SKIP"
  ELSE IF supplied = gate.observed THEN "PASS" ELSE "INVALID"

Filled ==
  [g \in Gates |-> IF g = "final_receipt_bytes" THEN FinalReceipt
                   ELSE IF checks[g] = None THEN "SKIP" ELSE checks[g]]

\* Of the alpha profile: production is never GO.
Verdict(outcome, invalid) ==
  IF invalid \/ \E g \in Gates : outcome[g] = "INVALID" THEN "INVALID_RUN"
  ELSE IF \A g \in Gates : outcome[g] = "PASS" \/ (g = Optional /\ outcome[g] = "SKIP")
         THEN "GO" ELSE "NO-GO"

ExitCode(verdict) == CASE verdict = "GO" -> 0 [] verdict = "NO-GO" -> 1 [] OTHER -> 2

Finish ==
  /\ at = "finish" /\ at' = "ended"
  /\ checks' = Filled
  /\ report' = Verdict(Filled, broken)
  /\ exit' = ExitCode(report')
  /\ UNCHANGED <<phase, gate, run, ran, broken, world>>

\* Writing the report fails, or printing after it was written: finish() runs
\* once more with acceptance_internal recorded, and a second failure is left
\* to main().
FinishFails ==
  /\ at = "finish"
  /\ checks' = Filled
  /\ report' \in {report, Verdict(Filled, broken)}
  /\ IF broken THEN at' = "ended" /\ exit' = 2 /\ UNCHANGED broken
     ELSE broken' = TRUE /\ UNCHANGED <<at, exit>>
  /\ UNCHANGED <<phase, gate, run, ran, world>>

\* An exception no gate expects.
InternalError ==
  /\ at \in Gates \cup {"capture"}
  /\ broken' = TRUE /\ at' = "finish" /\ phase' = "bind"
  /\ using' = IF "gate" \in using THEN (using \ {"gate"}) \cup {"stray"} ELSE using
  /\ UNCHANGED <<gate, run, checks, ran, report, exit,
                 head, clean, tools, attested, dist, supplied, events>>

GateStep == \/ LoadReceipt \/ Preflight \/ CaptureSource \/ StaticBinding \/ ReceiptBytes
            \/ RecheckStatic \/ RunSource \/ Bind \/ Launch \/ Collect
            \/ RecordDisplays \/ FinalSource \/ FinalToolchain \/ Finish

ControllerStep == StartGate \/ GateStep \/ FinishFails \/ InternalError
=============================================================================
