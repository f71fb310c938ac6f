---------------------------- MODULE ReleaseBuild ----------------------------
(***************************************************************************)
(* scripts/build.ps1: a candidate is built from git archive HEAD in a      *)
(* directory of its own, validated, smoked, and only then moved to dist/,  *)
(* the artifact it replaces being set aside and put back when anything     *)
(* fails.  Every step looks at the world again; a step that fails throws   *)
(* and ends the build.  The build may be killed anywhere.                  *)
(***************************************************************************)
EXTENDS ReleaseWorld

VARIABLES
  bpc,      \* the next step of the build
  build,    \* $Commit, $RunToolchainAttestation, $StageRoot, $Expected,
            \* $CandidateReceipt, what the post-publish validation saw
  place     \* $CandidateDist, $Backup, $FailedPublish, and whether a process
            \* left by a harness runs from the candidate

builder == <<bpc, build, place>>

Before == {"freeze", "capture", "stage", "identify", "test", "recheck",
           "package", "validate", "probe", "smoke", "window", "final"}
Swap   == {"prior", "publish", "confirm", "confirmed", "undo", "restore"}
Ended  == {"ok", "failed", "stuck", "killed"}

BuilderTypeOK ==
  /\ bpc \in {"idle"} \cup Before \cup Swap \cup Ended
  /\ build \in [commit : Commits \cup {None}, attest : Attestations \cup {None},
                stage : Commits \cup {None}, info : BuildInfo \cup {None},
                receipt : Artifacts \cup {None}, confirmed : Artifacts \cup {None}]
  /\ place \in [cand : Artifacts \cup {None}, backup : Artifacts \cup {None},
                failed : Artifacts \cup {None}, held : BOOLEAN]

BuilderInit ==
  /\ bpc = "idle"
  /\ build = [commit |-> None, attest |-> None, stage |-> None, info |-> None,
              receipt |-> None, confirmed |-> None]
  /\ place = [cand |-> None, backup |-> None, failed |-> None, held |-> FALSE]

\* The step's checks pass and the build goes on, or it throws.
Goes(checks, next, fail) == bpc' = IF checks THEN next ELSE fail

-----------------------------------------------------------------------------
StartBuild ==
  /\ bpc = "idle" /\ bpc' = "freeze"
  /\ UNCHANGED <<build, place, world>>

Freeze ==
  /\ bpc = "freeze"
  /\ Goes(clean /\ ToolchainVerified(attested, None), "capture", "failed")
  /\ UNCHANGED <<build, place, world>>

\* git rev-parse HEAD, and the attestation copied into the run.
CaptureCommit ==
  /\ bpc = "capture"
  /\ build' = [build EXCEPT !.commit = head, !.attest = attested]
  /\ bpc' = "stage"
  /\ UNCHANGED <<place, world>>

\* git archive, tar, verify-snapshot
Stage ==
  /\ bpc = "stage"
  /\ \E extracted \in {build.commit, None} :
       /\ build' = [build EXCEPT !.stage = extracted]
       /\ Goes(SnapshotMatches(extracted, build.commit), "identify", "failed")
  /\ UNCHANGED <<place, world>>

\* create_build_info reads HEAD again.
Identify ==
  LET info == [commit |-> head, attest |-> build.attest, run |-> 1]
  IN /\ bpc = "identify"
     /\ Goes(/\ clean
             /\ SnapshotMatches(build.stage, head)
             /\ ToolchainVerified(build.attest, None)
             /\ info.commit = build.commit, "test", "failed")
     /\ build' = [build EXCEPT !.info = IF bpc' = "test" THEN info ELSE None]
     /\ UNCHANGED <<place, world>>

Test ==
  /\ bpc = "test"
  /\ \E passed \in BOOLEAN : Goes(passed, "recheck", "failed")
  /\ UNCHANGED <<build, place, world>>

\* Clean, snapshot and toolchain again, after the tests and before publishing.
Unchanged == /\ clean
             /\ SnapshotMatches(build.stage, build.commit)
             /\ ToolchainVerified(build.attest, build.info.attest)

Recheck ==
  /\ bpc \in {"recheck", "final"}
  /\ Goes(Unchanged, IF bpc = "recheck" THEN "package" ELSE "prior", "failed")
  /\ UNCHANGED <<build, place, world>>

\* PyInstaller, pruning, and the embedded identity compared.
Package ==
  /\ bpc = "package"
  /\ \E rest \in {"built", "bad"} :
       place' = [place EXCEPT !.cand =
                   [exe |-> build.info, info |-> build.info, rest |-> rest]]
  /\ bpc' = "validate"
  /\ UNCHANGED <<build, world>>

\* dist_manifest.py: a data-only pass, the runtime probe, a second pass whose
\* receipt is the candidate's.
Validate ==
  /\ bpc = "validate"
  /\ Goes(Distribution(place.cand, Source, build.info, None, FALSE, None),
          "probe", "failed")
  /\ UNCHANGED <<build, place, world>>

ProbeAndRescan ==
  /\ bpc = "probe"
  /\ \E answer \in Answers(place.cand) :
       Goes(Distribution(place.cand, Source, build.info, None, TRUE, answer),
            "smoke", "failed")
  /\ build' = [build EXCEPT !.receipt = IF bpc' = "smoke" THEN place.cand ELSE None]
  /\ UNCHANGED <<place, world>>

\* smoke_test.ps1 and verify_windows.py on the candidate; the second may leave
\* the process it started.
TryCandidate ==
  /\ bpc \in {"smoke", "window"}
  /\ \E passed \in BOOLEAN :
       Goes(passed /\ place.cand.exe = build.receipt.exe,
            IF bpc = "smoke" THEN "window" ELSE "final", "failed")
  /\ \E left \in {FALSE, bpc = "window"} : place' = [place EXCEPT !.held = left]
  /\ UNCHANGED <<build, world>>

-----------------------------------------------------------------------------
\* A move fails when a process runs from the directory, and may fail anyway.
MovePrior ==
  /\ bpc = "prior"
  /\ \/ /\ dist # None /\ Movable
        /\ place' = [place EXCEPT !.backup = dist] /\ dist' = None
        /\ bpc' = "publish"
     \/ dist = None /\ bpc' = "publish" /\ UNCHANGED <<place, dist>>
     \/ bpc' = "undo" /\ UNCHANGED <<place, dist>>
  /\ UNCHANGED <<build, head, clean, tools, attested, using, supplied, events>>

Publish ==
  /\ bpc = "publish"
  /\ \/ /\ ~place.held
        /\ dist' = place.cand /\ place' = [place EXCEPT !.cand = None]
        /\ bpc' = "confirm"
     \/ bpc' = "undo" /\ UNCHANGED <<place, dist>>
  /\ UNCHANGED <<build, head, clean, tools, attested, using, supplied, events>>

\* Mutant: what was published is not compared with the candidate's receipt.
ConfirmUnbound ==
  /\ bpc = "confirm"
  /\ \E answer \in Answers(dist) :
       Goes(Distribution(dist, Source, build.info, None, TRUE, answer),
            "confirmed", "undo")
  /\ build' = [build EXCEPT !.confirmed = dist]
  /\ UNCHANGED <<place, world>>

\* The public bytes against the candidate's receipt.
Confirm ==
  /\ bpc = "confirm"
  /\ \E answer \in Answers(dist) :
       Goes(Distribution(dist, Source, build.info, build.receipt, TRUE, answer),
            "confirmed", "undo")
  /\ build' = [build EXCEPT !.confirmed = dist]
  /\ UNCHANGED <<place, world>>

ConfirmSource ==
  /\ bpc = "confirmed"
  /\ Goes(clean, "ok", "undo")
  /\ UNCHANGED <<build, place, world>>

\* The catch block: what was published is set aside, then the prior artifact
\* goes back; a move that fails ends the build there.
Undo ==
  /\ bpc = "undo"
  /\ \/ /\ place.cand = None /\ dist # None /\ Movable
        /\ place' = [place EXCEPT !.failed = dist] /\ dist' = None
        /\ bpc' = "restore"
     \/ /\ place.cand = None /\ dist # None
        /\ bpc' = "stuck" /\ UNCHANGED <<place, dist>>
     \/ (place.cand # None \/ dist = None) /\ bpc' = "restore" /\ UNCHANGED <<place, dist>>
  /\ UNCHANGED <<build, head, clean, tools, attested, using, supplied, events>>

\* Mutant: the rollback forgets the artifact it set aside.
RestoreNothing ==
  /\ bpc = "restore" /\ bpc' = "failed"
  /\ UNCHANGED <<build, place, world>>

Restore ==
  /\ bpc = "restore"
  /\ \/ /\ place.backup # None
        /\ dist' = place.backup /\ place' = [place EXCEPT !.backup = None]
        /\ bpc' = "failed"
     \/ place.backup # None /\ bpc' = "stuck" /\ UNCHANGED <<place, dist>>
     \/ place.backup = None /\ bpc' = "failed" /\ UNCHANGED <<place, dist>>
  /\ UNCHANGED <<build, head, clean, tools, attested, using, supplied, events>>

BuildKilled ==
  /\ bpc \in Before \cup Swap /\ bpc' = "killed"
  /\ UNCHANGED <<build, place, world>>

\* The candidate loses a file before it is published.
CandidateDisturbed ==
  /\ Event
  /\ place.cand # None /\ place.cand.rest = "built"
  /\ place' = [place EXCEPT !.cand.rest = "short"]
  /\ UNCHANGED <<bpc, build, head, clean, tools, attested, dist, using, supplied>>

BuildStep == \/ Freeze \/ CaptureCommit \/ Stage \/ Identify \/ Test \/ Recheck
             \/ Package \/ Validate \/ ProbeAndRescan \/ TryCandidate
             \/ MovePrior \/ Publish \/ Confirm \/ ConfirmSource \/ Undo \/ Restore

BuilderStep == StartBuild \/ BuildStep \/ BuildKilled \/ CandidateDisturbed

-----------------------------------------------------------------------------
Stored == {dist, place.cand, place.backup, place.failed} \ {None}
Has(run) == \E a \in Stored : a.info.run = run

\* Whatever fails, and wherever the build is killed, the artifact it replaces
\* and the candidate are never lost; a build that ends by itself with a
\* failure leaves the prior artifact published, unless a move of the rollback
\* failed; what it publishes is never a candidate that was not validated, and
\* a build that succeeds published exactly the bytes of its receipt, built
\* from the commit it started from.
PublishInv ==
  /\ Has(0)
  /\ build.receipt # None => Has(1)
  /\ bpc \in {"idle", "failed"} \cup Before => dist # None /\ dist.info.run = 0
  /\ bpc = "stuck" => place.backup # None
  /\ dist # None /\ dist.info.run = 1 => build.receipt # None /\ dist.exe = build.receipt.exe
  /\ bpc = "ok" => /\ build.confirmed = build.receipt
                   /\ build.receipt.info.commit = build.commit
                   /\ place.backup # None
=============================================================================
