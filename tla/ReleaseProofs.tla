--------------------------- MODULE ReleaseProofs ---------------------------
(***************************************************************************)
(* What a build publishes and what an acceptance run concludes, for every  *)
(* set of commits and tools and every interleaving of the two.             *)
(*                                                                         *)
(* The inductive invariant has one half for each program.  BuildInv says   *)
(* where the artifact that was there before and the one that is built are  *)
(* at every step of build.ps1; it needs nothing of the acceptance run.     *)
(* CtrlInv says of go_no_go.py that the gates before the current one have  *)
(* passed and those from it on are blank, what the receipt it read has to  *)
(* do with the commit and attestation it captured, and that what a harness *)
(* bound is still what it runs unless a build swapped the directory.  The  *)
(* gates are 23 names in a fixed order: the proofs speak of their          *)
(* positions, and Here is the position of the gate the run is at.          *)
(***************************************************************************)
EXTENDS Release, TLAPS

-----------------------------------------------------------------------------
(* The build: the artifact that was there, the one it makes *)

Old(a) == a # None /\ a.info.run = 0 /\ a.exe = a.info
New(a) == /\ a # None /\ a.info.run = 1 /\ a.exe = a.info
          /\ build.receipt # None /\ a.exe = build.receipt.exe

\* The steps of a build, by what it has made so far.
Early == {"freeze", "capture", "stage", "identify"}
Informed == {"test", "recheck", "package"}
Packed == {"validate", "probe"}
Tried == {"smoke", "window", "final", "prior", "publish"}

\* What a build made describes itself as of this build and of its commit.
Described ==
  /\ build.info # None => build.info.run = 1 /\ build.info.commit = build.commit
  /\ place.cand # None => /\ build.info # None
                          /\ place.cand.info = build.info /\ place.cand.exe = build.info
  /\ build.receipt # None => /\ build.info # None
                             /\ build.receipt.info = build.info
                             /\ build.receipt.exe = build.info

\* The artifact it replaces is published, or set aside and nothing foreign in
\* its place.
Kept == \/ Old(dist) /\ place.backup = None
        \/ Old(place.backup) /\ (dist = None \/ New(dist))

\* A validated artifact is never lost.
Somewhere == build.receipt # None => New(place.cand) \/ New(dist) \/ New(place.failed)

\* What there is at each step, and where.
Placed ==
  /\ bpc \in {"idle"} \cup Early => build.info = None
  /\ bpc \in {"idle"} \cup Early \cup Informed => place.cand = None /\ build.receipt = None
  /\ bpc \in {"stage", "identify"} => build.attest # None
  /\ bpc \in Informed => build.info # None
  /\ bpc \in Packed => place.cand # None /\ build.receipt = None
  /\ bpc \in Tried => place.cand # None /\ build.receipt # None
  /\ bpc \in {"confirm", "confirmed", "ok"} =>
       build.receipt # None /\ dist # None /\ place.backup # None /\ place.cand = None
  /\ bpc \in {"idle", "failed", "prior"} \cup Before => place.backup = None
  /\ bpc = "publish" => dist = None /\ place.backup # None
  /\ bpc = "undo" => IF place.cand = None THEN dist # None /\ place.backup # None
                     ELSE dist = None \/ place.backup = None
  /\ bpc = "restore" => dist = None \/ place.backup = None
  /\ bpc = "stuck" => place.backup # None
  /\ bpc \in {"confirmed", "ok"} => build.confirmed = build.receipt

BuildInv == Described /\ Kept /\ Somewhere /\ Placed

-----------------------------------------------------------------------------
(* The acceptance run: the gate it is at, and what the gates before it say *)

Here == CASE at = "idle" -> 1 [] at = "capture" -> 2 [] OTHER -> Position(at)
Last == 23
Under == at \notin {"finish", "ended"}

\* A run is at a gate of the order, and only a gate that runs the candidate has
\* phases.
Sited == /\ at \in {"idle", "capture", "finish", "ended"} \cup {Order[i] : i \in 1..Last}
         /\ phase # "bind" => at \in Candidates

\* Under way, what comes before the current gate has passed (the last three
\* gates may have failed), and what comes after it is blank.
Ordered ==
  Under =>
    /\ \A i \in 1..(Here - 1) : i < Position("dist_manifest_final") => Passed(Order[i])
    /\ \A i \in Here..Last : checks[Order[i]] = None
    /\ checks["final_receipt_bytes"] = None
    /\ \A g \in Candidates : Position(g) >= Here =>
         ran[g] = None \/ (g = at /\ phase = "collect")
    /\ report = None /\ exit = None /\ ~broken

\* Once the static binding passed, the receipt parsed is of the commit and the
\* attestation captured; once the last harness bound it, it is the receipt
\* observed, whatever was in the file between.
Identified ==
  /\ checks["receipt_schema"] = "PASS" => gate.receipt # None
  /\ checks["static_artifact_binding"] = "PASS" =>
       /\ gate.receipt # None
       /\ gate.receipt.info.commit = gate.commit
       /\ gate.receipt.info.attest = gate.attest
  /\ \/ at = "stability_alpha" /\ phase # "bind" /\ run.bound
     \/ checks["stability_alpha"] = "PASS"
     => gate.receipt = gate.observed

\* What a harness bound is what it runs, unless a build swapped it; the display
\* gate compares the image it watched and needs no such condition.
Watched ==
  /\ phase # "bind" /\ run.bound /\ ~swapped =>
       dist # None /\ dist.exe = gate.receipt.exe /\ ran[at] \in {None, gate.receipt.exe}
  /\ \A g \in Candidates : checks[g] = "PASS" =>
       ran[g] # None /\ (~swapped => ran[g] = gate.receipt.exe)
  /\ checks["displays_single_screen_exe"] = "PASS" =>
       ran["displays_exe_harness"] = gate.receipt.exe

\* A verdict is written at the end, or by a finish that failed after it.
Reported ==
  /\ report # None => at = "ended" \/ (at = "finish" /\ broken)
  /\ exit # None => at = "ended"

CtrlInv == Sited /\ Ordered /\ Identified /\ Watched /\ Reported

\* The inductive invariant.
IInv == TypeOK /\ BuildInv /\ CtrlInv /\ RunsAreGuarded /\ GoIsEarned /\ ExitAgrees

\* The order of the gates, position by position.
LEMMA OrderIs ==
  /\ DOMAIN Order = 1..23 /\ Len(Order) = 23
  /\ Order[1] = "receipt_schema" /\ Order[2] = "source_toolchain_preflight"
  /\ Order[3] = "static_artifact_binding" /\ Order[4] = "receipt_bytes_before_runtime"
  /\ Order[5] = "dist_manifest" /\ Order[6] = "pytest_regular"
  /\ Order[7] = "pytest_native" /\ Order[8] = "window_harness_source"
  /\ Order[9] = "static_before_window_exe" /\ Order[10] = "window_harness_exe"
  /\ Order[11] = "static_before_smoke_exe" /\ Order[12] = "smoke_exe"
  /\ Order[13] = "displays_exe_harness" /\ Order[14] = "displays_single_screen_exe"
  /\ Order[15] = "displays_multi_screen_exe"
  /\ Order[16] = "static_before_performance_alpha"
  /\ Order[17] = "performance_alpha_health" /\ Order[18] = "static_before_stability_alpha"
  /\ Order[19] = "stability_alpha" /\ Order[20] = "static_before_final_dist"
  /\ Order[21] = "dist_manifest_final" /\ Order[22] = "final_source_clean"
  /\ Order[23] = "final_toolchain_lock"
  BY DEF Order

\* No gate comes twice.
LEMMA OrderInjective == \A i, j \in 1..23 : Order[i] = Order[j] => i = j
<1> SUFFICES ASSUME NEW i \in 1..23, NEW j \in 1..23, Order[i] = Order[j] PROVE i = j
  OBVIOUS
<1>1. i \in {1,2,3,4,5,6,7,8,9,10,11,12,13,14,15,16,17,18,19,20,21,22,23}
  OBVIOUS
<1>2. j \in {1,2,3,4,5,6,7,8,9,10,11,12,13,14,15,16,17,18,19,20,21,22,23}
  OBVIOUS
<1> QED  BY <1>1, <1>2, OrderIs

\* The position of the i-th gate is i.
LEMMA Positions == \A i \in 1..23 : Order[i] \in Gates /\ Position(Order[i]) = i
<1> SUFFICES ASSUME NEW i \in 1..23 PROVE Order[i] \in Gates /\ Position(Order[i]) = i
  OBVIOUS
<1>1. Order[i] \in Gates
  BY OrderIs DEF Gates
<1>2. Position(Order[i]) \in 1..23 /\ Order[Position(Order[i])] = Order[i]
  BY OrderIs DEF Position
<1> QED  BY <1>1, <1>2, OrderInjective

\* After a gate comes the next in the order, or the end of the run.
LEMMA AfterIs ==
  \A i \in 1..23 : After(Order[i]) = IF i = 23 THEN "finish" ELSE Order[i + 1]
  BY Positions, OrderIs DEF After

-----------------------------------------------------------------------------
(* Types *)
\* What the world does between two steps keeps its types.
LEMMA WorldStepTyped ==
  ASSUME TypeOK, WorldStep
  PROVE  WorldTypeOK'
<1> USE ReleaseAssumption DEF TypeOK, WorldTypeOK, Event
<1>1. CASE EditSource
  <2>1. clean' \in BOOLEAN
    BY <1>1 DEF EditSource
  <2> QED  BY <1>1, <2>1 DEF EditSource
<1>2. CASE Commit
  BY <1>2 DEF Commit
<1>3. CASE Upgrade
  BY <1>3 DEF Upgrade
<1>4. CASE Attest
  BY <1>4, ReleaseAssumption DEF Attest, Attestations
<1>5. CASE ReceiptReplaced
  BY <1>5 DEF ReceiptReplaced, Receipts, Artifacts
<1>6. CASE FileLost
  BY <1>6 DEF FileLost, Artifacts
<1>7. CASE StrayCloses
  BY <1>7 DEF StrayCloses
<1> QED  BY <1>1, <1>2, <1>3, <1>4, <1>5, <1>6, <1>7 DEF WorldStep

\* So does every step of a build, and its own.
LEMMA BuilderTyped ==
  ASSUME TypeOK, Placed, BuilderStep
  PROVE  WorldTypeOK' /\ BuilderTypeOK'
<1> USE DEF TypeOK, WorldTypeOK, BuilderTypeOK, Goes, world, builder, Before, Swap, Ended
<1>1. CASE StartBuild
  BY <1>1 DEF StartBuild
<1>2. CASE Freeze
  BY <1>2 DEF Freeze
<1>3. CASE CaptureCommit
  BY <1>3 DEF CaptureCommit
<1>4. CASE Stage
  BY <1>4 DEF Stage
<1>5. CASE Identify
  <2>1. build.attest \in Attestations /\ head \in Commits
    BY <1>5 DEF Identify, Placed
  <2>2. [commit |-> head, attest |-> build.attest, run |-> 1] \in BuildInfo
    BY <2>1 DEF BuildInfo
  <2>3. build' \in [commit : Commits \cup {None}, attest : Attestations \cup {None},
                stage : Commits \cup {None}, info : BuildInfo \cup {None},
                receipt : Artifacts \cup {None}, confirmed : Artifacts \cup {None}]
    BY <1>5, <2>2 DEF Identify
  <2> QED  BY <1>5, <2>3 DEF Identify
<1>6. CASE Test
  BY <1>6 DEF Test
<1>7. CASE Recheck
  BY <1>7 DEF Recheck
<1>8. CASE Package
  <2>1. build.info \in BuildInfo
    BY <1>8 DEF Package, Placed, Informed
  <2>2. PICK rest \in {"built", "bad"} :
          place' = [place EXCEPT !.cand = [exe |-> build.info, info |-> build.info,
                                          rest |-> rest]]
    BY <1>8 DEF Package
  <2>3. [exe |-> build.info, info |-> build.info, rest |-> rest] \in Artifacts
    BY <2>1 DEF Artifacts
  <2> QED  BY <1>8, <2>2, <2>3 DEF Package
<1>9. CASE Validate
  BY <1>9 DEF Validate
<1>10. CASE ProbeAndRescan
  <2>1. place.cand \in Artifacts
    BY <1>10 DEF ProbeAndRescan, Placed, Packed
  <2>2. bpc' \in {"smoke", "failed"}
    BY <1>10 DEF ProbeAndRescan
  <2>3. PICK receipt \in Artifacts \cup {None} : build' = [build EXCEPT !.receipt = receipt]
    BY <1>10, <2>1 DEF ProbeAndRescan
  <2>4. UNCHANGED <<place, head, clean, tools, attested, dist, using, supplied, events>>
    BY <1>10 DEF ProbeAndRescan
  <2>5. WorldTypeOK'
    BY <2>4
  <2> QED  BY <2>2, <2>3, <2>4, <2>5
<1>11. CASE TryCandidate
  <2>1. PICK left \in {FALSE, bpc = "window"} : place' = [place EXCEPT !.held = left]
    BY <1>11 DEF TryCandidate
  <2>2. left \in BOOLEAN
    OBVIOUS
  <2>3. bpc' \in {"window", "final", "failed"}
    BY <1>11 DEF TryCandidate
  <2>4. /\ UNCHANGED <<build, head, clean, tools, attested, dist, using, supplied,
                       events>>
        /\ place' \in [cand : Artifacts \cup {None}, backup : Artifacts \cup {None},
                      failed : Artifacts \cup {None}, held : BOOLEAN]
    BY <1>11, <2>1, <2>2 DEF TryCandidate
  <2>5. WorldTypeOK'
    BY <2>4
  <2> QED  BY <2>3, <2>4, <2>5
<1>12. CASE MovePrior
  BY <1>12 DEF MovePrior
<1>13. CASE Publish
  BY <1>13 DEF Publish
<1>14. CASE Confirm
  BY <1>14 DEF Confirm
<1>15. CASE ConfirmSource
  BY <1>15 DEF ConfirmSource
<1>16. CASE Undo
  BY <1>16 DEF Undo
<1>17. CASE Restore
  BY <1>17 DEF Restore
<1>18. CASE BuildKilled
  BY <1>18 DEF BuildKilled
<1>19. CASE CandidateDisturbed
  <2>1. place.cand \in Artifacts
    BY <1>19 DEF CandidateDisturbed
  <2>2. [place.cand EXCEPT !.rest = "short"] \in Artifacts
    BY <2>1 DEF Artifacts
  <2>3. place' = [place EXCEPT !.cand = [place.cand EXCEPT !.rest = "short"]]
    BY <1>19 DEF CandidateDisturbed
  <2>4. events' \in 0..MaxEvents
    BY <1>19, ReleaseAssumption DEF CandidateDisturbed, Event
  <2> QED  BY <1>19, <2>2, <2>3, <2>4 DEF CandidateDisturbed
<1> QED  BY <1>1, <1>2, <1>3, <1>4, <1>5, <1>6, <1>7, <1>8, <1>9, <1>10, <1>11, <1>12,
            <1>13, <1>14, <1>15, <1>16, <1>17, <1>18, <1>19 DEF BuilderStep, BuildStep

-----------------------------------------------------------------------------
(* The build *)
\* Before a build the artifact of an earlier one is published.
LEMMA BuildInit == Init => BuildInv
<1> SUFFICES ASSUME Init PROVE BuildInv
  OBVIOUS
<1>1. Old(dist)
  BY NoneAssumption, ReleaseAssumption DEF Init, Old, Artifacts, BuildInfo, Attestations
<1> QED  BY <1>1, NoneAssumption DEF Init, BuilderInit, BuildInv, Described, Kept,
            Somewhere, Placed,
         Early, Informed, Packed, Tried, Before

\* What the build invariant says of a published artifact.
LEMMA PublishFollows == BuildInv => PublishInv
<1> SUFFICES ASSUME BuildInv PROVE PublishInv
  OBVIOUS
<1>1. Has(0)
  BY DEF BuildInv, Kept, Old, Has, Stored
<1>2. build.receipt # None => Has(1)
  BY DEF BuildInv, Somewhere, New, Has, Stored
<1>3. bpc \in {"idle", "failed"} \cup Before => dist # None /\ dist.info.run = 0
  BY NoneAssumption DEF BuildInv, Kept, Old, Placed
<1>4. bpc = "stuck" => place.backup # None
  BY DEF BuildInv, Placed
<1>5. dist # None /\ dist.info.run = 1 =>
        build.receipt # None /\ dist.exe = build.receipt.exe
  BY DEF BuildInv, Kept, Old, New
<1>6. bpc = "ok" => /\ build.confirmed = build.receipt
                    /\ build.receipt.info.commit = build.commit
                    /\ place.backup # None
  BY DEF BuildInv, Placed, Described
<1> QED  BY <1>1, <1>2, <1>3, <1>4, <1>5, <1>6 DEF PublishInv

\* The build invariant looks at dist/ only for the executable and its identity:
\* steps of others that leave these, and the build, keep it.
LEMMA BuildElse ==
  ASSUME TypeOK, BuildInv, UNCHANGED builder,
         \/ dist' = dist
         \/ dist # None /\ dist' # None /\ dist'.info = dist.info /\ dist'.exe = dist.exe
  PROVE  BuildInv'
<1>1. Described' /\ Somewhere'
  BY DEF BuildInv, Described, Somewhere, New, builder
<1>2. Kept'
  BY DEF BuildInv, Kept, Old, New, builder
<1>3. Placed'
  BY DEF BuildInv, Placed, builder
<1> QED  BY <1>1, <1>2, <1>3 DEF BuildInv

\* Every step of a build keeps track of both artifacts: the moves that fail, the
\* rollback, and the build that is killed between two of them.
LEMMA BuildNext ==
  ASSUME TypeOK, BuildInv, BuilderStep
  PROVE  BuildInv'
<1> USE NoneAssumption DEF BuildInv, TypeOK, BuilderTypeOK, WorldTypeOK, Goes, world,
                           Before, Swap,
        Ended, Early, Informed, Packed, Tried
<1>1. CASE StartBuild
  BY <1>1 DEF StartBuild, Described, Kept, Somewhere, Placed, Old, New
<1>2. CASE Freeze
  BY <1>2 DEF Freeze, Described, Kept, Somewhere, Placed, Old, New
<1>3. CASE CaptureCommit
  <2>1. Described'
    BY <1>3 DEF CaptureCommit, Described, Placed
  <2>2. Kept'
    BY <1>3, <2>1 DEF CaptureCommit, Described, Kept, Placed, Old, New
  <2>3. Somewhere'
    BY <1>3, <2>1 DEF CaptureCommit, Described, Somewhere, Kept, Placed, Old, New
  <2>4. Placed'
    BY <1>3 DEF CaptureCommit, Described, Kept, Placed, Old, New
  <2> QED  BY <2>1, <2>2, <2>3, <2>4
<1>4. CASE Stage
  BY <1>4 DEF Stage, Described, Kept, Somewhere, Placed, Old, New
<1>5. CASE Identify
  <2>1. Described'
    BY <1>5 DEF Identify, Described, Placed
  <2>2. Kept'
    BY <1>5, <2>1 DEF Identify, Described, Kept, Placed, Old, New
  <2>3. Somewhere'
    BY <1>5, <2>1 DEF Identify, Described, Somewhere, Kept, Placed, Old, New
  <2>4. Placed'
    <3>1. build.attest \in Attestations /\ head \in Commits
      BY <1>5 DEF Identify, Placed
    <3>2. [commit |-> head, attest |-> build.attest, run |-> 1] # None
      BY <3>1 DEF BuildInfo
    <3> QED  BY <1>5, <3>2 DEF Identify, Described, Kept, Placed, Old, New
  <2> QED  BY <2>1, <2>2, <2>3, <2>4
<1>6. CASE Test
  BY <1>6 DEF Test, Described, Kept, Somewhere, Placed, Old, New
<1>7. CASE Recheck
  BY <1>7 DEF Recheck, Described, Kept, Somewhere, Placed, Old, New
<1>8. CASE Package
  <2>1. Described'
    BY <1>8 DEF Package, Described, Placed
  <2>2. Kept'
    BY <1>8, <2>1 DEF Package, Described, Kept, Placed, Old, New
  <2>3. Somewhere'
    BY <1>8, <2>1 DEF Package, Described, Somewhere, Kept, Placed, Old, New
  <2>4. Placed'
    <3>1. build.info \in BuildInfo
      BY <1>8 DEF Package, Placed
    <3>2. \A rest \in {"built", "bad"} :
            [exe |-> build.info, info |-> build.info, rest |-> rest] # None
      BY <3>1 DEF Artifacts
    <3>3. place'.cand # None
      BY <1>8, <3>2 DEF Package
    <3> QED  BY <1>8, <3>3 DEF Package, Placed
  <2> QED  BY <2>1, <2>2, <2>3, <2>4
<1>9. CASE Validate
  BY <1>9 DEF Validate, Described, Kept, Somewhere, Placed, Old, New
<1>10. CASE ProbeAndRescan
  <2>1. Described'
    BY <1>10 DEF ProbeAndRescan, Described, Placed
  <2>2. Kept'
    BY <1>10, <2>1 DEF ProbeAndRescan, Described, Kept, Placed, Old, New
  <2>3. Somewhere'
    BY <1>10, <2>1 DEF ProbeAndRescan, Described, Somewhere, Kept, Placed, Old, New
  <2>4. Placed'
    BY <1>10 DEF ProbeAndRescan, Described, Kept, Placed, Old, New
  <2> QED  BY <2>1, <2>2, <2>3, <2>4
<1>11. CASE TryCandidate
  BY <1>11 DEF TryCandidate, Described, Kept, Somewhere, Placed, Old, New
<1>12. CASE MovePrior
  <2>1. Described'
    BY <1>12 DEF MovePrior, Described, Placed
  <2>2. Kept'
    BY <1>12, <2>1 DEF MovePrior, Described, Kept, Placed, Old, New
  <2>3. Somewhere'
    BY <1>12, <2>1 DEF MovePrior, Described, Somewhere, Kept, Placed, Old, New
  <2>4. Placed'
    BY <1>12 DEF MovePrior, Described, Kept, Placed, Old, New
  <2> QED  BY <2>1, <2>2, <2>3, <2>4
<1>13. CASE Publish
  <2>1. Described'
    BY <1>13 DEF Publish, Described, Placed
  <2>2. Kept'
    BY <1>13, <2>1 DEF Publish, Described, Kept, Placed, Old, New
  <2>3. Somewhere'
    BY <1>13, <2>1 DEF Publish, Described, Somewhere, Kept, Placed, Old, New
  <2>4. Placed'
    BY <1>13 DEF Publish, Described, Kept, Placed, Old, New
  <2> QED  BY <2>1, <2>2, <2>3, <2>4
<1>14. CASE Confirm
  <2>1. Described'
    BY <1>14 DEF Confirm, Described, Placed
  <2>2. Kept'
    BY <1>14, <2>1 DEF Confirm, Described, Kept, Placed, Old, New
  <2>3. Somewhere'
    BY <1>14, <2>1 DEF Confirm, Described, Somewhere, Kept, Placed, Old, New
  <2>4. Placed'
    BY <1>14 DEF Confirm, Distribution, Placed
  <2> QED  BY <2>1, <2>2, <2>3, <2>4
<1>15. CASE ConfirmSource
  <2>1. Described'
    BY <1>15 DEF ConfirmSource, Described, Placed
  <2>2. Kept'
    BY <1>15, <2>1 DEF ConfirmSource, Described, Kept, Placed, Old, New
  <2>3. Somewhere'
    BY <1>15, <2>1 DEF ConfirmSource, Described, Somewhere, Kept, Placed, Old, New
  <2>4. Placed'
    BY <1>15 DEF ConfirmSource, Described, Kept, Placed, Old, New
  <2> QED  BY <2>1, <2>2, <2>3, <2>4
<1>16. CASE Undo
  <2>1. Described'
    BY <1>16 DEF Undo, Described, Placed
  <2>2. Kept'
    BY <1>16, <2>1 DEF Undo, Described, Kept, Placed, Old, New
  <2>3. Somewhere'
    BY <1>16, <2>1 DEF Undo, Described, Somewhere, Kept, Placed, Old, New
  <2>4. Placed'
    BY <1>16 DEF Undo, Described, Kept, Placed, Old, New
  <2> QED  BY <2>1, <2>2, <2>3, <2>4
<1>17. CASE Restore
  <2>1. Described'
    BY <1>17 DEF Restore, Described, Placed
  <2>2. Kept'
    BY <1>17, <2>1 DEF Restore, Described, Kept, Placed, Old, New
  <2>3. Somewhere'
    BY <1>17, <2>1 DEF Restore, Described, Somewhere, Kept, Placed, Old, New
  <2>4. Placed'
    BY <1>17 DEF Restore, Described, Kept, Placed, Old, New
  <2> QED  BY <2>1, <2>2, <2>3, <2>4
<1>18. CASE BuildKilled
  BY <1>18 DEF BuildKilled, Described, Kept, Somewhere, Placed, Old, New
<1>19. CASE CandidateDisturbed
  <2>1. place.cand \in Artifacts
    BY <1>19 DEF CandidateDisturbed
  <2>2. PICK short \in Artifacts : /\ short.info = place.cand.info
                                   /\ short.exe = place.cand.exe
                                   /\ place' = [place EXCEPT !.cand = short]
    <3>1. [place.cand EXCEPT !.rest = "short"] \in Artifacts
      BY <2>1 DEF Artifacts
    <3> QED  BY <1>19, <2>1, <3>1 DEF CandidateDisturbed, Artifacts
  <2>3. /\ place'.cand # None /\ place'.cand.info = place.cand.info
        /\ place'.cand.exe = place.cand.exe
        /\ place'.backup = place.backup /\ place'.failed = place.failed
    BY <2>2
  <2>4. place.cand # None /\ UNCHANGED <<bpc, build, dist>>
    BY <1>19 DEF CandidateDisturbed
  <2>5. Described'
    BY <2>3, <2>4 DEF Described
  <2>6. Kept'
    BY <2>3, <2>4 DEF Kept, Old, New
  <2>7. Somewhere'
    BY <2>3, <2>4 DEF Somewhere, New
  <2>8. Placed'
    BY <2>3, <2>4 DEF Placed
  <2> QED  BY <2>5, <2>6, <2>7, <2>8
<1> QED  BY <1>1, <1>2, <1>3, <1>4, <1>5, <1>6, <1>7, <1>8, <1>9, <1>10, <1>11, <1>12,
            <1>13, <1>14, <1>15, <1>16, <1>17, <1>18, <1>19 DEF BuilderStep, BuildStep

-----------------------------------------------------------------------------
(* The order of the gates *)
\* The other places of a run are no gates.
LEMMA OrderApart ==
  \A i \in 1..23 : Order[i] \notin {"idle", "capture", "finish", "ended", "final_receipt_bytes"}
<1> SUFFICES ASSUME NEW i \in 1..23
             PROVE  Order[i] \notin {"idle", "capture", "finish", "ended", "final_receipt_bytes"}
  OBVIOUS
<1>1. i \in {1,2,3,4,5,6,7,8,9,10,11,12,13,14,15,16,17,18,19,20,21,22,23}
  OBVIOUS
<1> QED  BY <1>1, OrderIs

\* The gates are those of the order and the one finish() records.
LEMMA GatesAre == Gates = {Order[i] : i \in 1..23} \cup {"final_receipt_bytes"}
  BY OrderIs DEF Gates

\* Where the gates that run the candidate come in the order.
LEMMA CandidatesAre ==
  /\ Order[5] \in Candidates /\ Order[10] \in Candidates /\ Order[12] \in Candidates
  /\ Order[13] \in Candidates /\ Order[17] \in Candidates /\ Order[19] \in Candidates
  /\ Order[21] \in Candidates
  /\ \A g \in Candidates : \E i \in {5, 10, 12, 13, 17, 19, 21} :
       g = Order[i] /\ Position(g) = i
<1>1. Candidates = {Order[5], Order[21], Order[17], Order[19], Order[10], Order[12], Order[13]}
  BY OrderIs DEF Candidates, Validators, Health
<1> QED  BY <1>1, Positions

\* The position of the run, from the gate it is at.
LEMMA HereIs == /\ \A k \in 1..23 : at = Order[k] => Here = k /\ Under
                /\ at = "capture" => Here = 2 /\ Under
                /\ at = "idle" => Here = 1 /\ Under
  BY Positions, OrderApart DEF Here, Under

\* The same of the next state.
LEMMA HerePrimed == /\ \A k \in 1..23 : at' = Order[k] => Here' = k /\ Under'
                    /\ at' = "capture" => Here' = 2 /\ Under'
  BY Positions, OrderApart DEF Here, Under

\* A run is at one of the 23 gates, or at one of four other places.
LEMMA SitedIs ==
  ASSUME Sited
  PROVE  \/ at \in {"idle", "capture", "finish", "ended"} \/ \E k \in 1..23 : at = Order[k]
  BY DEF Sited, Last

\* What recording an outcome changes: one check, and the gate to go on with.
LEMMA RecordIs ==
  ASSUME TypeOK, NEW k \in 1..23, NEW outcome \in Outcomes, Record(Order[k], outcome)
  PROVE  /\ checks' \in [Gates -> Outcomes \cup {None}]
         /\ checks'[Order[k]] = outcome
         /\ \A i \in 1..23 : i # k => checks'[Order[i]] = checks[Order[i]]
         /\ checks'["final_receipt_bytes"] = checks["final_receipt_bytes"]
         /\ phase' = "bind" /\ at' # "idle"
         /\ \/ at' = "finish"
            \/ /\ k < 23 /\ at' = Order[k + 1]
               /\ outcome = "PASS" \/ k >= 21
<1>1. checks \in [Gates -> Outcomes \cup {None}] /\ Order[k] \in Gates
  BY Positions DEF TypeOK, ControllerTypeOK
<1>2. checks' = [checks EXCEPT ![Order[k]] = outcome] /\ phase' = "bind"
  BY DEF Record
<1>3. \A i \in 1..23 : Order[i] \in Gates
  BY Positions
<1>4. "final_receipt_bytes" \in Gates
  BY DEF Gates
<1>5. \A i \in 1..23 : i # k => Order[i] # Order[k]
  BY OrderInjective
<1>6. Order[k] # "final_receipt_bytes"
  BY OrderApart
<1>7. Order[k] \in Finals => k >= 21
  <2>1. Finals = {Order[21], Order[22], Order[23]}
    BY OrderIs DEF Finals
  <2> QED  BY <2>1, OrderInjective
<1>8. at' = IF outcome = "PASS" \/ Order[k] \in Finals
              THEN (IF k = 23 THEN "finish" ELSE Order[k + 1]) ELSE "finish"
  BY AfterIs DEF Record
<1>9. \/ at' = "finish"
      \/ k < 23 /\ at' = Order[k + 1] /\ (outcome = "PASS" \/ k >= 21)
  BY <1>7, <1>8
<1>10. at' # "idle"
  BY <1>9, OrderApart
<1> QED  BY <1>1, <1>2, <1>3, <1>4, <1>5, <1>6, <1>9, <1>10

\* A run that records the outcome of the gate it is at keeps the order: it goes
\* on only from a gate that passed, or from one of the last three.
LEMMA Recorded ==
  ASSUME IInv, NEW k \in 1..23, NEW outcome \in Outcomes, Here = k, Under,
         Record(Order[k], outcome), UNCHANGED <<ran, broken, report, exit, build>>
  PROVE  Sited' /\ Ordered' /\ Reported' /\ RunsAreGuarded' /\ GoIsEarned' /\ ExitAgrees'
<1> USE DEF IInv, CtrlInv, Last
<1>1. /\ checks'[Order[k]] = outcome
      /\ \A i \in 1..23 : i # k => checks'[Order[i]] = checks[Order[i]]
      /\ checks'["final_receipt_bytes"] = checks["final_receipt_bytes"]
      /\ phase' = "bind"
      /\ \/ at' = "finish"
         \/ k < 23 /\ at' = Order[k + 1] /\ (outcome = "PASS" \/ k >= 21)
  BY RecordIs
<1>2. report = None /\ exit = None /\ ~broken
  BY DEF Ordered
<1>3. \A g \in Candidates : Position(g) > k => ran[g] = None
  <2> SUFFICES ASSUME NEW g \in Candidates, Position(g) > k PROVE ran[g] = None
    OBVIOUS
  <2>1. PICK j \in 1..23 : g = Order[j] /\ Position(g) = j
    BY CandidatesAre
  <2>2. g # at
    BY <2>1, HereIs
  <2> QED  BY <2>1, <2>2 DEF Ordered
<1>4. \A i \in 1..(k - 1) : i < 21 => Passed(Order[i])
  BY Positions, OrderIs DEF Ordered
<1>5. \A i \in 1..23 : i > k => checks'[Order[i]] = None
  BY <1>1 DEF Ordered
<1>6. Sited'
  <2>1. CASE at' = "finish"
    BY <1>1, <2>1 DEF Sited
  <2>2. CASE k < 23 /\ at' = Order[k + 1]
    <3>1. k + 1 \in 1..23
      BY <2>2
    <3> QED  BY <1>1, <2>2, <3>1 DEF Sited
  <2> QED  BY <1>1, <2>1, <2>2
<1>7. Ordered'
  <2>1. CASE at' = "finish"
    BY <2>1 DEF Ordered, Under
  <2>2. CASE k < 23 /\ at' = Order[k + 1] /\ (outcome = "PASS" \/ k >= 21)
    <3>1. k + 1 \in 1..23 /\ Here' = k + 1
      BY <2>2, HerePrimed
    <3>2. \A i \in 1..k : i < 21 => Passed(Order[i])'
      <4> SUFFICES ASSUME NEW i \in 1..k, i < 21 PROVE Passed(Order[i])'
        OBVIOUS
      <4>1. CASE i = k
        BY <4>1, <1>1, <2>2 DEF Passed
      <4>2. CASE i # k
        BY <4>2, <1>1, <1>4 DEF Passed
      <4> QED  BY <4>1, <4>2
    <3>3. checks'["final_receipt_bytes"] = None
      BY <1>1 DEF Ordered
    <3>4. \A g \in Candidates : Position(g) >= k + 1 => ran'[g] = None
      <4> SUFFICES ASSUME NEW g \in Candidates, Position(g) >= k + 1 PROVE ran[g] = None
        OBVIOUS
      <4>1. Position(g) \in 1..23
        BY CandidatesAre
      <4> QED  BY <1>3, <4>1
    <3>5. \A i \in 1..(Here' - 1) : i < Position("dist_manifest_final") => Passed(Order[i])'
      BY <3>1, <3>2, Positions, OrderIs
    <3>6. \A i \in Here'..23 : checks'[Order[i]] = None
      BY <3>1, <1>5
    <3>7. report' = None /\ exit' = None /\ ~broken'
      BY <1>2
    <3> QED  BY <3>1, <3>3, <3>4, <3>5, <3>6, <3>7 DEF Ordered
  <2> QED  BY <1>1, <2>1, <2>2
<1>8. Reported' /\ GoIsEarned' /\ ExitAgrees'
  BY <1>2, NoneAssumption DEF Reported, GoIsEarned, ExitAgrees
<1>9. RunsAreGuarded'
  <2> SUFFICES ASSUME NEW g \in Candidates, ran[g] # None
               PROVE  /\ \A i \in 1..(Position(g) - 1) : Passed(Order[i])'
                      /\ ran[g].run = 1 => build.receipt # None
    BY DEF RunsAreGuarded
  <2>1. PICK j \in 1..23 : Position(g) = j
    BY CandidatesAre
  <2>2. j <= k
    BY <2>1, <1>3
  <2>3. \A i \in 1..(j - 1) : Passed(Order[i]) /\ i \in 1..23 /\ i # k
    BY <2>1, <2>2 DEF RunsAreGuarded
  <2>4. \A i \in 1..(j - 1) : Passed(Order[i])'
    BY <2>3, <1>1 DEF Passed
  <2> QED  BY <2>1, <2>4 DEF RunsAreGuarded
<1> QED  BY <1>6, <1>7, <1>8, <1>9

\* Recording the outcome of a gate that ran the candidate keeps what was watched,
\* when a pass means that the bound executable was run.
LEMMA RecordedWatched ==
  ASSUME IInv, NEW k \in 1..23, NEW outcome \in Outcomes, Here = k, Under, k # 14,
         Record(Order[k], outcome), UNCHANGED <<ran, swapped>>,
         gate'.receipt = gate.receipt \/ k = 1,
         outcome = "PASS" /\ Order[k] \in Candidates =>
           ran[Order[k]] # None /\ (~swapped => ran[Order[k]] = gate'.receipt.exe)
  PROVE  Watched'
<1> USE DEF IInv, CtrlInv, Last
<1>1. /\ checks'[Order[k]] = outcome
      /\ \A i \in 1..23 : i # k => checks'[Order[i]] = checks[Order[i]]
      /\ phase' = "bind"
  BY RecordIs
<1>2. ASSUME NEW g \in Candidates, checks'[g] = "PASS"
      PROVE  ran[g] # None /\ (~swapped => ran[g] = gate'.receipt.exe)
  <2>1. PICK j \in 1..23 : j # 1 /\ g = Order[j]
    BY CandidatesAre
  <2>2. CASE j = k
    BY <1>1, <1>2, <2>1, <2>2
  <2>3. CASE j # k
    <3>1. checks[g] = "PASS"
      BY <1>1, <1>2, <2>1, <2>3
    <3>2. k # 1
      BY <2>1, <3>1, NoneAssumption DEF Ordered
    <3> QED  BY <3>1, <3>2 DEF Watched
  <2> QED  BY <2>2, <2>3
<1>3. checks'["displays_single_screen_exe"] = "PASS" =>
        ran["displays_exe_harness"] = gate'.receipt.exe
  <2>1. checks'["displays_single_screen_exe"] = checks["displays_single_screen_exe"]
    BY <1>1, OrderIs
  <2>2. k = 1 => checks["displays_single_screen_exe"] = None
    BY OrderIs DEF Ordered
  <2> QED  BY <2>1, <2>2, NoneAssumption DEF Watched
<1> QED  BY <1>1, <1>2, <1>3 DEF Watched

\* Recording keeps what is known of the receipt, when the static binding passes
\* only for a receipt of the commit and attestation captured, and the last harness
\* only for the receipt observed.
LEMMA RecordedIdentified ==
  ASSUME IInv, NEW k \in 1..23, NEW outcome \in Outcomes, Here = k, Under,
         Record(Order[k], outcome), gate' = gate, k # 1,
         k = 3 /\ outcome = "PASS" =>
           gate.receipt # None /\ gate.receipt.info.commit = gate.commit
           /\ gate.receipt.info.attest = gate.attest,
         k = 19 /\ outcome = "PASS" => gate.receipt = gate.observed
  PROVE  Identified'
<1>1. /\ checks'[Order[k]] = outcome /\ phase' = "bind"
      /\ \A i \in 1..23 : i # k => checks'[Order[i]] = checks[Order[i]]
  BY RecordIs DEF IInv
<1>2. checks'["receipt_schema"] = checks["receipt_schema"]
  BY <1>1, OrderIs
<1>3. checks'["static_artifact_binding"] =
        IF k = 3 THEN outcome ELSE checks["static_artifact_binding"]
  BY <1>1, OrderIs
<1>4. checks'["stability_alpha"] = IF k = 19 THEN outcome ELSE checks["stability_alpha"]
  BY <1>1, OrderIs
<1> QED  BY <1>1, <1>2, <1>3, <1>4 DEF Identified, IInv, CtrlInv

-----------------------------------------------------------------------------
(* The acceptance run *)
\* From the second gate on, the receipt had a valid schema.
LEMMA Begun ==
  ASSUME IInv, NEW k \in 2..23, at = Order[k]
  PROVE  checks["receipt_schema"] = "PASS"
<1>1. Here = k /\ Under
  BY HereIs
<1>2. Passed(Order[1])
  BY <1>1, Positions, OrderIs DEF IInv, CtrlInv, Ordered
<1> QED  BY <1>2, OrderIs DEF Passed, Optional

\* So there is a receipt.
LEMMA Bounded ==
  ASSUME IInv, NEW k \in 2..23, at = Order[k]
  PROVE  gate.receipt # None /\ gate.receipt \in Artifacts
<1>1. gate.receipt # None
  BY Begun DEF IInv, CtrlInv, Identified
<1>2. gate.receipt \in Artifacts \cup {None}
  BY DEF IInv, TypeOK, ControllerTypeOK
<1> QED  BY <1>1, <1>2

\* A gate that records one outcome and looks at nothing it keeps.
LEMMA PlainRecord ==
  ASSUME IInv, NEW k \in 2..23, NEW outcome \in Outcomes, at = Order[k],
         k \notin {3, 14}, Order[k] \notin Candidates,
         Record(at, outcome), UNCHANGED <<gate, run, world, builder, swapped>>, Keep
  PROVE  CtrlInv' /\ RunsAreGuarded' /\ GoIsEarned' /\ ExitAgrees'
<1>1. Here = k /\ Under /\ k \in 1..23
  BY HereIs
<1>2. Sited' /\ Ordered' /\ Reported' /\ RunsAreGuarded' /\ GoIsEarned' /\ ExitAgrees'
  BY <1>1, Recorded DEF Keep, builder
<1>3. Watched'
  BY <1>1, RecordedWatched DEF Keep
<1>4. Identified'
  <2>1. k # 19
    BY OrderIs DEF Candidates, Health
  <2> QED  BY <1>1, <2>1, RecordedIdentified
<1> QED  BY <1>2, <1>3, <1>4 DEF CtrlInv

\* The run starts, and observes the receipt.
LEMMA StartNext ==
  ASSUME IInv, StartGate, UNCHANGED <<builder, swapped>>
  PROVE  CtrlInv' /\ RunsAreGuarded' /\ GoIsEarned' /\ ExitAgrees'
<1> USE DEF IInv, CtrlInv, Last
<1>1. /\ at = "idle" /\ at' = Order[1]
      /\ gate' = [gate EXCEPT !.observed = supplied]
      /\ gate \in [observed : Artifacts \cup {None}, receipt : Artifacts \cup {None},
                   commit : Commits \cup {None}, attest : Attestations \cup {None}]
      /\ UNCHANGED <<phase, run, checks, ran, broken, report, exit, dist, supplied,
                     build, swapped>>
  BY OrderIs DEF StartGate, Keep, world, builder, TypeOK, ControllerTypeOK
<1>2. Here = 1 /\ Under /\ Here' = 1 /\ Under'
  BY <1>1, HereIs, HerePrimed
<1>3. phase = "bind"
  BY <1>1, OrderIs DEF Sited, Candidates, Validators, Health
<1>4. Sited'
  BY <1>1, <1>3 DEF Sited
<1>5. Ordered'
  <2>1. \A g \in Candidates : ran[g] = None
    BY <1>1, <1>2, <1>3, CandidatesAre DEF Ordered
  <2> QED  BY <1>1, <1>2, <2>1 DEF Ordered
<1>6. \A i \in 1..23 : checks[Order[i]] = None
  BY <1>2 DEF Ordered
<1>7. checks["receipt_schema"] = None /\ checks["static_artifact_binding"] = None
      /\ checks["displays_single_screen_exe"] = None /\ checks["stability_alpha"] = None
  BY <1>6, OrderIs
<1>8. \A g \in Candidates : checks[g] = None
  BY <1>6, CandidatesAre
<1>11. Identified'
  BY <1>1, <1>3, <1>7, NoneAssumption DEF Identified
<1>12. Watched'
  BY <1>1, <1>3, <1>7, <1>8, NoneAssumption DEF Watched
<1>13. RunsAreGuarded'
  BY <1>1 DEF RunsAreGuarded, Passed
<1>14. report = None /\ exit = None
  BY <1>2 DEF Ordered
<1> QED  BY <1>1, <1>4, <1>5, <1>11, <1>12, <1>13, <1>14, NoneAssumption DEF Reported,
            GoIsEarned, ExitAgrees

\* The receipt is read again and parsed; the first gate.
LEMMA LoadNext ==
  ASSUME IInv, LoadReceipt, UNCHANGED <<builder, swapped>>
  PROVE  CtrlInv' /\ RunsAreGuarded' /\ GoIsEarned' /\ ExitAgrees'
<1> USE DEF IInv, CtrlInv
<1> DEFINE outcome == IF supplied = None THEN "INVALID" ELSE "PASS"
<1>1. at = Order[1] /\ Here = 1 /\ Under
  BY OrderIs, HereIs DEF LoadReceipt
<1>2. Record(Order[1], outcome) /\ outcome \in Outcomes
  BY <1>1 DEF LoadReceipt, Outcomes
<1>3. gate' = [gate EXCEPT !.receipt = supplied]
      /\ gate \in [observed : Artifacts \cup {None}, receipt : Artifacts \cup {None},
                   commit : Commits \cup {None}, attest : Attestations \cup {None}]
      /\ UNCHANGED <<run, ran, broken, report, exit, dist, supplied, build, swapped>>
  BY DEF LoadReceipt, Keep, world, builder, TypeOK, ControllerTypeOK
<1>4. Sited' /\ Ordered' /\ Reported' /\ RunsAreGuarded' /\ GoIsEarned' /\ ExitAgrees'
  BY <1>1, <1>2, <1>3, Recorded
<1>5. Order[1] \notin Candidates
  BY OrderIs DEF Candidates, Validators, Health
<1>6. Watched'
  BY <1>1, <1>2, <1>3, <1>5, RecordedWatched
<1>7. /\ checks'[Order[1]] = outcome /\ phase' = "bind"
      /\ \A i \in 1..23 : i # 1 => checks'[Order[i]] = checks[Order[i]]
  BY <1>2, RecordIs
<1>8. /\ checks'["receipt_schema"] = outcome /\ checks'["static_artifact_binding"] = None
      /\ checks'["stability_alpha"] = None
  BY <1>1, <1>7, OrderIs DEF Ordered, Last
<1>9. Identified'
  BY <1>3, <1>7, <1>8, NoneAssumption DEF Identified
<1> QED  BY <1>4, <1>6, <1>9

\* The source is clean and the toolchain verified, or the run ends.
LEMMA PreflightNext ==
  ASSUME IInv, Preflight, UNCHANGED <<builder, swapped>>
  PROVE  CtrlInv' /\ RunsAreGuarded' /\ GoIsEarned' /\ ExitAgrees'
<1> USE DEF IInv, CtrlInv
<1>1. at = Order[2] /\ Here = 2 /\ Under
  BY OrderIs, HereIs DEF Preflight
<1>2. Order[2] \notin Candidates
  BY OrderIs DEF Candidates, Validators, Health
<1>3. CASE Record(at, "INVALID")
  BY <1>1, <1>2, <1>3, PlainRecord DEF Preflight, Outcomes
<1>4. CASE at' = "capture" /\ UNCHANGED <<phase, checks>>
  <2>1. UNCHANGED <<gate, run, ran, broken, report, exit, dist, supplied, build, swapped>>
    BY DEF Preflight, Keep, world, builder
  <2>2. Here' = 2 /\ Under'
    BY <1>4, HerePrimed
  <2>3. phase = "bind"
    BY <1>1, <1>2 DEF Sited
  <2>4. Sited'
    BY <1>4, <2>3 DEF Sited
  <2>5. Ordered'
    <3>1. \A g \in Candidates : Position(g) >= 2 => ran[g] = None
      BY <1>1, <2>3 DEF Ordered
    <3> QED  BY <1>1, <1>4, <2>1, <2>2, <3>1 DEF Ordered, Passed
  <2>6. Identified' /\ Watched'
    BY <1>1, <1>4, <2>1, <2>3, OrderApart DEF Identified, Watched
  <2>7. RunsAreGuarded'
    BY <1>4, <2>1 DEF RunsAreGuarded, Passed
  <2>8. report = None /\ exit = None
    BY <1>1 DEF Ordered
  <2> QED  BY <2>1, <2>4, <2>5, <2>6, <2>7, <2>8, NoneAssumption DEF Reported,
              GoIsEarned, ExitAgrees
<1> QED  BY <1>3, <1>4 DEF Preflight

\* The commit and the attestation are captured; nothing was held against them yet.
LEMMA CaptureNext ==
  ASSUME IInv, CaptureSource, UNCHANGED <<builder, swapped>>
  PROVE  CtrlInv' /\ RunsAreGuarded' /\ GoIsEarned' /\ ExitAgrees'
<1> USE DEF IInv, CtrlInv
<1>1. at = "capture" /\ Here = 2 /\ Under
  BY HereIs DEF CaptureSource
<1>2. Record(Order[2], "PASS") /\ "PASS" \in Outcomes
  BY OrderIs DEF CaptureSource, Outcomes
<1>3. gate' = [gate EXCEPT !.commit = head, !.attest = attested]
      /\ gate \in [observed : Artifacts \cup {None}, receipt : Artifacts \cup {None},
                   commit : Commits \cup {None}, attest : Attestations \cup {None}]
      /\ UNCHANGED <<run, ran, broken, report, exit, dist, supplied, build, swapped>>
  BY DEF CaptureSource, Keep, world, builder, TypeOK, ControllerTypeOK
<1>4. Sited' /\ Ordered' /\ Reported' /\ RunsAreGuarded' /\ GoIsEarned' /\ ExitAgrees'
  BY <1>1, <1>2, <1>3, Recorded
<1>5. Order[2] \notin Candidates
  BY OrderIs DEF Candidates, Validators, Health
<1>6. gate'.receipt = gate.receipt
  BY <1>3
<1>7. Watched'
  BY <1>1, <1>2, <1>3, <1>5, <1>6, RecordedWatched
<1>8. phase' = "bind" /\ \A i \in 1..23 : i # 2 => checks'[Order[i]] = checks[Order[i]]
  BY <1>2, RecordIs
<1>9. checks'["receipt_schema"] = checks["receipt_schema"]
      /\ checks'["static_artifact_binding"] = None /\ checks'["stability_alpha"] = None
  BY <1>1, <1>8, OrderIs DEF Ordered, Last
<1>10. Identified'
  BY <1>1, <1>3, <1>6, <1>8, <1>9, NoneAssumption DEF Identified
<1> QED  BY <1>4, <1>7, <1>10

\* A receipt that is statically bound is of the commit and attestation captured.
LEMMA BoundReceipt ==
  ASSUME IInv, NEW k \in 2..23, at = Order[k], StaticallyBound
  PROVE  gate.receipt.info.commit = gate.commit /\ gate.receipt.info.attest = gate.attest
  BY Bounded DEF StaticallyBound, Distribution

\* The static binding of the whole tree.
LEMMA StaticNext ==
  ASSUME IInv, StaticBinding, UNCHANGED <<builder, swapped>>
  PROVE  CtrlInv' /\ RunsAreGuarded' /\ GoIsEarned' /\ ExitAgrees'
<1> USE DEF IInv, CtrlInv
<1>1. at = Order[3] /\ Here = 3 /\ Under
  BY OrderIs, HereIs DEF StaticBinding
<1>2. PICK outcome \in {IF StaticallyBound THEN "PASS" ELSE "FAIL", "INVALID"} :
        Record(Order[3], outcome)
  BY <1>1 DEF StaticBinding
<1>3. outcome \in Outcomes /\ (outcome = "PASS" => StaticallyBound)
  BY <1>2 DEF Outcomes
<1>4. UNCHANGED <<gate, run, ran, broken, report, exit, dist, supplied, build, swapped>>
  BY DEF StaticBinding, Keep, world, builder
<1>5. Sited' /\ Ordered' /\ Reported' /\ RunsAreGuarded' /\ GoIsEarned' /\ ExitAgrees'
  BY <1>1, <1>2, <1>3, <1>4, Recorded
<1>6. Order[3] \notin Candidates
  BY OrderIs DEF Candidates, Validators, Health
<1>7. Watched'
  BY <1>1, <1>2, <1>3, <1>4, <1>6, RecordedWatched
<1>8. Identified'
  <2>1. outcome = "PASS" =>
          gate.receipt # None /\ gate.receipt.info.commit = gate.commit
          /\ gate.receipt.info.attest = gate.attest
    BY <1>1, <1>3, Bounded, BoundReceipt
  <2> QED  BY <1>1, <1>2, <1>3, <1>4, <2>1, RecordedIdentified
<1> QED  BY <1>5, <1>7, <1>8

\* The gates that run no candidate and look at what the invariant does not.
LEMMA PlainNext ==
  ASSUME IInv, UNCHANGED <<builder, swapped>>,
         ReceiptBytes \/ RecheckStatic \/ RunSource \/ FinalSource \/ FinalToolchain
  PROVE  CtrlInv' /\ RunsAreGuarded' /\ GoIsEarned' /\ ExitAgrees'
<1>1. PICK k \in {4, 6, 7, 8, 9, 11, 16, 18, 20, 22, 23} : at = Order[k]
  BY OrderIs DEF ReceiptBytes, RecheckStatic, RunSource, FinalSource, FinalToolchain,
     Rechecks, Sources
<1>2. PICK outcome \in Outcomes : Record(at, outcome)
  BY DEF ReceiptBytes, RecheckStatic, RunSource, FinalSource, FinalToolchain, Outcomes
<1>3. UNCHANGED <<gate, run, world>> /\ Keep
  BY DEF ReceiptBytes, RecheckStatic, RunSource, FinalSource, FinalToolchain
<1>4. Order[k] \notin Candidates
  BY OrderIs DEF Candidates, Validators, Health
<1>5. k \in 2..23 /\ k \notin {3, 14}
  OBVIOUS
<1> QED  BY <1>1, <1>2, <1>3, <1>4, <1>5, PlainRecord

\* A harness looks at the candidate; smoke_test.ps1 goes on with a mismatch.
LEMMA BindNext ==
  ASSUME IInv, Bind, UNCHANGED <<builder, swapped>>
  PROVE  CtrlInv' /\ RunsAreGuarded' /\ GoIsEarned' /\ ExitAgrees'
<1> USE DEF IInv, CtrlInv
<1> DEFINE bound == CASE at \in Validators -> ValidatorBinds
                      [] at \in Health     -> HealthBinds
                      [] OTHER             -> ExecutableBinds
<1>1. PICK k \in {5, 10, 12, 13, 17, 19, 21} : at = Order[k] /\ Position(at) = k
  BY CandidatesAre DEF Bind
<1>2. k \in 2..23 /\ Here = k /\ Under
  BY <1>1, HereIs
<1>3. gate.receipt # None
  BY <1>1, <1>2, Bounded
<1>4. /\ at \in Candidates /\ phase = "bind" /\ phase' \in {"launch", "collect"}
      /\ run' = [bound |-> bound, source |-> IF dist = None THEN None ELSE Source]
      /\ UNCHANGED <<at, gate, checks, ran, broken, report, exit, dist, supplied, build,
                     swapped>>
  BY DEF Bind, Keep, world, builder
<1>5. run'.bound => dist # None /\ dist.exe = gate.receipt.exe
  <2>1. run'.bound = bound
    BY <1>4
  <2>2. ValidatorBinds => dist # None /\ dist.exe = gate.receipt.exe
    BY <1>3 DEF ValidatorBinds, Distribution
  <2>3. HealthBinds \/ ExecutableBinds => dist # None /\ dist.exe = gate.receipt.exe
    BY DEF HealthBinds, ExecutableBinds
  <2> HIDE DEF bound
  <2>4. bound => ValidatorBinds \/ HealthBinds \/ ExecutableBinds
    BY DEF bound
  <2> QED  BY <2>1, <2>2, <2>3, <2>4
<1>6. ran[at] = None
  BY <1>1, <1>2, <1>4 DEF Ordered
<1>7. Sited'
  BY <1>4 DEF Sited
<1>8. Ordered'
  BY <1>2, <1>4, <1>6 DEF Ordered, Under, Here, Passed
<1>9. Identified'
  <2>1. at = "stability_alpha" /\ run'.bound => gate.receipt = gate.observed
    BY <1>4 DEF HealthBinds, Health, Validators
  <2> QED  BY <1>4, <2>1 DEF Identified
<1>10. Watched'
  BY <1>4, <1>5, <1>6 DEF Watched
<1>11. Reported' /\ RunsAreGuarded' /\ GoIsEarned' /\ ExitAgrees'
  BY <1>4 DEF Reported, RunsAreGuarded, GoIsEarned, ExitAgrees, Passed
<1> QED  BY <1>7, <1>8, <1>9, <1>10, <1>11

\* A harness launches what is in dist/ now, after gates that all passed.
LEMMA LaunchNext ==
  ASSUME IInv, Launch, UNCHANGED <<builder, swapped>>
  PROVE  CtrlInv' /\ RunsAreGuarded' /\ GoIsEarned' /\ ExitAgrees'
<1> USE DEF IInv, CtrlInv
<1>1. at \in Candidates
  BY DEF Launch, Sited
<1>2. PICK k \in {5, 10, 12, 13, 17, 19, 21} : at = Order[k] /\ Position(at) = k
  BY <1>1, CandidatesAre
<1>3. k \in 1..23 /\ Here = k /\ Under
  BY <1>2, HereIs
<1>4. /\ phase = "launch" /\ phase' = "collect"
      /\ UNCHANGED <<at, gate, run, checks, broken, report, exit, dist, supplied, build,
                     swapped>>
  BY DEF Launch, builder
<1>5. /\ \A g \in Candidates : g # at => ran'[g] = ran[g]
      /\ \/ ran'[at] = ran[at] /\ dist = None
         \/ ran'[at] = dist.exe /\ dist # None
  BY <1>1 DEF Launch, TypeOK, ControllerTypeOK
<1>6. report = None /\ exit = None
  BY <1>3 DEF Ordered
<1>7. Sited'
  BY <1>4, <1>1 DEF Sited
<1>8. Ordered'
  <2>1. Here' = k /\ Under'
    BY <1>2, <1>3, <1>4, HerePrimed
  <2>2. \A g \in Candidates : Position(g) >= k => ran'[g] = None \/ g = at
    BY <1>3, <1>4, <1>5 DEF Ordered
  <2> QED  BY <1>3, <1>4, <2>1, <2>2 DEF Ordered, Passed
<1>9. Identified'
  BY <1>4 DEF Identified
<1>10. ran[at] = None
  BY <1>1, <1>2, <1>3, <1>4 DEF Ordered
<1>11. \A g \in Candidates : checks[g] = "PASS" => g # at
  BY <1>2, <1>3, NoneAssumption DEF Ordered, Last
<1>12. checks["displays_single_screen_exe"] = "PASS" => at # "displays_exe_harness"
  <2>1. k = 13 => checks[Order[14]] = None
    BY <1>3 DEF Ordered, Last
  <2>2. at = "displays_exe_harness" => k = 13
    BY <1>2, <1>3, OrderIs, OrderInjective
  <2> QED  BY <2>1, <2>2, OrderIs, NoneAssumption
<1>13. Watched'
  <2>1. run.bound /\ ~swapped => dist # None /\ dist.exe = gate.receipt.exe
    BY <1>4 DEF Watched
  <2>2. run'.bound /\ ~swapped' => dist' # None /\ dist'.exe = gate'.receipt.exe
                                   /\ ran'[at'] \in {None, gate'.receipt.exe}
    BY <1>4, <1>5, <2>1
  <2>3. \A g \in Candidates : checks'[g] = "PASS" =>
          ran'[g] # None /\ (~swapped' => ran'[g] = gate'.receipt.exe)
    BY <1>4, <1>5, <1>11 DEF Watched
  <2>4. "displays_exe_harness" \in Candidates
    BY DEF Candidates
  <2>5. checks'["displays_single_screen_exe"] = "PASS" =>
          ran'["displays_exe_harness"] = gate'.receipt.exe
    BY <1>4, <1>5, <1>12, <2>4 DEF Watched
  <2> QED  BY <2>2, <2>3, <2>5 DEF Watched
<1>14. RunsAreGuarded'
  <2>1. \A i \in 1..(Position(at) - 1) : Passed(Order[i])
    <3>1. \A i \in 1..(k - 1) : i < 21
      BY <1>2
    <3> QED  BY <1>2, <1>3, <3>1, Positions, OrderIs DEF Ordered
  <2>2. ran'[at] # None /\ ran'[at].run = 1 => build.receipt # None
    <3>1. dist # None => dist.exe = dist.info
      BY DEF BuildInv, Kept, Old, New
    <3>2. PublishInv
      BY PublishFollows
    <3> QED  BY <1>5, <1>10, <3>1, <3>2 DEF PublishInv
  <2>3. \A g \in Candidates : g # at => ran'[g] = ran[g]
    BY <1>5
  <2>4. \A i \in 1..23 : Passed(Order[i])' = Passed(Order[i])
    BY <1>4 DEF Passed
  <2> SUFFICES ASSUME NEW g \in Candidates, ran'[g] # None
               PROVE  /\ \A i \in 1..(Position(g) - 1) : Passed(Order[i])'
                      /\ ran'[g].run = 1 => build'.receipt # None
    BY DEF RunsAreGuarded
  <2>5. Position(g) \in 1..23
    BY CandidatesAre
  <2>6. CASE g = at
    BY <1>4, <2>1, <2>2, <2>4, <2>5, <2>6
  <2>7. CASE g # at
    BY <1>4, <2>3, <2>4, <2>5, <2>7 DEF RunsAreGuarded
  <2> QED  BY <2>6, <2>7
<1> QED  BY <1>4, <1>6, <1>7, <1>8, <1>9, <1>13, <1>14, NoneAssumption
         DEF Reported, GoIsEarned, ExitAgrees

\* A harness ends or is killed; a pass needs what it bound to have run.
LEMMA CollectNext ==
  ASSUME IInv, Collect, UNCHANGED <<builder, swapped>>
  PROVE  CtrlInv' /\ RunsAreGuarded' /\ GoIsEarned' /\ ExitAgrees'
<1> USE DEF IInv, CtrlInv
<1>1. at \in Candidates /\ phase = "collect"
  BY DEF Collect
<1>2. PICK k \in {5, 10, 12, 13, 17, 19, 21} : at = Order[k] /\ Position(at) = k
  BY <1>1, CandidatesAre
<1>3. k \in 1..23 /\ Here = k /\ Under /\ k \notin {1, 3, 14}
  BY <1>2, HereIs
<1>4. UNCHANGED <<gate, run, ran, broken, report, exit, dist, supplied, build, swapped>>
  BY DEF Collect, Keep, builder
<1>5. PICK healthy \in BOOLEAN, timeout \in BOOLEAN, same \in BOOLEAN :
        Record(at, IF timeout THEN "INVALID"
                     ELSE CASE at \in Validators -> ValidatorOutcome(healthy)
                            [] at \in Health     -> HealthOutcome(healthy, same)
                            [] at = "smoke_exe"  -> SmokeOutcome(healthy)
                            [] OTHER             -> WindowOutcome(healthy))
  BY DEF Collect
<1> DEFINE outcome == IF timeout THEN "INVALID"
                     ELSE CASE at \in Validators -> ValidatorOutcome(healthy)
                            [] at \in Health     -> HealthOutcome(healthy, same)
                            [] at = "smoke_exe"  -> SmokeOutcome(healthy)
                            [] OTHER             -> WindowOutcome(healthy)
<1>6. /\ ValidatorOutcome(healthy) \in {"PASS", "FAIL", "INVALID"}
      /\ HealthOutcome(healthy, same) \in {"PASS", "FAIL", "INVALID"}
      /\ SmokeOutcome(healthy) \in {"PASS", "FAIL", "INVALID"}
      /\ WindowOutcome(healthy) \in {"PASS", "FAIL", "INVALID"}
  BY DEF ValidatorOutcome, HealthOutcome, SmokeOutcome, WindowOutcome
<1>7. ValidatorOutcome(healthy) = "PASS" => run.bound /\ ran[at] # None
  <2>1. ValidatorOutcome(healthy) = "PASS" =>
          run.bound /\ dist # None /\ ran[at] = dist.info
    BY DEF ValidatorOutcome, Distribution
  <2>2. dist # None => dist.info \in BuildInfo
    BY DEF TypeOK, WorldTypeOK, Artifacts
  <2> QED  BY <2>1, <2>2, NoneAssumption
<1>8. /\ HealthOutcome(healthy, same) = "PASS" => run.bound /\ ran[at] # None
      /\ SmokeOutcome(healthy) = "PASS" => run.bound /\ ran[at] # None
      /\ WindowOutcome(healthy) = "PASS" => run.bound /\ ran[at] # None
  BY DEF HealthOutcome, SmokeOutcome, WindowOutcome
<1>9. /\ outcome \in {"PASS", "FAIL", "INVALID"}
      /\ (outcome = "PASS" => run.bound /\ ran[at] # None)
  <2>1. CASE timeout
    BY <2>1
  <2>2. CASE ~timeout
    <3>1. outcome \in {ValidatorOutcome(healthy), HealthOutcome(healthy, same),
                       SmokeOutcome(healthy), WindowOutcome(healthy)}
      BY <2>2
    <3> HIDE DEF outcome
    <3> QED  BY <1>6, <1>7, <1>8, <3>1
  <2> QED  BY <2>1, <2>2
<1> HIDE DEF outcome
<1>10. Record(Order[k], outcome) /\ outcome \in Outcomes
  BY <1>2, <1>5, <1>9 DEF outcome, Outcomes
<1>11. Sited' /\ Ordered' /\ Reported' /\ RunsAreGuarded' /\ GoIsEarned' /\ ExitAgrees'
  BY <1>3, <1>4, <1>10, Recorded
<1>12. outcome = "PASS" =>
         ran[Order[k]] # None /\ (~swapped => ran[Order[k]] = gate'.receipt.exe)
  BY <1>1, <1>2, <1>4, <1>9 DEF Watched
<1>13. Watched'
  BY <1>3, <1>4, <1>10, <1>12, RecordedWatched
<1>14. Identified'
  <2>1. k = 19 /\ outcome = "PASS" => gate.receipt = gate.observed
    BY <1>1, <1>2, <1>9, OrderIs DEF Identified
  <2> QED  BY <1>3, <1>4, <1>10, <2>1, RecordedIdentified
<1> QED  BY <1>11, <1>13, <1>14

\* The display verdicts are those of the image that was watched.
LEMMA DisplaysNext ==
  ASSUME IInv, RecordDisplays, UNCHANGED <<builder, swapped>>
  PROVE  CtrlInv' /\ RunsAreGuarded' /\ GoIsEarned' /\ ExitAgrees'
<1> USE DEF IInv, CtrlInv
<1>1. at = Order[14] /\ Here = 14 /\ Under
  BY OrderIs, HereIs DEF RecordDisplays
<1>2. Order[14] \notin Candidates /\ Order[15] \notin Candidates
  BY OrderIs DEF Candidates, Validators, Health
<1>3. phase = "bind" /\ phase' = "bind"
  BY <1>1, <1>2 DEF Sited, RecordDisplays
<1>4. UNCHANGED <<gate, run, ran, broken, report, exit, dist, supplied, build, swapped>>
  BY DEF RecordDisplays, Keep, world, builder
<1>5. PICK single \in {"PASS", "SKIP", "INVALID"}, multi \in {"PASS", "SKIP", "INVALID"} :
        /\ checks' = [checks EXCEPT ![Order[14]] = single, ![Order[15]] = multi]
        /\ at' = IF single = "PASS" THEN Order[16] ELSE "finish"
        /\ single = "PASS" =>
             multi # "INVALID" /\ ran["displays_exe_harness"] = gate.receipt.exe
  <2>1. After(Optional) = Order[16]
    BY AfterIs, OrderIs DEF Optional
  <2>2. PICK baseline \in BOOLEAN, certified \in BOOLEAN :
       LET verdicts == IF ran["displays_exe_harness"] # gate.receipt.exe
                         THEN [single |-> "INVALID", multi |-> "INVALID"]
                         ELSE DisplayVerdicts(baseline, certified)
       IN /\ checks' = [checks EXCEPT !["displays_single_screen_exe"] = verdicts.single,
                                      !["displays_multi_screen_exe"]  = verdicts.multi]
          /\ at' = IF verdicts.single = "PASS" THEN After(Optional) ELSE "finish"
    BY DEF RecordDisplays
  <2>3. CASE ran["displays_exe_harness"] # gate.receipt.exe
    BY <2>1, <2>2, <2>3, OrderIs
  <2>4. CASE ran["displays_exe_harness"] = gate.receipt.exe
    BY <2>1, <2>2, <2>4, OrderIs DEF DisplayVerdicts
  <2> QED  BY <2>3, <2>4
<1>6. /\ checks'[Order[14]] = single /\ checks'[Order[15]] = multi
      /\ \A i \in 1..23 : i \notin {14, 15} => checks'[Order[i]] = checks[Order[i]]
      /\ checks'["final_receipt_bytes"] = checks["final_receipt_bytes"]
  <2>1. checks \in [Gates -> Outcomes \cup {None}] /\ \A i \in 1..23 : Order[i] \in Gates
    BY Positions DEF TypeOK, ControllerTypeOK
  <2>2. \A i \in 1..23 : i \notin {14, 15} => Order[i] # Order[14] /\ Order[i] # Order[15]
    BY OrderInjective
  <2>3. "final_receipt_bytes" \in Gates /\ Order[14] # "final_receipt_bytes"
        /\ Order[15] # "final_receipt_bytes" /\ Order[14] # Order[15]
    BY OrderIs DEF Gates
  <2> QED  BY <1>5, <2>1, <2>2, <2>3
<1>7. report = None /\ exit = None /\ ~broken
  BY <1>1 DEF Ordered
<1>8. \A g \in Candidates : Position(g) >= 14 => ran[g] = None
  BY <1>1, <1>3 DEF Ordered
<1>9. Sited'
  BY <1>3, <1>5 DEF Sited, Last
<1>10. Ordered'
  <2>1. CASE at' = "finish"
    BY <2>1 DEF Ordered, Under
  <2>2. CASE at' = Order[16] /\ single = "PASS"
    <3>1. Here' = 16
      BY <2>2, HerePrimed
    <3>2. \A i \in 1..13 : Passed(Order[i])
      BY <1>1, Positions, OrderIs DEF Ordered
    <3>3. \A i \in 1..13 : Passed(Order[i])'
      BY <1>6, <3>2 DEF Passed
    <3>4. Passed(Order[14])' /\ Passed(Order[15])'
      BY <1>5, <1>6, <2>2, OrderIs DEF Passed, Optional
    <3>5. \A i \in 1..15 : Passed(Order[i])'
      <4> SUFFICES ASSUME NEW i \in 1..15 PROVE Passed(Order[i])'
        OBVIOUS
      <4>1. i \in 1..13 \/ i = 14 \/ i = 15
        OBVIOUS
      <4> QED  BY <3>3, <3>4, <4>1
    <3>6. \A i \in 16..23 : checks'[Order[i]] = None
      BY <1>1, <1>6 DEF Ordered, Last
    <3>7. \A g \in Candidates : Position(g) >= 16 => ran'[g] = None
      <4> SUFFICES ASSUME NEW g \in Candidates, Position(g) >= 16 PROVE ran[g] = None
        BY <1>4
      <4>1. Position(g) \in 1..23
        BY CandidatesAre
      <4> QED  BY <1>8, <4>1
    <3>8. checks'["final_receipt_bytes"] = None
      BY <1>1, <1>6 DEF Ordered
    <3> QED  BY <1>4, <1>7, <3>1, <3>5, <3>6, <3>7, <3>8 DEF Ordered, Last
  <2> QED  BY <1>5, <2>1, <2>2
<1>11. checks'["receipt_schema"] = checks["receipt_schema"]
       /\ checks'["static_artifact_binding"] = checks["static_artifact_binding"]
       /\ checks'["stability_alpha"] = checks["stability_alpha"]
  BY <1>6, OrderIs
<1>12. Identified'
  BY <1>3, <1>4, <1>11 DEF Identified
<1>13. Watched'
  <2>1. \A g \in Candidates : checks'[g] = checks[g]
    BY <1>6, CandidatesAre
  <2>2. checks'["displays_single_screen_exe"] = single
    BY <1>6, OrderIs
  <2>3. \A g \in Candidates : checks'[g] = "PASS" =>
          ran'[g] # None /\ (~swapped' => ran'[g] = gate'.receipt.exe)
    BY <1>4, <2>1 DEF Watched
  <2>4. checks'["displays_single_screen_exe"] = "PASS" =>
          ran'["displays_exe_harness"] = gate'.receipt.exe
    BY <1>4, <1>5, <2>2
  <2> QED  BY <1>3, <2>3, <2>4 DEF Watched
<1>14. RunsAreGuarded'
  <2> SUFFICES ASSUME NEW g \in Candidates, ran[g] # None
               PROVE  /\ \A i \in 1..(Position(g) - 1) : Passed(Order[i])'
                      /\ ran[g].run = 1 => build.receipt # None
    BY <1>4 DEF RunsAreGuarded
  <2>1. PICK j \in 1..23 : Position(g) = j
    BY CandidatesAre
  <2>2. j < 14
    BY <2>1, <1>8
  <2>3. \A i \in 1..(j - 1) : Passed(Order[i]) /\ i \in 1..23 /\ i \notin {14, 15}
    BY <2>1, <2>2 DEF RunsAreGuarded
  <2>4. \A i \in 1..(j - 1) : Passed(Order[i])'
    BY <2>3, <1>6 DEF Passed
  <2> QED  BY <2>1, <2>4 DEF RunsAreGuarded
<1> QED  BY <1>4, <1>7, <1>9, <1>10, <1>12, <1>13, <1>14, NoneAssumption
         DEF Reported, GoIsEarned, ExitAgrees

\* finish() fills what was not reached, and adds the last check of the receipt.
LEMMA FilledIs ==
  ASSUME TypeOK
  PROVE  /\ Filled \in [Gates -> Outcomes]
         /\ \A i \in 1..23 : Filled[Order[i]] = IF checks[Order[i]] = None THEN "SKIP"
                                                ELSE checks[Order[i]]
         /\ Filled["final_receipt_bytes"] = FinalReceipt
         /\ \A g \in Gates : Filled[g] # None
<1>1. checks \in [Gates -> Outcomes \cup {None}] /\ "final_receipt_bytes" \in Gates
  BY DEF TypeOK, ControllerTypeOK, Gates
<1>2. FinalReceipt \in Outcomes
  BY <1>1 DEF FinalReceipt, Outcomes
<1>3. Filled \in [Gates -> Outcomes]
  <2>1. \A g \in Gates : (IF g = "final_receipt_bytes" THEN FinalReceipt
                   ELSE IF checks[g] = None THEN "SKIP" ELSE checks[g]) \in Outcomes
    BY <1>1, <1>2 DEF Outcomes
  <2> QED  BY <2>1 DEF Filled
<1>4. \A i \in 1..23 : Order[i] \in Gates /\ Order[i] # "final_receipt_bytes"
  BY Positions, OrderApart
<1>5. None \notin Outcomes
  BY NoneAssumption DEF Outcomes
<1>6. \A g \in Gates : Filled[g] # None
  BY <1>3, <1>5
<1>7. \A i \in 1..23 : Filled[Order[i]] = IF checks[Order[i]] = None THEN "SKIP"
                                                ELSE checks[Order[i]]
  BY <1>4 DEF Filled
<1>8. Filled["final_receipt_bytes"] = FinalReceipt
  BY <1>1 DEF Filled
<1> QED  BY <1>3, <1>6, <1>7, <1>8

\* The filled checks keep the gates in order.
LEMMA FilledGuards ==
  ASSUME IInv, checks' = Filled, UNCHANGED <<ran, build>>
  PROVE  RunsAreGuarded'
<1> SUFFICES ASSUME NEW g \in Candidates, ran[g] # None
             PROVE  /\ \A i \in 1..(Position(g) - 1) : Passed(Order[i])'
                    /\ ran[g].run = 1 => build.receipt # None
  BY DEF RunsAreGuarded
<1>1. PICK j \in 1..23 : Position(g) = j
  BY CandidatesAre
<1>2. \A i \in 1..(j - 1) : Passed(Order[i]) /\ i \in 1..23
  BY <1>1 DEF RunsAreGuarded, IInv
<1>3. \A i \in 1..23 : checks[Order[i]] # None => checks'[Order[i]] = checks[Order[i]]
  BY FilledIs DEF IInv
<1>4. \A i \in 1..(j - 1) : Passed(Order[i])'
  BY <1>2, <1>3, NoneAssumption DEF Passed
<1> QED  BY <1>1, <1>4 DEF RunsAreGuarded, IInv

\* What a GO is concluded from.
LEMMA GoFollows ==
  ASSUME IInv, at = "finish", checks' = Filled, report' = Verdict(Filled, broken),
         report' = "GO", UNCHANGED <<gate, ran, swapped>>
  PROVE  GoIsEarned' /\ ~broken
<1> USE DEF IInv, CtrlInv
<1>1. /\ ~broken
      /\ \A g \in Gates : checks'[g] = "PASS" \/ (g = Optional /\ checks'[g] = "SKIP")
  BY DEF Verdict
<1>2. \A g \in Gates : Passed(g)'
  BY <1>1 DEF Passed
<1>3. \A i \in 1..23 : i # 15 => checks[Order[i]] = "PASS"
  <2> SUFFICES ASSUME NEW i \in 1..23, i # 15 PROVE checks[Order[i]] = "PASS"
    OBVIOUS
  <2>1. Order[i] \in Gates /\ Order[i] # Optional
    BY Positions, OrderIs, OrderInjective DEF Optional
  <2>2. checks'[Order[i]] = "PASS"
    BY <1>1, <2>1
  <2> QED  BY <2>2, FilledIs
<1>4. checks["receipt_schema"] = "PASS" /\ checks["static_artifact_binding"] = "PASS"
      /\ checks["displays_single_screen_exe"] = "PASS" /\ checks["stability_alpha"] = "PASS"
  BY <1>3, OrderIs
<1>5. \A g \in Candidates : checks[g] = "PASS"
  BY <1>3, CandidatesAre
<1>6. gate.receipt = gate.observed /\ gate.receipt.info.commit = gate.commit
      /\ gate.receipt.info.attest = gate.attest
  BY <1>4 DEF Identified
<1>7. /\ \A g \in Candidates : ran[g] # None
      /\ ran["displays_exe_harness"] = gate.receipt.exe
      /\ ~swapped => \A g \in Candidates : ran[g] = gate.receipt.exe
  BY <1>4, <1>5 DEF Watched
<1> QED  BY <1>1, <1>2, <1>6, <1>7 DEF GoIsEarned

\* The verdicts there are.
LEMMA VerdictIs ==
  \A outcome, invalid : Verdict(outcome, invalid) \in {"GO", "NO-GO", "INVALID_RUN"}
  BY DEF Verdict

\* The run ends with a verdict and the exit code that goes with it.
LEMMA FinishNext ==
  ASSUME IInv, Finish, UNCHANGED <<builder, swapped>>
  PROVE  CtrlInv' /\ RunsAreGuarded' /\ GoIsEarned' /\ ExitAgrees'
<1> USE DEF IInv, CtrlInv
<1>1. /\ at = "finish" /\ at' = "ended" /\ checks' = Filled
      /\ report' = Verdict(Filled, broken) /\ exit' = ExitCode(report')
      /\ UNCHANGED <<phase, gate, run, ran, broken, dist, supplied, build, swapped>>
  BY DEF Finish, world, builder
<1>2. phase = "bind"
  BY <1>1 DEF Sited, Candidates, Validators, Health
<1>3. Sited' /\ Ordered' /\ Reported'
  BY <1>1, <1>2 DEF Sited, Ordered, Under, Reported
<1>4. \A i \in 1..23 : checks'[Order[i]] = "PASS" => checks[Order[i]] = "PASS"
  BY <1>1, FilledIs
<1>5. Identified'
  BY <1>1, <1>4, OrderIs DEF Identified
<1>6. Watched'
  <2>1. \A g \in Candidates : checks'[g] = "PASS" => checks[g] = "PASS"
    BY <1>4, CandidatesAre
  <2> QED  BY <1>1, <1>2, <1>4, <2>1, OrderIs DEF Watched
<1>7. RunsAreGuarded'
  BY <1>1, FilledGuards
<1>8. GoIsEarned' /\ (report' = "GO" => ~broken)
  <2>1. CASE report' = "GO"
    BY <1>1, <2>1, GoFollows
  <2>2. CASE report' # "GO"
    BY <2>2 DEF GoIsEarned
  <2> QED  BY <2>1, <2>2
<1>9. ExitAgrees'
  <2>1. report' \in {"GO", "NO-GO", "INVALID_RUN"}
    BY <1>1, VerdictIs
  <2>2. exit' = 0 <=> report' = "GO"
    BY <1>1, <2>1 DEF ExitCode
  <2>3. \A g \in Gates : checks'[g] # None
    BY <1>1, FilledIs
  <2> QED  BY <1>1, <1>8, <2>2, <2>3 DEF ExitAgrees
<1> QED  BY <1>3, <1>5, <1>6, <1>7, <1>8, <1>9

\* finish() fails before or after the verdict is written: never an exit code 0.
LEMMA FinishFailsNext ==
  ASSUME IInv, FinishFails, UNCHANGED <<builder, swapped>>
  PROVE  CtrlInv' /\ RunsAreGuarded' /\ GoIsEarned' /\ ExitAgrees'
<1> USE DEF IInv, CtrlInv
<1>1. /\ at = "finish"
      /\ checks' = Filled
      /\ report' \in {report, Verdict(Filled, broken)}
      /\ \/ broken /\ at' = "ended" /\ exit' = 2 /\ broken' = broken
         \/ broken' = TRUE /\ at' = at /\ exit' = exit
      /\ UNCHANGED <<phase, gate, run, ran, dist, supplied, build, swapped>>
  BY DEF FinishFails, world, builder
<1>2. phase = "bind" /\ broken'
  BY <1>1 DEF Sited, Candidates, Validators, Health
<1>3. exit = None
  BY <1>1 DEF Reported
<1>4. Sited' /\ Ordered' /\ Reported'
  BY <1>1, <1>2, <1>3, NoneAssumption DEF Sited, Ordered, Under, Reported
<1>5. \A i \in 1..23 : checks'[Order[i]] = "PASS" => checks[Order[i]] = "PASS"
  BY <1>1, FilledIs
<1>6. Identified'
  BY <1>1, <1>5, OrderIs DEF Identified
<1>7. Watched'
  <2>1. \A g \in Candidates : checks'[g] = "PASS" => checks[g] = "PASS"
    BY <1>5, CandidatesAre
  <2> QED  BY <1>1, <1>2, <1>5, <2>1, OrderIs DEF Watched
<1>8. RunsAreGuarded'
  BY <1>1, FilledGuards
<1>9. GoIsEarned'
  <2>1. CASE report' = Verdict(Filled, broken) /\ report' = "GO"
    BY <1>1, <2>1, GoFollows
  <2>2. CASE report' = report /\ report' = "GO"
    <3>1. \A g \in Gates : Passed(g)
      BY <2>2 DEF GoIsEarned
    <3>2. \A g \in Gates : checks[g] # None => Filled[g] = checks[g]
      BY DEF Filled, FinalReceipt
    <3>3. \A g \in Gates : Passed(g)'
      BY <1>1, <3>1, <3>2, NoneAssumption DEF Passed
    <3> QED  BY <1>1, <2>2, <3>3 DEF GoIsEarned
  <2>3. CASE report' # "GO"
    BY <2>3 DEF GoIsEarned
  <2> QED  BY <1>1, <2>1, <2>2, <2>3
<1>10. ExitAgrees'
  <2>1. \A g \in Gates : checks'[g] # None
    BY <1>1, FilledIs
  <2>2. exit' \in {2, None}
    BY <1>1, <1>3
  <2> QED  BY <1>2, <2>1, <2>2 DEF ExitAgrees
<1> QED  BY <1>4, <1>6, <1>7, <1>8, <1>9, <1>10

\* An exception in a gate ends the run as invalid.
LEMMA InternalNext ==
  ASSUME IInv, InternalError, UNCHANGED <<builder, swapped>>
  PROVE  CtrlInv' /\ RunsAreGuarded' /\ GoIsEarned' /\ ExitAgrees'
<1> USE DEF IInv, CtrlInv
<1>1. /\ at \in Gates \cup {"capture"} /\ at' = "finish" /\ phase' = "bind" /\ broken'
      /\ UNCHANGED <<gate, run, checks, ran, report, exit, dist, supplied, build,
                     swapped>>
  BY DEF InternalError, builder
<1>2. at \notin {"idle", "finish", "ended"}
  BY <1>1 DEF Gates, Order
<1>3. report = None /\ exit = None
  BY <1>2 DEF Ordered, Under
<1> QED  BY <1>1, <1>2, <1>3, NoneAssumption DEF Sited, Ordered, Under, Reported,
            Identified, Watched,
         RunsAreGuarded, Passed, GoIsEarned, ExitAgrees

\* Every step of an acceptance run keeps its half of the invariant.
LEMMA AcceptsNext ==
  ASSUME IInv, ControllerStep, UNCHANGED <<builder, swapped>>
  PROVE  CtrlInv' /\ RunsAreGuarded' /\ GoIsEarned' /\ ExitAgrees'
  BY StartNext, LoadNext, PreflightNext, CaptureNext, StaticNext, PlainNext, BindNext,
   LaunchNext,
   CollectNext, DisplaysNext, FinishNext, FinishFailsNext, InternalNext DEF ControllerStep, GateStep

-----------------------------------------------------------------------------
(* The types of the acceptance run *)
\* Recording keeps the types.
LEMMA RecordTyped ==
  ASSUME TypeOK, NEW k \in 1..23, NEW outcome \in Outcomes, Record(Order[k], outcome)
  PROVE  /\ checks' \in [Gates -> Outcomes \cup {None}] /\ phase' = "bind"
         /\ at' \in {"idle", "capture", "finish", "ended"} \cup Gates
<1>1. k < 23 => Order[k + 1] \in Gates
  BY Positions
<1> QED  BY <1>1, RecordIs

\* So does every step of an acceptance run.
LEMMA ControllerTyped ==
  ASSUME IInv, ControllerStep
  PROVE  WorldTypeOK' /\ ControllerTypeOK'
<1> USE DEF IInv, TypeOK, WorldTypeOK, ControllerTypeOK, Keep, world
<1>0. \A k \in 1..23 : Order[k] \in Gates
  BY Positions
<1>1. CASE StartGate
  BY <1>1, <1>0, OrderIs DEF StartGate
<1>2. CASE LoadReceipt
  <2>1. PICK outcome \in Outcomes : Record(Order[1], outcome)
    BY <1>2, OrderIs DEF LoadReceipt, Outcomes
  <2> QED  BY <1>2, <2>1, RecordTyped DEF LoadReceipt
<1>3. CASE Preflight
  <2>1. CASE Record(at, "INVALID")
    BY <1>3, <2>1, RecordTyped, OrderIs DEF Preflight, Outcomes
  <2>2. CASE at' = "capture" /\ UNCHANGED <<phase, checks>>
    BY <1>3, <2>2 DEF Preflight
  <2> QED  BY <1>3, <2>1, <2>2 DEF Preflight
<1>4. CASE CaptureSource
  <2>1. Record(Order[2], "PASS") /\ "PASS" \in Outcomes
    BY <1>4, OrderIs DEF CaptureSource, Outcomes
  <2>2. /\ checks' \in [Gates -> Outcomes \cup {None}] /\ phase' = "bind"
        /\ at' \in {"idle", "capture", "finish", "ended"} \cup Gates
    BY <2>1, RecordTyped
  <2>3. gate' = [gate EXCEPT !.commit = head, !.attest = attested]
    BY <1>4 DEF CaptureSource
  <2>4. UNCHANGED <<run, ran, broken, report, exit, head, clean, tools, attested, dist, using,
                    supplied, events>>
    BY <1>4 DEF CaptureSource
  <2>5. gate' \in [observed : Artifacts \cup {None}, receipt : Artifacts \cup {None},
               commit : Commits \cup {None}, attest : Attestations \cup {None}]
    BY <2>3
  <2> QED  BY <2>2, <2>4, <2>5
<1>5. CASE \/ StaticBinding \/ ReceiptBytes \/ RecheckStatic
           \/ RunSource \/ FinalSource \/ FinalToolchain
  <2>1. PICK k \in 1..23 : at = Order[k]
    BY <1>5, OrderIs DEF StaticBinding, ReceiptBytes, RecheckStatic, RunSource,
       FinalSource,
       FinalToolchain, Rechecks, Sources
  <2>2. PICK outcome \in Outcomes : Record(at, outcome)
    BY <1>5 DEF StaticBinding, ReceiptBytes, RecheckStatic, RunSource, FinalSource,
       FinalToolchain, Outcomes
  <2>3. UNCHANGED <<gate, run, world>> /\ Keep
    BY <1>5 DEF StaticBinding, ReceiptBytes, RecheckStatic, RunSource, FinalSource,
       FinalToolchain
  <2> QED  BY <2>1, <2>2, <2>3, RecordTyped
<1>6. CASE Bind
  <2>1. PICK b : /\ b \in BOOLEAN
                 /\ run' = [bound |-> b, source |-> IF dist = None THEN None ELSE Source]
    <3> DEFINE bound == CASE at \in Validators -> ValidatorBinds
                          [] at \in Health     -> HealthBinds
                          [] OTHER             -> ExecutableBinds
    <3>1. /\ ValidatorBinds \in BOOLEAN
          /\ HealthBinds \in BOOLEAN
          /\ ExecutableBinds \in BOOLEAN
      BY DEF ValidatorBinds, HealthBinds, ExecutableBinds, Distribution
    <3>2. run' = [bound |-> bound, source |-> IF dist = None THEN None ELSE Source]
      BY <1>6 DEF Bind
    <3>3. bound \in BOOLEAN
      BY <3>1
    <3> HIDE DEF bound
    <3> QED  BY <3>2, <3>3
  <2>2. Source \in [commit : Commits, clean : BOOLEAN]
    BY DEF Source
  <2> QED  BY <1>6, <2>1, <2>2 DEF Bind
<1>7. CASE Launch
  <2>1. dist # None => dist.exe \in BuildInfo
    BY DEF Artifacts
  <2>2. CASE dist = None
    BY <1>7, <2>2 DEF Launch
  <2>3. CASE dist # None
    <3>1. ran' = [ran EXCEPT ![at] = dist.exe] /\ using' = using \cup {"gate"}
      BY <1>7, <2>3 DEF Launch
    <3>2. ran' \in [Candidates -> BuildInfo \cup {None}]
      BY <2>1, <2>3, <3>1
    <3> QED  BY <1>7, <3>1, <3>2 DEF Launch
  <2> QED  BY <2>2, <2>3
<1>8. CASE Collect
  <2>1. PICK k \in 1..23 : at = Order[k]
    BY <1>8, CandidatesAre DEF Collect
  <2>2. PICK outcome \in Outcomes : Record(at, outcome)
    BY <1>8 DEF Collect, Outcomes, ValidatorOutcome, HealthOutcome, SmokeOutcome,
       WindowOutcome
  <2>3. using' \subseteq {"gate", "stray"}
    BY <1>8 DEF Collect
  <2> QED  BY <1>8, <2>1, <2>2, <2>3, RecordTyped DEF Collect
<1>9. CASE RecordDisplays
  <2>1. PICK single \in Outcomes, multi \in Outcomes :
        /\ checks' = [checks EXCEPT !["displays_single_screen_exe"] = single,
                                    !["displays_multi_screen_exe"] = multi]
        /\ at' = IF single = "PASS" THEN After(Optional) ELSE "finish"
    <3>1. PICK baseline \in BOOLEAN, certified \in BOOLEAN :
       LET verdicts == IF ran["displays_exe_harness"] # gate.receipt.exe
                         THEN [single |-> "INVALID", multi |-> "INVALID"]
                         ELSE DisplayVerdicts(baseline, certified)
       IN /\ checks' = [checks EXCEPT !["displays_single_screen_exe"] = verdicts.single,
                                      !["displays_multi_screen_exe"]  = verdicts.multi]
          /\ at' = IF verdicts.single = "PASS" THEN After(Optional) ELSE "finish"
      BY <1>9 DEF RecordDisplays
    <3>2. CASE ran["displays_exe_harness"] # gate.receipt.exe
      BY <3>1, <3>2 DEF Outcomes
    <3>3. CASE ran["displays_exe_harness"] = gate.receipt.exe
      BY <3>1, <3>3 DEF DisplayVerdicts, Outcomes
    <3> QED  BY <3>2, <3>3
  <2>2. After(Optional) \in Gates
    BY <1>0, AfterIs, OrderIs DEF Optional
  <2>3. checks' \in [Gates -> Outcomes \cup {None}]
    BY <2>1
  <2>4. at' \in Gates \cup {"finish"}
    BY <2>1, <2>2
  <2>5. UNCHANGED <<phase, gate, run, world>> /\ Keep
    BY <1>9 DEF RecordDisplays
  <2> QED  BY <2>3, <2>4, <2>5
<1>10. CASE Finish
  <2>1. Filled \in [Gates -> Outcomes]
    BY FilledIs
  <2>2. report' \in {"GO", "NO-GO", "INVALID_RUN"}
    BY <1>10, VerdictIs DEF Finish
  <2>3. exit' \in {0, 1, 2}
    BY <1>10, <2>2 DEF Finish, ExitCode
  <2> QED  BY <1>10, <2>1, <2>2, <2>3 DEF Finish
<1>11. CASE FinishFails
  <2>1. Filled \in [Gates -> Outcomes]
    BY FilledIs
  <2>2. report' \in {None, "GO", "NO-GO", "INVALID_RUN"}
    BY <1>11, VerdictIs DEF FinishFails
  <2>3. /\ checks' = Filled /\ UNCHANGED <<phase, gate, run, ran, world>>
        /\ at' \in {at, "ended"} /\ exit' \in {exit, 2} /\ broken' \in {broken, TRUE}
    BY <1>11 DEF FinishFails
  <2>4. checks' \in [Gates -> Outcomes \cup {None}]
    BY <2>1, <2>3
  <2>5. at' \in {"idle", "capture", "finish", "ended"} \cup Gates
    BY <2>3
  <2>6. broken' \in BOOLEAN /\ exit' \in {None, 0, 1, 2}
    BY <2>3
  <2>7. UNCHANGED <<phase, gate, run, ran>> /\ UNCHANGED world
    BY <2>3
  <2> HIDE DEF Keep
  <2>8. WorldTypeOK'
    BY <2>7
  <2> QED  BY <2>2, <2>4, <2>5, <2>6, <2>7, <2>8
<1>12. CASE InternalError
  BY <1>12 DEF InternalError
<1> QED  BY <1>1, <1>2, <1>3, <1>4, <1>5, <1>6, <1>7, <1>8, <1>9, <1>10, <1>11, <1>12
         DEF ControllerStep, GateStep

-----------------------------------------------------------------------------
(* What builds, and the world, do to the acceptance run *)
\* A build that has a receipt keeps it.
LEMMA ReceiptStays ==
  ASSUME IInv, BuilderStep, build.receipt # None
  PROVE  build'.receipt # None
<1> USE DEF IInv, TypeOK, BuilderTypeOK, BuildInv
<1>1. CASE bpc \in {"idle", "freeze", "capture", "stage", "identify", "test", "recheck", "package",
                    "validate", "probe"}
  BY <1>1 DEF Placed, Early, Informed, Packed
<1>2. CASE bpc \notin {"idle", "freeze", "capture", "stage", "identify", "test", "recheck", "package",
                    "validate", "probe"}
  <2>1. CASE Confirm
    BY <2>1 DEF Confirm
  <2>2. CASE ~Confirm
    BY <1>2, <2>2 DEF BuilderStep, BuildStep, StartBuild, Freeze, CaptureCommit, Stage,
       Identify, Test,
       Recheck, Package, Validate, ProbeAndRescan, TryCandidate, MovePrior, Publish,
       ConfirmSource, Undo, Restore, BuildKilled, CandidateDisturbed
  <2> QED  BY <2>1, <2>2
<1> QED  BY <1>1, <1>2

\* What others do keeps the half of the acceptance run, which says nothing of the
\* receipt file: they change the executable under it only as a swap.
LEMMA Around ==
  ASSUME IInv, UNCHANGED controller,
         swapped => swapped',
         ~swapped' /\ at # "idle" =>
           dist' = dist \/ (dist # None /\ dist' # None /\ dist'.exe = dist.exe),
         build.receipt # None => build'.receipt # None
  PROVE  CtrlInv' /\ RunsAreGuarded' /\ GoIsEarned' /\ ExitAgrees'
<1> USE DEF IInv, CtrlInv
<1>1. UNCHANGED <<at, phase, gate, run, checks, ran, broken, report, exit>>
  BY DEF controller
<1>2. ~swapped' => ~swapped
  OBVIOUS
<1>3. Sited' /\ Ordered' /\ Reported'
  BY <1>1 DEF Sited, Ordered, Under, Here, Passed, Reported
<1>4. Identified'
  BY <1>1 DEF Identified
<1>5. phase # "bind" => at # "idle"
  BY OrderApart, CandidatesAre DEF Sited
<1>6. ~swapped' /\ phase # "bind" =>
        dist' = dist \/ (dist # None /\ dist' # None /\ dist'.exe = dist.exe)
  BY <1>5
<1>7. Watched'
  <2>1. phase' # "bind" /\ run'.bound /\ ~swapped' =>
          dist' # None /\ dist'.exe = gate'.receipt.exe /\ ran'[at'] \in {None, gate'.receipt.exe}
    BY <1>1, <1>2, <1>6 DEF Watched
  <2>2. /\ \A g \in Candidates : checks'[g] = "PASS" =>
             ran'[g] # None /\ (~swapped' => ran'[g] = gate'.receipt.exe)
        /\ checks'["displays_single_screen_exe"] = "PASS" =>
             ran'["displays_exe_harness"] = gate'.receipt.exe
    BY <1>1, <1>2 DEF Watched
  <2> QED  BY <2>1, <2>2 DEF Watched
<1>8. RunsAreGuarded'
  BY <1>1 DEF RunsAreGuarded, Passed
<1>9. GoIsEarned'
  BY <1>1, <1>2 DEF GoIsEarned, Passed
<1>10. ExitAgrees'
  BY <1>1 DEF ExitAgrees
<1> QED  BY <1>3, <1>4, <1>7, <1>8, <1>9, <1>10

\* A step of a build, beside an acceptance run that may be at any gate.
LEMMA BuildsNext == ASSUME IInv, Builds PROVE IInv'
<1>1. BuilderStep /\ UNCHANGED controller
      /\ swapped' = (swapped \/ (at # "idle" /\ dist' # dist))
  BY DEF Builds
<1>2. BuildInv'
  BY <1>1, BuildNext DEF IInv
<1>3. WorldTypeOK' /\ BuilderTypeOK'
  BY <1>1, BuilderTyped DEF IInv, BuildInv
<1>4. ControllerTypeOK' /\ swapped' \in BOOLEAN
  BY <1>1 DEF IInv, TypeOK, ControllerTypeOK, controller
<1>6. CtrlInv' /\ RunsAreGuarded' /\ GoIsEarned' /\ ExitAgrees'
  <2>1. (swapped => swapped') /\ (~swapped' /\ at # "idle" => dist' = dist)
    BY <1>1
  <2> QED  BY <1>1, <2>1, ReceiptStays, Around
<1> QED  BY <1>2, <1>3, <1>4, <1>6 DEF IInv, TypeOK

\* A step of an acceptance run, beside a build that may be at any step.
LEMMA AcceptedNext == ASSUME IInv, Accepts PROVE IInv'
<1>1. ControllerStep /\ UNCHANGED <<builder, swapped>>
  BY DEF Accepts
<1>2. dist' = dist
  BY <1>1 DEF ControllerStep, GateStep, StartGate, LoadReceipt, Preflight, CaptureSource,
     StaticBinding, ReceiptBytes, RecheckStatic, RunSource, Bind, Launch, Collect, RecordDisplays,
     FinalSource, FinalToolchain, Finish, FinishFails, InternalError, world
<1>3. BuildInv'
  BY <1>1, <1>2, BuildElse DEF IInv
<1>4. WorldTypeOK' /\ ControllerTypeOK'
  BY <1>1, ControllerTyped
<1>5. BuilderTypeOK' /\ swapped' \in BOOLEAN
  BY <1>1 DEF IInv, TypeOK, BuilderTypeOK, builder
<1>6. CtrlInv' /\ RunsAreGuarded' /\ GoIsEarned' /\ ExitAgrees'
  BY <1>1, AcceptsNext
<1> QED  BY <1>3, <1>4, <1>5, <1>6 DEF IInv, TypeOK

\* A step of the world: an edit, a commit, an upgrade, a lost file, a stray that
\* closes, a receipt replaced or handed over.
LEMMA MeanwhileNext == ASSUME IInv, Meanwhile PROVE IInv'
<1>1. UNCHANGED <<builder, controller, swapped>> /\ (WorldStep \/ GiveReceipt)
  BY DEF Meanwhile
<1>2. \/ dist' = dist
      \/ /\ dist # None /\ dist' # None
         /\ dist'.info = dist.info /\ dist'.exe = dist.exe
  <2>1. CASE FileLost
    <3>1. dist \in Artifacts /\ dist' = [dist EXCEPT !.rest = "short"]
      BY <2>1 DEF FileLost, IInv, TypeOK, WorldTypeOK
    <3>2. dist' \in Artifacts
      BY <3>1 DEF Artifacts
    <3> QED  BY <3>1, <3>2, NoneAssumption DEF Artifacts
  <2>2. CASE ~FileLost
    BY <1>1, <2>2 DEF WorldStep, EditSource, Commit, Upgrade, Attest, ReceiptReplaced,
       StrayCloses,
       GiveReceipt
  <2> QED  BY <2>1, <2>2
<1>4. BuildInv'
  BY <1>1, <1>2, BuildElse DEF IInv
<1>5. WorldTypeOK'
  <2>1. CASE WorldStep
    BY <2>1, WorldStepTyped DEF IInv
  <2>2. CASE GiveReceipt
    BY <2>2 DEF GiveReceipt, IInv, TypeOK, WorldTypeOK, BuilderTypeOK
  <2> QED  BY <1>1, <2>1, <2>2
<1>6. BuilderTypeOK' /\ ControllerTypeOK' /\ swapped' \in BOOLEAN
  BY <1>1 DEF IInv, TypeOK, BuilderTypeOK, ControllerTypeOK, builder, controller
<1>7. CtrlInv' /\ RunsAreGuarded' /\ GoIsEarned' /\ ExitAgrees'
  <2>1. UNCHANGED controller /\ swapped' = swapped /\ build' = build
    BY <1>1 DEF builder
  <2>2. dist' = dist \/ (dist # None /\ dist' # None /\ dist'.exe = dist.exe)
    BY <1>2
  <2> QED  BY <2>1, <2>2, Around
<1> QED  BY <1>4, <1>5, <1>6, <1>7 DEF IInv, TypeOK

\* The invariant holds of an earlier artifact, with nothing under way.
LEMMA InitHolds == Init => IInv
<1> SUFFICES ASSUME Init PROVE IInv
  OBVIOUS
<1>1. attested \in Attestations
  BY ReleaseAssumption DEF Init, Attestations
<1>2. dist \in Artifacts
  BY <1>1 DEF Init, Artifacts, BuildInfo
<1>3. WorldTypeOK
  BY <1>1, <1>2, ReleaseAssumption DEF Init, WorldTypeOK
<1>4. BuilderTypeOK
  BY DEF Init, BuilderInit, BuilderTypeOK
<1>5. ControllerTypeOK
  BY DEF Init, ControllerInit, ControllerTypeOK
<1>6. BuildInv
  BY BuildInit
<1>7. Here = 1 /\ at = "idle" /\ phase = "bind" /\ report = None /\ exit = None /\ ~broken
  BY HereIs DEF Init, ControllerInit
<1>8. /\ (\A g \in Gates : checks[g] = None)
      /\ (\A g \in Candidates : ran[g] = None)
      /\ gate.receipt = None
  BY DEF Init, ControllerInit
<1>9. (\A i \in 1..23 : checks[Order[i]] = None) /\ checks["final_receipt_bytes"] = None
  BY <1>8, GatesAre
<1>10. \A g \in Candidates : checks[g] = None
  BY <1>9, CandidatesAre
<1>11. checks["receipt_schema"] = None /\ checks["static_artifact_binding"] = None
       /\ checks["displays_single_screen_exe"] = None /\ checks["stability_alpha"] = None
  BY <1>9, OrderIs
<1>12. CtrlInv
  BY <1>7, <1>8, <1>9, <1>10, <1>11, NoneAssumption
  DEF CtrlInv, Sited, Ordered, Identified, Watched, Reported, Last
<1>13. swapped \in BOOLEAN
  BY DEF Init
<1> QED  BY <1>3, <1>4, <1>5, <1>6, <1>7, <1>8, <1>12, <1>13, NoneAssumption
         DEF IInv, TypeOK, RunsAreGuarded, GoIsEarned, ExitAgrees

\* Every step keeps it.
LEMMA NextHolds == IInv /\ [Next]_vars => IInv'
<1> SUFFICES ASSUME IInv, [Next]_vars PROVE IInv'
  OBVIOUS
<1>1. CASE Next
  BY <1>1, BuildsNext, AcceptedNext, MeanwhileNext DEF Next
<1>2. CASE UNCHANGED vars
  <2>1. UNCHANGED <<world, builder, controller, swapped>>
    BY <1>2 DEF vars
  <2>2. dist' = dist /\ supplied' = supplied
    BY <2>1 DEF world
  <2>3. BuildInv'
    BY <2>1, <2>2, BuildElse DEF IInv
  <2>4. TypeOK'
    BY <2>1 DEF IInv, TypeOK, WorldTypeOK, BuilderTypeOK, ControllerTypeOK, world,
       builder, controller
  <2>5. CtrlInv' /\ RunsAreGuarded' /\ GoIsEarned' /\ ExitAgrees'
    <3>1. build' = build
      BY <2>1 DEF builder
    <3> QED  BY <2>1, <2>2, <3>1, Around
  <2> QED  BY <2>3, <2>4, <2>5 DEF IInv
<1> QED  BY <1>1, <1>2

\* The inductive invariant holds of builds and acceptance runs in any order.
THEOREM Invariant == Spec => []IInv
  BY InitHolds, NextHolds, PTL DEF Spec

\* build.ps1: whatever fails and wherever it is killed, neither the artifact it
\* replaces nor the validated candidate is lost; a build that ends with a failure
\* leaves the prior artifact published unless a move of the rollback failed; and
\* what it reports as published is the bytes of its receipt, of its commit.
THEOREM Published == Spec => []PublishInv
<1>1. IInv => PublishInv
  BY PublishFollows DEF IInv
<1> QED  BY Invariant, <1>1, PTL

\* go_no_go.py: a GO speaks of one receipt, of the commit and attestation the run
\* captured, and of gates that all passed on that executable; no candidate is
\* started after a gate that did not pass; and the exit code says what the report
\* says.
THEOREM GateHolds == Spec => []GateInv
<1>1. IInv => GateInv
  BY DEF IInv, GateInv
<1> QED  BY Invariant, <1>1, PTL
=============================================================================
