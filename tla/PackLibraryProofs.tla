------------------------- MODULE PackLibraryProofs -------------------------
(***************************************************************************)
(* Theorems about PackLibrary, for every set of revisions and transactions *)
(* and every choice of the steps that may fail or be killed.               *)
(***************************************************************************)
EXTENDS PackLibrary, TLAPS

TxnSteps == {"stage", "receipt", "intent", "publish", "abandon", "commit",
             "log", "unlink", "restore", "relog", "cleanup", "rollback",
             "forget"}
RevSteps == {"trash", "delete", "tombstone", "schedule", "unpend", "withdraw"}

\* What a step in progress works on.
StepTyped ==
  /\ op.at \in TxnSteps => op.rev \in Locals /\ op.txn \in Txns
  /\ op.at \in RevSteps => op.rev \in Locals
  /\ \A t \in intents : revOf[t] \in Locals
  /\ op.at \in {"stage", "receipt", "intent"} => revOf[op.txn] \in Locals

\* The revision an install or an uninstall is working on is not selected.
StepUnselected ==
  op.kind = "install" \/ op.at \in {"trash", "delete"} => op.rev \notin Protected

\* What an install, a recovery or a deletion has established when it comes to a
\* step, whatever failed in calls before it.
Standing ==
  /\ op.at \in TxnSteps => revOf[op.txn] = op.rev
  /\ op.at \in {"stage", "receipt", "intent", "publish", "abandon"}
       => op.kind = "install" /\ logged[op.txn] = 0 /\ op.rev \notin rows
  /\ op.at \in {"stage", "receipt", "intent"} => op.txn \notin intents
  /\ op.at \in TxnSteps \ {"stage", "receipt", "intent"} => op.txn \in intents
  /\ op.at \in {"abandon", "commit", "log", "unlink", "relog", "cleanup"} => op.rev \in media
  /\ op.at \in {"log", "unlink", "restore", "relog", "cleanup"} => op.rev \in rows
  /\ op.at \in {"rollback", "forget"} => op.rev \notin media \cup rows
  /\ op.at \in {"unlink", "cleanup"}
       => logged[op.txn] > 0 \/ latest[op.rev] \in {"install", "legacy"}
  /\ op.at = "trash" => op.rev \in media \cup trash
  /\ op.at \in {"delete", "tombstone"} => op.rev \in trash \ media
  /\ op.at = "tombstone" => op.rev \notin rows
  /\ op.kind = "resume" => intents = {}

\* A transaction logs its install at most once, and never before it has begun.
LoggedOnce == \A t \in Txns : logged[t] <= 1 /\ (revOf[t] = None => logged[t] = 0)

\* A registered revision has its bytes somewhere, and one that is registered no
\* more has them in the trash.
Kept ==
  /\ \A r \in rows \cap Locals :
       r \in media \cup trash \/ \E t \in intents \cap staged : revOf[t] = r
  /\ \A r \in Locals \ rows : latest[r] # "none" => r \in trash

\* A registered revision has its line, or the intent of a transaction that has
\* not logged one.
Told ==
  \A r \in rows \cap Locals :
    \/ latest[r] \in {"install", "legacy"}
    \/ \E t \in intents : revOf[t] = r /\ logged[t] = 0

\* Published media that the catalog does not know belong to such an intent, and
\* not to that of an install which has just found the target taken.
Claimed ==
  \A r \in media \ rows :
    \E t \in intents : /\ revOf[t] = r /\ logged[t] = 0
                       /\ op.at \in {"publish", "abandon"} => t # op.txn

(***************************************************************************)
(* The I/O errors after which the stores still agree: those before the     *)
(* intent is durable, and of its publication, which the next start rolls   *)
(* back; of a recovery that has changed nothing yet, which refuses the     *)
(* library; of the request that only schedules, and of the best-effort     *)
(* clean-up of a staged copy.  A locked file is scheduled.                 *)
(***************************************************************************)
SafeFailures == {"locked", "stage", "receipt", "intent", "publish", "abandon",
                 "restore", "relog", "schedule", "cleanup", "rollback"}

\* The kills that separate what a deletion or a rollback changes together.
SplittingKills == {"delete", "tombstone", "forget"}

\* Which calls run while the process is in a state, and which steps they have.
Calls ==
  /\ op.kind \in {"recover", "resume"} => app = "opening"
  /\ op.kind \in {"install", "request", "select"} => app = "running"
  /\ app \in {"off", "degraded"} => op.at = "idle"
  /\ op.at \in TxnSteps => op.kind \in {"install", "recover"}
  /\ op.at \in {"restore", "relog", "cleanup", "rollback", "forget"} => op.kind = "recover"
  /\ op.at \in {"trash", "delete", "tombstone"} => op.kind \in {"request", "resume"}
  /\ op.at = "schedule" => op.kind = "request"
  /\ op.at = "unpend" => op.kind = "resume"
  /\ op.at = "withdraw" => op.kind \in {"select", "resume"}

\* Published media that the catalog does not know are those of one revision
\* and, while the program runs, of the install that has just published them.
Unlisted ==
  /\ \A r, s \in media \ rows : r = s
  /\ app = "running" =>
       \A r \in media \ rows : op.kind = "install" /\ op.at = "commit" /\ op.rev = r

\* What is about to be listed has its version slot free.
Slotted ==
  /\ \A r \in media \ rows, s \in rows : VersionOf[r] # VersionOf[s]
  /\ op.at \in {"stage", "receipt", "intent", "publish"}
       => \A s \in rows : VersionOf[op.rev] # VersionOf[s]

\* A deletion is of a listed, unselected revision up to the deletion of its row,
\* and one that is resumed is pending until its last step.
Scheduled ==
  /\ op.at \in {"trash", "delete", "schedule"} => op.rev \in rows \ Protected
  /\ op.kind = "resume" => op.todo \subseteq pendings /\ op.rev \notin op.todo
  /\ op.kind = "resume" /\ op.at \in RevSteps => op.rev \in pendings
  /\ op.kind = "request" => op.rev \notin pendings
  /\ op.at = "unpend" => op.rev \notin rows
  /\ op.at = "withdraw" => op.rev \in pendings \cap Protected

\* Every intent can be recovered from, except one whose rollback is just being
\* forgotten; those left behind by a publication that failed by their own copy.
Recoverable ==
  /\ op.at \in {"receipt", "intent", "publish"} => op.txn \in staged
  /\ op.at = "intent" => op.txn \in receipts
  /\ \A t \in intents : IntentValid(t) \/ (op.at = "forget" /\ op.txn = t)
  /\ app = "running" =>
       \A t \in intents : t \in staged \/ (op.kind = "install" /\ op.txn = t)

\* A line without its row is about to be followed by a tombstone; while the
\* program runs, a row without its line by the line of the same install.
Lined ==
  /\ \A r \in Locals :
       latest[r] \in {"install", "legacy"} => r \in rows \/ (op.at = "tombstone" /\ op.rev = r)
  /\ app = "running" =>
       \A r \in rows \cap Locals :
         \/ latest[r] \in {"install", "legacy"}
         \/ op.kind = "install" /\ op.at = "log" /\ op.rev = r
  /\ op.kind = "install" /\ op.at \in {"commit", "log"} => logged[op.txn] = 0

\* A row without its media is about to be deleted or, after a kill, waits for
\* the recovery of its intent.
Present ==
  \A r \in rows \cap Locals :
    \/ r \in media
    \/ op.at = "delete" /\ op.rev = r
    \/ app # "running" /\ \E t \in intents \cap staged : revOf[t] = r

\* A pending deletion that is not one any more is being withdrawn, or is still
\* to be resumed.
Resumed ==
  app = "running" \/ op.kind = "resume" =>
    \A r \in pendings :
      \/ r \in rows \ Protected
      \/ op.rev = r /\ op.at \in RevSteps
      \/ op.kind = "resume" /\ r \in op.todo

TypeInv      == TypeOK /\ StepTyped
SelectionInv == SelectionReady /\ StepUnselected
Inv          == TypeInv /\ SelectionInv
AuditInv     == Standing /\ LoggedOnce /\ Kept /\ Told /\ Claimed
PromiseInv   == Calls /\ Unlisted /\ Slotted /\ Scheduled
AgreeInv     == Recoverable /\ Lined /\ Present /\ Resumed

USE RevisionAssumption

\* The initial state is well typed.
LEMMA InitTypeInv == Init => TypeInv
BY DEF Init, TypeInv, TypeOK, StepTyped, Locals, Idle, Call, Ops, Steps, TxnSteps,
       RevSteps

\* Every step of an install keeps the types.
LEMMA InstallStepTypeInv ==
  ASSUME TypeInv, InstallStep
  PROVE  TypeInv'
<1> USE DEF TypeInv, TypeOK, StepTyped, Ops, Steps, TxnSteps, RevSteps, Locals,
            Idle, Call, At, Busy, GoTo, Return, catalog, tree, journal
<1>1. CASE Stage
  BY <1>1 DEF Stage
<1>2. CASE WriteReceipt
  BY <1>2 DEF WriteReceipt
<1>3. CASE WriteIntent
  BY <1>3 DEF WriteIntent
<1>4. CASE Publish
  BY <1>4 DEF Publish
<1>5. CASE Abandon
  BY <1>5 DEF Abandon
<1> QED BY <1>1, <1>2, <1>3, <1>4, <1>5 DEF InstallStep

\* So does every step of a recovery.
LEMMA RecoverStepTypeInv ==
  ASSUME TypeInv, RecoverStep
  PROVE  TypeInv'
<1> USE DEF TypeInv, TypeOK, StepTyped, Ops, Steps, TxnSteps, RevSteps, Locals,
            Idle, Call, At, Busy, GoTo, Return, catalog, tree, journal
<1>1. CASE RecoverNext
  <2>1. PICK t \in intents, at \in {"relog", "commit", "restore", "rollback"} :
          op' = [op EXCEPT !.rev = revOf[t], !.txn = t, !.at = at]
    <3>1. PICK t \in intents :
            op' = [op EXCEPT !.rev = revOf[t], !.txn = t,
                             !.at = Branch(revOf[t] \in media, revOf[t] \in rows)]
      BY <1>1 DEF RecoverNext
    <3>2. Branch(revOf[t] \in media, revOf[t] \in rows)
            \in {"relog", "commit", "restore", "rollback"}
      BY DEF Branch
    <3> QED BY <3>1, <3>2
  <2>2. op' \in Ops /\ op'.at \in TxnSteps \ {"stage", "receipt", "intent"}
        /\ op'.rev \in Locals /\ op'.txn \in Txns
    BY <2>1
  <2> QED BY <1>1, <2>2 DEF RecoverNext
<1>2. CASE Restore
  BY <1>2 DEF Restore
<1>3. CASE CleanUp
  BY <1>3 DEF CleanUp
<1>4. CASE RecoverDone
  BY <1>4 DEF RecoverDone
<1> QED BY <1>1, <1>2, <1>3, <1>4 DEF RecoverStep

\* So do the steps that install and recovery share.
LEMMA SharedStepTypeInv ==
  ASSUME TypeInv, SharedStep
  PROVE  TypeInv'
<1> USE DEF TypeInv, TypeOK, StepTyped, Ops, Steps, TxnSteps, RevSteps, Locals,
            Idle, Call, At, Busy, GoTo, Return, catalog, tree, journal
<1>1. CASE Commit
  BY <1>1 DEF Commit
<1>2. CASE Log
  BY <1>2 DEF Log, EnsureInstallEvent, InstallEventExists
<1>3. CASE Unlink
  <2>1. op' \in Ops /\ (op' = Idle \/ op'.at = "next")
    <3>1. CASE op.kind = "recover"
      BY <1>3, <3>1 DEF Unlink
    <3>2. CASE op.kind # "recover"
      BY <1>3, <3>2 DEF Unlink
    <3> QED BY <3>1, <3>2
  <2> QED BY <1>3, <2>1 DEF Unlink
<1> QED BY <1>1, <1>2, <1>3 DEF SharedStep

\* So does every step of a deletion.
LEMMA DeleteStepTypeInv ==
  ASSUME TypeInv, DeleteStep
  PROVE  TypeInv'
<1> USE DEF TypeInv, TypeOK, StepTyped, Ops, Steps, TxnSteps, RevSteps, Locals,
            Idle, Call, At, Busy, GoTo, Return, catalog, tree, journal
<1>1. CASE ResumeNext
  <2>1. PICK r \in op.todo, at \in {"withdraw", "trash", "unpend"} :
          op' = [op EXCEPT !.rev = r, !.todo = @ \ {r}, !.at = at]
    BY <1>1 DEF ResumeNext
  <2>2. op' \in Ops /\ op'.at \in RevSteps /\ op'.rev \in Locals
    BY <2>1
  <2> QED BY <1>1, <2>2 DEF ResumeNext
<1>2. CASE ResumeDone
  BY <1>2 DEF ResumeDone
<1>3. CASE TrashMedia
  BY <1>3 DEF TrashMedia
<1>4. CASE DeleteRow
  BY <1>4 DEF DeleteRow
<1>5. CASE Tombstone
  BY <1>5 DEF Tombstone, AfterUninstall
<1>6. CASE Schedule
  BY <1>6 DEF Schedule
<1>7. CASE Unpend
  <2>1. op' \in Ops /\ (op' = Idle \/ op'.at = "next")
    <3>1. CASE op.kind = "resume"
      BY <1>7, <3>1 DEF Unpend
    <3>2. CASE op.kind # "resume"
      BY <1>7, <3>2 DEF Unpend
    <3> QED BY <3>1, <3>2
  <2> QED BY <1>7, <2>1 DEF Unpend
<1> QED BY <1>1, <1>2, <1>3, <1>4, <1>5, <1>6, <1>7 DEF DeleteStep

\* So does every failure.
LEMMA FaultTypeInv ==
  ASSUME TypeInv, Fault
  PROVE  TypeInv'
<1> USE DEF TypeInv, TypeOK, StepTyped, Ops, Steps, TxnSteps, RevSteps, Locals,
            Idle, Call, At, Busy, GoTo, Return, catalog, tree, journal
<1>1. CASE MediaLocked
  BY <1>1 DEF MediaLocked
<1>2. CASE Fail
  BY <1>2 DEF Fail, EnsureInstallEvent, InstallEventExists
<1>3. CASE Crash
  BY <1>3 DEF Crash
<1>4. CASE PowerLoss
  BY <1>4 DEF PowerLoss
<1> QED BY <1>1, <1>2, <1>3, <1>4 DEF Fault

\* So does everything the user does.
LEMMA UserTypeInv ==
  ASSUME TypeInv, User
  PROVE  TypeInv'
<1> USE DEF TypeInv, TypeOK, StepTyped, Ops, Steps, TxnSteps, RevSteps, Locals,
            Idle, Call, Free, catalog, tree, journal
<1>1. CASE Promote
  BY <1>1 DEF Promote, Ready
<1>2. ASSUME NEW r \in Locals, InstallBegin(r)
      PROVE  TypeInv'
  BY <1>2 DEF InstallBegin
<1>3. ASSUME NEW r \in Locals, RequestUninstall(r)
      PROVE  TypeInv'
  BY <1>3 DEF RequestUninstall
<1>4. ASSUME NEW r \in Revisions, Select(r)
      PROVE  TypeInv'
  BY <1>4 DEF Select, Ready
<1> QED BY <1>1, <1>2, <1>3, <1>4 DEF User

\* The types are an invariant of the steps.
LEMMA NextTypeInv == TypeInv /\ [Next]_vars => TypeInv'
<1> SUFFICES ASSUME TypeInv, [Next]_vars
             PROVE  TypeInv'
  OBVIOUS
<1>1. CASE Open
  <2> USE DEF TypeInv, TypeOK, StepTyped, Ops, Steps, TxnSteps, RevSteps, Locals,
              Idle, Call
  <2>1. op' \in Ops /\ op'.at \in {"next", "idle"}
    BY <1>1 DEF Open
  <2>2. app' \in {"opening", "degraded"}
    BY <1>1 DEF Open
  <2> QED BY <1>1, <2>1, <2>2 DEF Open, catalog, tree, journal
<1>2. CASE Proceed
  BY <1>2, InstallStepTypeInv, RecoverStepTypeInv, SharedStepTypeInv,
     DeleteStepTypeInv DEF Proceed
<1>3. CASE User
  BY <1>3, UserTypeInv
<1>4. CASE Fault
  BY <1>4, FaultTypeInv
<1>5. CASE Quit
  BY <1>5 DEF Quit, TypeInv, TypeOK, StepTyped, Ops, Locals, catalog, tree,
              journal
<1>6. CASE UNCHANGED vars
  BY <1>6 DEF vars, TypeInv, TypeOK, StepTyped, Ops, Locals, catalog, tree,
              journal
<1> QED BY <1>1, <1>2, <1>3, <1>4, <1>5, <1>6 DEF Next

\* Type correctness of the library model.
THEOREM TypeCorrect == Spec => []TypeOK
<1>1. Init => TypeInv
  BY InitTypeInv
<1>2. TypeInv /\ [Next]_vars => TypeInv'
  BY NextTypeInv
<1>3. TypeInv => TypeOK
  BY DEF TypeInv
<1> QED BY <1>1, <1>2, <1>3, PTL DEF Spec

\* An install publishes and never withdraws.
LEMMA InstallStepSelection ==
  ASSUME Inv, InstallStep
  PROVE  SelectionInv'
<1> USE DEF Inv, TypeInv, TypeOK, StepTyped, Ops, SelectionInv, SelectionReady,
            StepUnselected, Protected, Ready, Locals, TxnSteps, RevSteps, Idle,
            Call, At, Busy, GoTo, Return, catalog, tree, journal
<1>1. CASE Stage
  BY <1>1 DEF Stage
<1>2. CASE WriteReceipt
  BY <1>2 DEF WriteReceipt
<1>3. CASE WriteIntent
  BY <1>3 DEF WriteIntent
<1>4. CASE Publish
  BY <1>4 DEF Publish
<1>5. CASE Abandon
  BY <1>5 DEF Abandon
<1> QED BY <1>1, <1>2, <1>3, <1>4, <1>5 DEF InstallStep

\* A recovery only adds rows and media.
LEMMA RecoverStepSelection ==
  ASSUME Inv, RecoverStep
  PROVE  SelectionInv'
<1> USE DEF Inv, TypeInv, TypeOK, StepTyped, Ops, SelectionInv, SelectionReady,
            StepUnselected, Protected, Ready, Locals, TxnSteps, RevSteps, Idle,
            Call, At, Busy, GoTo, Return, catalog, tree, journal
<1>1. CASE RecoverNext
  BY <1>1 DEF RecoverNext, Branch
<1>2. CASE Restore
  BY <1>2 DEF Restore
<1>3. CASE CleanUp
  BY <1>3 DEF CleanUp
<1>4. CASE RecoverDone
  BY <1>4 DEF RecoverDone
<1> QED BY <1>1, <1>2, <1>3, <1>4 DEF RecoverStep

\* Neither do the steps it shares with a recovery.
LEMMA SharedStepSelection ==
  ASSUME Inv, SharedStep
  PROVE  SelectionInv'
<1> USE DEF Inv, TypeInv, TypeOK, StepTyped, Ops, SelectionInv, SelectionReady,
            StepUnselected, Protected, Ready, Locals, TxnSteps, RevSteps, Idle,
            Call, At, Busy, GoTo, Return, catalog, tree, journal
<1>1. CASE Commit
  BY <1>1 DEF Commit
<1>2. CASE Log
  BY <1>2 DEF Log
<1>3. CASE Unlink
  BY <1>3 DEF Unlink
<1> QED BY <1>1, <1>2, <1>3 DEF SharedStep

\* A deletion takes the media and the row of an unselected revision only.
LEMMA DeleteStepSelection ==
  ASSUME Inv, DeleteStep
  PROVE  SelectionInv'
<1> USE DEF Inv, TypeInv, TypeOK, StepTyped, Ops, SelectionInv, SelectionReady,
            StepUnselected, Protected, Ready, Locals, TxnSteps, RevSteps, Idle,
            Call, At, Busy, GoTo, Return, catalog, tree, journal
<1>1. CASE ResumeNext
  BY <1>1 DEF ResumeNext
<1>2. CASE ResumeDone
  BY <1>2 DEF ResumeDone
<1>3. CASE TrashMedia
  BY <1>3 DEF TrashMedia
<1>4. CASE DeleteRow
  BY <1>4 DEF DeleteRow
<1>5. CASE Tombstone
  BY <1>5 DEF Tombstone, AfterUninstall
<1>6. CASE Schedule
  BY <1>6 DEF Schedule
<1>7. CASE Unpend
  BY <1>7 DEF Unpend
<1> QED BY <1>1, <1>2, <1>3, <1>4, <1>5, <1>6, <1>7 DEF DeleteStep

\* A failure stops a call; a lost rename is one of an unselected revision.
LEMMA FaultSelection ==
  ASSUME Inv, Fault
  PROVE  SelectionInv'
<1> USE DEF Inv, TypeInv, TypeOK, StepTyped, Ops, SelectionInv, SelectionReady,
            StepUnselected, Protected, Ready, Locals, TxnSteps, RevSteps, Idle,
            Call, At, Busy, GoTo, Return, catalog, tree, journal
<1>1. CASE MediaLocked
  BY <1>1 DEF MediaLocked
<1>2. CASE Fail
  BY <1>2 DEF Fail
<1>3. CASE Crash
  BY <1>3 DEF Crash
<1>4. CASE PowerLoss
  BY <1>4 DEF PowerLoss
<1> QED BY <1>1, <1>2, <1>3, <1>4 DEF Fault

\* The user selects what is ready and deletes what is not selected.
LEMMA UserSelection ==
  ASSUME Inv, User
  PROVE  SelectionInv'
<1> USE DEF Inv, TypeInv, TypeOK, StepTyped, Ops, SelectionInv, SelectionReady,
            StepUnselected, Protected, Ready, Locals, Idle, Call, Free,
            catalog, tree, journal
<1>1. CASE Promote
  BY <1>1 DEF Promote
<1>2. ASSUME NEW r \in Locals, InstallBegin(r)
      PROVE  SelectionInv'
  BY <1>2 DEF InstallBegin
<1>3. ASSUME NEW r \in Locals, RequestUninstall(r)
      PROVE  SelectionInv'
  BY <1>3 DEF RequestUninstall
<1>4. ASSUME NEW r \in Revisions, Select(r)
      PROVE  SelectionInv'
  BY <1>4 DEF Select
<1> QED BY <1>1, <1>2, <1>3, <1>4 DEF User

\* The selection stays ready whatever the next step is.
LEMMA NextInv == Inv /\ [Next]_vars => Inv'
<1> SUFFICES ASSUME Inv, [Next]_vars
             PROVE  SelectionInv'
  BY NextTypeInv DEF Inv
<1> USE DEF Inv, SelectionInv, SelectionReady, StepUnselected, Protected, Ready,
            Idle, Call, catalog, tree, journal
<1>1. CASE Open
  BY <1>1 DEF Open
<1>2. CASE Proceed
  BY <1>2, InstallStepSelection, RecoverStepSelection, SharedStepSelection,
     DeleteStepSelection DEF Proceed
<1>3. CASE User
  BY <1>3, UserSelection
<1>4. CASE Fault
  BY <1>4, FaultSelection
<1>5. CASE Quit
  BY <1>5 DEF Quit
<1>6. CASE UNCHANGED vars
  BY <1>6 DEF vars
<1> QED BY <1>1, <1>2, <1>3, <1>4, <1>5, <1>6 DEF Next

\* ACTIVE and LAST-KNOWN-GOOD always name registered revisions with their
\* media, whatever fails, wherever the process is killed and whichever
\* revisions share a version slot.
THEOREM SelectionStaysReady == Spec => []SelectionReady
<1>1. Init => Inv
  BY InitTypeInv DEF Init, Inv, SelectionInv, SelectionReady, StepUnselected,
                     Protected, Idle, Call
<1>2. Inv /\ [Next]_vars => Inv'
  BY NextInv
<1>3. Inv => SelectionReady
  BY DEF Inv, SelectionInv
<1> QED BY <1>1, <1>2, <1>3, PTL DEF Spec

-----------------------------------------------------------------------------
(***************************************************************************)
(* The audit of installs and the bytes of a revision, whatever fails.      *)
(***************************************************************************)

\* The call goes on at another step with what it works on.
Goes(at) == op' \in Ops /\ op'.at = at /\ op'.kind = op.kind /\ op'.rev = op.rev /\ op'.txn = op.txn
            /\ op'.todo = op.todo

\* GoTo changes the step and nothing else.
LEMMA GoToGoes == ASSUME op \in Ops, NEW at \in Steps, GoTo(at) PROVE Goes(at)
BY DEF GoTo, Goes, Ops

\* No call is in progress.
LEMMA IdleOp == Idle \in Ops /\ Idle.at = "idle" /\ Idle.kind = "none"
BY DEF Idle, Call, Ops, Steps

\* What the line of an install adds to the journal: it is the first of its
\* transaction.
LEMMA EventEnsured ==
  ASSUME Inv, LoggedOnce, op.txn \in Txns, op.rev \in Locals, EnsureInstallEvent
  PROVE  /\ logged' \in [Txns -> Nat] /\ \A t \in Txns : t # op.txn => logged'[t] = logged[t]
         /\ logged'[op.txn] \in {logged[op.txn], 1}
         /\ \A r \in Revisions : r # op.rev => latest'[r] = latest[r]
         /\ latest'[op.rev] \in {latest[op.rev], "install"}
         /\ latest[op.rev] \in {"install", "legacy"} => latest'[op.rev] \in {"install", "legacy"}
         /\ logged'[op.txn] > 0 \/ latest'[op.rev] \in {"install", "legacy"}
         /\ logged'[op.txn] = logged[op.txn] \/ latest'[op.rev] \in {"install", "legacy"}
<1> USE DEF Inv, TypeInv, TypeOK, Locals
<1>1. CASE InstallEventExists(op.txn, op.rev) /\ UNCHANGED journal
  BY <1>1 DEF InstallEventExists, journal
<1>2. CASE /\ ~ InstallEventExists(op.txn, op.rev)
           /\ logged' = [logged EXCEPT ![op.txn] = @ + 1]
           /\ latest' = [latest EXCEPT ![op.rev] = "install"]
  <2>1. logged[op.txn] = 0
    BY <1>2 DEF InstallEventExists
  <2> QED  BY <1>2, <2>1
<1> QED  BY <1>1, <1>2 DEF EnsureInstallEvent

\* The staged copy of an install that nothing knows of yet.
LEMMA StageAudit ==
  ASSUME Inv, AuditInv, Stage
  PROVE  AuditInv'
<1> USE DEF Inv, AuditInv, TypeInv, TypeOK, StepTyped
<1>1. ASSUME /\ op.txn \in Txns /\ op.rev \in Locals
             /\ op.at = "stage" /\ Goes("receipt") /\ staged' = staged \cup {op.txn}
             /\ UNCHANGED <<rows, pendings, active, lkg, media, trash, receipts,
                            intents, logged, latest, revOf, app, crashes>>
      PROVE  AuditInv'
  <2>1. Standing'
    BY <1>1 DEF Standing, TxnSteps, Goes
  <2>2. LoggedOnce'
    BY <1>1 DEF LoggedOnce, Standing
  <2>3. Kept'
    BY <1>1 DEF Kept, Standing, TxnSteps
  <2>4. Told'
    BY <1>1 DEF Told, Claimed, Standing, TxnSteps
  <2>5. Claimed'
    BY <1>1 DEF Claimed, Standing, Goes, TxnSteps
  <2> QED  BY <2>1, <2>2, <2>3, <2>4, <2>5
<1> QED  BY <1>1, GoToGoes DEF Stage, At, TxnSteps, Steps, catalog, journal

\* The receipt comes before the intent.
LEMMA WriteReceiptAudit ==
  ASSUME Inv, AuditInv, WriteReceipt
  PROVE  AuditInv'
<1> USE DEF Inv, AuditInv, TypeInv, TypeOK, StepTyped
<1>1. ASSUME /\ op.txn \in Txns /\ op.rev \in Locals
             /\ op.at = "receipt" /\ Goes("intent")
             /\ UNCHANGED <<rows, pendings, active, lkg, media, trash, staged,
                            intents, logged, latest, revOf, app, crashes>>
      PROVE  AuditInv'
  <2>1. Standing'
    BY <1>1 DEF Standing, TxnSteps, Goes
  <2>2. LoggedOnce'
    BY <1>1 DEF LoggedOnce, Standing
  <2>3. Kept'
    BY <1>1 DEF Kept, Standing, TxnSteps
  <2>4. Told'
    BY <1>1 DEF Told, Claimed, Standing, TxnSteps
  <2>5. Claimed'
    BY <1>1 DEF Claimed, Standing, Goes, TxnSteps
  <2> QED  BY <2>1, <2>2, <2>3, <2>4, <2>5
<1> QED  BY <1>1, GoToGoes DEF WriteReceipt, At, TxnSteps, Steps, catalog, journal

\* From the intent on the transaction is known to a recovery.
LEMMA WriteIntentAudit ==
  ASSUME Inv, AuditInv, WriteIntent
  PROVE  AuditInv'
<1> USE DEF Inv, AuditInv, TypeInv, TypeOK, StepTyped
<1>1. ASSUME /\ op.txn \in Txns /\ op.rev \in Locals
             /\ op.at = "intent" /\ Goes("publish") /\ intents' = intents \cup {op.txn}
             /\ UNCHANGED <<rows, pendings, active, lkg, media, trash, staged,
                            receipts, logged, latest, revOf, app, crashes>>
      PROVE  AuditInv'
  <2>1. Standing'
    BY <1>1 DEF Standing, TxnSteps, Goes
  <2>2. LoggedOnce'
    BY <1>1 DEF LoggedOnce, Standing
  <2>3. Kept'
    BY <1>1 DEF Kept, Standing, TxnSteps
  <2>4. Told'
    BY <1>1 DEF Told, Claimed, Standing, TxnSteps
  <2>5. Claimed'
    BY <1>1 DEF Claimed, Standing, Goes, TxnSteps
  <2> QED  BY <2>1, <2>2, <2>3, <2>4, <2>5
<1> QED  BY <1>1, GoToGoes DEF WriteIntent, At, TxnSteps, Steps, catalog, journal

\* The target is claimed by the intent.
LEMMA PublishAudit ==
  ASSUME Inv, AuditInv, Publish
  PROVE  AuditInv'
<1> USE DEF Inv, AuditInv, TypeInv, TypeOK, StepTyped
<1>1. ASSUME /\ op.txn \in Txns /\ op.rev \in Locals
             /\ op.at = "publish"
             /\ op.rev \in media
             /\ Goes("abandon")
             /\ staged' = staged \ {op.txn}
             /\ UNCHANGED <<rows, pendings, active, lkg, media, trash, receipts,
                            intents, logged, latest, revOf, app, crashes>>
      PROVE  AuditInv'
  <2>1. Standing'
    BY <1>1 DEF Standing, TxnSteps, Goes
  <2>2. LoggedOnce'
    BY <1>1 DEF LoggedOnce, Standing
  <2>3. Kept'
    BY <1>1 DEF Kept, Standing, TxnSteps
  <2>4. Told'
    BY <1>1 DEF Told, Claimed, Standing, TxnSteps
  <2>5. Claimed'
    BY <1>1 DEF Claimed, Standing, Goes, TxnSteps
  <2> QED  BY <2>1, <2>2, <2>3, <2>4, <2>5
<1>2. ASSUME /\ op.txn \in Txns /\ op.rev \in Locals
             /\ op.at = "publish"
             /\ op.rev \notin media
             /\ Goes("commit")
             /\ staged' = staged \ {op.txn}
             /\ media' = media \cup {op.rev}
             /\ UNCHANGED <<rows, pendings, active, lkg, trash, receipts, intents,
                            logged, latest, revOf, app, crashes>>
      PROVE  AuditInv'
  <2>1. Standing'
    BY <1>2 DEF Standing, TxnSteps, Goes
  <2>2. LoggedOnce'
    BY <1>2 DEF LoggedOnce, Standing
  <2>3. Kept'
    BY <1>2 DEF Kept, Standing, TxnSteps
  <2>4. Told'
    BY <1>2 DEF Told, Claimed, Standing, TxnSteps
  <2>5. Claimed'
    BY <1>2 DEF Claimed, Standing, Goes, TxnSteps
  <2> QED  BY <2>1, <2>2, <2>3, <2>4, <2>5
<1>3. op.txn \in Txns /\ op.rev \in Locals
  BY DEF Publish, At, TxnSteps
<1>4. CASE op.rev \in media
  BY <1>1, <1>3, <1>4, GoToGoes DEF Publish, At, Steps, catalog, journal
<1>5. CASE op.rev \notin media
  BY <1>2, <1>3, <1>5, GoToGoes DEF Publish, At, Steps, catalog, journal
<1> QED  BY <1>4, <1>5

\* A target that was there before belongs to another intent.
LEMMA AbandonAudit ==
  ASSUME Inv, AuditInv, Abandon
  PROVE  AuditInv'
<1> USE DEF Inv, AuditInv, TypeInv, TypeOK, StepTyped
<1>1. ASSUME /\ op.txn \in Txns /\ op.rev \in Locals
             /\ op.at = "abandon" /\ op' = Idle /\ intents' = intents \ {op.txn}
             /\ UNCHANGED <<rows, pendings, active, lkg, media, trash, staged,
                            receipts, logged, latest, revOf, app, crashes>>
      PROVE  AuditInv'
  <2>1. op'.at = "idle" /\ op'.kind = "none"
    BY <1>1, IdleOp
  <2>2. Standing'
    BY <1>1, <2>1 DEF Standing, TxnSteps
  <2>3. LoggedOnce'
    BY <1>1, <2>1 DEF LoggedOnce, Standing
  <2>4. Kept'
    BY <1>1, <2>1 DEF Kept, Standing, TxnSteps
  <2>5. Told'
    BY <1>1, <2>1 DEF Told, Claimed, Standing, TxnSteps
  <2>6. Claimed'
    BY <1>1, <2>1 DEF Claimed, Standing, TxnSteps
  <2> QED  BY <2>2, <2>3, <2>4, <2>5, <2>6
<1> QED  BY <1>1 DEF Abandon, At, Return, TxnSteps, catalog, journal

\* The row of what is published.
LEMMA CommitAudit ==
  ASSUME Inv, AuditInv, Commit
  PROVE  AuditInv'
<1> USE DEF Inv, AuditInv, TypeInv, TypeOK, StepTyped
<1>1. ASSUME /\ op.txn \in Txns /\ op.rev \in Locals
             /\ op.at = "commit" /\ Goes("log") /\ rows' = rows \cup {op.rev}
             /\ UNCHANGED <<pendings, active, lkg, media, trash, staged, receipts,
                            intents, logged, latest, revOf, app, crashes>>
      PROVE  AuditInv'
  <2>1. Standing'
    BY <1>1 DEF Standing, TxnSteps, Goes
  <2>2. LoggedOnce'
    BY <1>1 DEF LoggedOnce, Standing
  <2>3. Kept'
    BY <1>1 DEF Kept, Standing, TxnSteps
  <2>4. Told'
    BY <1>1 DEF Told, Claimed, Standing, TxnSteps
  <2>5. Claimed'
    BY <1>1 DEF Claimed, Standing, Goes, TxnSteps
  <2> QED  BY <2>1, <2>2, <2>3, <2>4, <2>5
<1> QED  BY <1>1, GoToGoes DEF Commit, At, TxnSteps, Steps, tree, journal

\* The line of the row.
LEMMA LogAudit ==
  ASSUME Inv, AuditInv, Log
  PROVE  AuditInv'
<1> USE DEF Inv, AuditInv, TypeInv, TypeOK, StepTyped
<1>1. ASSUME /\ op.txn \in Txns /\ op.rev \in Locals
             /\ op.at \in {"log", "relog"}
             /\ Goes(IF op.at = "log" THEN "unlink" ELSE "cleanup")
             /\ logged'[op.txn] > 0 \/ latest'[op.rev] \in {"install", "legacy"}
             /\ logged' \in [Txns -> Nat] /\ \A t \in Txns : t # op.txn => logged'[t] = logged[t]
             /\ logged'[op.txn] \in {logged[op.txn], 1}
             /\ \A r \in Revisions : r # op.rev => latest'[r] = latest[r]
             /\ latest'[op.rev] \in {latest[op.rev], "install"}
             /\ latest[op.rev] \in {"install", "legacy"} => latest'[op.rev] \in {"install", "legacy"}
             /\ logged'[op.txn] = logged[op.txn] \/ latest'[op.rev] \in {"install", "legacy"}
             /\ UNCHANGED <<rows, pendings, active, lkg, media, trash, staged,
                            receipts, intents, revOf, app, crashes>>
      PROVE  AuditInv'
  <2>1. op.rev \in rows /\ revOf[op.txn] = op.rev /\ op.rev # None
    BY <1>1 DEF Standing, TxnSteps, Locals
  <2>2. \A r \in Locals : r # op.rev => latest'[r] = latest[r]
    BY <1>1 DEF Locals
  <2>3. Standing'
    BY <1>1, <2>1, <2>2 DEF Standing, TxnSteps, Goes
  <2>4. LoggedOnce'
    BY <1>1, <2>1, <2>2 DEF LoggedOnce, Standing
  <2>5. Kept'
    BY <1>1, <2>1, <2>2 DEF Kept, Standing, TxnSteps
  <2>6. Told'
    BY <1>1, <2>1, <2>2 DEF Told, Claimed, Standing, TxnSteps
  <2>7. Claimed'
    BY <1>1, <2>1, <2>2 DEF Claimed, Standing, Goes, TxnSteps
  <2> QED  BY <2>3, <2>4, <2>5, <2>6, <2>7
<1>2. op.txn \in Txns /\ op.rev \in Locals
  BY DEF Log, TxnSteps
<1>3. Goes(IF op.at = "log" THEN "unlink" ELSE "cleanup")
  BY GoToGoes DEF Log, Steps
<1> QED  BY <1>1, <1>2, <1>3, EventEnsured DEF Log, catalog, tree

\* An intent goes when its line is there, or when it was rolled back.
LEMMA UnlinkAudit ==
  ASSUME Inv, AuditInv, Unlink
  PROVE  AuditInv'
<1> USE DEF Inv, AuditInv, TypeInv, TypeOK, StepTyped
<1>1. ASSUME /\ op.txn \in Txns /\ op.rev \in Locals
             /\ op.at \in {"unlink", "forget"}
             /\ op' \in Ops
             /\ op'.at \in {"next", "idle"}
             /\ op'.kind \in {"recover", "none"} /\ intents' = intents \ {op.txn}
             /\ UNCHANGED <<rows, pendings, active, lkg, media, trash, staged,
                            receipts, logged, latest, revOf, app, crashes>>
      PROVE  AuditInv'
  <2>1. Standing'
    BY <1>1 DEF Standing, TxnSteps
  <2>2. LoggedOnce'
    BY <1>1 DEF LoggedOnce, Standing
  <2>3. Kept'
    BY <1>1 DEF Kept, Standing, TxnSteps
  <2>4. Told'
    BY <1>1 DEF Told, Claimed, Standing, TxnSteps
  <2>5. Claimed'
    BY <1>1 DEF Claimed, Standing, TxnSteps
  <2> QED  BY <2>1, <2>2, <2>3, <2>4, <2>5
<1>2. op.txn \in Txns /\ op.rev \in Locals
  BY DEF Unlink, TxnSteps
<1>3. op' \in Ops /\ op'.at \in {"next", "idle"} /\ op'.kind \in {"recover", "none"}
  <2>1. CASE /\ op' = [op EXCEPT !.at = "next", !.rev = None, !.txn = None]
             /\ op.kind = "recover"
    BY <2>1 DEF Ops, Steps
  <2>2. CASE op' = Idle
    BY <2>2, IdleOp
  <2> QED  BY <2>1, <2>2 DEF Unlink
<1> QED  BY <1>1, <1>2, <1>3 DEF Unlink, catalog, journal

\* Each branch of the recovery finds what it assumes.
LEMMA RecoverNextAudit ==
  ASSUME Inv, AuditInv, RecoverNext
  PROVE  AuditInv'
<1> USE DEF Inv, AuditInv, TypeInv, TypeOK, StepTyped
<1>1. ASSUME NEW t, NEW at,
             /\ t \in intents /\ op.kind = "recover" /\ IntentValid(t)
             /\ at = Branch(revOf[t] \in media, revOf[t] \in rows)
             /\ op' \in Ops
             /\ op'.at = at
             /\ op'.kind = "recover"
             /\ op'.rev = revOf[t]
             /\ op'.txn = t
             /\ UNCHANGED <<rows, pendings, active, lkg, media, trash, staged,
                            receipts, intents, logged, latest, revOf, app, crashes>>
      PROVE  AuditInv'
  <2>1. Standing'
    BY <1>1 DEF Standing, TxnSteps, Branch
  <2>2. LoggedOnce'
    BY <1>1 DEF LoggedOnce, Standing
  <2>3. Kept'
    BY <1>1 DEF Kept, Standing, TxnSteps
  <2>4. Told'
    BY <1>1 DEF Told, Claimed, Standing, TxnSteps
  <2>5. Claimed'
    BY <1>1 DEF Claimed, Branch
  <2> QED  BY <2>1, <2>2, <2>3, <2>4, <2>5
<1>2. PICK t \in intents : /\ IntentValid(t)
          /\ op' = [op EXCEPT !.rev = revOf[t], !.txn = t,
                              !.at = Branch(revOf[t] \in media, revOf[t] \in rows)]
  BY DEF RecoverNext
<1> DEFINE at == Branch(revOf[t] \in media, revOf[t] \in rows)
<1>3. at \in Steps
  BY DEF Branch, Steps
<1>4. revOf[t] \in Locals /\ t \in Txns /\ op.kind = "recover"
  BY DEF RecoverNext, Busy
<1>5. /\ op' \in Ops
      /\ op'.at = at
      /\ op'.kind = "recover"
      /\ op'.rev = revOf[t]
      /\ op'.txn = t
  <2> HIDE DEF at
  <2>1. op' = [op EXCEPT !.rev = revOf[t], !.txn = t, !.at = at]
    BY <1>2 DEF at
  <2>2. op = [kind |-> op.kind, at |-> op.at, rev |-> op.rev, txn |-> op.txn, todo |-> op.todo]
        /\ op.todo \in SUBSET Locals
    BY DEF Ops
  <2>3. op' = [kind |-> "recover", at |-> at, rev |-> revOf[t], txn |-> t, todo |-> op.todo]
    BY <1>4, <2>1, <2>2
  <2>4. revOf[t] \in Revisions \cup {None}
    BY <1>4 DEF Locals
  <2> QED  BY <1>3, <1>4, <2>2, <2>3, <2>4 DEF Ops
<1> HIDE DEF at
<1>6. at = Branch(revOf[t] \in media, revOf[t] \in rows)
  BY DEF at
<1> QED  BY <1>1, <1>2, <1>4, <1>5, <1>6 DEF RecoverNext, catalog, tree, journal

\* The staged copy replaces the lost one.
LEMMA RestoreAudit ==
  ASSUME Inv, AuditInv, Restore
  PROVE  AuditInv'
<1> USE DEF Inv, AuditInv, TypeInv, TypeOK, StepTyped
<1>1. ASSUME /\ op.txn \in Txns /\ op.rev \in Locals
             /\ op.at = "restore" /\ Goes("log") /\ staged' = staged \ {op.txn}
             /\ media' = media \cup {op.rev}
             /\ UNCHANGED <<rows, pendings, active, lkg, trash, receipts, intents,
                            logged, latest, revOf, app, crashes>>
      PROVE  AuditInv'
  <2>1. Standing'
    BY <1>1 DEF Standing, TxnSteps, Goes
  <2>2. LoggedOnce'
    BY <1>1 DEF LoggedOnce, Standing
  <2>3. Kept'
    BY <1>1 DEF Kept, Standing, TxnSteps
  <2>4. Told'
    BY <1>1 DEF Told, Claimed, Standing, TxnSteps
  <2>5. Claimed'
    BY <1>1 DEF Claimed, Standing, Goes, TxnSteps
  <2> QED  BY <2>1, <2>2, <2>3, <2>4, <2>5
<1> QED  BY <1>1, GoToGoes DEF Restore, At, TxnSteps, Steps, catalog, journal

\* A second copy is cleaned up, or left behind.
LEMMA CleanUpAudit ==
  ASSUME Inv, AuditInv, CleanUp
  PROVE  AuditInv'
<1> USE DEF Inv, AuditInv, TypeInv, TypeOK, StepTyped
<1>1. ASSUME /\ op.txn \in Txns /\ op.rev \in Locals
             /\ op.at \in {"cleanup", "rollback"}
             /\ staged' \in {staged, staged \ {op.txn}}
             /\ Goes(IF op.at = "cleanup" THEN "unlink" ELSE "forget")
             /\ UNCHANGED <<rows, pendings, active, lkg, media, trash, receipts,
                            intents, logged, latest, revOf, app, crashes>>
      PROVE  AuditInv'
  <2>1. Standing'
    BY <1>1 DEF Standing, TxnSteps, Goes
  <2>2. LoggedOnce'
    BY <1>1 DEF LoggedOnce, Standing
  <2>3. Kept'
    BY <1>1 DEF Kept, Standing, TxnSteps
  <2>4. Told'
    BY <1>1 DEF Told, Claimed, Standing, TxnSteps
  <2>5. Claimed'
    BY <1>1 DEF Claimed, Standing, Goes, TxnSteps
  <2> QED  BY <2>1, <2>2, <2>3, <2>4, <2>5
<1>2. Goes(IF op.at = "cleanup" THEN "unlink" ELSE "forget")
  BY GoToGoes DEF CleanUp, Steps
<1> QED  BY <1>1, <1>2 DEF CleanUp, TxnSteps, catalog, journal

\* The builtin revisions are no transaction.
LEMMA RecoverDoneAudit ==
  ASSUME Inv, AuditInv, RecoverDone
  PROVE  AuditInv'
<1> USE DEF Inv, AuditInv, TypeInv, TypeOK, StepTyped
<1>1. ASSUME /\ intents = {}
             /\ op'.at = "next"
             /\ op'.kind = "resume"
             /\ rows' = rows \cup Builtins
             /\ UNCHANGED <<pendings, active, lkg, media, trash, staged, receipts,
                            intents, logged, latest, revOf, app, crashes>>
      PROVE  AuditInv'
  <2>1. \A r \in Locals : r \in rows' <=> r \in rows
    BY <1>1 DEF Locals
  <2>2. Standing'
    BY <1>1, <2>1 DEF Standing, TxnSteps
  <2>3. LoggedOnce'
    BY <1>1, <2>1 DEF LoggedOnce, Standing
  <2>4. Kept'
    BY <1>1, <2>1 DEF Kept, Standing, TxnSteps
  <2>5. Told'
    BY <1>1, <2>1 DEF Told, Claimed, Standing, TxnSteps
  <2>6. Claimed'
    BY <1>1, <2>1 DEF Claimed, Standing, TxnSteps
  <2> QED  BY <2>2, <2>3, <2>4, <2>5, <2>6
<1> QED  BY <1>1 DEF RecoverDone, Busy, Call, tree, journal

\* A resumed deletion finds the row and its bytes.
LEMMA ResumeNextAudit ==
  ASSUME Inv, AuditInv, ResumeNext
  PROVE  AuditInv'
<1> USE DEF Inv, AuditInv, TypeInv, TypeOK, StepTyped
<1>1. ASSUME NEW r, NEW at,
             /\ r \in Locals /\ op.kind = "resume"
             /\ at \in {"withdraw", "trash", "unpend"} /\ (at = "trash" => r \in rows)
             /\ op'.at = at /\ op'.kind = "resume" /\ op'.rev = r
             /\ UNCHANGED <<rows, pendings, active, lkg, media, trash, staged,
                            receipts, intents, logged, latest, revOf, app, crashes>>
      PROVE  AuditInv'
  <2>1. Standing'
    BY <1>1 DEF Standing, TxnSteps, Kept
  <2>2. LoggedOnce'
    BY <1>1 DEF LoggedOnce, Standing
  <2>3. Kept'
    BY <1>1 DEF Kept, Standing, TxnSteps
  <2>4. Told'
    BY <1>1 DEF Told, Claimed, Standing, TxnSteps
  <2>5. Claimed'
    BY <1>1 DEF Claimed, Standing, TxnSteps
  <2> QED  BY <2>1, <2>2, <2>3, <2>4, <2>5
<1>2. PICK r \in op.todo, at \in {"withdraw", "trash", "unpend"} :
          /\ op' = [op EXCEPT !.rev = r, !.todo = @ \ {r}, !.at = at]
          /\ at = "trash" => r \in rows
  BY DEF ResumeNext
<1>3. r \in Locals /\ op.kind = "resume"
  BY DEF ResumeNext, Busy, Ops
<1>4. op'.at = at /\ op'.kind = "resume" /\ op'.rev = r
  BY <1>2, <1>3 DEF Ops
<1> QED  BY <1>1, <1>2, <1>3, <1>4 DEF ResumeNext, catalog, tree, journal

\* The program is up.
LEMMA ResumeDoneAudit ==
  ASSUME Inv, AuditInv, ResumeDone
  PROVE  AuditInv'
<1> USE DEF Inv, AuditInv, TypeInv, TypeOK, StepTyped
<1>1. ASSUME /\ op'.at = "idle" /\ op'.kind = "none"
             /\ UNCHANGED <<rows, pendings, active, lkg, media, trash, staged,
                            receipts, intents, logged, latest, revOf, crashes>>
      PROVE  AuditInv'
  <2>1. Standing'
    BY <1>1 DEF Standing, TxnSteps
  <2>2. LoggedOnce'
    BY <1>1 DEF LoggedOnce, Standing
  <2>3. Kept'
    BY <1>1 DEF Kept, Standing, TxnSteps
  <2>4. Told'
    BY <1>1 DEF Told, Claimed, Standing, TxnSteps
  <2>5. Claimed'
    BY <1>1 DEF Claimed, Standing, TxnSteps
  <2> QED  BY <2>1, <2>2, <2>3, <2>4, <2>5
<1> QED  BY <1>1, IdleOp DEF ResumeDone, Return, catalog, tree, journal

\* The media are moved, not removed.
LEMMA TrashMediaAudit ==
  ASSUME Inv, AuditInv, TrashMedia
  PROVE  AuditInv'
<1> USE DEF Inv, AuditInv, TypeInv, TypeOK, StepTyped
<1>1. ASSUME /\ op.at = "trash" /\ op.rev \in Locals /\ Goes("delete")
             /\ trash' = trash \cup ({op.rev} \cap media) /\ media' = media \ {op.rev}
             /\ UNCHANGED <<rows, pendings, active, lkg, staged, receipts, intents,
                            logged, latest, revOf, app, crashes>>
      PROVE  AuditInv'
  <2>1. Standing'
    BY <1>1 DEF Standing, TxnSteps, Goes
  <2>2. LoggedOnce'
    BY <1>1 DEF LoggedOnce, Standing
  <2>3. Kept'
    BY <1>1 DEF Kept, Standing, TxnSteps
  <2>4. Told'
    BY <1>1 DEF Told, Claimed, Standing, TxnSteps
  <2>5. Claimed'
    BY <1>1 DEF Claimed, Standing, Goes, TxnSteps
  <2> QED  BY <2>1, <2>2, <2>3, <2>4, <2>5
<1> QED  BY <1>1, GoToGoes DEF TrashMedia, At, RevSteps, Steps, catalog, journal

\* The row goes when the bytes are in the trash.
LEMMA DeleteRowAudit ==
  ASSUME Inv, AuditInv, DeleteRow
  PROVE  AuditInv'
<1> USE DEF Inv, AuditInv, TypeInv, TypeOK, StepTyped
<1>1. ASSUME /\ op.at = "delete" /\ op.rev \in Locals /\ Goes("tombstone")
             /\ rows' = rows \ {op.rev}
             /\ UNCHANGED <<pendings, active, lkg, media, trash, staged, receipts,
                            intents, logged, latest, revOf, app, crashes>>
      PROVE  AuditInv'
  <2>1. Standing'
    BY <1>1 DEF Standing, TxnSteps, Goes
  <2>2. LoggedOnce'
    BY <1>1 DEF LoggedOnce, Standing
  <2>3. Kept'
    BY <1>1 DEF Kept, Standing, TxnSteps
  <2>4. Told'
    BY <1>1 DEF Told, Claimed, Standing, TxnSteps
  <2>5. Claimed'
    BY <1>1 DEF Claimed, Standing, Goes, TxnSteps
  <2> QED  BY <2>1, <2>2, <2>3, <2>4, <2>5
<1> QED  BY <1>1, GoToGoes DEF DeleteRow, At, RevSteps, Steps, tree, journal

\* A tombstone is of an unlisted revision.
LEMMA TombstoneAudit ==
  ASSUME Inv, AuditInv, Tombstone
  PROVE  AuditInv'
<1> USE DEF Inv, AuditInv, TypeInv, TypeOK, StepTyped
<1>1. ASSUME /\ op.at = "tombstone" /\ op.rev \in Locals /\ op'.at \in {"idle", "unpend"}
             /\ op'.kind \in {"none", "resume"}
             /\ (op'.kind = "resume" => op.kind = "resume")
             /\ latest' = [latest EXCEPT ![op.rev] = "trash"]
             /\ UNCHANGED <<rows, pendings, active, lkg, media, trash, staged,
                            receipts, intents, logged, revOf, app, crashes>>
      PROVE  AuditInv'
  <2>1. Standing'
    BY <1>1 DEF Standing, TxnSteps
  <2>2. LoggedOnce'
    BY <1>1 DEF LoggedOnce, Standing
  <2>3. Kept'
    BY <1>1 DEF Kept, Standing, TxnSteps
  <2>4. Told'
    BY <1>1 DEF Told, Claimed, Standing, TxnSteps
  <2>5. Claimed'
    BY <1>1 DEF Claimed, Standing, TxnSteps
  <2> QED  BY <2>1, <2>2, <2>3, <2>4, <2>5
<1>2. /\ op'.at \in {"idle", "unpend"}
      /\ op'.kind \in {"none", "resume"}
      /\ (op'.kind = "resume" => op.kind = "resume")
  BY IdleOp DEF Tombstone, AfterUninstall, Ops
<1> QED  BY <1>1, <1>2 DEF Tombstone, At, RevSteps, catalog, tree

\* A schedule touches neither files nor journal.
LEMMA ScheduleAudit ==
  ASSUME Inv, AuditInv, Schedule
  PROVE  AuditInv'
<1> USE DEF Inv, AuditInv, TypeInv, TypeOK, StepTyped
<1>1. ASSUME /\ op'.at = "idle" /\ op'.kind = "none"
             /\ UNCHANGED <<rows, active, lkg, media, trash, staged, receipts,
                            intents, logged, latest, revOf, app, crashes>>
      PROVE  AuditInv'
  <2>1. Standing'
    BY <1>1 DEF Standing, TxnSteps
  <2>2. LoggedOnce'
    BY <1>1 DEF LoggedOnce, Standing
  <2>3. Kept'
    BY <1>1 DEF Kept, Standing, TxnSteps
  <2>4. Told'
    BY <1>1 DEF Told, Claimed, Standing, TxnSteps
  <2>5. Claimed'
    BY <1>1 DEF Claimed, Standing, TxnSteps
  <2> QED  BY <2>1, <2>2, <2>3, <2>4, <2>5
<1> QED  BY <1>1, IdleOp DEF Schedule, Return, tree, journal

\* Nor does its withdrawal.
LEMMA UnpendAudit ==
  ASSUME Inv, AuditInv, Unpend
  PROVE  AuditInv'
<1> USE DEF Inv, AuditInv, TypeInv, TypeOK, StepTyped
<1>1. ASSUME /\ op'.at \in {"idle", "next"}
             /\ op'.kind \in {"none", "resume"}
             /\ (op'.kind = "resume" => op.kind = "resume")
             /\ UNCHANGED <<rows, active, lkg, media, trash, staged, receipts,
                            intents, logged, latest, revOf, app, crashes>>
      PROVE  AuditInv'
  <2>1. Standing'
    BY <1>1 DEF Standing, TxnSteps
  <2>2. LoggedOnce'
    BY <1>1 DEF LoggedOnce, Standing
  <2>3. Kept'
    BY <1>1 DEF Kept, Standing, TxnSteps
  <2>4. Told'
    BY <1>1 DEF Told, Claimed, Standing, TxnSteps
  <2>5. Claimed'
    BY <1>1 DEF Claimed, Standing, TxnSteps
  <2> QED  BY <2>1, <2>2, <2>3, <2>4, <2>5
<1>2. /\ op'.at \in {"idle", "next"}
      /\ op'.kind \in {"none", "resume"}
      /\ (op'.kind = "resume" => op.kind = "resume")
  BY IdleOp DEF Unpend, Ops
<1> QED  BY <1>1, <1>2 DEF Unpend, tree, journal

\* An install has a transaction of its own.
LEMMA InstallBeginAudit ==
  ASSUME Inv, AuditInv, NEW r \in Locals, InstallBegin(r)
  PROVE  AuditInv'
<1> USE DEF Inv, AuditInv, TypeInv, TypeOK, StepTyped
<1>1. ASSUME NEW t,
             /\ t \in Txns /\ revOf[t] = None /\ r \notin rows
             /\ revOf' = [revOf EXCEPT ![t] = r]
             /\ op'.at = "stage" /\ op'.kind = "install" /\ op'.rev = r /\ op'.txn = t
             /\ UNCHANGED <<rows, pendings, active, lkg, media, trash, staged,
                            receipts, intents, logged, latest, app, crashes>>
      PROVE  AuditInv'
  <2>1. t \notin intents /\ logged[t] = 0
    BY <1>1 DEF LoggedOnce, Locals
  <2>2. Standing'
    BY <1>1, <2>1 DEF Standing, TxnSteps
  <2>3. LoggedOnce'
    BY <1>1, <2>1 DEF LoggedOnce, Standing
  <2>4. Kept'
    BY <1>1, <2>1 DEF Kept, Standing, TxnSteps
  <2>5. Told'
    BY <1>1, <2>1 DEF Told, Claimed, Standing, TxnSteps
  <2>6. Claimed'
    BY <1>1, <2>1 DEF Claimed, Standing, TxnSteps
  <2> QED  BY <2>2, <2>3, <2>4, <2>5, <2>6
<1>2. r \notin rows /\ UNCHANGED <<catalog, tree, journal, app, crashes>>
  BY DEF InstallBegin
<1>3. PICK t \in Txns :
          /\ revOf[t] = None
          /\ revOf' = [revOf EXCEPT ![t] = r]
          /\ op' = [kind |-> "install", at |-> "stage", rev |-> r, txn |-> t,
                     todo |-> {}]
  BY DEF InstallBegin
<1>4. op'.at = "stage" /\ op'.kind = "install" /\ op'.rev = r /\ op'.txn = t
  BY <1>3
<1> QED  BY <1>1, <1>2, <1>3, <1>4 DEF catalog, tree, journal

\* A deletion is of a revision with media.
LEMMA RequestUninstallAudit ==
  ASSUME Inv, AuditInv, NEW r \in Locals, RequestUninstall(r)
  PROVE  AuditInv'
<1> USE DEF Inv, AuditInv, TypeInv, TypeOK, StepTyped
<1>1. ASSUME /\ r \in media /\ op'.at = "trash" /\ op'.kind = "request" /\ op'.rev = r
             /\ UNCHANGED <<rows, pendings, active, lkg, media, trash, staged,
                            receipts, intents, logged, latest, revOf, app, crashes>>
      PROVE  AuditInv'
  <2>1. Standing'
    BY <1>1 DEF Standing, TxnSteps
  <2>2. LoggedOnce'
    BY <1>1 DEF LoggedOnce, Standing
  <2>3. Kept'
    BY <1>1 DEF Kept, Standing, TxnSteps
  <2>4. Told'
    BY <1>1 DEF Told, Claimed, Standing, TxnSteps
  <2>5. Claimed'
    BY <1>1 DEF Claimed, Standing, TxnSteps
  <2> QED  BY <2>1, <2>2, <2>3, <2>4, <2>5
<1> QED  BY <1>1 DEF RequestUninstall, Ready, Locals, Call, catalog, tree, journal

\* A choice touches neither files nor journal.
LEMMA SelectAudit ==
  ASSUME Inv, AuditInv, NEW r \in Revisions, Select(r)
  PROVE  AuditInv'
<1> USE DEF Inv, AuditInv, TypeInv, TypeOK, StepTyped
<1>1. ASSUME /\ op'.at \in {"idle", "withdraw"} /\ op'.kind \in {"none", "select"}
             /\ UNCHANGED <<rows, pendings, lkg, media, trash, staged, receipts,
                            intents, logged, latest, revOf, app, crashes>>
      PROVE  AuditInv'
  <2>1. Standing'
    BY <1>1 DEF Standing, TxnSteps
  <2>2. LoggedOnce'
    BY <1>1 DEF LoggedOnce, Standing
  <2>3. Kept'
    BY <1>1 DEF Kept, Standing, TxnSteps
  <2>4. Told'
    BY <1>1 DEF Told, Claimed, Standing, TxnSteps
  <2>5. Claimed'
    BY <1>1 DEF Claimed, Standing, TxnSteps
  <2> QED  BY <2>1, <2>2, <2>3, <2>4, <2>5
<1>2. op'.at \in {"idle", "withdraw"} /\ op'.kind \in {"none", "select"}
  BY IdleOp DEF Select, Call
<1> QED  BY <1>1, <1>2 DEF Select, tree, journal

\* Nor does the restore basis.
LEMMA PromoteAudit ==
  ASSUME Inv, AuditInv, Promote
  PROVE  AuditInv'
<1> USE DEF Inv, AuditInv, TypeInv, TypeOK, StepTyped
<1>1. ASSUME /\ UNCHANGED <<rows, pendings, active, media, trash, staged, receipts,
                            intents, logged, latest, revOf, app, op, crashes>>
      PROVE  AuditInv'
  <2>1. Standing'
    BY <1>1 DEF Standing, TxnSteps
  <2>2. LoggedOnce'
    BY <1>1 DEF LoggedOnce, Standing
  <2>3. Kept'
    BY <1>1 DEF Kept, Standing, TxnSteps
  <2>4. Told'
    BY <1>1 DEF Told, Claimed, Standing, TxnSteps
  <2>5. Claimed'
    BY <1>1 DEF Claimed, Standing, TxnSteps
  <2> QED  BY <2>1, <2>2, <2>3, <2>4, <2>5
<1> QED  BY <1>1 DEF Promote, tree, journal

\* A start reads what was left behind.
LEMMA OpenAudit ==
  ASSUME Inv, AuditInv, Open
  PROVE  AuditInv'
<1> USE DEF Inv, AuditInv, TypeInv, TypeOK, StepTyped
<1>1. ASSUME /\ op'.at \in {"idle", "next"} /\ op'.kind \in {"none", "recover"}
             /\ UNCHANGED <<rows, pendings, active, lkg, media, trash, staged,
                            receipts, intents, logged, latest, revOf, crashes>>
      PROVE  AuditInv'
  <2>1. Standing'
    BY <1>1 DEF Standing, TxnSteps
  <2>2. LoggedOnce'
    BY <1>1 DEF LoggedOnce, Standing
  <2>3. Kept'
    BY <1>1 DEF Kept, Standing, TxnSteps
  <2>4. Told'
    BY <1>1 DEF Told, Claimed, Standing, TxnSteps
  <2>5. Claimed'
    BY <1>1 DEF Claimed, Standing, TxnSteps
  <2> QED  BY <2>1, <2>2, <2>3, <2>4, <2>5
<1>2. op'.at \in {"idle", "next"} /\ op'.kind \in {"none", "recover"}
  BY IdleOp DEF Open, Call
<1> QED  BY <1>1, <1>2 DEF Open, catalog, tree, journal

\* A locked file stays where it is, perhaps with a copy in the trash.
LEMMA MediaLockedAudit ==
  ASSUME Inv, AuditInv, MediaLocked
  PROVE  AuditInv'
<1> USE DEF Inv, AuditInv, TypeInv, TypeOK, StepTyped
<1>1. ASSUME /\ op.at = "trash"
             /\ trash \subseteq trash'
             /\ op'.at \in {"schedule", "next"}
             /\ op'.kind = op.kind
             /\ UNCHANGED <<rows, pendings, active, lkg, media, staged, receipts,
                            intents, logged, latest, revOf, app, crashes>>
      PROVE  AuditInv'
  <2>1. Standing'
    BY <1>1 DEF Standing, TxnSteps
  <2>2. LoggedOnce'
    BY <1>1 DEF LoggedOnce, Standing
  <2>3. Kept'
    BY <1>1 DEF Kept, Standing, TxnSteps
  <2>4. Told'
    BY <1>1 DEF Told, Claimed, Standing, TxnSteps
  <2>5. Claimed'
    BY <1>1 DEF Claimed, Standing, TxnSteps
  <2> QED  BY <2>1, <2>2, <2>3, <2>4, <2>5
<1>2. op'.at \in {"schedule", "next"} /\ op'.kind = op.kind
  BY DEF MediaLocked, GoTo, Ops
<1> QED  BY <1>1, <1>2 DEF MediaLocked, At, catalog, journal

\* A failed call leaves its last effect or not.
LEMMA FailAudit ==
  ASSUME Inv, AuditInv, Fail
  PROVE  AuditInv'
<1> USE DEF Inv, AuditInv, TypeInv, TypeOK, StepTyped
<1>1. ASSUME /\ op'.at = "idle" /\ op'.kind = "none"
             /\ staged' = staged \/ (op.txn \notin intents /\ staged' = staged \ {op.txn})
             /\ UNCHANGED <<rows, active, lkg, media, trash, receipts, intents,
                            logged, latest, revOf, crashes>>
      PROVE  AuditInv'
  <2>1. Standing'
    BY <1>1 DEF Standing, TxnSteps
  <2>2. LoggedOnce'
    BY <1>1 DEF LoggedOnce, Standing
  <2>3. Kept'
    BY <1>1 DEF Kept, Standing, TxnSteps
  <2>4. Told'
    BY <1>1 DEF Told, Claimed, Standing, TxnSteps
  <2>5. Claimed'
    BY <1>1 DEF Claimed, Standing, TxnSteps
  <2> QED  BY <2>1, <2>2, <2>3, <2>4, <2>5
<1>2. ASSUME /\ op.txn \in Txns /\ op.rev \in Locals
             /\ op'.at = "idle" /\ op'.kind = "none"
             /\ op.at \in {"log", "relog"}
             /\ logged' \in [Txns -> Nat] /\ \A t \in Txns : t # op.txn => logged'[t] = logged[t]
             /\ logged'[op.txn] \in {logged[op.txn], 1}
             /\ \A r \in Revisions : r # op.rev => latest'[r] = latest[r]
             /\ latest'[op.rev] \in {latest[op.rev], "install"}
             /\ latest[op.rev] \in {"install", "legacy"} => latest'[op.rev] \in {"install", "legacy"}
             /\ logged'[op.txn] = logged[op.txn] \/ latest'[op.rev] \in {"install", "legacy"}
             /\ UNCHANGED <<rows, active, lkg, media, trash, staged, receipts,
                            intents, revOf, crashes>>
      PROVE  AuditInv'
  <2>1. op.rev \in rows /\ revOf[op.txn] = op.rev /\ op.rev # None
    BY <1>2 DEF Standing, TxnSteps, Locals
  <2>2. \A r \in Locals : r # op.rev => latest'[r] = latest[r]
    BY <1>2 DEF Locals
  <2>3. Standing'
    BY <1>2, <2>1, <2>2 DEF Standing, TxnSteps
  <2>4. LoggedOnce'
    BY <1>2, <2>1, <2>2 DEF LoggedOnce, Standing
  <2>5. Kept'
    BY <1>2, <2>1, <2>2 DEF Kept, Standing, TxnSteps
  <2>6. Told'
    BY <1>2, <2>1, <2>2 DEF Told, Claimed, Standing, TxnSteps
  <2>7. Claimed'
    BY <1>2, <2>1, <2>2 DEF Claimed, Standing, TxnSteps
  <2> QED  BY <2>3, <2>4, <2>5, <2>6, <2>7
<1>3. ASSUME /\ op'.at = "idle" /\ op'.kind = "none"
             /\ op.at = "tombstone"
             /\ op.rev \in Locals
             /\ latest' = [latest EXCEPT ![op.rev] = "trash"]
             /\ UNCHANGED <<rows, active, lkg, media, trash, staged, receipts,
                            intents, logged, revOf, crashes>>
      PROVE  AuditInv'
  <2>1. Standing'
    BY <1>3 DEF Standing, TxnSteps
  <2>2. LoggedOnce'
    BY <1>3 DEF LoggedOnce, Standing
  <2>3. Kept'
    BY <1>3 DEF Kept, Standing, TxnSteps
  <2>4. Told'
    BY <1>3 DEF Told, Claimed, Standing, TxnSteps
  <2>5. Claimed'
    BY <1>3 DEF Claimed, Standing, TxnSteps
  <2> QED  BY <2>1, <2>2, <2>3, <2>4, <2>5
<1>4. op'.at = "idle" /\ op'.kind = "none"
  BY IdleOp DEF Fail, Return
<1>5. UNCHANGED <<rows, active, lkg, media, trash, receipts, intents, revOf, crashes>>
  BY DEF Fail
<1>6. staged' = staged \/ (op.txn \notin intents /\ staged' = staged \ {op.txn})
  BY DEF Fail, Standing
<1>7. CASE UNCHANGED journal
  BY <1>1, <1>4, <1>5, <1>6, <1>7 DEF journal
<1>8. CASE op.at \in {"log", "relog"} /\ EnsureInstallEvent
  <2>1. op.txn \in Txns /\ op.rev \in Locals /\ staged' = staged
    BY <1>8 DEF Fail, TxnSteps
  <2> QED  BY <1>2, <1>4, <1>5, <1>8, <2>1, EventEnsured
<1>9. CASE /\ op.at = "tombstone"
           /\ latest' = [latest EXCEPT ![op.rev] = "trash"]
           /\ UNCHANGED logged
  BY <1>3, <1>4, <1>5, <1>9 DEF Fail, RevSteps
<1> QED  BY <1>7, <1>8, <1>9 DEF Fail

\* A kill changes nothing on the disk.
LEMMA CrashAudit ==
  ASSUME Inv, AuditInv, Crash
  PROVE  AuditInv'
<1> USE DEF Inv, AuditInv, TypeInv, TypeOK, StepTyped
<1>1. ASSUME /\ op'.at = "idle" /\ op'.kind = "none"
             /\ UNCHANGED <<rows, pendings, active, lkg, media, trash, staged,
                            receipts, intents, logged, latest, revOf>>
      PROVE  AuditInv'
  <2>1. Standing'
    BY <1>1 DEF Standing, TxnSteps
  <2>2. LoggedOnce'
    BY <1>1 DEF LoggedOnce, Standing
  <2>3. Kept'
    BY <1>1 DEF Kept, Standing, TxnSteps
  <2>4. Told'
    BY <1>1 DEF Told, Claimed, Standing, TxnSteps
  <2>5. Claimed'
    BY <1>1 DEF Claimed, Standing, TxnSteps
  <2> QED  BY <2>1, <2>2, <2>3, <2>4, <2>5
<1> QED  BY <1>1, IdleOp DEF Crash, catalog, tree, journal

\* A lost rename leaves the staged copy under its intent.
LEMMA PowerLossAudit ==
  ASSUME Inv, AuditInv, PowerLoss
  PROVE  AuditInv'
<1> USE DEF Inv, AuditInv, TypeInv, TypeOK, StepTyped
<1>1. ASSUME /\ op.txn \in Txns /\ op.rev \in Locals
             /\ op'.at = "idle" /\ op'.kind = "none"
             /\ op.at \in {"commit", "log", "unlink"}
             /\ staged' = staged \cup {op.txn}
             /\ media' = media \ {op.rev}
             /\ UNCHANGED <<rows, pendings, active, lkg, trash, receipts, intents,
                            logged, latest, revOf>>
      PROVE  AuditInv'
  <2>1. Standing'
    BY <1>1 DEF Standing, TxnSteps
  <2>2. LoggedOnce'
    BY <1>1 DEF LoggedOnce, Standing
  <2>3. Kept'
    BY <1>1 DEF Kept, Standing, TxnSteps
  <2>4. Told'
    BY <1>1 DEF Told, Claimed, Standing, TxnSteps
  <2>5. Claimed'
    BY <1>1 DEF Claimed, Standing, TxnSteps
  <2> QED  BY <2>1, <2>2, <2>3, <2>4, <2>5
<1> QED  BY <1>1, IdleOp DEF PowerLoss, TxnSteps, catalog, journal

\* The program ends with nothing in progress.
LEMMA QuitAudit ==
  ASSUME Inv, AuditInv, Quit
  PROVE  AuditInv'
<1> USE DEF Inv, AuditInv, TypeInv, TypeOK, StepTyped
<1>1. ASSUME /\ UNCHANGED <<rows, pendings, active, lkg, media, trash, staged,
                            receipts, intents, logged, latest, revOf, op, crashes>>
      PROVE  AuditInv'
  <2>1. Standing'
    BY <1>1 DEF Standing, TxnSteps
  <2>2. LoggedOnce'
    BY <1>1 DEF LoggedOnce, Standing
  <2>3. Kept'
    BY <1>1 DEF Kept, Standing, TxnSteps
  <2>4. Told'
    BY <1>1 DEF Told, Claimed, Standing, TxnSteps
  <2>5. Claimed'
    BY <1>1 DEF Claimed, Standing, TxnSteps
  <2> QED  BY <2>1, <2>2, <2>3, <2>4, <2>5
<1> QED  BY <1>1 DEF Quit, catalog, tree, journal

\* The audit survives every step, a fault like any other.
LEMMA NextAudit ==
  ASSUME Inv, AuditInv, [Next]_vars
  PROVE  AuditInv'
<1>1. CASE Open
  BY <1>1, OpenAudit
<1>2. CASE InstallStep
  BY <1>2, StageAudit, WriteReceiptAudit, WriteIntentAudit, PublishAudit,
     AbandonAudit DEF InstallStep
<1>3. CASE RecoverStep
  BY <1>3, RecoverNextAudit, RestoreAudit, CleanUpAudit, RecoverDoneAudit
     DEF RecoverStep
<1>4. CASE SharedStep
  BY <1>4, CommitAudit, LogAudit, UnlinkAudit DEF SharedStep
<1>5. CASE DeleteStep
  BY <1>5, ResumeNextAudit, ResumeDoneAudit, TrashMediaAudit, DeleteRowAudit,
     TombstoneAudit, ScheduleAudit, UnpendAudit DEF DeleteStep
<1>6. CASE User
  BY <1>6, PromoteAudit, InstallBeginAudit, RequestUninstallAudit, SelectAudit
     DEF User
<1>7. CASE Fault
  BY <1>7, MediaLockedAudit, FailAudit, CrashAudit, PowerLossAudit DEF Fault
<1>8. CASE Quit
  BY <1>8, QuitAudit
<1>9. CASE UNCHANGED vars
  BY <1>9 DEF vars, catalog, tree, journal, AuditInv, Standing, LoggedOnce, Kept,
     Told, Claimed
<1> QED  BY <1>1, <1>2, <1>3, <1>4, <1>5, <1>6, <1>7, <1>8, <1>9 DEF Next, Proceed

\* It holds at the first start: the revisions of the older builds are there.
LEMMA InitAudit == Init => AuditInv
<1> SUFFICES ASSUME Init
             PROVE  AuditInv
  OBVIOUS
<1>1. op.at = "idle" /\ op.kind = "none"
  BY IdleOp DEF Init
<1>2. Standing
  BY <1>1 DEF Init, Standing, TxnSteps
<1>3. LoggedOnce /\ Kept /\ Told
  BY DEF Init, LoggedOnce, Kept, Told, Locals
<1>4. Claimed
  BY DEF Init, Claimed
<1> QED  BY <1>2, <1>3, <1>4 DEF AuditInv

\* Both invariants together.
LEMMA InvAuditInv ==
  /\ Init => Inv /\ AuditInv
  /\ Inv /\ AuditInv /\ [Next]_vars => (Inv /\ AuditInv)'
<1>1. Init => Inv /\ AuditInv
  BY InitTypeInv, InitAudit DEF Init, Inv, SelectionInv, SelectionReady,
                                StepUnselected, Protected, Idle, Call
<1> QED  BY <1>1, NextInv, NextAudit

\* Each install has its line: at most one per transaction, whichever recovery
\* writes it and however often it is interrupted, and at least one for a
\* registered revision, now or out of an intent that is still there.
THEOREM InstallsAudited == Spec => []InstallAudited
<1>1. Inv /\ AuditInv => InstallAudited
  BY DEF AuditInv, InstallAudited, InstallLoggedOnce, CommittedIsLogged,
         LoggedOnce, Told
<1> QED  BY <1>1, InvAuditInv, PTL DEF Spec

\* A revision that was ever registered keeps its bytes: published, staged under
\* an intent that publishes them again, or in the trash.
THEOREM BytesKept == Spec => []NoBytesLost
<1>1. Inv /\ AuditInv => NoBytesLost
  BY DEF AuditInv, NoBytesLost, Kept
<1> QED  BY <1>1, InvAuditInv, PTL DEF Spec

-----------------------------------------------------------------------------
(***************************************************************************)
(* The atomic library that the protocols implement.                        *)
(***************************************************************************)

\* An install is alone from its staged copy to its intent.
LEMMA InstallStepPromise ==
  ASSUME "commit" \notin FailAt, Inv, AuditInv, PromiseInv, InstallStep
  PROVE  PromiseInv'
<1> USE DEF PromiseInv, Inv, TypeInv, TypeOK, StepTyped, AuditInv, Standing, Ops, Steps,
            TxnSteps, RevSteps, Locals, Protected,
        Idle, Call, At, Busy, Free, GoTo, Return, catalog, tree, journal
<1>1. CASE Stage
  <2>1. Calls'
    BY <1>1 DEF Stage, Calls
  <2>2. Unlisted'
    BY <1>1 DEF Stage, Unlisted
  <2>3. Slotted'
    BY <1>1 DEF Stage, Slotted
  <2>4. Scheduled'
    BY <1>1 DEF Stage, Scheduled
  <2> QED  BY <2>1, <2>2, <2>3, <2>4 DEF PromiseInv
<1>2. CASE WriteReceipt
  <2>1. Calls'
    BY <1>2 DEF WriteReceipt, Calls
  <2>2. Unlisted'
    BY <1>2 DEF WriteReceipt, Unlisted
  <2>3. Slotted'
    BY <1>2 DEF WriteReceipt, Slotted
  <2>4. Scheduled'
    BY <1>2 DEF WriteReceipt, Scheduled
  <2> QED  BY <2>1, <2>2, <2>3, <2>4 DEF PromiseInv
<1>3. CASE WriteIntent
  <2>1. Calls'
    BY <1>3 DEF WriteIntent, Calls
  <2>2. Unlisted'
    BY <1>3 DEF WriteIntent, Unlisted
  <2>3. Slotted'
    BY <1>3 DEF WriteIntent, Slotted
  <2>4. Scheduled'
    BY <1>3 DEF WriteIntent, Scheduled
  <2> QED  BY <2>1, <2>2, <2>3, <2>4 DEF PromiseInv
<1>4. CASE Publish
  <2>1. Calls'
    BY <1>4 DEF Publish, Calls
  <2>2. Unlisted'
    <3>1. /\ op.kind = "install"
          /\ app = "running"
          /\ media \ rows = {}
          /\ op.rev \notin rows
      BY <1>4 DEF Publish, Unlisted, Calls
    <3>2. /\ op'.at = "commit"
          /\ op'.kind = op.kind
          /\ op'.rev = op.rev
          /\ UNCHANGED <<rows, app>>
      BY <1>4, <3>1 DEF Publish
    <3> QED  BY <1>4, <3>1, <3>2 DEF Publish, Unlisted
  <2>3. Slotted'
    BY <1>4 DEF Publish, Slotted
  <2>4. Scheduled'
    BY <1>4 DEF Publish, Scheduled
  <2> QED  BY <2>1, <2>2, <2>3, <2>4 DEF PromiseInv
<1>5. CASE Abandon
  <2>1. Calls'
    BY <1>5 DEF Abandon, Calls
  <2>2. Unlisted'
    BY <1>5 DEF Abandon, Unlisted
  <2>3. Slotted'
    BY <1>5 DEF Abandon, Slotted
  <2>4. Scheduled'
    BY <1>5 DEF Abandon, Scheduled
  <2> QED  BY <2>1, <2>2, <2>3, <2>4 DEF PromiseInv
<1> QED  BY <1>1, <1>2, <1>3, <1>4, <1>5 DEF InstallStep

\* A recovery finishes an intent that was there.
LEMMA RecoverStepPromise ==
  ASSUME "commit" \notin FailAt, Inv, AuditInv, PromiseInv, RecoverStep
  PROVE  PromiseInv'
<1> USE DEF PromiseInv, Inv, TypeInv, TypeOK, StepTyped, AuditInv, Standing, Ops, Steps,
            TxnSteps, RevSteps, Locals, Protected,
        Idle, Call, At, Busy, Free, GoTo, Return, catalog, tree, journal
<1>1. CASE RecoverNext
  <2>1. op'.at \in {"relog", "commit", "restore", "rollback"} /\ op'.kind = op.kind
    BY <1>1 DEF RecoverNext, Branch
  <2>2. Calls'
    BY <1>1, <2>1 DEF RecoverNext, Calls, Branch
  <2>3. Unlisted'
    BY <1>1, <2>1 DEF RecoverNext, Unlisted
  <2>4. Slotted'
    BY <1>1, <2>1 DEF RecoverNext, Slotted
  <2>5. Scheduled'
    BY <1>1, <2>1 DEF RecoverNext, Scheduled
  <2> QED  BY <2>2, <2>3, <2>4, <2>5 DEF PromiseInv
<1>2. CASE Restore
  <2>1. Calls'
    BY <1>2 DEF Restore, Calls
  <2>2. Unlisted'
    BY <1>2 DEF Restore, Unlisted
  <2>3. Slotted'
    BY <1>2 DEF Restore, Slotted
  <2>4. Scheduled'
    BY <1>2 DEF Restore, Scheduled
  <2> QED  BY <2>1, <2>2, <2>3, <2>4 DEF PromiseInv
<1>3. CASE CleanUp
  <2>1. Calls'
    BY <1>3 DEF CleanUp, Calls
  <2>2. Unlisted'
    BY <1>3 DEF CleanUp, Unlisted
  <2>3. Slotted'
    BY <1>3 DEF CleanUp, Slotted
  <2>4. Scheduled'
    BY <1>3 DEF CleanUp, Scheduled
  <2> QED  BY <2>1, <2>2, <2>3, <2>4 DEF PromiseInv
<1>4. CASE RecoverDone
  <2>1. Calls'
    BY <1>4 DEF RecoverDone, Calls
  <2>2. Unlisted'
    BY <1>4 DEF RecoverDone, Unlisted
  <2>3. Slotted'
    <3>1. media \ rows = {}
      BY <1>4 DEF RecoverDone, Claimed
    <3> QED  BY <1>4, <3>1 DEF RecoverDone, Slotted
  <2>4. Scheduled'
    BY <1>4 DEF RecoverDone, Scheduled
  <2> QED  BY <2>1, <2>2, <2>3, <2>4 DEF PromiseInv
<1> QED  BY <1>1, <1>2, <1>3, <1>4 DEF RecoverStep

\* A row is inserted under its intent, and the last intent is unlinked.
LEMMA SharedStepPromise ==
  ASSUME "commit" \notin FailAt, Inv, AuditInv, PromiseInv, SharedStep
  PROVE  PromiseInv'
<1> USE DEF PromiseInv, Inv, TypeInv, TypeOK, StepTyped, AuditInv, Standing, Ops, Steps,
            TxnSteps, RevSteps, Locals, Protected,
        Idle, Call, At, Busy, Free, GoTo, Return, catalog, tree, journal
<1>1. CASE Commit
  <2>1. op.rev \in media /\ media \ (rows \cup {op.rev}) = media \ rows'
        /\ (op.rev \notin rows => media \ rows = {op.rev})
    BY <1>1 DEF Commit, Unlisted
  <2>2. Calls'
    BY <1>1, <2>1 DEF Commit, Calls
  <2>3. Unlisted'
    BY <1>1, <2>1 DEF Commit, Unlisted
  <2>4. Slotted'
    <3>1. CASE op.rev \in rows
      BY <1>1, <3>1 DEF Commit, Slotted
    <3>2. CASE op.rev \notin rows
      BY <1>1, <2>1, <3>2 DEF Commit, Slotted
    <3> QED  BY <3>1, <3>2
  <2>5. Scheduled'
    BY <1>1, <2>1 DEF Commit, Scheduled
  <2> QED  BY <2>2, <2>3, <2>4, <2>5 DEF PromiseInv
<1>2. CASE Log
  <2>1. Calls'
    BY <1>2 DEF Log, Calls
  <2>2. Unlisted'
    BY <1>2 DEF Log, Unlisted
  <2>3. Slotted'
    BY <1>2 DEF Log, Slotted
  <2>4. Scheduled'
    BY <1>2 DEF Log, Scheduled
  <2> QED  BY <2>1, <2>2, <2>3, <2>4 DEF PromiseInv
<1>3. CASE Unlink
  <2>1. Calls'
    BY <1>3 DEF Unlink, Calls
  <2>2. Unlisted'
    BY <1>3 DEF Unlink, Unlisted
  <2>3. Slotted'
    BY <1>3 DEF Unlink, Slotted
  <2>4. Scheduled'
    BY <1>3 DEF Unlink, Scheduled
  <2> QED  BY <2>1, <2>2, <2>3, <2>4 DEF PromiseInv
<1> QED  BY <1>1, <1>2, <1>3 DEF SharedStep

\* A deletion is of what was listed and idle when it began.
LEMMA DeleteStepPromise ==
  ASSUME "commit" \notin FailAt, Inv, AuditInv, PromiseInv, DeleteStep
  PROVE  PromiseInv'
<1> USE DEF PromiseInv, Inv, TypeInv, TypeOK, StepTyped, AuditInv, Standing, Ops, Steps,
            TxnSteps, RevSteps, Locals, Protected,
        Idle, Call, At, Busy, Free, GoTo, Return, catalog, tree, journal
<1>1. CASE ResumeNext
  <2>1. Calls'
    BY <1>1 DEF ResumeNext, Calls
  <2>2. Unlisted'
    BY <1>1 DEF ResumeNext, Unlisted
  <2>3. Slotted'
    BY <1>1 DEF ResumeNext, Slotted
  <2>4. Scheduled'
    BY <1>1 DEF ResumeNext, Scheduled
  <2> QED  BY <2>1, <2>2, <2>3, <2>4 DEF PromiseInv
<1>2. CASE ResumeDone
  <2>1. Calls'
    BY <1>2 DEF ResumeDone, Calls
  <2>2. Unlisted'
    <3>1. media \ rows = {}
      BY <1>2 DEF ResumeDone, Claimed
    <3> QED  BY <1>2, <3>1 DEF ResumeDone, Unlisted
  <2>3. Slotted'
    BY <1>2 DEF ResumeDone, Slotted
  <2>4. Scheduled'
    BY <1>2 DEF ResumeDone, Scheduled
  <2> QED  BY <2>1, <2>2, <2>3, <2>4 DEF PromiseInv
<1>3. CASE TrashMedia
  <2>1. Calls'
    BY <1>3 DEF TrashMedia, Calls
  <2>2. Unlisted'
    BY <1>3 DEF TrashMedia, Unlisted
  <2>3. Slotted'
    BY <1>3 DEF TrashMedia, Slotted
  <2>4. Scheduled'
    BY <1>3 DEF TrashMedia, Scheduled
  <2> QED  BY <2>1, <2>2, <2>3, <2>4 DEF PromiseInv
<1>4. CASE DeleteRow
  <2>1. Calls'
    BY <1>4 DEF DeleteRow, Calls
  <2>2. Unlisted'
    BY <1>4 DEF DeleteRow, Unlisted
  <2>3. Slotted'
    BY <1>4 DEF DeleteRow, Slotted
  <2>4. Scheduled'
    BY <1>4 DEF DeleteRow, Scheduled
  <2> QED  BY <2>1, <2>2, <2>3, <2>4 DEF PromiseInv
<1>5. CASE Tombstone
  <2>1. Calls'
    BY <1>5 DEF Tombstone, Calls, AfterUninstall
  <2>2. Unlisted'
    BY <1>5 DEF Tombstone, Unlisted, AfterUninstall, Calls
  <2>3. Slotted'
    BY <1>5 DEF Tombstone, Slotted, AfterUninstall
  <2>4. Scheduled'
    BY <1>5 DEF Tombstone, Scheduled, AfterUninstall
  <2> QED  BY <2>1, <2>2, <2>3, <2>4 DEF PromiseInv
<1>6. CASE Schedule
  <2>1. Calls'
    BY <1>6 DEF Schedule, Calls
  <2>2. Unlisted'
    BY <1>6 DEF Schedule, Unlisted, Calls
  <2>3. Slotted'
    BY <1>6 DEF Schedule, Slotted
  <2>4. Scheduled'
    BY <1>6 DEF Schedule, Scheduled
  <2> QED  BY <2>1, <2>2, <2>3, <2>4 DEF PromiseInv
<1>7. CASE Unpend
  <2>1. Calls'
    BY <1>7 DEF Unpend, Calls
  <2>2. Unlisted'
    BY <1>7 DEF Unpend, Unlisted, Calls
  <2>3. Slotted'
    BY <1>7 DEF Unpend, Slotted
  <2>4. Scheduled'
    BY <1>7 DEF Unpend, Scheduled
  <2> QED  BY <2>1, <2>2, <2>3, <2>4 DEF PromiseInv
<1> QED  BY <1>1, <1>2, <1>3, <1>4, <1>5, <1>6, <1>7 DEF DeleteStep

\* A call begins when no other is in progress.
LEMMA UserPromise ==
  ASSUME "commit" \notin FailAt, Inv, AuditInv, PromiseInv, User
  PROVE  PromiseInv'
<1> USE DEF PromiseInv, Inv, TypeInv, TypeOK, StepTyped, AuditInv, Standing, Ops, Steps,
            TxnSteps, RevSteps, Locals, Protected,
        Idle, Call, At, Busy, Free, GoTo, Return, catalog, tree, journal
<1>1. CASE Promote
  <2>1. Calls'
    BY <1>1 DEF Promote, Calls
  <2>2. Unlisted'
    BY <1>1 DEF Promote, Unlisted
  <2>3. Slotted'
    BY <1>1 DEF Promote, Slotted
  <2>4. Scheduled'
    BY <1>1 DEF Promote, Scheduled
  <2> QED  BY <2>1, <2>2, <2>3, <2>4 DEF PromiseInv
<1>2. ASSUME NEW r \in Locals, InstallBegin(r)
      PROVE  PromiseInv'
  <2>1. Calls'
    BY <1>2 DEF InstallBegin, Calls
  <2>2. Unlisted'
    BY <1>2 DEF InstallBegin, Unlisted
  <2>3. Slotted'
    BY <1>2 DEF InstallBegin, Slotted, SlotFree
  <2>4. Scheduled'
    BY <1>2 DEF InstallBegin, Scheduled
  <2> QED  BY <2>1, <2>2, <2>3, <2>4 DEF PromiseInv
<1>3. ASSUME NEW r \in Locals, RequestUninstall(r)
      PROVE  PromiseInv'
  <2>1. Calls'
    BY <1>3 DEF RequestUninstall, Calls
  <2>2. Unlisted'
    BY <1>3 DEF RequestUninstall, Unlisted
  <2>3. Slotted'
    BY <1>3 DEF RequestUninstall, Slotted
  <2>4. Scheduled'
    BY <1>3 DEF RequestUninstall, Scheduled
  <2> QED  BY <2>1, <2>2, <2>3, <2>4 DEF PromiseInv
<1>4. ASSUME NEW r \in Revisions, Select(r)
      PROVE  PromiseInv'
  <2>1. Calls'
    BY <1>4 DEF Select, Calls
  <2>2. Unlisted'
    BY <1>4 DEF Select, Unlisted
  <2>3. Slotted'
    BY <1>4 DEF Select, Slotted
  <2>4. Scheduled'
    BY <1>4 DEF Select, Scheduled
  <2> QED  BY <2>1, <2>2, <2>3, <2>4 DEF PromiseInv
<1> QED  BY <1>1, <1>2, <1>3, <1>4 DEF User

\* No failure but that of the row leaves media which the running program does
\* not list, and a kill leaves what the next start finishes.
LEMMA FaultPromise ==
  ASSUME "commit" \notin FailAt, Inv, AuditInv, PromiseInv, Fault
  PROVE  PromiseInv'
<1> USE DEF PromiseInv, Inv, TypeInv, TypeOK, StepTyped, AuditInv, Standing, Ops, Steps,
            TxnSteps, RevSteps, Locals, Protected,
        Idle, Call, At, Busy, Free, GoTo, Return, catalog, tree, journal
<1>1. CASE MediaLocked
  <2>1. Calls'
    BY <1>1 DEF MediaLocked, Calls
  <2>2. Unlisted'
    BY <1>1 DEF MediaLocked, Unlisted
  <2>3. Slotted'
    BY <1>1 DEF MediaLocked, Slotted
  <2>4. Scheduled'
    BY <1>1 DEF MediaLocked, Scheduled
  <2> QED  BY <2>1, <2>2, <2>3, <2>4 DEF PromiseInv
<1>2. CASE Fail
  <2>1. Calls'
    BY <1>2 DEF Fail, Calls
  <2>2. Unlisted'
    <3>1. op.kind = "resume" => media \ rows = {}
      BY DEF Claimed
    <3>2. op.at # "commit" /\ UNCHANGED <<rows, media>>
      BY <1>2 DEF Fail
    <3> QED  BY <1>2, <3>1, <3>2 DEF Fail, Unlisted
  <2>3. Slotted'
    BY <1>2 DEF Fail, Slotted
  <2>4. Scheduled'
    BY <1>2 DEF Fail, Scheduled
  <2> QED  BY <2>1, <2>2, <2>3, <2>4 DEF PromiseInv
<1>3. CASE Crash
  <2>1. Calls'
    BY <1>3 DEF Crash, Calls
  <2>2. Unlisted'
    BY <1>3 DEF Crash, Unlisted
  <2>3. Slotted'
    BY <1>3 DEF Crash, Slotted
  <2>4. Scheduled'
    BY <1>3 DEF Crash, Scheduled
  <2> QED  BY <2>1, <2>2, <2>3, <2>4 DEF PromiseInv
<1>4. CASE PowerLoss
  <2>1. Calls'
    BY <1>4 DEF PowerLoss, Calls
  <2>2. Unlisted'
    BY <1>4 DEF PowerLoss, Unlisted
  <2>3. Slotted'
    BY <1>4 DEF PowerLoss, Slotted
  <2>4. Scheduled'
    BY <1>4 DEF PowerLoss, Scheduled
  <2> QED  BY <2>1, <2>2, <2>3, <2>4 DEF PromiseInv
<1> QED  BY <1>1, <1>2, <1>3, <1>4 DEF Fault

\* What the refinement rests on survives every step.
LEMMA NextPromise ==
  ASSUME "commit" \notin FailAt, Inv, AuditInv, PromiseInv, [Next]_vars
  PROVE  PromiseInv'
<1> USE DEF Inv, TypeInv, TypeOK, StepTyped, AuditInv, Standing, Ops, Steps, Locals,
            Protected,
            Idle, Call, Free, TxnSteps, RevSteps, catalog, tree, journal
<1>1. CASE Open
  <2>1. app' \in {"opening", "degraded"} /\ op'.at \in {"idle", "next"} /\ op'.todo = {}
        /\ op'.kind = (IF app' = "opening" THEN "recover" ELSE "none")
    BY <1>1 DEF Open
  <2> QED  BY <1>1, <2>1 DEF Open, PromiseInv, Calls, Unlisted, Slotted, Scheduled
<1>2. CASE InstallStep
  BY <1>2, InstallStepPromise
<1>3. CASE RecoverStep
  BY <1>3, RecoverStepPromise
<1>4. CASE SharedStep
  BY <1>4, SharedStepPromise
<1>5. CASE DeleteStep
  BY <1>5, DeleteStepPromise
<1>6. CASE User
  BY <1>6, UserPromise
<1>7. CASE Fault
  BY <1>7, FaultPromise
<1>8. CASE Quit
  BY <1>8 DEF Quit, PromiseInv, Calls, Unlisted, Slotted, Scheduled
<1>9. CASE UNCHANGED vars
  BY <1>9 DEF vars, PromiseInv, Calls, Unlisted, Slotted, Scheduled
<1> QED  BY <1>1, <1>2, <1>3, <1>4, <1>5, <1>6, <1>7, <1>8, <1>9 DEF Next, Proceed

\* It holds at the first start.
LEMMA InitPromise == Init => PromiseInv
<1> SUFFICES ASSUME Init
             PROVE  PromiseInv
  OBVIOUS
<1>1. op.at = "idle" /\ op.kind = "none"
  BY IdleOp DEF Init
<1> QED  BY <1>1 DEF Init, PromiseInv, Calls, Unlisted, Slotted, Scheduled, TxnSteps,
            RevSteps

\* A step of the library is one of the atomic library or a stutter: the row of
\* an install registers it, the row of a deletion removes it.
LEMMA NextImplements ==
  ASSUME "commit" \notin FailAt, Inv, AuditInv, PromiseInv, [Next]_vars
  PROVE  [Promise!Next]_(Promise!vars)
<1> USE DEF Inv, TypeInv, TypeOK, StepTyped, Ops, TxnSteps, RevSteps, Locals, At, catalog
<1>1. CASE UNCHANGED catalog
  BY <1>1 DEF Promise!vars
<1>2. CASE Commit
  <2>1. /\ revOf[op.txn] = op.rev
        /\ op.rev \in media \cap Revisions
        /\ rows' = rows \cup {op.rev}
    BY <1>2 DEF Commit, AuditInv, Standing
  <2>2. CASE op.rev \in rows
    BY <1>1, <1>2, <2>1, <2>2 DEF Commit
  <2>3. CASE op.rev \notin rows
    <3>1. \A t \in rows : VersionOf[op.rev] # VersionOf[t]
      BY <2>1, <2>3 DEF PromiseInv, Slotted
    <3>2. Promise!Register({op.rev})
      BY <1>2, <2>1, <3>1 DEF Commit, Promise!Register
    <3> QED  BY <2>1, <3>2 DEF Promise!Next
  <2> QED  BY <2>2, <2>3
<1>3. CASE RecoverDone
  <2>1. Promise!Register(Builtins)
    BY <1>3, SlotAssumption DEF RecoverDone, Promise!Register
  <2> QED  BY <2>1 DEF Promise!Next
<1>4. CASE DeleteRow
  <2>1. op.rev \in Revisions /\ Promise!Remove(op.rev)
    BY <1>4 DEF DeleteRow, PromiseInv, Scheduled, Protected, Promise!Remove,
       Promise!Deletable
  <2> QED  BY <2>1 DEF Promise!Next
<1>5. CASE Schedule
  <2>1. op.rev \in Revisions /\ Promise!Schedule(op.rev)
    BY <1>5 DEF Schedule, PromiseInv, Scheduled, Protected, Promise!Schedule,
       Promise!Deletable
  <2> QED  BY <2>1 DEF Promise!Next
<1>6. CASE Unpend
  <2>1. op.rev \in pendings \cap Revisions /\ (op.rev \notin rows \/ op.rev \in Protected)
    BY <1>6 DEF Unpend, PromiseInv, Scheduled, Calls
  <2>2. Promise!Settle(op.rev)
    BY <1>6, <2>1 DEF Unpend, Protected, Promise!Settle, Promise!Deletable
  <2> QED  BY <2>1, <2>2 DEF Promise!Next
<1>7. ASSUME NEW r \in Revisions, Select(r)
      PROVE  [Promise!Next]_(Promise!vars)
  <2>1. Promise!Choose(r)
    BY <1>7 DEF Select, Ready, Promise!Choose
  <2> QED  BY <2>1 DEF Promise!Next
<1>8. CASE Promote
  <2>1. Promise!Promote
    BY <1>8 DEF Promote, Promise!Promote
  <2> QED  BY <2>1 DEF Promise!Next
<1>9. CASE Proceed
  BY <1>1, <1>2, <1>3, <1>4, <1>5, <1>6, <1>9
     DEF Proceed, InstallStep, Stage, WriteReceipt, WriteIntent, Publish, Abandon,
         RecoverStep,
         RecoverNext, Restore, CleanUp, SharedStep, Log, Unlink, DeleteStep, ResumeNext, ResumeDone,
         TrashMedia, Tombstone
<1>10. CASE User
  BY <1>1, <1>7, <1>8, <1>10 DEF User, InstallBegin, RequestUninstall
<1>11. CASE Fault
  <2>1. CASE Fail /\ op.at = "withdraw" /\ pendings' = pendings \ {op.rev}
    <3>1. op.rev \in pendings \cap Revisions /\ op.rev \in Protected
      BY <2>1 DEF PromiseInv, Scheduled
    <3>2. Promise!Settle(op.rev)
      BY <2>1, <3>1 DEF Fail, Protected, Promise!Settle, Promise!Deletable
    <3> QED  BY <3>1, <3>2 DEF Promise!Next
  <2> QED  BY <1>1, <1>11, <2>1 DEF Fault, MediaLocked, Fail, Crash, PowerLoss
<1>12. CASE Open \/ Quit \/ UNCHANGED vars
  BY <1>1, <1>12 DEF Open, Quit, vars
<1> QED  BY <1>9, <1>10, <1>11, <1>12 DEF Next

\* The library is the atomic one of CharacterLibrary, wherever the process is
\* killed and whatever I/O error is raised, but for one: when the row of a
\* published revision cannot be inserted, its version slot stays free for another.
THEOREM ImplementsPromise ==
  ASSUME "commit" \notin FailAt
  PROVE  Spec => KeepsPromise
<1>1. Init => Inv /\ AuditInv /\ PromiseInv
  BY InvAuditInv, InitPromise
<1>2. Inv /\ AuditInv /\ PromiseInv /\ [Next]_vars => (Inv /\ AuditInv /\ PromiseInv)'
  BY InvAuditInv, NextPromise
<1>3. Init => Promise!Init
  BY DEF Init, Promise!Init
<1>4. Inv /\ AuditInv /\ PromiseInv /\ [Next]_vars => [Promise!Next]_(Promise!vars)
  BY NextImplements
<1> QED  BY <1>1, <1>2, <1>3, <1>4, PTL DEF Spec, KeepsPromise, Promise!Spec

-----------------------------------------------------------------------------
(***************************************************************************)
(* The agreement of catalog, files, intents, schedule and journal.         *)
(***************************************************************************)

\* An install leaves an intent only with its receipt and its bytes.
LEMMA InstallStepAgree ==
  ASSUME FailAt \subseteq SafeFailures, CrashAt \cap SplittingKills = {},
         Inv, AuditInv, PromiseInv, AgreeInv, InstallStep
  PROVE  AgreeInv'
<1> USE DEF PromiseInv, AgreeInv, Inv, TypeInv, TypeOK, StepTyped, AuditInv, Standing,
            Ops, Steps, TxnSteps, RevSteps, Locals, Protected,
        Idle, Call, At, Busy, Free, GoTo, Return, catalog, tree, journal
<1>1. CASE Stage
  <2>1. Recoverable'
    BY <1>1 DEF Stage, Recoverable, IntentValid, Calls
  <2>2. Lined'
    BY <1>1 DEF Stage, Lined
  <2>3. Present'
    BY <1>1 DEF Stage, Present, Calls
  <2>4. Resumed'
    BY <1>1 DEF Stage, Resumed, Scheduled, Calls
  <2> QED  BY <2>1, <2>2, <2>3, <2>4 DEF AgreeInv
<1>2. CASE WriteReceipt
  <2>1. Recoverable'
    BY <1>2 DEF WriteReceipt, Recoverable, IntentValid, Calls
  <2>2. Lined'
    BY <1>2 DEF WriteReceipt, Lined
  <2>3. Present'
    BY <1>2 DEF WriteReceipt, Present, Calls
  <2>4. Resumed'
    BY <1>2 DEF WriteReceipt, Resumed, Scheduled, Calls
  <2> QED  BY <2>1, <2>2, <2>3, <2>4 DEF AgreeInv
<1>3. CASE WriteIntent
  <2>1. Recoverable'
    BY <1>3 DEF WriteIntent, Recoverable, IntentValid, Calls
  <2>2. Lined'
    BY <1>3 DEF WriteIntent, Lined
  <2>3. Present'
    BY <1>3 DEF WriteIntent, Present, Calls
  <2>4. Resumed'
    BY <1>3 DEF WriteIntent, Resumed, Scheduled, Calls
  <2> QED  BY <2>1, <2>2, <2>3, <2>4 DEF AgreeInv
<1>4. CASE Publish
  <2>1. Recoverable'
    BY <1>4 DEF Publish, Recoverable, IntentValid, Calls
  <2>2. Lined'
    BY <1>4 DEF Publish, Lined
  <2>3. Present'
    BY <1>4 DEF Publish, Present, Calls
  <2>4. Resumed'
    BY <1>4 DEF Publish, Resumed, Scheduled, Calls
  <2> QED  BY <2>1, <2>2, <2>3, <2>4 DEF AgreeInv
<1>5. CASE Abandon
  <2>1. Recoverable'
    BY <1>5 DEF Abandon, Recoverable, IntentValid, Calls
  <2>2. Lined'
    BY <1>5 DEF Abandon, Lined
  <2>3. Present'
    BY <1>5 DEF Abandon, Present, Calls
  <2>4. Resumed'
    BY <1>5 DEF Abandon, Resumed, Scheduled, Calls
  <2> QED  BY <2>1, <2>2, <2>3, <2>4 DEF AgreeInv
<1> QED  BY <1>1, <1>2, <1>3, <1>4, <1>5 DEF InstallStep

\* A recovery restores what is missing, and resumes every pending deletion.
LEMMA RecoverStepAgree ==
  ASSUME FailAt \subseteq SafeFailures, CrashAt \cap SplittingKills = {},
         Inv, AuditInv, PromiseInv, AgreeInv, RecoverStep
  PROVE  AgreeInv'
<1> USE DEF PromiseInv, AgreeInv, Inv, TypeInv, TypeOK, StepTyped, AuditInv, Standing,
            Ops, Steps, TxnSteps, RevSteps, Locals, Protected,
        Idle, Call, At, Busy, Free, GoTo, Return, catalog, tree, journal
<1>1. CASE RecoverNext
  <2>1. op'.at \in {"relog", "commit", "restore", "rollback"} /\ op'.kind = op.kind
    BY <1>1 DEF RecoverNext, Branch
  <2>2. Recoverable'
    BY <1>1, <2>1 DEF RecoverNext, Recoverable, IntentValid, Calls
  <2>3. Lined'
    BY <1>1, <2>1 DEF RecoverNext, Lined
  <2>4. Present'
    BY <1>1, <2>1 DEF RecoverNext, Present, Calls
  <2>5. Resumed'
    BY <1>1, <2>1 DEF RecoverNext, Resumed, Scheduled, Calls
  <2> QED  BY <2>2, <2>3, <2>4, <2>5 DEF AgreeInv
<1>2. CASE Restore
  <2>1. Recoverable'
    BY <1>2 DEF Restore, Recoverable, IntentValid, Calls
  <2>2. Lined'
    BY <1>2 DEF Restore, Lined, Calls
  <2>3. Present'
    BY <1>2 DEF Restore, Present, Calls
  <2>4. Resumed'
    BY <1>2 DEF Restore, Resumed, Scheduled, Calls
  <2> QED  BY <2>1, <2>2, <2>3, <2>4 DEF AgreeInv
<1>3. CASE CleanUp
  <2>1. Recoverable'
    BY <1>3 DEF CleanUp, Recoverable, IntentValid, Calls
  <2>2. Lined'
    BY <1>3 DEF CleanUp, Lined
  <2>3. Present'
    BY <1>3 DEF CleanUp, Present, Calls
  <2>4. Resumed'
    BY <1>3 DEF CleanUp, Resumed, Scheduled, Calls
  <2> QED  BY <2>1, <2>2, <2>3, <2>4 DEF AgreeInv
<1>4. CASE RecoverDone
  <2>1. Recoverable'
    BY <1>4 DEF RecoverDone, Recoverable, IntentValid, Calls
  <2>2. Lined'
    BY <1>4 DEF RecoverDone, Lined
  <2>3. Present'
    BY <1>4 DEF RecoverDone, Present, Calls
  <2>4. Resumed'
    BY <1>4 DEF RecoverDone, Resumed, Scheduled, Calls
  <2> QED  BY <2>1, <2>2, <2>3, <2>4 DEF AgreeInv
<1> QED  BY <1>1, <1>2, <1>3, <1>4 DEF RecoverStep

\* The line follows the row before the intent is unlinked.
LEMMA SharedStepAgree ==
  ASSUME FailAt \subseteq SafeFailures, CrashAt \cap SplittingKills = {},
         Inv, AuditInv, PromiseInv, AgreeInv, SharedStep
  PROVE  AgreeInv'
<1> USE DEF PromiseInv, AgreeInv, Inv, TypeInv, TypeOK, StepTyped, AuditInv, Standing,
            Ops, Steps, TxnSteps, RevSteps, Locals, Protected,
        Idle, Call, At, Busy, Free, GoTo, Return, catalog, tree, journal
<1>1. CASE Commit
  <2>1. Recoverable'
    BY <1>1 DEF Commit, Recoverable, IntentValid, Calls
  <2>2. Lined'
    BY <1>1 DEF Commit, Lined, Calls
  <2>3. Present'
    BY <1>1 DEF Commit, Present, Calls
  <2>4. Resumed'
    BY <1>1 DEF Commit, Resumed, Scheduled, Calls
  <2> QED  BY <2>1, <2>2, <2>3, <2>4 DEF AgreeInv
<1>2. CASE Log
  <2>1. Recoverable'
    BY <1>2 DEF Log, Recoverable, IntentValid, Calls
  <2>2. Lined'
    <3>1. /\ op'.kind = op.kind /\ op'.at \in {"unlink", "cleanup"}
          /\ op.rev \in rows /\ UNCHANGED <<rows, app>>
      BY <1>2 DEF Log
    <3>2. \A r \in Locals \ {op.rev} : latest'[r] = latest[r]
      BY <1>2 DEF Log, EnsureInstallEvent
    <3>3. app = "running" => latest'[op.rev] \in {"install", "legacy"}
      <4>1. app = "running" => op.kind = "install" /\ op.at = "log" /\ logged[op.txn] = 0
        BY <1>2 DEF Log, Calls, Lined
      <4> QED  BY <1>2, <4>1 DEF Log, EnsureInstallEvent, InstallEventExists
    <3> QED  BY <3>1, <3>2, <3>3 DEF Lined
  <2>3. Present'
    BY <1>2 DEF Log, Present, Calls
  <2>4. Resumed'
    BY <1>2 DEF Log, Resumed, Scheduled, Calls
  <2> QED  BY <2>1, <2>2, <2>3, <2>4 DEF AgreeInv
<1>3. CASE Unlink
  <2>1. Recoverable'
    BY <1>3 DEF Unlink, Recoverable, IntentValid, Calls
  <2>2. Lined'
    BY <1>3 DEF Unlink, Lined
  <2>3. Present'
    BY <1>3 DEF Unlink, Present, Calls
  <2>4. Resumed'
    BY <1>3 DEF Unlink, Resumed, Scheduled, Calls
  <2> QED  BY <2>1, <2>2, <2>3, <2>4 DEF AgreeInv
<1> QED  BY <1>1, <1>2, <1>3 DEF SharedStep

\* A deletion takes media, row and line of one revision, then its pending row.
LEMMA DeleteStepAgree ==
  ASSUME FailAt \subseteq SafeFailures, CrashAt \cap SplittingKills = {},
         Inv, AuditInv, PromiseInv, AgreeInv, DeleteStep
  PROVE  AgreeInv'
<1> USE DEF PromiseInv, AgreeInv, Inv, TypeInv, TypeOK, StepTyped, AuditInv, Standing,
            Ops, Steps, TxnSteps, RevSteps, Locals, Protected,
        Idle, Call, At, Busy, Free, GoTo, Return, catalog, tree, journal
<1>1. CASE ResumeNext
  <2>1. Recoverable'
    BY <1>1 DEF ResumeNext, Recoverable, IntentValid, Calls
  <2>2. Lined'
    BY <1>1 DEF ResumeNext, Lined
  <2>3. Present'
    BY <1>1 DEF ResumeNext, Present, Calls
  <2>4. Resumed'
    BY <1>1 DEF ResumeNext, Resumed, Scheduled, Calls
  <2> QED  BY <2>1, <2>2, <2>3, <2>4 DEF AgreeInv
<1>2. CASE ResumeDone
  <2>1. Recoverable'
    BY <1>2 DEF ResumeDone, Recoverable, IntentValid, Calls
  <2>2. Lined'
    BY <1>2 DEF ResumeDone, Lined, Told
  <2>3. Present'
    BY <1>2 DEF ResumeDone, Present, Calls
  <2>4. Resumed'
    BY <1>2 DEF ResumeDone, Resumed, Scheduled, Calls
  <2> QED  BY <2>1, <2>2, <2>3, <2>4 DEF AgreeInv
<1>3. CASE TrashMedia
  <2>1. Recoverable'
    BY <1>3 DEF TrashMedia, Recoverable, IntentValid, Calls
  <2>2. Lined'
    BY <1>3 DEF TrashMedia, Lined
  <2>3. Present'
    BY <1>3 DEF TrashMedia, Present, Calls
  <2>4. Resumed'
    BY <1>3 DEF TrashMedia, Resumed, Scheduled, Calls
  <2> QED  BY <2>1, <2>2, <2>3, <2>4 DEF AgreeInv
<1>4. CASE DeleteRow
  <2>1. Recoverable'
    BY <1>4 DEF DeleteRow, Recoverable, IntentValid, Calls
  <2>2. Lined'
    BY <1>4 DEF DeleteRow, Lined
  <2>3. Present'
    BY <1>4 DEF DeleteRow, Present, Calls
  <2>4. Resumed'
    BY <1>4 DEF DeleteRow, Resumed, Scheduled, Calls
  <2> QED  BY <2>1, <2>2, <2>3, <2>4 DEF AgreeInv
<1>5. CASE Tombstone
  <2>1. Recoverable'
    BY <1>5 DEF Tombstone, Recoverable, AfterUninstall, IntentValid, Calls
  <2>2. Lined'
    BY <1>5 DEF Tombstone, Lined, AfterUninstall
  <2>3. Present'
    BY <1>5 DEF Tombstone, Present, AfterUninstall, Calls
  <2>4. Resumed'
    BY <1>5 DEF Tombstone, Resumed, AfterUninstall, Scheduled, Calls
  <2> QED  BY <2>1, <2>2, <2>3, <2>4 DEF AgreeInv
<1>6. CASE Schedule
  <2>1. Recoverable'
    BY <1>6 DEF Schedule, Recoverable, IntentValid, Calls
  <2>2. Lined'
    BY <1>6 DEF Schedule, Lined
  <2>3. Present'
    BY <1>6 DEF Schedule, Present, Calls
  <2>4. Resumed'
    BY <1>6 DEF Schedule, Resumed, Scheduled, Calls
  <2> QED  BY <2>1, <2>2, <2>3, <2>4 DEF AgreeInv
<1>7. CASE Unpend
  <2>1. Recoverable'
    BY <1>7 DEF Unpend, Recoverable, IntentValid, Calls
  <2>2. Lined'
    BY <1>7 DEF Unpend, Lined
  <2>3. Present'
    BY <1>7 DEF Unpend, Present, Calls
  <2>4. Resumed'
    BY <1>7 DEF Unpend, Resumed, Scheduled, Calls
  <2> QED  BY <2>1, <2>2, <2>3, <2>4 DEF AgreeInv
<1> QED  BY <1>1, <1>2, <1>3, <1>4, <1>5, <1>6, <1>7 DEF DeleteStep

\* A choice withdraws a pending deletion, a request has none.
LEMMA UserAgree ==
  ASSUME FailAt \subseteq SafeFailures, CrashAt \cap SplittingKills = {},
         Inv, AuditInv, PromiseInv, AgreeInv, User
  PROVE  AgreeInv'
<1> USE DEF PromiseInv, AgreeInv, Inv, TypeInv, TypeOK, StepTyped, AuditInv, Standing,
            Ops, Steps, TxnSteps, RevSteps, Locals, Protected,
        Idle, Call, At, Busy, Free, GoTo, Return, catalog, tree, journal
<1>1. CASE Promote
  <2>1. Recoverable'
    BY <1>1 DEF Promote, Recoverable, IntentValid, Calls
  <2>2. Lined'
    BY <1>1 DEF Promote, Lined
  <2>3. Present'
    BY <1>1 DEF Promote, Present, Calls
  <2>4. Resumed'
    BY <1>1 DEF Promote, Resumed, Scheduled, Calls
  <2> QED  BY <2>1, <2>2, <2>3, <2>4 DEF AgreeInv
<1>2. ASSUME NEW r \in Locals, InstallBegin(r)
      PROVE  AgreeInv'
  <2>1. Recoverable'
    BY <1>2 DEF InstallBegin, Recoverable, IntentValid, Calls
  <2>2. Lined'
    BY <1>2 DEF InstallBegin, Lined
  <2>3. Present'
    BY <1>2 DEF InstallBegin, Present, Calls
  <2>4. Resumed'
    BY <1>2 DEF InstallBegin, Resumed, Scheduled, Calls
  <2> QED  BY <2>1, <2>2, <2>3, <2>4 DEF AgreeInv
<1>3. ASSUME NEW r \in Locals, RequestUninstall(r)
      PROVE  AgreeInv'
  <2>1. Recoverable'
    BY <1>3 DEF RequestUninstall, Recoverable, IntentValid, Calls
  <2>2. Lined'
    BY <1>3 DEF RequestUninstall, Lined
  <2>3. Present'
    BY <1>3 DEF RequestUninstall, Present, Calls
  <2>4. Resumed'
    BY <1>3 DEF RequestUninstall, Resumed, Scheduled, Calls
  <2> QED  BY <2>1, <2>2, <2>3, <2>4 DEF AgreeInv
<1>4. ASSUME NEW r \in Revisions, Select(r)
      PROVE  AgreeInv'
  <2>1. Recoverable'
    BY <1>4 DEF Select, Recoverable, IntentValid, Calls
  <2>2. Lined'
    BY <1>4 DEF Select, Lined
  <2>3. Present'
    BY <1>4 DEF Select, Present, Calls
  <2>4. Resumed'
    BY <1>4 DEF Select, Resumed, Scheduled, Calls
  <2> QED  BY <2>1, <2>2, <2>3, <2>4 DEF AgreeInv
<1> QED  BY <1>1, <1>2, <1>3, <1>4 DEF User

\* A harmless kill leaves an intent, or a deletion that has not begun.
LEMMA FaultAgree ==
  ASSUME FailAt \subseteq SafeFailures, CrashAt \cap SplittingKills = {},
         Inv, AuditInv, PromiseInv, AgreeInv, Fault
  PROVE  AgreeInv'
<1> USE DEF PromiseInv, AgreeInv, Inv, TypeInv, TypeOK, StepTyped, AuditInv, Standing,
            Ops, Steps, TxnSteps, RevSteps, Locals, Protected,
        Idle, Call, At, Busy, Free, GoTo, Return, catalog, tree, journal
<1>1. CASE MediaLocked
  <2>1. Recoverable'
    BY <1>1 DEF MediaLocked, Recoverable, IntentValid, Calls
  <2>2. Lined'
    BY <1>1 DEF MediaLocked, Lined
  <2>3. Present'
    BY <1>1 DEF MediaLocked, Present, Calls
  <2>4. Resumed'
    BY <1>1 DEF MediaLocked, Resumed, Scheduled, Calls
  <2> QED  BY <2>1, <2>2, <2>3, <2>4 DEF AgreeInv
<1>2. CASE Fail
  <2>1. /\ op.at \in {"stage", "receipt", "intent", "publish", "restore", "relog", "schedule"}
        /\ UNCHANGED <<rows, media, trash, receipts, intents, revOf, active, lkg>>
        /\ op' = Idle
    <3>1. op.at # "abandon"
      BY DEF Unlisted, Calls
    <3> QED  BY <1>2, <3>1 DEF Fail, SafeFailures
  <2>2. UNCHANGED pendings
    BY <1>2, <2>1 DEF Fail
  <2>3. CASE op.kind = "recover"
    <3>1. app' = "degraded" /\ op.at \in {"restore", "relog"} /\ UNCHANGED staged
      BY <1>2, <2>1, <2>3 DEF Fail, Calls
    <3>2. Recoverable'
      BY <2>1, <3>1 DEF Recoverable, IntentValid
    <3>3. Lined'
      <4>1. \A r \in Locals : latest'[r] = latest[r] \/ (r = op.rev /\ r \in rows)
        BY <1>2, <2>1, <3>1 DEF Fail, EnsureInstallEvent
      <4> QED  BY <2>1, <3>1, <4>1 DEF Lined
    <3>4. Present'
      BY <2>1, <3>1 DEF Present, Calls
    <3>5. Resumed'
      BY <2>1, <3>1 DEF Resumed
    <3> QED  BY <3>2, <3>3, <3>4, <3>5 DEF AgreeInv
  <2>4. CASE op.kind # "recover"
    <3>1. /\ op.at \in {"stage", "receipt", "intent", "publish", "schedule"}
          /\ op.kind \in {"install", "request"} /\ UNCHANGED <<app, journal>>
      BY <1>2, <2>1, <2>4 DEF Fail, Calls
    <3>2. op.kind = "install" => op.txn \in staged' \/ op.txn \notin intents
      BY <1>2, <2>1, <3>1 DEF Fail, Recoverable, Calls
    <3>3. Recoverable'
      <4>1. \A t \in intents : t # op.txn => (t \in staged' <=> t \in staged)
        BY <1>2 DEF Fail
      <4>2. \A t \in intents : t \in staged => t \in staged'
        BY <1>2, <2>1, <3>1 DEF Fail
      <4> QED  BY <2>1, <3>1, <3>2, <4>1, <4>2 DEF Recoverable, IntentValid, Calls
    <3>4. Lined'
      BY <2>1, <3>1 DEF Lined
    <3>5. Present'
      BY <2>1, <3>1 DEF Present, Calls
    <3>6. Resumed'
      BY <2>1, <2>2, <3>1 DEF Resumed, Scheduled, Calls
    <3> QED  BY <3>3, <3>4, <3>5, <3>6 DEF AgreeInv
  <2> QED  BY <2>3, <2>4
<1>3. CASE Crash
  <2>1. op.at \notin {"delete", "tombstone", "forget"}
    BY <1>3 DEF Crash, SplittingKills
  <2>2. Recoverable'
    BY <1>3, <2>1 DEF Crash, Recoverable, IntentValid, Calls
  <2>3. Lined'
    BY <1>3, <2>1 DEF Crash, Lined
  <2>4. Present'
    BY <1>3, <2>1 DEF Crash, Present, Calls
  <2>5. Resumed'
    BY <1>3, <2>1 DEF Crash, Resumed, Scheduled, Calls
  <2> QED  BY <2>2, <2>3, <2>4, <2>5 DEF AgreeInv
<1>4. CASE PowerLoss
  <2>1. Recoverable'
    BY <1>4 DEF PowerLoss, Recoverable, IntentValid, Calls
  <2>2. Lined'
    BY <1>4 DEF PowerLoss, Lined
  <2>3. Present'
    BY <1>4 DEF PowerLoss, Present, Calls
  <2>4. Resumed'
    BY <1>4 DEF PowerLoss, Resumed, Scheduled, Calls
  <2> QED  BY <2>1, <2>2, <2>3, <2>4 DEF AgreeInv
<1> QED  BY <1>1, <1>2, <1>3, <1>4 DEF Fault

\* Catalog, files and journal agree after every step.
LEMMA NextAgree ==
  ASSUME FailAt \subseteq SafeFailures, CrashAt \cap SplittingKills = {},
         Inv, AuditInv, PromiseInv, AgreeInv, [Next]_vars
  PROVE  AgreeInv'
<1> USE DEF Inv, TypeInv, TypeOK, StepTyped, AuditInv, Standing, Ops, Steps, Locals,
            Protected,
            Idle, Call, Free, TxnSteps, RevSteps, catalog, tree, journal
<1>1. CASE Open
  <2>1. app' \in {"opening", "degraded"} /\ op'.at \in {"idle", "next"} /\ op'.todo = {}
        /\ op'.kind = (IF app' = "opening" THEN "recover" ELSE "none")
    BY <1>1 DEF Open
  <2> QED  BY <1>1, <2>1 DEF Open, AgreeInv, PromiseInv, Calls, Recoverable,
              IntentValid, Lined, Present, Resumed
<1>2. CASE InstallStep
  BY <1>2, InstallStepAgree
<1>3. CASE RecoverStep
  BY <1>3, RecoverStepAgree
<1>4. CASE SharedStep
  BY <1>4, SharedStepAgree
<1>5. CASE DeleteStep
  BY <1>5, DeleteStepAgree
<1>6. CASE User
  BY <1>6, UserAgree
<1>7. CASE Fault
  BY <1>7, FaultAgree
<1>8. CASE Quit
  BY <1>8 DEF Quit, AgreeInv, PromiseInv, Calls, Recoverable, IntentValid, Lined,
     Present, Resumed
<1>9. CASE UNCHANGED vars
  BY <1>9 DEF vars, AgreeInv, PromiseInv, Calls, Recoverable, IntentValid, Lined,
     Present, Resumed
<1> QED  BY <1>1, <1>2, <1>3, <1>4, <1>5, <1>6, <1>7, <1>8, <1>9 DEF Next, Proceed

\* They agree at the first start.
LEMMA InitAgree == Init => AgreeInv
<1> SUFFICES ASSUME Init
             PROVE  AgreeInv
  OBVIOUS
<1>1. op.at = "idle" /\ op.kind = "none"
  BY IdleOp DEF Init
<1> QED  BY <1>1 DEF Init, AgreeInv, Recoverable, Lined, Present, Resumed, Locals

\* When a start, the pages or the next recovery rely on it, every intent can be
\* finished, the journal replays to the catalog, every listed revision has its
\* media and every pending deletion is one: for every harmless I/O error and for
\* a kill anywhere but between the parts of a deletion or of a rollback.
THEOREM StoresStayInAgreement ==
  ASSUME FailAt \subseteq SafeFailures, CrashAt \cap SplittingKills = {}
  PROVE  Spec => []StoresAgree
<1> DEFINE All == Inv /\ AuditInv /\ PromiseInv /\ AgreeInv
<1>1. Init => All
  BY InvAuditInv, InitPromise, InitAgree
<1>2. All /\ [Next]_vars => All'
  <2>1. "commit" \notin FailAt
    BY DEF SafeFailures
  <2> QED  BY <2>1, InvAuditInv, NextPromise, NextAgree
<1>3. ASSUME All
      PROVE  StoresAgree
  <2> USE <1>3 DEF Inv, TypeInv, TypeOK, AuditInv, PromiseInv, AgreeInv
  <2>1. Reopenable
    BY DEF Reopenable, Recoverable, Calls
  <2>2. Free => app = "running" /\ op.kind = "none" /\ op.at = "idle"
    BY IdleOp DEF Free
  <2>3. JournalMatchesCatalog
    BY <2>2 DEF JournalMatchesCatalog, Lined, Told
  <2>4. NoGhostRow
    BY <2>2 DEF NoGhostRow, Present
  <2>5. PendingIsDeletable
    BY <2>2 DEF PendingIsDeletable, Resumed, Free, Protected, Locals, RevSteps
  <2> QED  BY <2>1, <2>3, <2>4, <2>5 DEF StoresAgree
<1> HIDE DEF All
<1> QED  BY <1>1, <1>2, <1>3, PTL DEF Spec
=============================================================================
