---------------------------- MODULE PackLibrary ----------------------------
(***************************************************************************)
(* The immutable character library of lifecycle.py: one SQLite catalog     *)
(* (the only READY authority), the published revision files, the staging   *)
(* copies, the receipts, the PUBLISH_INTENT files and the append-only      *)
(* event journal, with the install, recovery and uninstall protocols that  *)
(* move a revision between them.                                           *)
(*                                                                         *)
(* Every durable effect is one step, so the process may die, or an I/O     *)
(* call may raise, between any two of them.  CrashAt and FailAt name the   *)
(* steps at which that is allowed; op.at is the step to be done next.      *)
(***************************************************************************)
EXTENDS Naturals, FiniteSets

CONSTANTS
  Revisions,   \* revision keys: publisher, package, version, content digest
  Builtins,    \* the revisions shipped as read-only release media
  VersionOf,   \* a revision's (PackKey, version), without the digest
  Legacy,      \* revisions installed by a build that logged no transaction id
  Txns,        \* install transaction ids (uuid4); bounds the installs
  CrashAt,     \* the steps at which the process may be killed
  FailAt,      \* the steps at which an I/O call may raise
  MaxCrashes,  \* bound on kills in the middle of a step
  None

Locals == Revisions \ Builtins

ASSUME RevisionAssumption ==
  /\ Builtins \subseteq Revisions
  /\ Legacy \subseteq Locals
  /\ None \notin Revisions /\ None \notin Txns
  /\ MaxCrashes \in Nat

\* The validator reserves the official namespace, so no local revision can
\* share the version slot of a builtin one.
ASSUME SlotAssumption ==
  \A r \in Revisions, b \in Builtins :
    VersionOf[r] = VersionOf[b] => r = b

ASSUME LegacyAssumption ==
  \A r, s \in Legacy : VersionOf[r] = VersionOf[s] => r = s

VARIABLES
  rows,      \* state.db, table revisions
  pendings,  \* state.db, table pending_deletes
  active,    \* state.db, the ACTIVE slot
  lkg,       \* state.db, the LAST-KNOWN-GOOD slot
  media,     \* packs/revisions: local revisions published at their target
  trash,     \* packs/trash
  staged,    \* packs/staging: transactions whose copy is there
  receipts,  \* receipts/: transactions with an immutable receipt
  intents,   \* journal/intent-<txn>.json
  logged,    \* events.jsonl: INSTALL_COMMITTED lines of each transaction
  latest,    \* events.jsonl: the last install or uninstall line of a revision
  revOf,     \* the revision a transaction installs
  app,       \* the process: off, opening, running or degraded (Bootstrap)
  op,        \* the call in progress; everything runs on the GUI thread
  crashes    \* kills in the middle of a step so far

catalog == <<rows, pendings, active, lkg>>
tree    == <<media, trash, staged, receipts, intents>>
journal == <<logged, latest>>
vars    == <<catalog, tree, journal, revOf, app, op, crashes>>

Steps == {"idle", "stage", "receipt", "intent", "publish", "abandon",
          "commit", "log", "unlink", "next", "restore", "relog", "cleanup",
          "rollback", "forget", "trash", "delete", "tombstone", "schedule",
          "unpend", "withdraw"}

Call(kind, at, rev, todo) ==
  [kind |-> kind, at |-> at, rev |-> rev, txn |-> None, todo |-> todo]

Idle == Call("none", "idle", None, {})

Ops == [kind : {"none", "install", "recover", "request", "resume", "select"},
        at   : Steps,
        rev  : Revisions \cup {None},
        txn  : Txns \cup {None},
        todo : SUBSET Locals]  \* pending deletions still to be resumed

TypeOK ==
  /\ rows \subseteq Revisions /\ pendings \subseteq Locals
  /\ active \in Revisions \cup {None} /\ lkg \in Revisions \cup {None}
  /\ media \subseteq Locals /\ trash \subseteq Locals
  /\ staged \subseteq Txns /\ receipts \subseteq Txns /\ intents \subseteq Txns
  /\ logged \in [Txns -> Nat]
  /\ latest \in [Revisions -> {"none", "legacy", "install", "trash"}]
  /\ revOf \in [Txns -> Locals \cup {None}]
  /\ app \in {"off", "opening", "running", "degraded"}
  /\ op \in Ops
  /\ crashes \in 0..MaxCrashes

Init ==
  /\ rows = Legacy /\ media = Legacy
  /\ pendings = {} /\ active = None /\ lkg = None
  /\ trash = {} /\ staged = {} /\ receipts = {} /\ intents = {}
  /\ logged = [t \in Txns |-> 0]
  /\ latest = [r \in Revisions |-> IF r \in Legacy THEN "legacy" ELSE "none"]
  /\ revOf = [t \in Txns |-> None]
  /\ app = "off" /\ op = Idle /\ crashes = 0

(***************************************************************************)
(* Helpers                                                                 *)
(***************************************************************************)
Busy(kind, at) == op.kind = kind /\ op.at = at
At(at)         == op.at = at
Free           == app = "running" /\ op = Idle

GoTo(at) == op' = [op EXCEPT !.at = at]

\* What the catalog lists and a renderer can load.
Ready(r) == r \in rows /\ (r \in Builtins \/ r \in media)

\* _validated_intent: a receipt bound to the intent and at least one copy of
\* the bytes, staged or published.
IntentValid(t) == t \in receipts /\ (t \in staged \/ revOf[t] \in media)

\* Mutant: the guard forgets the restore basis.
ProtectsActiveOnly == {active}

\* The revisions a deletion must never touch.
Protected == {active, lkg}

\* No other digest holds the PackKey and version of r.
SlotFree(r) == \A s \in rows : VersionOf[s] # VersionOf[r]

\* Mutant: a line that carries a transaction id is not recognised.
KnowsLegacyLinesOnly(t, r) == latest[r] = "legacy"

\* Mutant: any earlier line of the revision counts, whatever its transaction.
KnowsRevisionOnly(t, r) == latest[r] # "none"

\* _install_event_exists: this transaction's line, or an unsuperseded line of
\* a build that did not log transaction ids.
InstallEventExists(t, r) == logged[t] > 0 \/ latest[r] = "legacy"

\* The call returns or raises: the GUI is free again.
Return == op' = Idle

(***************************************************************************)
(* Install (install_bytes, _commit_install)                                *)
(***************************************************************************)

\* A revision already registered returns at once, and another digest in its
\* version slot raises PPK-LCY-E007: neither changes anything.
InstallBegin(r) ==
  /\ Free
  /\ r \notin rows
  /\ SlotFree(r)
  /\ \E t \in Txns :
       /\ revOf[t] = None
       /\ revOf' = [revOf EXCEPT ![t] = r]
       /\ op' = [kind |-> "install", at |-> "stage", rev |-> r, txn |-> t,
                 todo |-> {}]
  /\ UNCHANGED <<catalog, tree, journal, app, crashes>>

\* Mutant: the intent is written although there is no receipt yet.
StageThenIntent ==
  /\ At("stage")
  /\ staged' = staged \cup {op.txn}
  /\ GoTo("intent")
  /\ UNCHANGED <<catalog, media, trash, receipts, intents, journal, revOf,
                 app, crashes>>

Stage ==
  /\ At("stage")
  /\ staged' = staged \cup {op.txn}
  /\ GoTo("receipt")
  /\ UNCHANGED <<catalog, media, trash, receipts, intents, journal, revOf,
                 app, crashes>>

WriteReceipt ==
  /\ At("receipt")
  /\ receipts' = receipts \cup {op.txn}
  /\ GoTo("intent")
  /\ UNCHANGED <<catalog, media, trash, staged, intents, journal, revOf,
                 app, crashes>>

WriteIntent ==
  /\ At("intent")
  /\ intents' = intents \cup {op.txn}
  /\ GoTo("publish")
  /\ UNCHANGED <<catalog, media, trash, staged, receipts, journal, revOf,
                 app, crashes>>

\* The same-volume rename, unless the target is already taken.
Publish ==
  /\ At("publish")
  /\ staged' = staged \ {op.txn}
  /\ media' = media \cup {op.rev}
  /\ GoTo(IF op.rev \in media THEN "abandon" ELSE "commit")
  /\ UNCHANGED <<catalog, trash, receipts, intents, journal, revOf, app,
                 crashes>>

\* The target existed and the catalog does not know it: PPK-LCY-E007.
Abandon ==
  /\ At("abandon")
  /\ intents' = intents \ {op.txn}
  /\ Return
  /\ UNCHANGED <<catalog, media, trash, staged, receipts, journal, revOf,
                 app, crashes>>

\* The validated intent is re-read, then INSERT OR IGNORE; shared by install
\* and by recovery, which re-checks no version slot.
Commit ==
  /\ At("commit")
  /\ op.txn \in intents /\ IntentValid(op.txn)
  /\ rows' = rows \cup {op.rev}
  /\ GoTo("log")
  /\ UNCHANGED <<pendings, active, lkg, tree, journal, revOf, app, crashes>>

\* _ensure_install_event; branch three of the recovery cleans up after it.
EnsureInstallEvent ==
  IF InstallEventExists(op.txn, op.rev)
    THEN UNCHANGED journal
    ELSE /\ logged' = [logged EXCEPT ![op.txn] = @ + 1]
         /\ latest' = [latest EXCEPT ![op.rev] = "install"]

Log ==
  /\ op.at \in {"log", "relog"}
  /\ EnsureInstallEvent
  /\ GoTo(IF op.at = "log" THEN "unlink" ELSE "cleanup")
  /\ UNCHANGED <<catalog, tree, revOf, app, crashes>>

\* Mutant: a rollback leaves its intent behind.
UnlinkButRollback ==
  /\ op.at \in {"unlink", "forget"}
  /\ intents' = IF op.at = "forget" THEN intents ELSE intents \ {op.txn}
  /\ op' = IF op.kind = "recover"
             THEN [op EXCEPT !.at = "next", !.rev = None, !.txn = None]
             ELSE Idle
  /\ UNCHANGED <<catalog, media, trash, staged, receipts, journal, revOf,
                 app, crashes>>

\* _delete_intent ends an install; in a recovery the loop goes on.  "forget"
\* is the deletion that follows a rollback.
Unlink ==
  /\ op.at \in {"unlink", "forget"}
  /\ intents' = intents \ {op.txn}
  /\ op' = IF op.kind = "recover"
             THEN [op EXCEPT !.at = "next", !.rev = None, !.txn = None]
             ELSE Idle
  /\ UNCHANGED <<catalog, media, trash, staged, receipts, journal, revOf,
                 app, crashes>>

(***************************************************************************)
(* Opening the library: preflight, recover_pending_intents, the builtin    *)
(* registration, then recover_pending_deletes with the selection guard     *)
(***************************************************************************)

\* One intent that does not validate refuses the whole library: the
\* application falls back to the in-memory Bootstrap catalog.
Open ==
  /\ app = "off"
  /\ IF \A t \in intents : IntentValid(t)
       THEN /\ app' = "opening"
            /\ op' = Call("recover", "next", None, {})
       ELSE app' = "degraded" /\ op' = Idle
  /\ UNCHANGED <<catalog, tree, journal, revOf, crashes>>

\* Mutant: a committed row is taken as proof that the target is there.
BranchOnRow(published, committed) ==
  IF committed THEN "relog" ELSE IF published THEN "commit" ELSE "rollback"

\* The four branches of the recovery.
Branch(published, committed) ==
  IF published THEN IF committed THEN "relog" ELSE "commit"
               ELSE IF committed THEN "restore" ELSE "rollback"

RecoverNext ==
  /\ Busy("recover", "next")
  /\ \E t \in intents :
       /\ IntentValid(t)
       /\ op' = [op EXCEPT !.rev = revOf[t], !.txn = t,
                           !.at = Branch(revOf[t] \in media, revOf[t] \in rows)]
  /\ UNCHANGED <<catalog, tree, journal, revOf, app, crashes>>

\* The staged file is the sole good copy of a committed revision.
Restore ==
  /\ At("restore")
  /\ staged' = staged \ {op.txn}
  /\ media' = media \cup {op.rev}
  /\ GoTo("log")
  /\ UNCHANGED <<catalog, trash, receipts, intents, journal, revOf, app,
                 crashes>>

\* _cleanup_staging_copy is best effort: it never raises, and may leave the
\* copy behind.
CleanUp ==
  /\ op.at \in {"cleanup", "rollback"}
  /\ \/ staged' = staged \ {op.txn}
     \/ op.at \in FailAt /\ staged' = staged
  /\ GoTo(IF op.at = "cleanup" THEN "unlink" ELSE "forget")
  /\ UNCHANGED <<catalog, media, trash, receipts, intents, journal, revOf,
                 app, crashes>>

\* Mutant: the resume loop walks the catalog instead of the pending table.
ResumesEveryRow ==
  /\ Busy("recover", "next")
  /\ intents = {}
  /\ rows' = rows \cup Builtins
  /\ op' = Call("resume", "next", None, rows')
  /\ UNCHANGED <<pendings, active, lkg, tree, journal, revOf, app, crashes>>

\* ensure_builtin_official registers the release media; the deletions that
\* are pending now are the ones the resume loop walks.
RecoverDone ==
  /\ Busy("recover", "next")
  /\ intents = {}
  /\ rows' = rows \cup Builtins
  /\ op' = Call("resume", "next", None, pendings)
  /\ UNCHANGED <<pendings, active, lkg, tree, journal, revOf, app, crashes>>

\* The guard reads the selection facts now: a revision selected since the
\* request has its deletion withdrawn; an unknown one only loses its row.
ResumeNext ==
  /\ Busy("resume", "next")
  /\ \E r \in op.todo :
       op' = [op EXCEPT !.rev = r, !.todo = @ \ {r},
                        !.at = IF r \in Protected THEN "withdraw"
                               ELSE IF r \in rows THEN "trash" ELSE "unpend"]
  /\ UNCHANGED <<catalog, tree, journal, revOf, app, crashes>>

ResumeDone ==
  /\ Busy("resume", "next")
  /\ op.todo = {}
  /\ app' = "running"
  /\ Return
  /\ UNCHANGED <<catalog, tree, journal, revOf, crashes>>

(***************************************************************************)
(* Uninstall (request_uninstall, uninstall_revision) and the selection     *)
(***************************************************************************)

\* Mutant: the resume loop does not clear the row of what it deleted.
LeavesPendingRow ==
  op' = IF op.kind = "resume" THEN [op EXCEPT !.at = "next", !.rev = None]
                              ELSE Idle

\* Back to the caller of uninstall_revision: only the resume loop has more
\* to do, and it clears the pending row of the revision first.
AfterUninstall ==
  op' = IF op.kind = "resume" THEN [op EXCEPT !.at = "unpend"] ELSE Idle

\* The page offers the deletion of a listed, loadable, not yet pending
\* revision; the library refuses a builtin and a protected one.
RequestUninstall(r) ==
  /\ Free
  /\ r \in rows \ Builtins /\ Ready(r) /\ r \notin pendings
  /\ r \notin Protected
  /\ op' = Call("request", "trash", r, {})
  /\ UNCHANGED <<catalog, tree, journal, revOf, app, crashes>>

\* Mutant: the tree is removed in place of being moved to the trash.
RemovesMedia ==
  /\ At("trash")
  /\ media' = media \ {op.rev}
  /\ GoTo("delete")
  /\ UNCHANGED <<catalog, trash, staged, receipts, intents, journal, revOf,
                 app, crashes>>

TrashMedia ==
  /\ At("trash")
  /\ trash' = trash \cup ({op.rev} \cap media)
  /\ media' = media \ {op.rev}
  /\ GoTo("delete")
  /\ UNCHANGED <<catalog, staged, receipts, intents, journal, revOf, app,
                 crashes>>

\* The OS still holds the files, so the rename fails; the fallback of
\* shutil.move may have left a copy in the trash.  A request is scheduled for
\* the next start, a resumed one stays scheduled.
MediaLocked ==
  /\ At("trash") /\ "locked" \in FailAt
  /\ op.rev \in media
  /\ trash' \in {trash, trash \cup {op.rev}}
  /\ GoTo(IF op.kind = "request" THEN "schedule" ELSE "next")
  /\ UNCHANGED <<catalog, media, staged, receipts, intents, journal, revOf,
                 app, crashes>>

\* Mutant: the tombstone line is left out.
DeletesSilently ==
  /\ At("delete")
  /\ rows' = rows \ {op.rev}
  /\ AfterUninstall
  /\ UNCHANGED <<pendings, active, lkg, tree, journal, revOf, app, crashes>>

DeleteRow ==
  /\ At("delete")
  /\ rows' = rows \ {op.rev}
  /\ GoTo("tombstone")
  /\ UNCHANGED <<pendings, active, lkg, tree, journal, revOf, app, crashes>>

Tombstone ==
  /\ At("tombstone")
  /\ latest' = [latest EXCEPT ![op.rev] = "trash"]
  /\ AfterUninstall
  /\ UNCHANGED <<catalog, tree, logged, revOf, app, crashes>>

Schedule ==
  /\ At("schedule")
  /\ pendings' = pendings \cup {op.rev}
  /\ Return
  /\ UNCHANGED <<rows, active, lkg, tree, journal, revOf, app, crashes>>

\* Mutant: the statement deletes every pending row.
UnpendsAll ==
  /\ op.at \in {"unpend", "withdraw"}
  /\ pendings' = {}
  /\ op' = IF op.kind = "resume" THEN [op EXCEPT !.at = "next", !.rev = None]
                                 ELSE Idle
  /\ UNCHANGED <<rows, active, lkg, tree, journal, revOf, app, crashes>>

\* cancel_pending_delete, and the last statement of the resume loop.
Unpend ==
  /\ op.at \in {"unpend", "withdraw"}
  /\ pendings' = pendings \ {op.rev}
  /\ op' = IF op.kind = "resume" THEN [op EXCEPT !.at = "next", !.rev = None]
                                 ELSE Idle
  /\ UNCHANGED <<rows, active, lkg, tree, journal, revOf, app, crashes>>

\* A committed switch; choosing a revision withdraws its pending deletion.
Select(r) ==
  /\ Free
  /\ Ready(r) /\ r # active
  /\ active' = r
  /\ op' = IF r \in pendings THEN Call("select", "withdraw", r, {}) ELSE Idle
  /\ UNCHANGED <<rows, pendings, lkg, tree, journal, revOf, app, crashes>>

\* The health observation makes the restored ACTIVE the restore basis.
Promote ==
  /\ Free
  /\ active # None /\ Ready(active) /\ lkg # active
  /\ lkg' = active
  /\ UNCHANGED <<rows, pendings, active, tree, journal, revOf, app, op,
                 crashes>>

(***************************************************************************)
(* Failures                                                                *)
(***************************************************************************)

\* An I/O call of the step raises.  Before the durable intent the staged
\* copy is cleaned up; a journal line may be on disk although its barrier
\* raised, and a withdrawal may be committed although its line was not written.
\* A recovery that raises refuses the library, a resume that raises is logged
\* and the application goes on without the rest of the loop.
Fail ==
  /\ op.at \in FailAt \ {"cleanup", "rollback"}
  /\ staged' = IF op.at \in {"stage", "receipt", "intent"}
                 THEN staged \ {op.txn} ELSE staged
  /\ \/ UNCHANGED journal
     \/ op.at \in {"log", "relog"} /\ EnsureInstallEvent
     \/ /\ op.at = "tombstone"
        /\ latest' = [latest EXCEPT ![op.rev] = "trash"]
        /\ UNCHANGED logged
  /\ \/ UNCHANGED pendings
     \/ op.at = "withdraw" /\ pendings' = pendings \ {op.rev}
  /\ app' = CASE op.kind = "recover" -> "degraded"
              [] op.kind = "resume" -> "running"
              [] OTHER -> app
  /\ Return
  /\ UNCHANGED <<rows, active, lkg, media, trash, receipts, intents, revOf,
                 crashes>>

\* The process dies between two durable effects.
Crash ==
  /\ op.at \in CrashAt
  /\ crashes < MaxCrashes
  /\ crashes' = crashes + 1
  /\ app' = "off" /\ op' = Idle
  /\ UNCHANGED <<catalog, tree, journal, revOf>>

\* Power is lost before the directory entry of the publishing rename is on
\* disk, although what was synced after it is.
PowerLoss ==
  /\ "power" \in CrashAt
  /\ op.kind = "install" /\ op.at \in {"commit", "log", "unlink"}
  /\ crashes < MaxCrashes
  /\ crashes' = crashes + 1
  /\ media' = media \ {op.rev}
  /\ staged' = staged \cup {op.txn}
  /\ app' = "off" /\ op' = Idle
  /\ UNCHANGED <<catalog, trash, receipts, intents, journal, revOf>>

Quit ==
  /\ Free \/ app = "degraded"
  /\ app' = "off"
  /\ UNCHANGED <<catalog, tree, journal, revOf, op, crashes>>

(***************************************************************************)
(* Specification                                                           *)
(***************************************************************************)
InstallStep == Stage \/ WriteReceipt \/ WriteIntent \/ Publish \/ Abandon
RecoverStep == RecoverNext \/ Restore \/ CleanUp \/ RecoverDone
SharedStep  == Commit \/ Log \/ Unlink
DeleteStep  == ResumeNext \/ ResumeDone \/ TrashMedia \/ DeleteRow
                 \/ Tombstone \/ Schedule \/ Unpend

\* What the GUI thread does once a call is under way.
Proceed == InstallStep \/ RecoverStep \/ SharedStep \/ DeleteStep

User  == \/ Promote
         \/ \E r \in Locals : InstallBegin(r) \/ RequestUninstall(r)
         \/ \E r \in Revisions : Select(r)
Fault == MediaLocked \/ Fail \/ Crash \/ PowerLoss

Next == Open \/ Proceed \/ User \/ Fault \/ Quit

Spec == Init /\ [][Next]_vars

\* The thread runs the call it is in, and the program is started again.
Fairness == WF_vars(Proceed) /\ WF_vars(Open)
FairSpec == Spec /\ Fairness

(***************************************************************************)
(* Properties                                                              *)
(***************************************************************************)

\* The pet the next start restores is never a revision that an install, a
\* recovery, an uninstall or a resumed deletion has taken away: ACTIVE and
\* LAST-KNOWN-GOOD stay registered and loadable, whatever fails and wherever
\* the process dies (the active_guard of request_uninstall and
\* recover_pending_deletes).
SelectionReady ==
  \A r \in {active, lkg} \ {None} : r \in rows /\ (r \in media \/ r \in Builtins)

\* Whenever the process is down the next start is not refused: every intent
\* left behind still has its receipt and a copy of its bytes.
Reopenable ==
  app = "off" => \A t \in intents : IntentValid(t)

\* However often a recovery is interrupted and run again, a transaction has
\* at most one INSTALL_COMMITTED line (_install_event_exists).
InstallLoggedOnce ==
  \A t \in Txns : logged[t] <= 1

\* A registered local revision has its install line, or an intent that makes
\* the next start write it: the row is committed before the line.
CommittedIsLogged ==
  \A r \in rows \cap Locals :
    \/ latest[r] \in {"install", "legacy"}
    \/ \E t \in intents : revOf[t] = r

\* Both: the journal tells each install once, and tells every one.
InstallAudited == InstallLoggedOnce /\ CommittedIsLogged

\* Once the program is up, the journal replays to the catalog: the last line
\* of a revision is an install exactly when it is registered.
JournalMatchesCatalog ==
  Free => \A r \in Locals :
            r \in rows <=> latest[r] \in {"install", "legacy"}

\* Uninstalling and recovering move bytes and never destroy the only copy of
\* a revision that was ever registered.
NoBytesLost ==
  \A r \in Locals :
    r \in rows \/ latest[r] # "none" =>
      \/ r \in media \cup trash
      \/ \E t \in intents \cap staged : revOf[t] = r

\* Once the program is up, every listed local revision has its media: no
\* selectable but media-less entry survives.
NoGhostRow ==
  Free => rows \cap Locals \subseteq media

\* Once the program is up, a scheduled deletion names a listed revision that
\* is neither the selection nor the restore basis: the request was withdrawn
\* by a later choice, across any crash between the two writes, and a deletion
\* that was carried out leaves nothing scheduled for a later import.
PendingIsDeletable ==
  Free => pendings \subseteq rows \ (Builtins \cup {active, lkg})

\* Catalog, files, intents, schedule and journal agree, at every point where a
\* start, the pages or the next recovery rely on it.
StoresAgree ==
  Reopenable /\ JournalMatchesCatalog /\ NoGhostRow /\ PendingIsDeletable

\* The refinement: to its users the library is the atomic one of
\* CharacterLibrary, although an install is many durable steps and its row is
\* inserted by whoever finishes the intent.
Promise == INSTANCE CharacterLibrary WITH
             listed <- rows, scheduled <- pendings, Initial <- Legacy

KeepsPromise == Promise!Spec

\* A durable intent is finished or rolled back in the end, if the program is
\* started again after each of finitely many kills.
RecoveryConverges ==
  \A t \in Txns : t \in intents ~> t \notin intents
=============================================================================
