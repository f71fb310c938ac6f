----------------------------- MODULE TodoStore -----------------------------
(***************************************************************************)
(* The todo module: the SQLite store of repository.py (one tree of tasks   *)
(* and at most one focus row), the service with its task cache and focus   *)
(* projection, the pet context the projection drives, the verified backups *)
(* with their retention, the upgrade of a v1 store and the restore.        *)
(*                                                                         *)
(* Everything runs on the GUI thread.  A use case is one SQLite            *)
(* transaction followed by local publishing, so it is one action; opening, *)
(* upgrading and restoring change several files, so each of their durable  *)
(* effects is a step, and the process may die between any two.             *)
(*                                                                         *)
(* Titles, dates, axes and the order of siblings are abstracted: an edit   *)
(* of them rewrites the cached row.  Times are abstracted to the order of  *)
(* the backups.                                                            *)
(***************************************************************************)
EXTENDS Naturals, FiniteSets

CONSTANTS
  Tasks,        \* task ids
  Horizons,     \* short, medium, long
  Notes,        \* note texts
  Blank,        \* the empty note
  MaxDepth,     \* MAX_DEPTH
  Limit,        \* RETENTION_LIMIT
  FirstStores,  \* what the data directory may hold at first
  Faults,       \* what may fail
  MaxGen,       \* bound on the data generation of one process
  MaxStarts,    \* bound on starts of the program
  MaxManual,    \* bound on the ids of manual backups
  MaxRot,       \* bound on the decayed backups there are at a time
  NoStore, Broken, Unloaded, Idle, None

ASSUME TodoAssumption ==
  /\ IsFiniteSet(Tasks) /\ Blank \in Notes /\ Idle \notin Horizons
  /\ None \notin Tasks \cup Horizons \cup {Idle}
  /\ MaxDepth \in Nat \ {0} /\ Limit \in Nat \ {0, 1}
  /\ Faults \subseteq {"write", "read", "open", "backup", "migrate",
                       "replace", "rot", "damage", "kill"}
  /\ MaxGen \in Nat /\ MaxStarts \in Nat /\ MaxManual \in Nat /\ MaxRot \in Nat

VARIABLES
  disk,     \* tasks.db
  backups,  \* the backups directory; the newest has the greatest id
  made,     \* backups made so far; names the next one
  state,    \* of the module: down, busy, open, degraded or facade
  op,       \* the start or the restore in progress
  cache,    \* TodoService._tasks, or Unloaded
  proj,     \* TodoService._focus_projection: a horizon, Idle or None
  working,  \* the WORKING context of owner "todo"
  dataGen,  \* data_generation
  storeGen, \* store_generation
  starts    \* starts so far

files  == <<disk, backups, made>>
memory == <<cache, proj, working, dataGen, storeGen>>
vars   == <<files, state, op, memory, starts>>

Quiet == [kind |-> "none", at |-> "idle", src |-> None]

Rows       == [up : Tasks \cup {None}, hor : Horizons, done : BOOLEAN, arch : BOOLEAN]
StoredRows == [up : Tasks \cup {None}, hor : Horizons, done : BOOLEAN, arch : BOOLEAN,
               note : Notes]
Caches == UNION {[D -> Rows] : D \in SUBSET Tasks}
Stores == [version : {1, 2}, focus : Tasks \cup {None},
           rows : UNION {[D -> StoredRows] : D \in SUBSET Tasks}]
Kinds  == {"pre-migration", "manual", "pre-restore"}

TypeOK ==
  /\ disk \in Stores \cup {NoStore, Broken}
  /\ backups \subseteq [id : 1..made, kind : Kinds, data : Stores, ok : BOOLEAN]
  /\ made \in Nat
  /\ state \in {"down", "busy", "open", "degraded", "facade"}
  /\ op \in [kind : {"none", "start", "restore"}, src : Nat \cup {None},
             at : {"idle", "verify", "preserve", "copy", "open", "backup", "migrate"}]
  /\ cache \in Caches \cup {Unloaded}
  /\ proj \in Horizons \cup {Idle, None}
  /\ working \in BOOLEAN
  /\ dataGen \in 0..MaxGen /\ storeGen \in Nat /\ starts \in 0..MaxStarts

Init ==
  /\ disk \in FirstStores /\ backups = {} /\ made = 0
  /\ state = "down" /\ op = Quiet
  /\ cache = Unloaded /\ proj = None /\ working = FALSE
  /\ dataGen = 0 /\ storeGen = 0 /\ starts = 0

(***************************************************************************)
(* The tree rules of domain.py                                             *)
(***************************************************************************)
May(fault) == fault \in Faults

\* A task and its ancestors: the least set with t that is closed under parents.
Lineage(tree, t) ==
  LET Closed(S) == t \in S /\ \A u \in S : tree[u].up \in S \cup {None}
  IN  {a \in DOMAIN tree : \A S \in SUBSET DOMAIN tree : Closed(S) => a \in S}

Subtree(tree, r) == {t \in DOMAIN tree : r \in Lineage(tree, t)}

\* check_parenting of a new task under p.
MayParent(tree, p) ==
  p # None => p \in DOMAIN tree /\ Cardinality(Lineage(tree, p)) < MaxDepth

\* The archived ancestors of t up to the first one that is not archived.
ArchivedAbove(tree, t) ==
  {a \in Lineage(tree, t) \ {t} :
     \A b \in Lineage(tree, t) \ {t} : a \in Lineage(tree, b) => tree[b].arch}

\* The tree is a forest: every parent exists, no task is under itself, and
\* none is deeper than MAX_DEPTH.
Forest(tree) ==
  \A t \in DOMAIN tree :
    /\ Cardinality(Lineage(tree, t)) <= MaxDepth
    /\ tree[t].up # None =>
         tree[t].up \in DOMAIN tree /\ t \notin Lineage(tree, tree[t].up)

\* The focused task of a store exists and is not completed.
FocusOpen(s) == s.focus # None => s.focus \in DOMAIN s.rows /\ ~ s.rows[s.focus].done

\* The schema links parents and focus to tasks, and the builds before this one
\* kept the same rules.
ASSUME FirstStoresAssumption ==
  /\ NoStore \notin Stores /\ Broken \notin Stores /\ NoStore # Broken
  /\ \A s \in FirstStores \ {NoStore, Broken} :
       s \in Stores /\ FocusOpen(s) /\ Forest(s.rows)

(***************************************************************************)
(* The store and what the service publishes of it                          *)
(***************************************************************************)
\* Mutant: the tree is loaded with its notes.
LoadedWithNotes == disk.rows

\* load_all: the rows without their notes.
Loaded == [t \in DOMAIN disk.rows |->
             [up |-> disk.rows[t].up, hor |-> disk.rows[t].hor,
              done |-> disk.rows[t].done, arch |-> disk.rows[t].arch]]

\* _ensure_loaded
Tree == IF cache = Unloaded THEN Loaded ELSE cache

\* The focus projection of a store.
Projected(s) ==
  IF s.focus = None \/ s.rows[s.focus].done THEN Idle ELSE s.rows[s.focus].hor

WithNote(row, text) == [up |-> row.up, hor |-> row.hor, done |-> row.done,
                        arch |-> row.arch, note |-> text]

\* Mutant: the row carries the note of the cache, which is never loaded.
RowToWrite(t, row) == WithNote(row, Blank)

\* _write_task: an upsert leaves the note column alone.
Upserted(t, row) ==
  WithNote(row, IF t \in DOMAIN disk.rows THEN disk.rows[t].note ELSE Blank)

\* apply_batch: the rows after changed rows are upserted and gone ones deleted.
Written(changed, gone) ==
  [t \in (DOMAIN disk.rows \cup DOMAIN changed) \ gone |->
     IF t \in DOMAIN changed THEN Upserted(t, changed[t]) ELSE disk.rows[t]]

CacheAfter(changed, gone) ==
  [t \in (DOMAIN Tree \cup DOMAIN changed) \ gone |->
     IF t \in DOMAIN changed THEN changed[t] ELSE Tree[t]]

\* _emit("changed") and _dispatch_todo_event with the projection p cached: the
\* context follows the projection, which is read again when there is none.
Publish(p) ==
  /\ dataGen' = dataGen + 1
  /\ \/ proj' = (IF p = None THEN Projected(disk') ELSE p) /\ working' = (proj' # Idle)
     \/ p = None /\ May("read") /\ proj' = None /\ UNCHANGED working

\* One use case: a transaction, then cache, projection and events; a failed
\* transaction is rolled back and leaves the cache as it was.
Commit(changed, gone, focus, p) ==
  /\ state = "open" /\ dataGen < MaxGen
  /\ \/ /\ disk' = [disk EXCEPT !.rows = Written(changed, gone), !.focus = focus]
        /\ cache' = CacheAfter(changed, gone)
        /\ Publish(p)
     \/ /\ May("write")
        /\ cache' = Tree
        /\ UNCHANGED <<disk, proj, working, dataGen>>
  /\ UNCHANGED <<backups, made, state, op, storeGen, starts>>

\* A change of ids that ends the focus if it is among them.
CommitClearing(changed, gone, ids) ==
  IF disk.focus \in ids
  THEN Commit(changed, gone, None, Idle)
  ELSE Commit(changed, gone, disk.focus, proj)

(***************************************************************************)
(* Use cases of the service                                                *)
(***************************************************************************)
AddTask(t, p, h) ==
  /\ state = "open" /\ t \notin DOMAIN disk.rows /\ MayParent(Tree, p)
  /\ LET row == [up |-> p, hor |-> IF p = None THEN h ELSE Tree[p].hor,
                 done |-> FALSE, arch |-> FALSE]
     IN  Commit([x \in {t} |-> row], {}, disk.focus, proj)

\* rename, set_due_date, set_importance, set_urgency: the cached row of one
\* task; move_within_siblings: of all its siblings.
Edit(ids) ==
  Commit([i \in ids |-> Tree[i]], {}, disk.focus, proj)

EditTask(t) == state = "open" /\ t \in DOMAIN Tree /\ Edit({t})

MoveWithinSiblings(t) ==
  /\ state = "open" /\ t \in DOMAIN Tree
  /\ LET siblings == {s \in DOMAIN Tree : Tree[s].up = Tree[t].up}
     IN  Cardinality(siblings) > 1 /\ Edit(siblings)

SetHorizon(t, h) ==
  /\ state = "open" /\ t \in DOMAIN Tree /\ Tree[t].hor # h
  /\ Commit([i \in {t} |-> [Tree[i] EXCEPT !.hor = h]], {}, disk.focus,
            IF disk.focus = t THEN h ELSE proj)

\* set_note has its own UPDATE; the cache never holds a note.
SetNote(t, text) ==
  /\ state = "open" /\ t \in DOMAIN Tree /\ dataGen < MaxGen
  /\ \/ disk' = [disk EXCEPT !.rows[t].note = text] /\ Publish(proj)
     \/ May("write") /\ UNCHANGED <<disk, proj, working, dataGen>>
  /\ cache' = Tree
  /\ UNCHANGED <<backups, made, state, op, storeGen, starts>>

\* Mutant: the focus ends only when the completed root itself has it.
CompleteRoot(t, ids) ==
  LET todo == {i \in ids : ~ Tree[i].done}
  IN  /\ todo # {}
      /\ CommitClearing([i \in todo |-> [Tree[i] EXCEPT !.done = TRUE]], {}, {t})

CompleteAll(t, ids) ==
  LET todo == {i \in ids : ~ Tree[i].done}
  IN  /\ todo # {}
      /\ CommitClearing([i \in todo |-> [Tree[i] EXCEPT !.done = TRUE]], {}, ids)

Complete(t) == state = "open" /\ t \in DOMAIN Tree /\ CompleteAll(t, {t})
CompleteSubtree(t) ==
  state = "open" /\ t \in DOMAIN Tree /\ CompleteAll(t, Subtree(Tree, t))

RestoreAll(ids) ==
  LET todo == {i \in ids : Tree[i].done}
  IN  /\ todo # {}
      /\ Commit([i \in todo |-> [Tree[i] EXCEPT !.done = FALSE]], {},
                disk.focus, proj)

RestoreTask(t) == state = "open" /\ t \in DOMAIN Tree /\ RestoreAll({t})
RestoreSubtree(t) ==
  state = "open" /\ t \in DOMAIN Tree /\ RestoreAll(Subtree(Tree, t))

ArchiveSubtree(t) ==
  /\ state = "open" /\ t \in DOMAIN Tree
  /\ LET ids  == Subtree(Tree, t)
         todo == {i \in ids : ~ Tree[i].arch}
     IN  /\ todo # {}
         /\ CommitClearing([i \in todo |-> [Tree[i] EXCEPT !.arch = TRUE]], {}, ids)

RestoreArchived(t) ==
  /\ state = "open" /\ t \in DOMAIN Tree /\ Tree[t].arch
  /\ LET ids == Subtree(Tree, t) \cup ArchivedAbove(Tree, t)
     IN  Commit([i \in {j \in ids : Tree[j].arch} |-> [Tree[i] EXCEPT !.arch = FALSE]], {},
                disk.focus, proj)

DeleteSubtree(t) ==
  /\ state = "open" /\ t \in DOMAIN Tree
  /\ LET ids == Subtree(Tree, t)
     IN  CommitClearing([x \in {} |-> None], ids, ids)

\* Only a completed task is refused; an archived one may be focused.
StartFocus(t) ==
  /\ state = "open" /\ t \in DOMAIN Tree /\ ~ Tree[t].done /\ disk.focus # t
  /\ Commit([x \in {} |-> None], {}, t, Tree[t].hor)

StopFocus ==
  /\ state = "open" /\ disk.focus # None
  /\ Commit([x \in {} |-> None], {}, None, Idle)

(***************************************************************************)
(* Backups: backup.py                                                      *)
(***************************************************************************)
Ids == {b.id : b \in backups}
BackupOf(id) == CHOOSE b \in backups : b.id = id
Readable(id) == id \in Ids /\ BackupOf(id).ok
UsableV1(b) == b.kind = "pre-migration" /\ b.ok

\* list_backups: the usable ones first, newest first among each kind.
Ahead(b, c) == (b.ok /\ ~ c.ok) \/ (b.ok = c.ok /\ b.id > c.id)
First(list, n) == {b \in list : Cardinality({c \in list : Ahead(c, b)}) < n}

\* Mutant: the cap counts the newest backups only.
KeptByAge(list) == First(list, Limit)

\* prune_backups: the first Limit, and in place of the last of them the newest
\* usable pre-migration backup if none would be kept otherwise.
Kept(list) ==
  LET later == {b \in list \ First(list, Limit) : UsableV1(b)}
  IN  IF later = {} \/ \E b \in First(list, Limit) : UsableV1(b)
      THEN First(list, Limit)
      ELSE First(list, Limit - 1) \cup {b \in later : \A c \in later : c.id <= b.id}

\* Mutant: nothing is protected.
PruneAny(bs, protected) == Kept(bs)

Prune(bs, protected) ==
  {b \in bs : b.id = protected} \cup Kept({b \in bs : b.id # protected})

\* create_backup of the current store, with the prune that follows it.
Snapshot(kind, protected) ==
  /\ backups' = Prune(backups \cup {[id |-> made + 1, kind |-> kind, data |-> disk,
                                     ok |-> TRUE]}, protected)
  /\ made' = made + 1

CreateManualBackup ==
  /\ state = "open" /\ made < MaxManual
  /\ Snapshot("manual", None)
  /\ cache' = Tree
  /\ UNCHANGED <<disk, state, op, proj, working, dataGen, storeGen, starts>>

(***************************************************************************)
(* Opening, upgrading and restoring                                        *)
(***************************************************************************)
GoTo(at) == op' = [op EXCEPT !.at = at]
Step(at) == state = "busy" /\ op.at = at

Start ==
  /\ state = "down" /\ starts < MaxStarts
  /\ starts' = starts + 1
  /\ state' = "busy" /\ op' = [kind |-> "start", at |-> "open", src |-> None]
  /\ UNCHANGED <<files, memory>>

\* The repository is open: the first projection of a new service, or the
\* "changed" event of a rebuilt one.
Serve ==
  /\ op' = Quiet
  /\ IF op.kind = "start"
     THEN \/ /\ state' = "open"
             /\ proj' = Projected(disk') /\ working' = (proj' # Idle)
             /\ UNCHANGED <<cache, dataGen, storeGen>>
          \/ /\ May("read") /\ state' = "facade"
             /\ UNCHANGED memory
     ELSE state' = "open" /\ Publish(None) /\ UNCHANGED <<cache, storeGen>>

\* The repository cannot be opened: the facade at start, the write-forbidden
\* state after a restore.
Refuse ==
  /\ op' = Quiet
  /\ IF op.kind = "start"
     THEN state' = "facade" /\ UNCHANGED memory
     ELSE /\ state' = "degraded"
          /\ dataGen' = dataGen + 1 /\ working' = FALSE
          /\ UNCHANGED <<cache, proj, storeGen>>

\* _inspect_database: the exact schema of a version this build knows.
Sound == disk \notin {NoStore, Broken}

\* _create_and_publish: an empty store is built aside and published whole.
CreateStore ==
  /\ disk = NoStore
  /\ disk' = [version |-> 2, rows |-> [x \in {} |-> None], focus |-> None]
  /\ Serve

\* _open_existing
OpenExisting == Sound /\ disk.version = 2 /\ UNCHANGED disk /\ Serve

OpenV1 == Sound /\ disk.version = 1 /\ GoTo("backup") /\ UNCHANGED <<disk, state, memory>>

Open ==
  /\ Step("open") /\ UNCHANGED <<backups, made, starts>>
  /\ \/ CreateStore \/ OpenExisting \/ OpenV1
     \/ (disk = Broken \/ May("open")) /\ UNCHANGED disk /\ Refuse

\* A store that could not be preserved is never upgraded.
BackupV1 ==
  /\ Step("backup") /\ UNCHANGED <<disk, starts>>
  /\ \/ Snapshot("pre-migration", op.src) /\ GoTo("migrate") /\ UNCHANGED <<state, memory>>
     \/ May("backup") /\ UNCHANGED <<backups, made>> /\ Refuse

\* migrate_v1_to_v2.  A check that fails after the commit closes the store
\* although it is a v2 store by then.
Migrate ==
  /\ Step("migrate") /\ UNCHANGED <<backups, made, starts>>
  /\ \/ disk' = [disk EXCEPT !.version = 2] /\ Serve
     \/ /\ May("migrate")
        /\ disk' \in {disk, [disk EXCEPT !.version = 2]}
        /\ Refuse

\* restore_from_backup: the repository is closed first.
BeginRestore(id) ==
  /\ state \in {"open", "degraded"} /\ dataGen < MaxGen
  /\ state' = "busy" /\ op' = [kind |-> "restore", at |-> "verify", src |-> id]
  /\ UNCHANGED <<files, memory, starts>>

\* Mutant: what the module knew of the old store survives.
ReacquireWarm ==
  /\ GoTo("open") /\ storeGen' = storeGen + 1
  /\ UNCHANGED <<cache, proj, working, dataGen>>

\* _reacquire_after_restore: everything cached is dropped.
Reacquire ==
  /\ GoTo("open") /\ storeGen' = storeGen + 1
  /\ cache' = Unloaded /\ proj' = None
  /\ UNCHANGED <<working, dataGen>>

VerifyCandidate ==
  /\ Step("verify") /\ UNCHANGED <<files, state, starts>>
  /\ IF Readable(op.src)
     THEN GoTo(IF disk = NoStore THEN "copy" ELSE "preserve") /\ UNCHANGED memory
     ELSE Reacquire

\* Mutant: a store that cannot be preserved is replaced all the same.
PreserveIfPossible ==
  /\ Step("preserve") /\ UNCHANGED <<disk, state, starts>>
  /\ \/ disk # Broken /\ Snapshot("pre-restore", op.src)
     \/ (disk = Broken \/ May("backup")) /\ UNCHANGED <<backups, made>>
  /\ GoTo("copy") /\ UNCHANGED memory

PreserveStore ==
  /\ Step("preserve") /\ UNCHANGED <<disk, state, starts>>
  /\ \/ disk # Broken /\ Snapshot("pre-restore", op.src) /\ GoTo("copy") /\ UNCHANGED memory
     \/ (disk = Broken \/ May("backup")) /\ UNCHANGED <<backups, made>> /\ Reacquire

\* One rename publishes the copy; a failure before it leaves the store alone,
\* one after it (the fsync) does not undo it.
ReplaceStore ==
  /\ Step("copy") /\ UNCHANGED <<backups, made, state, starts>>
  /\ \/ Readable(op.src) /\ disk' = BackupOf(op.src).data
     \/ (~ Readable(op.src) \/ May("replace")) /\ UNCHANGED disk
  /\ Reacquire

(***************************************************************************)
(* The world outside                                                       *)
(***************************************************************************)
\* The process dies; what was in memory is gone.
Kill ==
  /\ May("kill") /\ state # "down"
  /\ state' = "down" /\ op' = Quiet
  /\ cache' = Unloaded /\ proj' = None /\ working' = FALSE
  /\ dataGen' = 0 /\ storeGen' = 0
  /\ UNCHANGED <<files, starts>>

\* A backup file decays.
Rot(id) ==
  /\ May("rot") /\ BackupOf(id).ok
  /\ Cardinality({b \in backups : ~ b.ok}) < MaxRot
  /\ backups' = {IF b.id = id THEN [b EXCEPT !.ok = FALSE] ELSE b : b \in backups}
  /\ UNCHANGED <<disk, made, state, op, memory, starts>>

\* The store file is damaged while nobody has it open.
Damage ==
  /\ May("damage") /\ state \in {"down", "degraded"} /\ disk # NoStore
  /\ disk' = Broken
  /\ UNCHANGED <<backups, made, state, op, memory, starts>>

UseCase ==
  \/ StopFocus \/ CreateManualBackup
  \/ \E t \in Tasks :
       \/ \E p \in Tasks \cup {None}, h \in Horizons : AddTask(t, p, h)
       \/ \E h \in Horizons : SetHorizon(t, h)
       \/ \E text \in Notes : SetNote(t, text)
       \/ EditTask(t) \/ MoveWithinSiblings(t)
       \/ Complete(t) \/ CompleteSubtree(t) \/ RestoreTask(t) \/ RestoreSubtree(t)
       \/ ArchiveSubtree(t) \/ RestoreArchived(t) \/ DeleteSubtree(t)
       \/ StartFocus(t)

Next ==
  \/ UseCase
  \/ Start \/ Open \/ BackupV1 \/ Migrate
  \/ VerifyCandidate \/ PreserveStore \/ ReplaceStore
  \/ \E id \in Ids : BeginRestore(id) \/ Rot(id)
  \/ Kill \/ Damage

Spec == Init /\ [][Next]_vars

(***************************************************************************)
(* Properties                                                              *)
(***************************************************************************)
\* The rows the service serves and writes back are those of the store, after
\* any failed write, restore or upgrade.
CacheMatchesStore ==
  state = "open" /\ cache # Unloaded => cache = Loaded

\* The pet is in the WORKING context exactly while the store has a focused
\* task, and the projection names its horizon; a module that cannot serve
\* shows no focus.
ProjectionMatchesFocus ==
  /\ state = "open" /\ proj # None =>
       proj = Projected(disk) /\ working = (Projected(disk) # Idle)
  /\ state \in {"degraded", "facade"} => ~working

\* The store, and every backup that may be restored, holds a forest of tasks
\* and focuses none that is completed or gone.
StoresAreWhole ==
  \A s \in {disk} \cup {b.data : b \in backups} :
    s \notin {NoStore, Broken} => FocusOpen(s) /\ Forest(s.rows)

\* With the types: what the pet and the pages are served is what is stored.
ServedIsStored == TypeOK /\ CacheMatchesStore /\ ProjectionMatchesFocus /\ StoresAreWhole

\* The backup a restore or the upgrade behind it reads from is never pruned
\* by the backups made on the way.
RestoreInputKept == op.src # None => op.src \in Ids

\* No edit but set_note changes the note of a task that stays: the tree never
\* loads notes, and must not write back what it did not load.
NoteKept ==
  [][state = "open" /\ (\A t \in Tasks, text \in Notes : ~ SetNote(t, text)) =>
       \A t \in DOMAIN disk.rows \cap DOMAIN disk'.rows :
         disk'.rows[t].note = disk.rows[t].note]_disk

\* Whatever is replaced, upgraded or pruned can still be gone back to: a whole
\* store is overwritten only when a backup holds exactly what it held, a damaged
\* store never, and retention never takes the newest usable backup of a v1 store.
Newest(b) == \A c \in backups : UsableV1(c) => c.id <= b.id
WayBackKept ==
  [][/\ op.at \in {"copy", "migrate"} /\ disk' # disk /\ disk # NoStore =>
          \E b \in backups : b.data = disk
     /\ \A b \in backups :
          UsableV1(b) /\ made' > made /\ Newest(b)
            => \E c \in backups' : UsableV1(c) /\ c.id >= b.id]_vars
=============================================================================
