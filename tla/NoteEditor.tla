----------------------------- MODULE NoteEditor -----------------------------
(***************************************************************************)
(* The notes pane of the todo page: one editor bound to one task, saved    *)
(* some time after the last keystroke; the drafts the program keeps for    *)
(* every text that is not stored yet; the events of the todo service, which *)
(* rebuild the page; the agent endpoint, which edits the same store; and   *)
(* the confirmation dialogs, during which the event loop goes on running.  *)
(*                                                                         *)
(* Everything runs on the GUI thread, so a handler is one action.  A       *)
(* confirmation is two, the question and the answer, with timers and agent *)
(* requests in between.  A text is abstracted to its task, the generation  *)
(* of the store it was written in, and its place in the order of all edits.*)
(***************************************************************************)
EXTENDS Naturals, FiniteSets, Functions

CONSTANTS
  Tasks,        \* task ids
  Parent,       \* the task above, or Null
  First,        \* tasks of the store at the start, and of its one backup
  MaxKept,      \* _MAX_KEPT_NOTE_DRAFTS
  MaxEdits,     \* bound on the texts written
  MaxRestores,  \* bound on the restores
  Faults,       \* what may fail
  Unborn, Gone, Null

ASSUME NoteAssumption ==
  /\ Parent \in [Tasks -> Tasks \cup {Null}] /\ First \subseteq Tasks
  /\ Null \notin Tasks /\ Unborn # Gone
  /\ MaxKept \in Nat /\ MaxEdits \in Nat /\ MaxRestores \in Nat
  /\ Faults \subseteq {"write", "read", "restore", "reopen"}

VARIABLES
  note,      \* the note of every task of the store
  health,    \* of the store: open or degraded
  storeGen,  \* TodoService.store_generation
  page,      \* the todo page: closed, inactive, active; ended: the program quit
  tree,      \* the tasks the page lists
  ed,        \* its editor
  drafts,    \* PetApplication.todo_note_drafts
  dialog,    \* the confirmation in progress, or Null
  pending,   \* refreshes of the page put off: held by a write, scheduled
  edits,     \* texts written so far
  failed     \* tasks whose text the store refused in the last step

store == <<note, health, storeGen>>
vars  == <<store, page, tree, ed, drafts, dialog, pending, edits, failed>>

NoText   == [of |-> Null, gen |-> 0, no |-> 0]
TextOf(t, n) == [of |-> t, gen |-> storeGen, no |-> n]
Exists(t) == note[t] \notin {Unborn, Gone}

\* The notes of a store that holds the tasks of First, as its backup does.
Backup == [t \in Tasks |-> IF t \in First THEN [NoText EXCEPT !.of = t] ELSE Unborn]

NoEditor == [task |-> Null, loaded |-> FALSE, dirty |-> FALSE, text |-> NoText,
             warned |-> FALSE, timer |-> FALSE, gen |-> storeGen]

Texts == [of : Tasks, gen : 0..MaxRestores, no : 0..MaxEdits]

ASSUME TextAssumption == Unborn \notin Texts /\ Gone \notin Texts

TypeOK ==
  /\ note \in [Tasks -> Texts \cup {Unborn, Gone}]
  /\ health \in {"open", "degraded"} /\ storeGen \in 0..MaxRestores
  /\ page \in {"closed", "inactive", "active", "ended"} /\ tree \subseteq Tasks
  /\ ed \in [task : Tasks \cup {Null}, loaded : BOOLEAN, dirty : BOOLEAN,
             text : Texts \cup {NoText}, warned : BOOLEAN, timer : BOOLEAN,
             gen : 0..MaxRestores]
  /\ DOMAIN drafts \subseteq Tasks /\ Range(drafts) \subseteq Texts
  /\ Cardinality(DOMAIN drafts) <= MaxKept
  /\ pending \subseteq {"held", "scheduled"} /\ edits \in 0..MaxEdits
  /\ failed \subseteq Tasks

Init ==
  /\ note = Backup /\ health = "open" /\ storeGen = 0
  /\ page = "closed" /\ tree = {} /\ ed = NoEditor /\ drafts = [t \in {} |-> NoText]
  /\ dialog = Null /\ pending = {} /\ edits = 0 /\ failed = {}

-----------------------------------------------------------------------------
(* The editor and the kept drafts *)

\* Nothing of task t is loaded.
Fresh(e, t) == [e EXCEPT !.task = t, !.loaded = FALSE, !.dirty = FALSE,
                         !.text = NoText]

\* Mutant: the identity switches and the content stays.
BindAsLoaded(e, t) == [e EXCEPT !.task = t, !.warned = FALSE]

\* Identity, load state and buffer switch together.
Bind(e, t) == [Fresh(e, t) EXCEPT !.warned = FALSE]

\* A kept draft comes before the store; a read that fails leaves the editor
\* empty and read-only.
Load(e, d, readable) ==
  IF e.task = Null \/ e.loaded THEN e
  ELSE IF e.task \in DOMAIN d
       THEN [e EXCEPT !.loaded = TRUE, !.dirty = TRUE, !.text = d[e.task]]
  ELSE IF readable /\ health' = "open" /\ note'[e.task] \notin {Unborn, Gone}
       THEN [e EXCEPT !.loaded = TRUE, !.dirty = FALSE, !.text = note'[e.task]]
  ELSE Fresh(e, e.task)

\* Mutant: the drafts outlive the store they were written for.
KeepAllDrafts(d) == d

\* What is kept when the store is replaced.
DraftsAfterRestore(d) == Restrict(d, {})

\* A new generation of the store drops the drafts and the buffer; an editor
\* that is not loaded tries again.
Sync(e, d, readable) ==
  IF e.gen # storeGen'
  THEN Load([Fresh(e, e.task) EXCEPT !.gen = storeGen', !.timer = FALSE],
            DraftsAfterRestore(d), readable)
  ELSE Load(e, d, readable)

Synced(e, d) == IF e.gen # storeGen' THEN DraftsAfterRestore(d) ELSE d

\* Mutant: the limit is not applied.
KeepBeyondLimit(d, t, text) == [u \in DOMAIN d \cup {t} |-> IF u = t THEN text ELSE d[u]]

\* A full set of drafts never gives one up for a new one.
KeepDraft(d, t, text) ==
  IF t \in DOMAIN d \/ Cardinality(DOMAIN d) < MaxKept
  THEN [u \in DOMAIN d \cup {t} |-> IF u = t THEN text ELSE d[u]]
  ELSE d

\* The text of a task that is not stored yet, as the user would find it.
Held(t) ==
  IF ed.task = t /\ ed.loaded /\ ed.dirty THEN ed.text
  ELSE IF t \in DOMAIN drafts THEN drafts[t]
  ELSE NoText

-----------------------------------------------------------------------------
(* Writing and refreshing *)

Writable == health = "open" /\ page = "active"
Reads    == {TRUE} \cup (IF "read" \in Faults THEN {FALSE} ELSE {})
Refused(W) == IF "write" \in Faults THEN SUBSET W ELSE {{}}

Live == IF ed.task # Null /\ ed.loaded /\ ed.dirty THEN {ed.task} ELSE {}

\* Mutant: only the live editor is flushed.
FlushLiveOnly == Live

\* The live editor first, then every draft it does not cover.
ToFlush == Live \cup (DOMAIN drafts \ (IF ed.loaded THEN {ed.task} ELSE {}))

\* Stored(W, bad): the texts of W that reach the store when it refuses bad.
Stored(W, bad) == IF Writable THEN {t \in W \ bad : Exists(t)} ELSE {}

Saved(W, bad) ==
  /\ note' = [t \in Tasks |-> IF t \in Stored(W, bad) THEN Held(t) ELSE note[t]]
  /\ failed' = W \ Stored(W, bad)
  /\ UNCHANGED <<health, storeGen, edits>>

\* Mutant: a draft goes when its write was tried.
DraftsAfterTry(S) == Restrict(drafts, DOMAIN drafts \ ToFlush)

\* S has been stored: its editor is clean, and its drafts go.
EditorAfter(S) == [ed EXCEPT !.dirty = ed.dirty /\ ed.task \notin S]
DraftsAfter(S) == Restrict(drafts, DOMAIN drafts \ S)

ShowTree == tree' = IF health' = "open"
                    THEN {t \in Tasks : note'[t] \notin {Unborn, Gone}} ELSE {}

Rebuilt(e, d) ==
  /\ \E readable \in Reads : ed' = Sync(e, d, readable)
  /\ drafts' = Synced(e, d)
  /\ ShowTree

\* A store that is open may fail the reads of a refresh; a degraded one
\* answers with nothing.
ReadFails == "read" \in Faults /\ health' = "open"

\* refresh() under _safe_refresh: a failed one leaves the page as it was, and
\* an editor of an earlier store unaware of the new one.
Refreshed(e, d) ==
  \/ Rebuilt(e, d)
  \/ ReadFails /\ ed' = e /\ drafts' = d /\ UNCHANGED tree

\* The service reports a change; a page in the middle of a confirmed write
\* puts the refresh off.
InWrite == dialog # Null /\ dialog.kind = "delete"

OnEvent(e, d) ==
  IF page # "active" THEN ed' = e /\ drafts' = d /\ UNCHANGED <<tree, pending>>
  ELSE IF InWrite
       THEN ed' = e /\ drafts' = d /\ pending' = pending \cup {"held"} /\ UNCHANGED tree
  ELSE Refreshed(e, d) /\ UNCHANGED pending

EventIf(changed, e, d) ==
  IF changed THEN OnEvent(e, d)
  ELSE ed' = e /\ drafts' = d /\ UNCHANGED <<tree, pending>>

-----------------------------------------------------------------------------
(* The page *)

Activate ==
  /\ page \in {"closed", "inactive"} /\ page' = "active"
  /\ failed' = {} /\ UNCHANGED <<store, dialog, edits, pending>>
  /\ Refreshed(IF page = "closed" THEN NoEditor ELSE ed, drafts)

\* The scheduled refresh, or the one of a filter the user changes.
Refresh ==
  /\ page = "active" /\ ("scheduled" \in pending \/ dialog = Null)
  /\ pending' = pending \ {"scheduled"}
  /\ failed' = {} /\ UNCHANGED <<store, page, dialog, edits>>
  /\ Refreshed(ed, drafts)

Select(t) ==
  /\ page = "active" /\ dialog = Null /\ t \in tree /\ t # ed.task
  /\ \E bad \in Refused(Live) :
       /\ Saved(Live, bad)
       /\ LET S == Stored(Live, bad)
              e == EditorAfter(S)
              d == DraftsAfter(S)
          IN  \/ /\ S # {} /\ drafts' = Synced(e, d) /\ ShowTree
                 /\ \E readable \in Reads :
                      ed' = Load(Bind(Sync(e, d, readable), t), drafts', readable)
              \/ /\ S = {} \/ ReadFails
                 /\ drafts' = d /\ UNCHANGED tree
                 /\ \E readable \in Reads : ed' = Load(Bind(e, t), d, readable)
  /\ UNCHANGED <<page, dialog, pending>>

Type ==
  /\ Writable /\ dialog = Null /\ ed.task # Null /\ ed.loaded
  /\ edits < MaxEdits /\ edits' = edits + 1
  /\ LET text == TextOf(ed.task, edits') IN
       /\ drafts' = KeepDraft(drafts, ed.task, text)
       /\ ed' = [ed EXCEPT !.text = text, !.dirty = TRUE, !.timer = TRUE,
                           !.warned = @ \/ ed.task \notin DOMAIN drafts']
  /\ failed' = {} /\ UNCHANGED <<store, page, tree, dialog, pending>>

\* The timer fires, or the user presses save.
FlushNote ==
  /\ page = "active" /\ (ed.timer \/ dialog = Null)
  /\ LET W == IF Writable THEN Live ELSE {} IN
     \E bad \in Refused(W) :
       /\ Saved(W, bad)
       /\ LET S == Stored(W, bad) IN
            EventIf(S # {}, [EditorAfter(S) EXCEPT !.timer = FALSE], DraftsAfter(S))
  /\ UNCHANGED <<page, dialog>>

\* What is written before a refresh between two writes drops the rest: on a
\* page that has not seen a restore, any of the texts, the live one first.
Tries == {ToFlush} \cup
         (IF ed.gen = storeGen THEN {} ELSE {W \in SUBSET ToFlush : Live \subseteq W})

\* Leaving the page writes every text that is not stored.
FlushAll(W, bad) ==
  /\ Saved(W, bad)
  /\ LET S == Stored(W, bad) IN
       EventIf(S # {}, [EditorAfter(S) EXCEPT !.timer = FALSE], DraftsAfter(S))
  /\ W = ToFlush \/ ed'.gen = storeGen

Deactivate ==
  /\ page = "active" /\ dialog = Null /\ page' = "inactive"
  /\ \E W \in Tries : \E bad \in Refused(W) : FlushAll(W, bad)
  /\ UNCHANGED dialog

\* The drafts that a page leaves when it has written W but for bad.
DraftsLeft(W, bad) ==
  \/ W = ToFlush /\ drafts' = DraftsAfter(Stored(W, bad))
  \/ /\ ed.gen # storeGen /\ Stored(W, bad) # {}
     /\ drafts' = DraftsAfterRestore(drafts)

\* Closing the panel disposes the page; the drafts are the program's.
Dispose ==
  /\ page \in {"active", "inactive"} /\ dialog = Null /\ page' = "closed"
  /\ IF page = "active"
     THEN \E W \in Tries : \E bad \in Refused(W) : Saved(W, bad) /\ DraftsLeft(W, bad)
     ELSE failed' = {} /\ UNCHANGED <<store, drafts, edits>>
  /\ ed' = NoEditor /\ tree' = {} /\ pending' = {} /\ UNCHANGED dialog

\* The panel is closed before the store is; what is kept only in memory goes.
Quit ==
  /\ page # "ended" /\ dialog = Null /\ page' = "ended"
  /\ IF page = "active"
     THEN \E W \in Tries : \E bad \in Refused(W) :
            Saved(W, bad) /\ (W = ToFlush \/ Stored(W, bad) # {})
     ELSE failed' = {} /\ UNCHANGED <<store, edits>>
  /\ drafts' = Restrict(drafts, {})
  /\ ed' = NoEditor /\ tree' = {} /\ pending' = {} /\ UNCHANGED dialog

-----------------------------------------------------------------------------
(* Deleting and restoring, each behind a confirmation *)

Below(t) == {u \in Tasks : Exists(u) /\ (u = t \/ Parent[u] = t)}

Ask(kind, t, ids) ==
  /\ dialog' = [kind |-> kind, task |-> t, ids |-> ids]
  /\ failed' = {} /\ UNCHANGED <<store, page, tree, ed, drafts, pending, edits>>

AskDelete ==
  /\ Writable /\ dialog = Null /\ ed.task \in tree /\ Exists(ed.task)
  /\ Ask("delete", ed.task, Below(ed.task))

AskRestore ==
  /\ page = "active" /\ dialog = Null /\ storeGen < MaxRestores
  /\ Ask("restore", Null, {})

Scheduled == IF "held" \in pending THEN {"scheduled"} ELSE pending

Cancel ==
  /\ dialog # Null /\ dialog' = Null /\ pending' = Scheduled
  /\ failed' = {} /\ UNCHANGED <<store, page, tree, ed, drafts, edits>>

\* The drafts of the confirmed tasks go, and an editor bound to one of them.
Forgotten(e, ids) ==
  IF e.task \in ids THEN [Bind(e, Null) EXCEPT !.timer = FALSE] ELSE e
DraftsWithout(ids) == Restrict(drafts, DOMAIN drafts \ ids)

DeleteSubtree ==
  /\ InWrite /\ health = "open" /\ Exists(dialog.task)
  /\ note' = [t \in Tasks |-> IF t \in Below(dialog.task) THEN Gone ELSE note[t]]
  /\ ed' = Forgotten(ed, dialog.ids) /\ drafts' = DraftsWithout(dialog.ids)
  /\ dialog' = Null /\ pending' = {"scheduled"}
  /\ failed' = {} /\ UNCHANGED <<health, storeGen, page, tree, edits>>

\* How a restore may end: the store replaced or left, and open again or not.
RestoreEnds ==
  {<<Backup, "open">>}
  \cup (IF "restore" \in Faults THEN {<<note, "open">>} ELSE {})
  \cup (IF "reopen" \in Faults THEN {<<Backup, "degraded">>, <<note, "degraded">>}
        ELSE {})

RestoreFromBackup ==
  /\ dialog # Null /\ dialog.kind = "restore" /\ dialog' = Null
  /\ \E end \in RestoreEnds : note' = end[1] /\ health' = end[2]
  /\ storeGen' = storeGen + 1
  /\ Refreshed([Fresh(ed, ed.task) EXCEPT !.timer = FALSE], DraftsAfterRestore(drafts))
  /\ failed' = {} /\ UNCHANGED <<page, pending, edits>>

-----------------------------------------------------------------------------
(* The agent endpoint *)

AgentNoteSet(t) ==
  /\ page # "ended" /\ health = "open" /\ Exists(t)
  /\ edits < MaxEdits /\ edits' = edits + 1
  /\ note' = [note EXCEPT ![t] = TextOf(t, edits')]
  /\ failed' = {} /\ UNCHANGED <<health, storeGen, page, dialog>>
  /\ OnEvent(ed, drafts)

AgentDelete(t) ==
  /\ page # "ended" /\ health = "open" /\ Exists(t)
  /\ note' = [u \in Tasks |-> IF u \in Below(t) THEN Gone ELSE note[u]]
  /\ failed' = {} /\ UNCHANGED <<health, storeGen, page, dialog, edits>>
  /\ OnEvent(ed, drafts)

\* Through the endpoint, or by the user on the page.
AddTask(t) ==
  /\ page # "ended" /\ health = "open" /\ note[t] = Unborn
  /\ Parent[t] # Null => Exists(Parent[t])
  /\ note' = [note EXCEPT ![t] = TextOf(t, edits)]
  /\ failed' = {} /\ UNCHANGED <<health, storeGen, page, dialog, edits>>
  /\ OnEvent(ed, drafts)

Next ==
  \/ Activate \/ Refresh \/ Type \/ FlushNote \/ Deactivate \/ Dispose \/ Quit
  \/ AskDelete \/ AskRestore \/ Cancel \/ DeleteSubtree \/ RestoreFromBackup
  \/ \E t \in Tasks : Select(t) \/ AgentNoteSet(t) \/ AgentDelete(t) \/ AddTask(t)

Spec == Init /\ [][Next]_vars

-----------------------------------------------------------------------------
(* Properties *)

\* No text crosses over to another task: what the editor shows, what is kept
\* and what is stored for a task was written for it, and an editor whose
\* content was not read is never taken for a loaded one.
TextsStayWithTheirTask ==
  /\ ed.loaded => ed.text.of = ed.task
  /\ \A t \in DOMAIN drafts : drafts[t].of = t
  /\ \A t \in Tasks : Exists(t) => note[t].of = t

\* With the types: at most MaxKept drafts are kept beside the live one.
TextsInv == TypeOK /\ TextsStayWithTheirTask

\* The page learns of a restore in this step, and not when it was made.
LateSync == ed.gen # storeGen /\ ed'.gen = storeGen /\ storeGen' = storeGen

\* A text the user typed and that is not stored leaves the program only by
\* being stored, by a newer text, with its task, by a restore, at the end of
\* the program, or after the user was warned that it could not be kept; or
\* because no refresh succeeded since a restore, and one does now.
NothingTypedIsLost ==
  [][\A t \in Tasks : Held(t) # NoText =>
       \/ note'[t] = Held(t)
       \/ Held(t)' # NoText /\ Held(t)'.no >= Held(t).no
       \/ note'[t] = Gone
       \/ storeGen' # storeGen \/ page' = "ended"
       \/ ed.task = t /\ t \notin DOMAIN drafts /\ ed.warned
       \/ LateSync]_vars

\* Leaving the page, or quitting from it, stores every text that is held, the
\* live one and the drafts of other tasks: only what the store refused at that
\* moment is left, unless the page learns of a restore on the way.
LeavingSavesAll ==
  [][page = "active" /\ page' # "active" /\ health = "open" =>
       \/ \A t \in Tasks :
            Held(t) # NoText => note'[t] = Held(t) \/ t \in failed'
       \/ LateSync]_vars

\* What was typed before a restore is never written over the restored store.
NoTextCrossesRestore ==
  [][\A t \in Tasks :
       note'[t] # note[t] /\ note'[t] # Gone /\ storeGen' = storeGen =>
         note'[t].gen = storeGen]_vars
=============================================================================
