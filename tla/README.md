# RetirementPet: TLA+ specifications and proofs

RetirementPet is a desktop pet for Windows: a transparent window that counts
down to retirement, shows what its user is doing, plays installed characters,
keeps a todo tree with notes, and answers a local agent protocol. It is one
Python process (`src/src/retirement_pet`, 71 files, about 25 000 lines) on
PySide6: one GUI thread with an event loop, a few helper threads and one helper
process, two SQLite databases, and a directory of characters and journals.

The modules here specify the parts of it in which the order of steps matters:
what is on disk when the process dies, who owns a cache, what happens to a text
between two saves, what a retry does. TLC checks them on small instances; TLAPS
proves theorems about them for all instances.

Contents

1. The system
2. The modules and how they correspond to the code
3. The runs
4. The proofs
5. Divergences between the code and what it says of itself
6. What is not modelled
7. What could follow

## 1. The system

Everything below runs on the GUI thread unless said otherwise, so a handler is
interleaved with other handlers only where it returns to the event loop: at its
end, in a modal dialog, or across a timer.

### Character library (`lifecycle.py`)

*State.* `state.db` (registered revisions, scheduled deletions, the ACTIVE and
LAST-KNOWN-GOOD selections, audit rows due), the published revisions, staging
copies, trash, receipts, `PUBLISH_INTENT` files, the append-only `events.jsonl`.
*Operations.* install, open with recovery of every intent, request or carry out
an uninstall, resume scheduled deletions, select, record audit lines.
*Interaction.* The switcher reads and writes the selections in the same database
and appends to the same journal; the picker lists what is READY.
*Hard.* One install is a dozen durable effects in three stores (files, database,
journal). The process may die, or an I/O call raise, between any two, in the
recovery as well. Deletions scheduled in one run are carried out in the next,
when the selection may be a different one.
*Correct if* the selection is always loadable; every start finishes or undoes
what the last one left; catalog, files and journal agree afterwards; nothing is
logged twice, and no bytes are lost.

### Runtime switcher (`switcher.py`, start and health checks in `app.py`)

*State.* the current runtime, prepared candidates, retained leases, request
generation and activation generation, safe mode, the audit ledger.
*Operations.* REQUEST, PREPARE (a candidate may be held for a while), SWAP, COMMIT by
compare-and-swap on the generation, restore at start, repair, fallback to the
official character, promotion of a selection to LAST-KNOWN-GOOD after 30 seconds
of healthy observation, drain of the audit ledger.
*Hard.* A newer request overtakes a prepared one; another process writes
`state.db`; a commit raises and may or may not be durable; a candidate cannot be
loaded or painted; decoded caches have several owners; audit lines fail.
*Correct if* the window shows what the store says, or Bootstrap; generations only
grow and the last request wins; no cache on screen is released and none leaks;
every activation is journalled, once.

### Todo service, store and backups (`todo/`)

*State.* `tasks.db` (a tree of tasks with notes, one focus row, a schema
version), the cache of the service (tasks without notes), the focus projection,
the pet's WORKING fact, the backups directory with manifests, a data generation
and a store generation.
*Operations.* some twenty use cases (add, edit, complete, archive, delete a
subtree, focus, notes), manual backup, restore with a pre-restore backup,
upgrade of a v1 store behind a pre-migration backup, retention.
*Hard.* The cache and the projection are updated by hand after each
transaction; a restore replaces the file under an open service and may fail at
each step; retention prunes while a restore reads; a kill in the upgrade.
*Correct if* cache and projection match the store; no use case touches a note it
did not load; what is overwritten has a backup, and that backup is kept.

### Notes pane (`ui/panel/todo_page.py`) and panel (`ui/panel/control_panel.py`)

*State.* the editor's task, loaded and dirty flags, its text, a 0.8 s save timer, at
most 16 kept drafts that outlive the page.
*Operations.* select, type, save, leave, close, delete behind a confirmation, restore
behind a confirmation; the page is rebuilt on every todo event.
*Hard.* Saves fail; reads fail, and with them whole refreshes, silently; the agent
endpoint writes to the same store at any moment, also while a confirmation dialog runs
its own event loop; a restore replaces the store below unsaved texts.
*Correct if* one task's text never gets under another's id, and what the user typed is
not lost.

### Agent endpoint (`single_instance.py`, `agent_protocol.py`, `agent_cli.py`)

*State.* per connection: bytes received, a timer for an incomplete line,
scheduled passes; per process: a replay cache of 64 idempotency keys.
*Operations.* receive bytes, serve a line, answer; a request is checked against
the expected generation, looked up under its key, executed, stored.
*Hard.* Lines arrive in pieces and several at once; clients time out and retry on
a new connection; pages change the same data; the cache is bounded and dies with
the process.
*Correct if* every line is answered once and in order, a keyed request runs once,
and a write made against other data is refused.

### Context facts, services and performance (`runtime_state.py`, `context_adapter.py`, `schedule_manager.py`, `rhythm.py`, `random_actions.py`, `action_controller.py`)

*State.* a set of facts (WORKING, MEETING, MUSIC, ...), each with an owner; the
capabilities of the character on screen; the modes of the actions; the running
action and who asked for it. *Operations.* a slow tick runs rhythm, schedule and
random services in that order; facts are set and cleared by menu, schedule, todo
focus, audio and media; a resolver picks the performance and forces it on the
executor, which clicks and pages drive as well. *Hard.* Several owners of one fact;
requests checked once and used later; the services see one current action where
there may be several facts. *Correct if* what is performed for the facts is what
they call for now, a disabled action is never performed, and a meeting is not
interrupted by whatever path.

### Reminders (`schedule_manager.py`, `state_store.py`)

*State.* per day and slot: reminded, completed, snoozes, the time a snooze ends; the
same in `state.json`. *Operations.* a tick reminds; the menu starts, snoozes or skips.
*Hard.* The file is written after the reminder, may fail to be, and is read by the
next start; the times of the slots are edited; midnight. *Correct if* a slot reminds
once a day and once more for each snooze, and what is done stays quiet.

### System media bridge (`media_bridge.py`) and local audio (`audio.py`)

*State.* subscriptions to the media sessions of Windows, one for each application,
their summaries, a debounce flag (a worker thread with an asyncio loop); the bridge's view and its
claim on the MUSIC fact (GUI thread), shared with the local player. *Hard.* Rescans
overlap at their awaits; a session ends and another of its application begins before
the rescan that would notice; two owners of one fact; a start that fails half way.
*Correct if* the MUSIC fact has a source that plays, what is disabled holds nothing,
and the bridge ends up showing what the system does.

### Presence: session watch, clocks, idle timeline, hotkey (`session_watch.py`, `clocks.py`, `timeline.py`, `global_hotkey.py`, gates in `app.py`)

*State.* suspended or not, visible or not, the visual clock, the idle timeline,
the health observation, the registration of the hotkey for a native window.
*Hard.* Lock, sleep and remote disconnection are one flag; two kinds of Windows
message share one set of numbers; the native window is replaced when a flag changes.
*Correct if* nothing is drawn while the pet cannot be seen, all of it is drawn again
as soon as it can, and no timer or hotkey is left after the shutdown.

### UI configuration and settings (`config_system.py`, `layout_policy.py`, `settings.py`)

*State.* layers of overrides, the settings in memory, the settings file, the flag of
the window. *Operations.* the text, display and actions pages, the settings dialog,
the toggles of the menu, each with its own way back from a save that fails; start,
stop, damage of the file. *Hard.* A save writes everything in memory, so what was
not rolled back gets to the disk with the next save of something else.
*Correct if* the copies agree, what is in effect is an allowed pair, and what the user
was told of a value is true.

### Local pack import (`petpack/local_import.py`, the characters page, `app.py`)

*State.* a child process, a pipe, a deadline, the page with its dialogs, the
installed packs, the first-run choice. *Hard.* The child hangs, dies, sends too much
or a partial frame; the file changes after the inspection; the page is closed under
its own dialog; the choice cannot be saved. *Correct if* a preview is accepted only
from a child that ended well, only what was inspected and agreed to is installed, no
child is left behind, and every import ends.

### Pack format (`petpack/validator.py`, `archive.py`, `manifest.py`, `runtime.py`, `character_layout.py`)

Functions of a pack: the members of the archive, assets, actions, renderers,
geometry, budgets. The validator, the importer, the runtime and the layout of the
window each read the same manifest by code of their own. *Correct if* they agree: what
may be installed can be shown, as it was inspected.

### Build and acceptance (`scripts/build.ps1`, `go_no_go.py`, `dist_manifest.py`, `release_identity.py`, harnesses)

*State.* the working tree and the toolchain attestation, the directory `dist/`, the
staging, backup and failed copies of a build, the receipt, the report of the
acceptance run. *Hard.* A build and an acceptance run work on the same tree and the
same directory without a lock; sources and tools change while they run; moves fail;
processes are killed. *Correct if* GO speaks of one artifact, one commit and one
attestation, each gate ran that artifact, and a build never loses what was published.

### The rest

Drawing, the other panel pages, tray, countdown, start with Windows, logging, build
information, tools for assets and packs: widgets and sequential functions without a
protocol of their own (section 6).

## 2. The modules and how they correspond to the code

| Module | Models | Actions |
|---|---|---|
| `CharacterLibrary` | what the library promises: atomic register, remove, schedule, settle, choose, promote | 6 |
| `PackLibrary` | `lifecycle.py`: one action per durable effect; `op` is the call in progress, `op.at` the effect to come | install, recovery, uninstall, resumption, kill, power loss, failure |
| `PackLibraryProofs` | theorems about `PackLibrary`, and that it implements `CharacterLibrary` | |
| `RuntimeSwitcher` | `switcher.py` and the callers in `app.py`; `op` is the handler in progress | request, prepare, swap, commit, read-back, restore, repair, checkpoint, drain, another writer, kill |
| `RuntimeSwitcherProofs` | theorems about `RuntimeSwitcher` | |
| `TodoStore` | `todo/domain.py`, `service.py`, `repository.py`, `backup.py`, `migrations.py` | one per use case; one per durable effect of opening, upgrading, backing up and restoring |
| `TodoStoreProofs` | theorems about `TodoStore` | |
| `NoteEditor` | the notes pane, its drafts, page life cycle, dialogs and the agent's writes | one per handler, two per confirmation |
| `AgentEndpoint` | framing and request pipeline | one per event-loop event |
| `AgentEndpointProofs` | theorems about `AgentEndpoint` | |
| `PetBehaviour` | facts, resolver, executor, services, emotes and focus | one per handler; one for a slow tick |
| `MediaBridge` | the worker of `media_bridge.py`, the bridge, `audio.py` | one per await of a rescan, one per handler |
| `Presence` | visibility, session, native window, health observation | one per message or handler |
| `PetProofs` | theorems about `PetBehaviour`, `MediaBridge` and `Presence` | |
| `UserFiles` | `settings.json`, the layers above it, the pages that write it | one per operation; start, stop, damage |
| `Reminders` | extends `UserFiles` with the slots of a day and `state.json` | tick, start or skip, snooze, midnight, restart |
| `RemindersProofs` | theorems about `Reminders`, which is both files | |
| `CharacterLayout` | geometry in the validator and in the runtime, placement of the body (operators) | |
| `PackAdmission` | extends it: verdict of the validator, limits of an import, the runtime's reading (operators) | |
| `LocalImport` | extends it: child, pipe, worker, page, install, first-run choice | one per step of the child, per firing of the timer, per answer of a dialog |
| `PanelProofs` | theorems about the two pages, `LocalImport` and `NoteEditor`, and the readers of a manifest | |
| `ReleaseWorld` | tree, toolchain, attestation, `dist/`, and what `dist_manifest.py` checks of them | what happens outside |
| `ReleaseBuild` | `build.ps1` | one per stage |
| `ReleaseGate` | `go_no_go.py` and the harnesses | bind, launch and collect of each gate |
| `Release` | both over one tree and one `dist/` | |
| `ReleaseProofs` | theorems about `Release` | |

`MC...` modules hold the constants of TLC's instances. The variables are named
in each module beside the attribute, file or table they stand for; the file
`PROJECT.json` maps each definition to its lines.

Granularity follows the code's atomicity. A handler that touches one SQLite
transaction and memory is one action (`TodoStore`'s use cases, `NoteEditor`),
because nothing else runs on the GUI thread until it returns and SQLite makes its
commit atomic. Where a handler changes several durable things, each is a step of
its own and `op` records what is left to do, so that a kill, an error or another
writer can come between any two (`PackLibrary`, `RuntimeSwitcher`, the opening and
restoring of `TodoStore`). A modal dialog is a question and an answer with the
event loop between.

Data are abstracted to what the properties tell apart. A revision is a model
value with a version slot; a task row is its parent, horizon, two flags and a
note; a text is its task, the generation of the store it was typed in and its
number; a request line is one token; the content an agent reads is a version
number. Failures are named in a constant (`Faults`, `CrashAt`, `FailAt`), so one
specification serves the runs with and without each of them.

*PackLibrary.* `rows`, `pendings`, `active`, `lkg` are tables of `state.db`;
`media`, `trash`, `staged`, `receipts`, `intents` are directories; `logged` and
`latest` are what the journal's readers look for. `Stage` to `Unlink` are
`install_revision`; `Branch`, `Restore`, `Relog`, `Cleanup`, `Rollback`, `Forget`
are `recover_pending_intents`; `Trash`, `DeleteRow`, `Tombstone`, `Schedule`,
`Unpend`, `Withdraw` are the uninstall in its two forms. A kill empties `op`; a
power loss may also undo a rename that no fsync had made durable.

*RuntimeSwitcher.* `activeGen`, `requestGen`, `prepared`, `retained`, `safe` are
the attributes of the same names; `live` is the set of runtimes whose frame cache
has not been released, so a double release or a leak is visible. Runtime objects
are numbered and reused. `charOf` says what a runtime draws. `due` is the set of
generations whose audit row is in the ledger; the oldest is drained first.

*TodoStore.* `disk` is the whole store as a record, `backups` the directory as a set,
each backup a copy of the store it was made from, under an id that grows; `Ahead` is
the order in which `list_backups` puts them, and retention works on the first of
that order. `Lineage`, a task and its ancestors, is the least set closed under parents,
so that nothing is computed by recursion; `Forest` is what `check_parenting` promises of
a tree. `cache` and `proj` are the service's; `Unloaded` and `None` are "to be read on
first use".

*NoteEditor.* It keeps of the store only the note of each task and its health,
because `TodoStore` has shown what the store does. `failed` records which texts the
store refused in a step, so that a property can say "all but those". A refresh
(`Refreshed`) rebuilds the tree and brings the editor to the generation of the store, or
it fails, is swallowed, and leaves both as they were: `ed.gen` is the generation the
editor knows and may stay behind `storeGen`. Tree, editor and drafts then go on being
used, typed into and written, as in the code.

*AgentEndpoint.* `conn[c]` is what the guard keeps of a connection: bytes on the
wire, the buffer, scheduled passes, the timer. What a request asks for is chosen
when it is handled. `epochs`, `ran` and `answer` are history variables used by the
properties only.

*PetBehaviour.* `pet` holds the owner of each fact, the running action and how it came
to run (resolved, asked for directly, once). `SetFact`, `ClearOwned` and `Ended` end in
the resolution that the code's change signals cause, so no state shows facts and a
performance of different moments. Durations are "may have passed", except the delay
before a rest ends, which is armed in one tick and due in a later one. The scheduler's
and the rhythm's view of one current action (`current_action`, in a fixed order of the
facts) is kept, because two divergences come from it.

*MediaBridge.* A rescan in flight is a record of what it has read so far, a session not
yet awaited having status "await"; several are a sequence, the oldest first. `tokens` are
the applications the worker holds a subscription for, `heard` those of them whose session
is still the one subscribed to: a session that ends and is followed by another of the same
application leaves a token that nobody hears. `published` is the worker's summary,
`snapshot` the bridge's copy, and `queued` the event between the threads. `clean` is a
history variable of what was published and what the worker could not hear of since. A
command to a player is a change of the system.

*Presence.* `away` is why the session is away in truth, `suspended` what the program
believes: native messages connect them, with the numbers of the code.

*UserFiles, Reminders.* `disk` and `mem` are the file and `SettingsStore._data`, `layer`
the resolver, `slots` and `saved` today's entry in memory and in `state.json`. A save
happens or not. `told` is what the user was told last of a value, a history variable.

*LocalImport.* `child`, `pipe` and `parent` are the process, its frames and the worker or
the waiting command; `panel.open` and `panel.dialog` are separate, because a page may be
closed under its dialog. Content is one of about eight hundred packs, each a record of
parts, of which `PackAdmission` and `CharacterLayout` compute the verdicts. Lengths are
in multiples of the tolerance where the tolerance matters.

*Release.* An artifact is its executable, the build information in it and whether all
its files are there; a receipt is the artifact it was written for. `bpc` and `at` are the
positions of the build and of the acceptance run; `run` is what a harness bound before
it launched the candidate. `using` are processes that run from `dist/`, which keep
Windows from moving it.

## 3. The runs

Every run passes, and ends with the complete state space of its instance.

| Run | Instance | States | Shows |
|---|---|---|---|
| `lib_crash` | 4 revisions, 2 installs, 2 kills, harmless I/O errors | 0.31 M | `TypeOK`, `StoresAgree`; `KeepsPromise`; `RecoveryConverges` |
| `lib_faults` | same, 1 kill and any errors, at every step | 3.0 M | `SelectionReady`, `InstallAudited`, `NoBytesLost` |
| `switcher` | 2 characters, 5 runtime objects, generation 2, 2 starts | 0.69 M | `TypeOK`, `ShownIsAuthority`, `CachesOwned`, `LkgBehindActive`, `AuditNeverLost`; `LatestRequestWins`; `HandlerReturns` |
| `todo_store` | 3 tasks, depth 2, retention 2, 2 starts | 1.1 M | `ServedIsStored`, `RestoreInputKept`; `NoteKept`, `WayBackKept` |
| `note_editor` | 3 tasks, 1 kept draft, 2 texts, 1 restore | 0.30 M | `TextsInv`; `NothingTypedIsLost`, `LeavingSavesAll`, `NoTextCrossesRestore` |
| `agent_endpoint` | 2 clients, 2 keys, cache of 1, 3 tokens, 2 starts | 0.26 M | `OneExecution`, `LinesAreServed`, `StaleWriteRefused` |
| `pet_behaviour` | 5 facts, 2 characters, 1 gated action | 0.16 M | `Inv`; `Discipline`; `RestEnds` |
| `media_bridge` | 1 player of the system, 2 rescans in flight | 0.79 M | `BridgeInv`; `BridgeSettles` |
| `presence` | lock, sleep and remote disconnection | 0.001 M | `PresenceInv`; `ObservationCompletes` |
| `user_files` | 2 layouts, 2 policies, 1 template, 1 or 2 times in a day of 4 hours, 2 days | 0.31 M | `SettingsInv`, `RemindersInv`; `DoneIsQuiet` |
| `local_import` | about 800 packs, of which 4 may lie at the path | 0.11 M | `ImportInv`; `QuietAfterClose`; `ImportEnds` |
| `release` | 2 commits, 2 toolchains, 1 event of the world, 1 build | 1.4 M | `GateInv`, `PublishInv` |

An invariant named `Inv`, or after its module, is a conjunction of the type invariant and
of named parts, each with a comment of its own in the module. Several of them have a
mutant for each part.

### Bounds, and why they are enough

*Library.* Two local revisions share a version slot and differ in digest; one is
of an earlier build, whose journal lines have no transaction id; one is builtin.
That is one revision for each way the code treats revisions. Two transactions let
one recovery meet two intents, two intents of the same slot, and a reinstall after
an uninstall. Two kills let a recovery be killed. `CrashAt` and `FailAt` are sets of
steps: `lib_crash` takes the kills after which every relation between the stores
comes back (`SafeCrashes`) and the failures after which they hold and no intent waits
for a start that may not come (`PassingFailures`: up to the durable intent of an install
and in giving it up, of a request that only schedules, of a best-effort clean-up, and a
file that is in use). After three more, of a publication and in a recovery that has
changed nothing yet, the stores still agree, which section 4 proves, but an intent stays
until the library is opened again, so `RecoveryConverges` cannot hold. `lib_faults`
takes every kill and every failure and checks what holds even then. The steps in
which the two differ are where the library's divergences of section 5 lie.

*Switcher.* Generation 2 is the last one a user reaches, and the other writer may go
beyond it, so a stale compare-and-swap, a lost race, a promotion behind ACTIVE and
two audit rows due at once all occur. Two starts give a start that falls
back or restores, and one after it. Five runtime objects are never exhausted in
this instance: current, on screen, one candidate each of two requests, one retained.

*Todo.* Depth 2 and three tasks give a subtree that is not the whole tree, a root
that is not in it, and a refused child. `Limit` 2 is the smallest retention in which
a new backup pushes out an old one while a restore reads a third. The data
generation bounds the number of use cases of one process, and one backup at a time
may have decayed; files, which are where kills matter, survive into the second
process. The tasks are symmetric: no rule names one.

*Notes.* One kept draft is the smallest limit, and its overflow needs two tasks
with unsaved texts; the third task is a child that can be added or deleted under its
parent during a dialog. Two texts are two of the user in two tasks, or one of the user and
one of the agent in either order, and one before and one after the restore; notes of a new
task are texts as well. Every refresh may fail, so a text may be typed on a page that
knows nothing of the restore, and be kept, written, or dropped by the next refresh.

*Agent.* A cache of one key is full after one request; two keys evict each other.
Three tokens allow a line in two pieces, three pipelined lines, and a line and a half;
the cap of two tokens is exceeded by an incomplete line. Clients and keys are
symmetric.

*Pet.* Five of the six facts: the sixth, exercise, is a reminder like eating. One character
that can show everything and one that can show neither work nor music; one action that
may be disabled, one asked for from a page, one from the menu. Every owner occurs, and
every pair of facts.

*Media.* Two rescans in flight are the least that can publish in the wrong order. One
player of the system is enough for that, for a session that is replaced, and for one that
plays while none is current; with several, the question which of them is
current is added, and for any number of players and rescans the invariant is proved
(section 4).

*Presence.* All three causes; the state is finite as it is.

*Settings and reminders.* One forbidden pair in the matrix; a file that is broken, one with
a forbidden pair, one with half a pair, one with a template that is refused. Lists of one
and two times let a slot become another one when the list is edited. Two operations and
three hours in any order (`Budget`) give a reminder, a snooze, an edit and a restart
between.

*Import.* The packs are a sound one, a second, the bundled one, and variations of the sound
one in a single part, or in two that belong together (an archive member and an asset,
the two sides of a rectangle): one for each rule of the validator and of the
importer that `PackAdmission` has, and for each reading of the runtime; section 6 says which
rules it has not. The protocol runs over four of them and a file that changes while it is
read.

*Release.* One event (an edit, a commit, a change of the tools, a lost file, the receipt of
another build or none in the place of the one given) at any point of both runs: two may
hide each other, which is what the final checks concede. One build meets one acceptance run;
the prior artifact stands for all builds before.

Deadlock checking is off where the bounds stop the system (no start, edit or
generation left), and in `NoteEditor`, `Presence` and `Release` also where the program has
ended; the library, media, pet and import runs need no such exception.

### Fairness

`PackLibrary!Fairness` is weak fairness of `Proceed`, the thread running the call it
is in, which the operating system grants, and of `Open`, the user starting the
program again. Without the second nothing can be promised about an intent that was
left behind. Kills are bounded, and a refused library (`degraded`) is not excused:
`RecoveryConverges` holds because with `SafeCrashes` and `PassingFailures` no start is
refused.
`RuntimeSwitcher!FairSpec` is weak fairness of `Proceed` alone, the steps of the
handler in progress. `PetBehaviour` assumes that the one-second service clock ticks
during a rest and that the delay before its end passes. `MediaBridge` assumes that the
worker's loop goes on (its awaits return, its timers fire) and that the GUI thread's queue
is emptied; a rescan may still fail at any point, and nothing repeats it. `Presence` assumes that
a visible window is painted and that a timer which was started, and not stopped, fires.
`LocalImport` assumes that the poll timer fires (or that the waiting command goes on) and
that time reaches the deadline; of the child nothing is assumed, it may hang at any
step. No user action and no fault is fair anywhere.

`BridgeSettles` has a premise beside fairness, the history variable `clean`, because the
code does not settle in every behaviour. `clean` says that the newest rescan was the last to
publish, and that since its listing nothing happened that the worker does not hear of: the
current session changed by itself, a session which replaced the subscribed one played or
stopped, or an overtaken rescan dropped the subscription of a session that is there. These
are the divergences of section 5. What is left is everything else: whatever the worker
subscribed to is heard, no event is lost to the flag that merges requests, to an
overlapping rescan, to a snapshot taken too early, or while the pet was hidden.

### The abstract library

`CharacterLibrary` says what users of the library see: six atomic changes of the
catalog. `KeepsPromise` substitutes `rows` and `pendings` for its variables and checks
that every step of `PackLibrary` is one of them or leaves the catalog alone. That
includes what is easy to break in the recovery: it registers revisions only in free
version slots (although the slot was checked before the intent became durable), it
removes only what is neither selected nor the restore basis, and a scheduled
deletion is settled, never forgotten. The same refinement is proved (section 4).

### Mutants

Each property has a mutant: a definition above the one it replaces
(`Mutant:` comments), changed as a plausible mistake would change the code. With it the
run finds the property violated. They document what each property is sensitive to.

## 4. The proofs

Every theorem is about the specification that the runs check, for all values of the
constants that its module's assumptions allow. TLC checked each inductive invariant as an
invariant of the component's run before it was proved. The theorems of a module follow
from its invariant by temporal logic; the work is in the lemmas that say that each action
keeps it, one for each action or group of actions.

### The library

`PackLibraryProofs` proves, for every set of revisions, builtin and earlier ones, every
version map, every number of installs and kills:

- `TypeCorrect` and `SelectionStaysReady` (`Spec => []SelectionReady`): ACTIVE and the
  restore basis are registered and loadable in every reachable state, so a start always
  has something to show.
- `InstallsAudited` (`[]InstallAudited`) and `BytesKept` (`[]NoBytesLost`): whatever step
  is killed or fails, an install has at most one line, a registered revision has one or an
  intent that will write it, and no bytes that were ever registered are lost.
- `ImplementsPromise`: `Spec => KeepsPromise`. Every step is a step of `CharacterLibrary`
  or leaves the catalog alone, wherever the process is killed and whatever I/O error is
  raised, except at the insertion of a row (`"commit" \notin FailAt`).
- `StoresStayInAgreement`: `Spec => []StoresAgree`, if the I/O errors are among
  `SafeFailures` and no kill is in `SplittingKills`.

The assumptions are those declared in `PackLibrary` (`RevisionAssumption`,
`SlotAssumption`), which TLC evaluates in each of its runs, and for the last two theorems
the hypotheses on `FailAt` and `CrashAt`. These are sharp, and they are divergences of
section 5: with a row that cannot be inserted two digests get into one version slot, and TLC
finds `StoresAgree` violated when any one of the other errors, or of the three kills between
the parts of a deletion or of a rollback, is added to the instance of `lib_crash`, whose
constants satisfy both hypotheses.

*Argument.* `TypeOK` is not inductive: it does not say that a call at `"publish"` has a
transaction and a revision. `StepTyped` adds what a step in progress works on.
`SelectionReady` alone is not inductive either. A deletion checks the selection when it
begins, and takes the media and the row away some steps later; that is safe because the
selection cannot change in between, as both happen on the GUI thread: `StepUnselected`. The
install belongs to it because a power loss may undo the rename of a revision that was just
published.

`AuditInv` says what a call has established when it comes to a step (`Standing`), and
where a revision's bytes (`Kept`) and its line (`Told`) are meanwhile. Its least obvious part
is `Claimed`: media without a row belong to an intent that has not logged, and not to that
of an install which has just found the target taken; without it the abandoned install could
be the one that had to log. `PromiseInv` gives the refinement what atomicity needs. An
install checks the version slot long before its row is inserted, and a recovery inserts
rows without checking; both are safe because at most one revision is published and not
listed, and while the program runs only that of the install which has just published it
(`Unlisted`), so that nothing else can have taken its slot (`Slotted`). A deletion's
revision is listed and unselected up to the deletion of its row (`Scheduled`). `AgreeInv`
says how far catalog, journal, media and pending deletions may be apart during a call and
after a kill, and that an intent left behind by a failed publication has a copy of its
own, which no deletion of the same revision takes away (`Recoverable`).

### The switcher

`RuntimeSwitcherProofs` proves the five invariants of the run `switcher` and the action
property `LatestRequestWins`, for any characters, number of runtime objects, faults, other
writers, generations and starts, from `SwitcherAssumption` and `NoneAssumption` (the values
that stand for "nothing" are no value of anything else). The properties speak of the window
between two handlers. `IInv` follows a handler through its sites: what it has in hand there
(`Sited`, `InHand`), which selection it may still believe in (`Dated`: nothing read before is
newer than the catalog, the key to `LkgBehindActive` with another process writing), that a
switch serves the latest request (`Serving`, `Requested`), that who owns a cache is alive and
who is alive is owned (`Owned`), and that the surface before the swap, or the old runtime
after it, is the one the window may go back to (`Shown`). `AuditNeverLost` is inductive
with it: a line is dropped from the ledger only where it has been seen in the journal.

### The todo module

`TodoStoreProofs` proves the four properties of the run `todo_store`, for any finite set of
tasks, any notes, depth, retention limit of two or more, and any faults: `ServedAsStored`
(`[]ServedIsStored`), `RestoreInputSurvives` (`[]RestoreInputKept`), `NotesKept`
(`Spec => NoteKept`) and `WayBackIsKept` (`Spec => WayBackKept`). It rests on
`TodoAssumption` and `FirstStoresAssumption`. The second says that a store found at the
first start is a forest with an open focus: the schema links both to tasks, and earlier
builds had the same rules; a file for which that fails is `Broken`.

*Argument.* Three groups of lemmas carry it. About trees: a lineage is the least set closed
under parents, so a tree which keeps a task's lineage keeps its depth; hence a forest stays
one without a whole subtree (`ForestCut`), with a new leaf under a task that is not too deep
(`ForestGrown`), and under any change that leaves parents alone. About retention: `First`
keeps what is ahead (`FirstAhead`), so the newest usable backup is kept (`NewestKept`), and a
usable backup of a v1 store at least as new as any (`V1Kept`); both are about any set of
backups and any limit. About transactions: `CommitKeeps` reduces every use case to three facts
(the rows written form a forest, the focus is open in them, the projection is theirs).
`TodoInv` adds to the properties the sites of a start and of a restore, that a
module which is open has a sound store, and, before a store is overwritten, that a
backup holds it (`WayBackInv`); the last is what makes `WayBackKept` hold although
retention runs in between.

### The agent endpoint

`AgentEndpointProofs` proves the three invariants of the run `agent_endpoint`, for any
clients, keys and numbers of tokens, edits and starts, any size of the replay cache and any
cap on a line, from `AgentAssumption` (the two tokens that are no request are no numbers).
`LinesServed` (`[]LinesAreServed`) is by an invariant of each connection (`FrameInv`): what is
answered, what is buffered and what is on the wire are together the requests sent, in
their order and each once. `RetriesExecuteOnce` (`[]OneExecution`) and `StaleWritesRefused`
(`[]StaleWriteRefused`) are by `PipeInv`: the cache holds exactly the last executions, as many
as fit, each under its key (`Holds`), and two executions under one key are further apart
than that (`Spaced`); the generation of a process counts the content it has seen change
(`Counted`), so equal generations mean equal content.

### The pet on the desktop

`PetProofs` speaks of the three modules of what is to be seen and heard.

*PetBehaviour*, for any facts, reminders, characters, gated and offered actions, from
`BehaviourAssumption`. `PetIsHonest` is `Spec => []Inv`: a resolved performance is always
the one the facts call for now, a disabled action is never performed, and what the
schedule, the rhythm and the focus stated they stand by. `Inv` is inductive as it stands,
since every change of the facts ends in a resolution. The proof is by the functions the
actions are built from: `Sound` (the performance fits the facts, the character and the
modes) and `Honest` (the facts fit their owners) are kept by `SetFact`, `ClearOwned`,
`Apply` and a direct request, one lemma each, and by each service of a tick, applied to the
result of the one before. `MeetingIsRespected` is `Spec => Discipline`, an action property:
`Quiet` says that, since a step began, nothing was started beside the meeting, and each of
those functions keeps it (`SetQuiet`, `ClearQuiet`, ...), of which every handler is a
composition.

*MediaBridge*, for any finite set of applications and any number of rescans in flight, from
`MediaAssumption`. `MusicIsHonest` is `BridgeSpec => []BridgeInv`, which is inductive. Two
lemmas carry the fact (what `RefreshAndProject` and a word of the player leave behind),
three the sequence of rescans.

*Presence*, for any causes of absence. `PresenceHolds` is `PresenceSpec => []PresenceInv`. The
invariant speaks of what runs, `GatesAsSet` of what each gate was set to: the two gates of
the clock by different handlers, the idle timeline and the bridge by whichever handler came
last. Without it a handler that opens one gate could find the other anywhere.

### Settings and reminders

`RemindersProofs` proves `SettingsAreTrue`: `RemindersSpec => []SettingsInv`, for any
layouts, policies, templates and modes, any matrix that contains the default, and any
files a start may find. `SettingsInv` does not say why a save of one key cannot bring
the refused value of another to the disk. `Same` does: the memory differs from the file
only in the flag of the window, which no answer is about (the menu's toggle ignores
whether it was saved). So does `Steady`: what was refused is not even what a reader would
make of the file, which matters because every save writes the layers, and these hold what
was read. `BearsKept` and `BearsNew` are the two facts about a save, of the keys it leaves
alone and of the one it sets.

It also proves `RemindedOnce` (`RemindersSpec => []RemindersInv`) and `DoneStaysQuiet` (the
action property `DoneIsQuiet`), for any lists of times, windows, delays and limits.
`OncePerSlot` leaves room for one reminder; `Counted` counts it only once the slot is marked,
and `Marked` says that a slot that is done is marked.

All rest on `UserFilesAssumption`, `FoundAssumption` and `RemindersAssumption`; the last
two say only that files have the keys of the program and times are hours of the day.

### The notes pane

`PanelProofs` proves the four properties of the run `note_editor` for any tree of tasks, any
limit of drafts, any numbers of edits and restores and any faults of the store:
`TextsHold` (`[]TextsInv`), `TypedTextKept` (`NothingTypedIsLost`), `LeavingSaves`
(`LeavingSavesAll`) and `RestoreIsClean` (`NoTextCrossesRestore`). The second and third
have one exception, `LateSync`: the step in which a page learns of a restore that was made
earlier (a divergence of section 5). `PageKnowsStore` says how little that is: unless reads
fail (`"read" \in Faults`), `ed.gen = storeGen` in every reachable state, and no step is such
a step. The assumptions are
`NoteAssumption` and `TextAssumption` (the marks of a note that is not there are no texts).

*Argument.* `TextsInv` says that a text is with its task; it says nothing of a text that is
in two places. `Sound` does, of editor, drafts and generation: the text of a dirty editor is
also the kept draft of its task, unless the drafts were full and the user was warned
(`ed.warned`); a clean editor has no draft beside it, or reading it back would bring an old
text over a stored one; live text and drafts are of the present generation of the store,
also where the editor itself believes in an earlier one, since a restore drops them before
it replaces the store, and what is typed afterwards is typed for the store that is open.
`Asked` adds what a dialog was told before it is answered. The three action properties are
proved with the invariant in one go: `Good` is the conjunction of the four for one step,
with a lemma for each handler, which differ in what a save stored (`AfterStored`), in what a
refused draft leaves (`Released`) and in what a restore takes away (`NoDrafts`).

### The import of a pack

`PanelProofs` proves, for any packs:

- `ReadersAgree`: `InstalledCanBeShown`. What the inspector accepts, the runtime shows: the
  frame the inspector decoded is the one drawn first, every action a character binds can be
  drawn, an idle within the runtime's budget can be prepared, and a geometry that needs no
  tolerance is placed, with its motion inside the window.
- `ImportHolds`: `ImportSpec => []ImportInv`, however the child dies, hangs or fails and
  whatever becomes of the file, and `ClosedPageIsQuiet`: `ImportSpec => QuietAfterClose`.

The run judges about eight hundred packs; the theorem is about all that satisfy
`PacksAssumption`, which says only that the lists of a manifest are lists and its lengths
whole numbers of the unit the model counts in (so rounding of floats is not covered).
`ImportAssumption` keeps the marks of the model apart from the packs.

*Argument.* `ReadersAgree` does not use the import. `ProfileIsLoop`: the inspector asks for
a loop, so the runtime never takes its other choice; `RegionsKept`: no hit region that the
validator passes is dropped; `ScaleIsLeast`, `ShiftFits` and `MotionInWindow`: the
scale is the least of three ratios, so the scaled motion is no longer than the window, and
an interval no longer than the room can be moved into it. The arithmetic is on fractions
with a common denominator, for any lengths.
Of the import, `ImportInv` says that an offer is about inspected bytes; `ImportIInv` says why.
`Known` is what the child of the moment snapped and found good, and every metadata frame in
the pipe (`SentFrames`), every envelope the parent received and every preview it holds back
until the child has ended names that and nothing else; a parent that does not wait has
stopped its child and emptied the pipe, so a new child never meets an answer of the last one
(`ProcessSound`). An import of the page runs only while the page is open, and an offer is of
a child that ended well (`PageSound`). What the parent drains from the pipe in one tick is a
fold over its frames, of any number. `SetInduction` derives induction over a set of numbers
from the library's well-founded minimum, `FoldExists` shows the function behind the fold, and
`DrainedIn` that it keeps what each frame keeps.

### Build and acceptance

`ReleaseProofs` proves both invariants of the run `release`, for any commits, toolchains and
events of the world and every interleaving of a build with an acceptance run, from
`ReleaseAssumption` and `NoneAssumption` (the mark of absence is no artifact, no outcome and
no exit code): `Published` (`[]PublishInv`)
and `GateHolds` (`[]GateInv`).

*Argument.* The invariant has a half for each program. `BuildInv` needs nothing of the
acceptance run: `Kept` and `Somewhere` follow the old and the new artifact through
`dist/`, the candidate, the backup and the failed directory, and `Placed` says which of
these exist at each step; `PublishInv` alone is not inductive, for it does not say which
of the directories a rollback finds filled. `CtrlInv` has to live with a build that swaps
`dist/` at any moment. `Ordered` says that before the present gate all passed and after it
all is blank, `Identified` how the receipt that was read relates to the commit captured
and, once the last health gate is bound, to the receipt observed at the start (the
comparisons of bytes before that miss a receipt that was replaced only while it was read),
and `Watched` that what a harness bound is what it runs unless a build swapped it in
between; the display gate, which looks at the process itself, is covered without that
condition. The 23 gates are a sequence, and the proofs speak of positions in it
(`OrderIs`).

### What is only model-checked

Every invariant and every action property of a run is the subject of a theorem. Out of the
prover's reach are `RecoveryConverges`, `HandlerReturns`, `RestEnds`, `BridgeSettles`,
`ObservationCompletes` and `ImportEnds`: liveness under fairness. Nothing is proved of what
a recursion computes: the modules that are proved about use least sets and orders
instead (the lineage of a task, the backups that retention keeps), or a fold of which the
proof needs only that each step keeps a property. Which constants the theorems do not
cover is said above: a row that cannot be inserted (`ImplementsPromise`), and
the failures and kills that `StoresStayInAgreement` excludes.

## 5. Divergences between the code and what it says of itself

Each was found while modelling; the models behave as the code does. Those marked with a
dagger have been seen as counterexamples of a property that says what the text promises.

- *Recovery* †. Recovery removes the staged copy of an unpublished install
  before its intent. Killed between the two, it leaves an intent without media, and
  every later start refuses the library. `lifecycle.py:18` and `docs/CONFORMANCE.md:219`
  call the recovery idempotent.
- *Journal order* †. When the drain of older audit facts stops at a failed append,
  the newer line is still written. `switcher.py:702` and `:336` promise commit order. The
  same follows from a kill with a failing ledger, and from another writer. A journal that
  cannot be read gets a second line.
- *Idle clock* †. A pass scheduled for the rest of a buffer may find it empty,
  because the reading of new bytes was quicker, and then starts the ten-second clock of
  a connection that owes nothing; `docs/AGENT_PROTOCOL.md:14` and `:16` reserve it for
  incomplete lines.
- *Generations* †. The data generation restarts at zero, so a generation of the earlier
  process can match; `todo/service.py:68` says that it mismatches.
- *Stale page* †. `_safe_refresh` (`todo_page.py:448`) swallows a refresh that fails. When
  both refreshes after a restore fail, that of the event and that of the page, the tree and
  the editor of the earlier store stay and can be used; the next refresh that succeeds, or the
  one between two writes while the page is left, takes what was typed since for a leftover of
  the earlier store and drops it, with no restore in sight and no warning
  (`_sync_note_with_store`, `:675`). `_prepare_for_restore` (`:1492`) drops drafts to keep them
  out of the restored store; these were typed into it. `NothingTypedIsLost` and
  `LeavingSavesAll` have the exception `LateSync` for it, and fail without.
- *Stale editor* †. After the agent sets a note, an untouched editor keeps the old text, and
  the user's next key press saves it over the agent's note (`todo_page.py:682`).
- *Session* †. `PBT_APMRESUMESUSPEND` has the number 7, which is that of
  `WTS_SESSION_LOCK`: after a wake-up by the user the pet is suspended again
  (`session_watch.py:46`, `:173`; the docstring at `:128` says that a resume ends the
  suspension). Lock, sleep and remote disconnection share one flag, so the
  return of one ends the suspension of another.
- *Geometry* †. `docs/PETPACK_V12_CONSISTENCY.md:23` says that the runtime parses by the
  rule of the validator, and `validator.py:107` that the bound is the same; the
  validator tolerates 1e-6 at near edges and anchors too, where
  `character_layout.py:72` and `:133` tolerate nothing, so such a pack is installed and
  falls back to the fit of a legacy image. `PETPACK_SPEC.md:602` and `pet_window.py:379`
  take `motion_bounds` for a superset of every frame; nothing checks that content and hit
  regions lie in it.
- *Library.* A kill between the move of the media and the deletion of the row of an
  uninstall leaves a listed revision without media, which no start repairs
  (`lifecycle.py:1361`; the docstring at `:1331` says "atomically"). A kill before the
  tombstone leaves the journal without it. An install whose journal line fails leaves
  its intent; uninstalling the revision then makes the intent invalid, and the next
  start refuses the library. A failed row and a later install of another digest put two
  digests in one version slot.
- *Todo.* `restore_archived` stops at the first ancestor that is not archived, although
  its docstring speaks of every archived ancestor. A restore is called the repair entry
  of a degraded module, but a store damaged on disk cannot be copied first, so the
  restore is refused. A check that fails after the commit of an upgrade closes a store
  that is already of version 2. `start_focus` accepts an archived task. Backups are
  ordered by wall clock, so after the clock has been set back the newest may be pruned.
- *Agent.* `docs/AGENT_PROTOCOL.md:64` promises that a retry does not execute again; the
  cache does not survive a restart, and a key evicted from it is new. Reads under a key
  are cached as well. A blank line closes the connection, although the docstring of
  `handle_line` says it is ignored.
- *Notes.* A kept draft is taken to be newer than the store, also when the agent has set
  the note since (`todo_page.py:1206`). The draft of a task the agent deletes stays until
  a restore. A restore that fails has already dropped the drafts, although the message
  says that the data are unchanged. The delete dialog names a number of tasks to which
  the agent may add before it is answered.

- *Pet.* EATING and EXERCISING are never cleared, so the fact outlives the reminder. A
  meeting whose end falls under work, rest or a meal outlasts its window or its switch
  (`schedule_manager.py:233`, `:265`). "Work" of the menu takes the fact over from its owner
  and standby then deletes it (`app.py:1604`). Any pause of more than five seconds begins a
  new session of the rhythm (`rhythm.py:117`). `docs/DESIGN_V2.md` 6.2 asks for a
  resolution when an action ends by itself; there is none. `emotes.current()` is never
  called, so a click is answered once. The DO_NOT_DISTURB fact, the resolver's user
  request and its random candidate are never set by the application.
- *Reminders.* `_pending_slot` says "else current/next" and picks the earliest slot begun,
  even a completed one: its snooze is answered and never happens. The comment of
  `skip_today` says "no more prompts today"; later slots still prompt. Slots are known by
  their position in the list of times, so an edited list inherits what was done. Nobody
  looks at whether `state.json` could be written.
- *Settings.* Half a pair in the file passes the reload, whose docstring says that forbidden
  combinations are dropped; the display page shows it while the window falls back. A reset
  on the text page whose save fails is reported as one with nothing to reset
  (`pages.py:1344`).
- *Media* †. Subscriptions are to a session but are kept by application
  (`media_bridge.py:432`): a session that ends and is followed by another of the same
  application before the debounced rescan is never subscribed to again, and what it does is
  seen only when something else causes a rescan. A change of the current session is not
  subscribed to (`:355` registers `sessions_changed` alone). Two rescans that overlap may
  publish in the wrong order (`:442`), and the older one drops the subscription of a session
  that it did not find (`:439`); the older reading stays until something happens. A rescan
  that fails is not repeated, and the first may fail while `start` returns True (`:357`). With
  any of these out of the premise of `BridgeSettles`, it fails.
- *Audio.* A start of the player that fails
  with nothing playing clears the MUSIC fact of the bridge. A backend dropped in a query
  and the end of a track of an emptied playlist emit nothing. A command that timed out is
  still executed. The provider of the product has no `set_paused`.
- *Window.* After the native window was recreated the session watch ignores its messages;
  only the hotkey is bound again, and not after the settings dialog (`app.py:1948`).
- *Import.* Up to 24 Mpx of body frames are accepted while the runtime's working set takes
  12 (`docs/CHARACTER_LIBRARY_GUIDE.md:97`). The importer refuses actions other than idle
  that cannot be drawn, of which the validator only warns, and asks for `loop` where
  validator and runtime take `enter`.
- *Release.* Acceptance and build share `dist/` without a lock: a failing build can swap the
  artifact and roll it back during a harness, which only the display gate (it hashes the
  image of the process) and the reports of performance and stability notice.
  `final_source_clean` and `assert-clean` look at cleanliness, not at HEAD; nothing is
  rechecked before the display harness. A timeout kills the harness, not the candidate
  it started. `acceptance.json` may say GO beside exit code 2, when finishing fails twice
  after the write. The smoke test goes on after a mismatch of its hash, and then fails.
  `dist_manifest_outcome` (`go_no_go.py:513`) repeats a check it is not used by.

## 6. What is not modelled

- Pack format: text profiles and the content of layout profiles, variants except their
  geometry, hashes, image decoding (an asset decodes or does not), embedded packs. Several
  rules of the validator are one value each: the spelling of member names ("plain" or not),
  the references of an asset to its rights, its source and a licence file (whole or not), and
  the bases of its rights, of which three stand for all. What is left out can only refuse
  more packs, and the theorem `ReadersAgree` is about those that pass what is there.
- Drawing: window, renderer, overlays, caches of pixmaps. What is drawn where is modelled
  only for the body.
- Panel pages other than notes, characters and what is saved from text, display and
  actions; tray and countdown: widgets over state modelled elsewhere, and date arithmetic.
- `config_system.py`: parked recommendations of a pack and the reset of a single key, which
  the application does not call.
- Operating system: the registry entry of `startup.py`, logging, paths, build information.
- `petpack_cli.py`, `export_public_snapshot.py` and the tools for assets: sequential command
  line tools. What a harness of the acceptance run measures is one verdict.
- Media: an application has at most one session at a time, the bridge's first rescan is
  one step within `start`, and the properties of a track are not read.
- Acceptance: a harness reads the receipt, hashes and binds in one step. Whether its own
  files are what it recorded (`verify_harness_inputs`) is a free choice, because an edit of
  the tree may touch them or not.
- Inside the modelled parts: path and reparse-point checks of the library, schemas and
  size limits of its files (an intent or a backup "validates"); titles, dates, levels and
  sibling order of tasks; the ASCII commands of the single-instance socket beyond being
  one line; the start-up race of two instances; which fields a request carries; durations
  (a time "may have passed").

## 7. What could follow

All modules of the plan are written. Compositions that are left: `PetBehaviour` with the
focus projection of `TodoStore` and the MUSIC fact of `MediaBridge` as more than inputs,
and `Presence` with `MediaBridge`, whose `SetAppActive` it drives. Abstract specifications
worth stating: a durable store with history below `TodoStore`'s backups, a register with
at-most-once writes above `AgentEndpoint`.

Theorems worth proving next: refinements of those abstract specifications, and
`ImplementsPromise` with rows that cannot be inserted, for a promise that leaves a failed
row behind. The liveness properties await a prover for `ENABLED`.
