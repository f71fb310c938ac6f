--------------------------- MODULE RuntimeSwitcher ---------------------------
(***************************************************************************)
(* The character switch transaction of switcher.py, with the start-up      *)
(* restore of app.py around it: REQUEST, PREPARE, SWAP and COMMIT of a     *)
(* candidate runtime, the read-back of an indeterminate commit, safe mode, *)
(* the ownership of runtime caches, and the audit of confirmed activations *)
(* in a durable ledger and an append-only journal.                         *)
(*                                                                         *)
(* A handler runs on the GUI thread and nothing else of this process runs  *)
(* between its steps; another writer of state.db may commit, and the       *)
(* process may die, between any two.  Faults names what may go wrong.      *)
(*                                                                         *)
(* A selection is a character and a generation: commit_sequence advances   *)
(* with the generation, and variant and configuration are always null.     *)
(***************************************************************************)
EXTENDS Naturals, Sequences, FiniteSets

CONSTANTS
  Characters,  \* characters of registered revisions
  Builtin,     \* the official character of the start-up fallback
  Runtimes,    \* runtime objects, which are reused; bounds those alive
  Faults,      \* what may fail or interfere
  MaxGen,      \* bound on the generation up to which a user switches
  MaxStarts,   \* bound on starts of the program
  Boot,        \* the Bootstrap renderer, which is not a runtime
  None

FaultKinds == {"read", "commit", "media", "paint", "journal", "unreadable",
               "ledger", "writer", "kill"}

ASSUME SwitcherAssumption ==
  /\ Builtin \in Characters /\ None \notin Characters
  /\ Boot \notin Runtimes /\ None \notin Runtimes /\ Boot # None
  /\ Faults \subseteq FaultKinds
  /\ MaxGen \in Nat /\ MaxStarts \in Nat

VARIABLES
  active,      \* state.db: the ACTIVE selection
  lkg,         \* state.db: the LAST-KNOWN-GOOD selection
  due,         \* state.db: activation_audit_due, whose rows are unique; a later
               \* row has a later generation
  lines,       \* events.jsonl: ACTIVATE_COMMITTED lines, generations
  up,          \* the program runs
  starts,      \* starts so far
  activeGen,   \* RuntimeSwitcher.active_generation
  requestGen,  \* request_generation
  reqs,        \* the SwitchRequest objects callers still hold
  current,     \* current_runtime
  safe,        \* in_safe_mode
  retained,    \* _retained_renderers
  prepared,    \* values of _prepared_candidates
  surface,     \* the renderer of the pet window
  charOf,      \* the character a runtime draws
  live,        \* runtimes whose cache has not been released
  observed,    \* _health_observation_expected
  op           \* the handler in progress

db      == <<active, lkg, due>>
memory  == <<activeGen, requestGen, reqs, safe, retained, prepared, observed>>
screen  == <<current, surface, charOf, live>>
vars    == <<db, lines, up, starts, memory, screen, op>>

Selections == [char : Characters, gen : Nat]
ASSUME NoneAssumption == None \notin Selections \cup Nat

Requests   == [id : Nat, char : Characters, cand : Runtimes \cup {None}]

Kinds == {"none", "start", "switch", "repair", "fallback", "checkpoint"}
Sites == {"idle", "drain", "drop", "inline", "clear", "boot", "slots",
          "restore", "restore_lkg", "fallback", "read", "swap", "commit",
          "loser", "readback", "giveup", "observe", "promote"}

Idle == [kind |-> "none", at |-> "idle", req |-> None, cand |-> None,
         old |-> None, sel |-> None, row |-> None]

TypeOK ==
  /\ active \in Selections \cup {None} /\ lkg \in Selections \cup {None}
  /\ due \subseteq Nat /\ lines \in Seq(Nat)
  /\ up \in BOOLEAN /\ safe \in BOOLEAN /\ starts \in 0..MaxStarts
  /\ activeGen \in Nat /\ requestGen \in Nat
  /\ reqs \subseteq Requests
  /\ current \in Runtimes \cup {None} /\ surface \in Runtimes \cup {Boot}
  /\ retained \subseteq Runtimes /\ prepared \subseteq Runtimes
  /\ charOf \in [Runtimes -> Characters \cup {None}] /\ live \subseteq Runtimes
  /\ observed \in Selections \cup {None}
  /\ op.kind \in Kinds /\ op.at \in Sites
  /\ op.req \in Nat \cup {None} /\ op.cand \in Runtimes \cup {None}
  /\ op.old \in Runtimes \cup {Boot, None}
  /\ op.sel \in Selections \cup {None} /\ op.row \in Nat \cup {None}

Init ==
  /\ active = None /\ lkg = None /\ due = {} /\ lines = <<>>
  /\ up = FALSE /\ starts = 0
  /\ activeGen = 0 /\ requestGen = 0 /\ reqs = {} /\ safe = FALSE
  /\ retained = {} /\ prepared = {} /\ observed = None
  /\ current = None /\ surface = Boot /\ live = {}
  /\ charOf = [r \in Runtimes |-> None]
  /\ op = Idle

(***************************************************************************)
(* Helpers                                                                 *)
(***************************************************************************)
Free   == up /\ op = Idle
At(at) == op.at = at
GoTo(at) == op' = [op EXCEPT !.at = at]
May(fault) == fault \in Faults

GenOf(s) == IF s = None THEN 0 ELSE s.gen
Lines    == {lines[i] : i \in DOMAIN lines}

\* Runtimes some object still points at.
Referenced == {current, surface, op.cand, op.old} \cup retained \cup prepared
                \cup {q.cand : q \in reqs}
Unused == {r \in Runtimes : r \notin live /\ r \notin Referenced}
Fresh  == CHOOSE r \in Unused : TRUE

\* A request object forgets its candidate (_forget_candidate).
Forget(id) == {IF q.id = id THEN [q EXCEPT !.cand = None] ELSE q : q \in reqs}

\* _retain_renderers: every pack runtime among them is held.
Hold(S) == retained' = retained \cup (S \cap Runtimes)

\* Mutant: Bootstrap is taken for a runtime.
EnterSafeAsRuntime(S) ==
  /\ Hold(S)
  /\ surface' = Boot /\ current' = Boot /\ safe' = TRUE

\* _enter_safe_mode: both leases are kept and Bootstrap is shown.
EnterSafe(S) ==
  /\ Hold(S)
  /\ surface' = Boot /\ current' = None /\ safe' = TRUE

\* The handler ends in failure.  At start-up the application reacts to it by
\* entering safe mode itself.
Failed == IF op.kind = "switch" THEN op' = Idle ELSE GoTo("giveup")

\* Mutant: every owner is released, the adopted one too.
ReleaseAll(keep, S, built) ==
  /\ live' = (live \cup built) \ (S \cup {current} \cup retained \cup prepared)
  /\ retained' = {} /\ prepared' = {}

\* _release_runtime_caches_except: of the known owners only keep survives;
\* built are the runtimes this very step has built.
ReleaseExcept(keep, S, built) ==
  /\ live' = (live \cup built)
               \ ((S \cup {current} \cup retained \cup prepared) \ {keep})
  /\ retained' = {} /\ prepared' = {}

\* Mutant: the due row is not part of the transaction.
WriteActiveOnly(s) == active' = s /\ UNCHANGED due

\* The ACTIVE row and its due row are one transaction.
WriteActive(s) == active' = s /\ due' = due \cup {s.gen}

Candidate == [char |-> charOf[op.cand], gen |-> activeGen + 1]

\* Mutant: the upsert has lost its WHERE clause.
AlwaysWins == TRUE

\* The compare-and-swap: only a later generation is written.
Wins == GenOf(active) < Candidate.gen

\* Mutant: safe mode does not reject a new candidate.
StaleOnlyIfOlder(q) == q.id # requestGen

\* _is_stale, and the refusal of safe mode.
Rejected(q) == safe \/ q.id # requestGen

(***************************************************************************)
(* REQUEST and PREPARE                                                     *)
(***************************************************************************)

\* Mutant: the prepared candidates are forgotten and not released.
RequestForgets(c) ==
  /\ Free
  /\ GenOf(active) < MaxGen /\ requestGen <= MaxGen /\ Cardinality(reqs) < 2
  /\ prepared' = {}
  /\ requestGen' = requestGen + 1
  /\ reqs' = reqs \cup {[id |-> requestGen + 1, char |-> c, cand |-> None]}
  /\ UNCHANGED <<db, lines, up, starts, activeGen, safe, retained, observed,
                 current, surface, charOf, live, op>>

\* Every earlier prepared candidate is stale at once and loses its cache.
Request(c) ==
  /\ Free
  /\ GenOf(active) < MaxGen /\ requestGen <= MaxGen /\ Cardinality(reqs) < 2
  /\ live' = live \ (prepared \ ({current} \cup retained))
  /\ prepared' = {}
  /\ requestGen' = requestGen + 1
  /\ reqs' = reqs \cup {[id |-> requestGen + 1, char |-> c, cand |-> None]}
  /\ UNCHANGED <<db, lines, up, starts, activeGen, safe, retained, observed,
                 current, surface, charOf, op>>

\* The caller never comes back to a request.
Drop(q) ==
  /\ Free
  /\ reqs' = reqs \ {q}
  /\ UNCHANGED <<db, lines, up, starts, activeGen, requestGen, safe, retained,
                 prepared, observed, screen, op>>

\* prepare releases what the request already held, then builds and renders a
\* candidate offscreen, unless the request is stale or safe mode rejects it.
Prepare(q) ==
  /\ Free
  /\ LET rest == reqs \ {q}
     IN \/ /\ Rejected(q) \/ May("media")
           /\ reqs' = rest \cup {[q EXCEPT !.cand = None]}
           /\ live' = live \ {q.cand}
           /\ prepared' = prepared \ {q.cand}
           /\ UNCHANGED charOf
        \/ /\ ~ Rejected(q) /\ Unused # {}
           /\ reqs' = rest \cup {[q EXCEPT !.cand = Fresh]}
           /\ charOf' = [charOf EXCEPT ![Fresh] = q.char]
           /\ live' = (live \ {q.cand}) \cup {Fresh}
           /\ prepared' = (prepared \ {q.cand}) \cup {Fresh}
  /\ UNCHANGED <<db, lines, up, starts, activeGen, requestGen, safe, retained,
                 observed, current, surface, op>>

(***************************************************************************)
(* SWAP and COMMIT (swap_and_commit)                                       *)
(***************************************************************************)

\* A stale request gives its candidate back and changes nothing else.
CommitStale(q) ==
  /\ Free
  /\ q.cand # None /\ q.id # requestGen
  /\ reqs' = Forget(q.id)
  /\ live' = live \ {q.cand}
  /\ prepared' = prepared \ {q.cand}
  /\ UNCHANGED <<db, lines, up, starts, activeGen, requestGen, safe, retained,
                 observed, current, surface, charOf, op>>

\* Mutant: the staleness is checked by prepare alone.
CommitUnchecked(q) ==
  /\ Free
  /\ GenOf(active) < MaxGen
  /\ q.cand # None
  /\ op' = [Idle EXCEPT !.kind = "switch", !.at = "read", !.req = q.id,
                        !.cand = q.cand, !.old = surface]
  /\ UNCHANGED <<db, lines, up, starts, memory, screen>>

CommitBegin(q) ==
  /\ Free
  /\ GenOf(active) < MaxGen
  /\ q.cand # None /\ q.id = requestGen
  /\ op' = [Idle EXCEPT !.kind = "switch", !.at = "read", !.req = q.id,
                        !.cand = q.cand, !.old = surface]
  /\ UNCHANGED <<db, lines, up, starts, memory, screen>>

\* No write has started, so a failed read keeps only the old runtime.
ReadPrevious ==
  /\ At("read")
  /\ \/ /\ requestGen' = requestGen + (IF op.kind = "repair" THEN 1 ELSE 0)
        /\ GoTo(IF op.kind = "repair" THEN "commit" ELSE "swap")
        /\ UNCHANGED <<reqs, safe, retained, prepared, current, surface, live>>
     \/ /\ May("read")
        /\ EnterSafe(IF op.kind = "repair" THEN {op.old, op.cand} ELSE {op.old})
        /\ live' = IF op.kind = "repair" THEN live ELSE live \ {op.cand}
        /\ prepared' = prepared \ {op.cand}
        /\ reqs' = Forget(op.req)
        /\ Failed
        /\ UNCHANGED requestGen
  /\ UNCHANGED <<db, lines, up, starts, activeGen, observed, charOf>>

\* The frame boundary and the synchronous first frame.
Swap ==
  /\ At("swap")
  /\ \/ /\ surface' = op.cand
        /\ GoTo("commit")
        /\ UNCHANGED <<reqs, prepared, live>>
     \/ /\ May("paint")
        /\ surface' = op.old
        /\ live' = live \ {op.cand}
        /\ prepared' = prepared \ {op.cand}
        /\ reqs' = Forget(op.req)
        /\ Failed
  /\ UNCHANGED <<db, lines, up, starts, activeGen, requestGen, safe, retained,
                 observed, current, charOf>>

\* _adopt_candidate, up to the journal.
Adopt(s) ==
  /\ activeGen' = s.gen
  /\ ReleaseExcept(op.cand, {op.old}, {})
  /\ current' = op.cand
  /\ reqs' = Forget(op.req)
  /\ safe' = FALSE
  /\ op' = [op EXCEPT !.at = "drain", !.sel = s]

CommitWon ==
  /\ At("commit") /\ Wins
  /\ WriteActive(Candidate)
  /\ Adopt(Candidate)
  /\ UNCHANGED <<lkg, lines, up, starts, requestGen, observed, surface, charOf>>

CommitLost ==
  /\ At("commit") /\ ~ Wins
  /\ GoTo("loser")
  /\ UNCHANGED <<db, lines, up, starts, memory, screen>>

\* Mutant: an error of the write is taken for a refusal, without a read-back.
CommitErrorIsRefusal ==
  /\ At("commit") /\ May("commit")
  /\ \/ UNCHANGED <<active, due>>
     \/ Wins /\ WriteActive(Candidate)
  /\ op' = Idle
  /\ UNCHANGED <<lkg, lines, up, starts, memory, screen>>

\* SQLite raises and the write may have landed or not.  A switch reads the
\* answer back, the start-up repair gives up.
CommitIndeterminate ==
  /\ At("commit") /\ May("commit")
  /\ \/ UNCHANGED <<active, due>>
     \/ Wins /\ WriteActive(Candidate)
  /\ IF op.kind = "repair"
       THEN /\ EnterSafe({surface, op.cand})
            /\ Failed
       ELSE /\ op' = [op EXCEPT !.at = "readback", !.sel = Candidate]
            /\ UNCHANGED <<safe, retained, current, surface>>
  /\ UNCHANGED <<lkg, lines, up, starts, activeGen, requestGen, reqs, prepared,
                 observed, charOf, live>>

\* The read of the authority fails: nobody knows which runtime is ACTIVE.
AuthorityUnknown ==
  /\ op.at \in {"loser", "readback"} /\ May("read")
  /\ EnterSafe({op.old, op.cand})
  /\ reqs' = Forget(op.req)
  /\ prepared' = prepared \ {op.cand}
  /\ Failed
  /\ UNCHANGED <<db, lines, up, starts, activeGen, requestGen, observed, charOf,
                 live>>

ReadbackCommitted ==
  /\ At("readback") /\ active = op.sel
  /\ Adopt(op.sel)
  /\ UNCHANGED <<db, lines, up, starts, requestGen, observed, surface, charOf>>

\* _restore_empty_selection.  The ACTIVE row is never deleted, so an empty
\* read-back means that there was no selection before either.
ReadbackEmpty ==
  /\ At("readback") /\ active = None
  /\ surface' = op.old
  /\ current' = IF op.old \in Runtimes THEN op.old ELSE None
  /\ safe' = FALSE
  /\ ReleaseExcept(op.old, {op.cand}, {})
  /\ reqs' = Forget(op.req)
  /\ Failed
  /\ UNCHANGED <<db, lines, up, starts, activeGen, requestGen, observed, charOf>>

\* _render_authoritative: the first of candidate, old and current runtime
\* that draws the persisted selection, or else a new one.
RenderAuthoritative ==
  /\ At("loser") \/ (At("readback") /\ active # op.sel)
  /\ active # None
  /\ LET draws(r) == r \in Runtimes /\ charOf[r] = active.char
         known    == {r \in {op.cand, op.old, current} : draws(r)}
         target   == IF known = {} THEN Fresh
                     ELSE IF draws(op.cand) THEN op.cand
                     ELSE IF draws(op.old) THEN op.old ELSE current
         built    == IF known = {} THEN {Fresh} ELSE {}
     IN /\ known # {} \/ Unused # {}
        /\ charOf' = [charOf EXCEPT ![target] = active.char]
        /\ \/ /\ surface' = target /\ current' = target
              /\ ReleaseExcept(target, {op.old, op.cand}, built)
              /\ activeGen' = active.gen
              /\ safe' = FALSE
           \/ /\ May("paint")
              /\ EnterSafe({target, op.old, op.cand})
              /\ live' = live \cup built
              /\ prepared' = prepared \ {op.cand}
              /\ UNCHANGED activeGen
  /\ reqs' = Forget(op.req)
  /\ Failed
  /\ UNCHANGED <<db, lines, up, starts, requestGen, observed>>

\* The persisted selection needs a new runtime and that cannot be built.
AuthorityUnrenderable ==
  /\ At("loser") \/ (At("readback") /\ active # op.sel)
  /\ active # None /\ May("media")
  /\ \A r \in {op.cand, op.old, current} \cap Runtimes : charOf[r] # active.char
  /\ EnterSafe({op.old, op.cand})
  /\ reqs' = Forget(op.req)
  /\ prepared' = prepared \ {op.cand}
  /\ Failed
  /\ UNCHANGED <<db, lines, up, starts, activeGen, requestGen, observed, charOf,
                 live>>

(***************************************************************************)
(* The activation audit (_record_activation, drain_activation_audit,       *)
(* _reconcile_activation_journal)                                          *)
(***************************************************************************)
Remove(g) == due' = due \ {g}

Oldest(rows) == CHOOSE g \in rows : \A h \in rows : g <= h

\* record_activation_committed: a line that is found is not written again,
\* and an unreadable journal counts as one without the line.
Record(g) ==
  \/ g \in Lines /\ UNCHANGED lines
  \/ /\ g \notin Lines \/ (May("unreadable") /\ Len(lines) < MaxGen + 3)
     /\ lines' = Append(lines, g)

\* The handler is done: a switch returns, a start goes on.
Recorded ==
  CASE op.kind = "start"  -> GoTo("boot")
    [] op.kind = "repair" -> GoTo("observe")
    [] OTHER              -> op' = Idle

\* The oldest due row but the one that is journalled inline.
DrainNext ==
  /\ At("drain")
  /\ LET rows == due \ {GenOf(op.sel)}
     IN \/ rows = {} /\ GoTo("inline") /\ UNCHANGED lines
        \/ /\ rows # {}
           /\ Record(Oldest(rows))
           /\ op' = [op EXCEPT !.at = "drop", !.row = Oldest(rows)]
        \/ /\ rows # {} /\ May("journal")
           /\ GoTo("inline") /\ UNCHANGED lines
  /\ UNCHANGED <<db, up, starts, memory, screen>>

\* Mutant: a ledger that cannot be written is tried again at once.
DrainRetries ==
  /\ At("drop")
  /\ Remove(op.row) \/ (May("ledger") /\ UNCHANGED due)
  /\ op' = [op EXCEPT !.at = "drain", !.row = None]
  /\ UNCHANGED <<active, lkg, lines, up, starts, memory, screen>>

\* A ledger that cannot be written ends the drain; at start-up it ends the
\* whole reconciliation.
DrainDrop ==
  /\ At("drop")
  /\ \/ /\ Remove(op.row)
        /\ op' = [op EXCEPT !.at = "drain", !.row = None]
     \/ /\ May("ledger") /\ UNCHANGED due
        /\ op' = [op EXCEPT !.at = IF op.kind = "start" THEN "boot" ELSE "inline",
                            !.row = None]
  /\ UNCHANGED <<active, lkg, lines, up, starts, memory, screen>>

\* The line of this selection, or at start-up that of the ACTIVE row.
Inline ==
  /\ At("inline")
  /\ LET own == IF op.kind = "start" THEN active ELSE op.sel
     IN \/ own = None /\ Recorded /\ UNCHANGED lines
        \/ /\ own # None
           /\ Record(own.gen)
           /\ IF op.kind = "start" THEN Recorded ELSE GoTo("clear")
        \/ own # None /\ May("journal") /\ Recorded /\ UNCHANGED lines
  /\ UNCHANGED <<db, up, starts, memory, screen>>

Clear ==
  /\ At("clear")
  /\ Remove(op.sel.gen) \/ (May("ledger") /\ UNCHANGED due)
  /\ Recorded
  /\ UNCHANGED <<active, lkg, lines, up, starts, memory, screen>>

(***************************************************************************)
(* Start-up (ActiveSelectionStore, RuntimeSwitcher, then                   *)
(* _restore_active_character) and the health checkpoint                    *)
(***************************************************************************)
Start ==
  /\ ~ up /\ starts < MaxStarts
  /\ up' = TRUE /\ starts' = starts + 1
  /\ op' = [Idle EXCEPT !.kind = "start", !.at = "drain"]
  /\ UNCHANGED <<db, lines, memory, screen>>

\* The switcher starts above every persisted generation.
BootSwitcher ==
  /\ At("boot")
  /\ activeGen' = IF GenOf(lkg) > GenOf(active) THEN GenOf(lkg) ELSE GenOf(active)
  /\ requestGen' = activeGen'
  /\ GoTo("slots")
  /\ UNCHANGED <<db, lines, up, starts, reqs, safe, retained, prepared,
                 observed, screen>>

ReadSlots ==
  /\ At("slots")
  /\ \/ /\ op' = [op EXCEPT !.at = "restore", !.sel = active]
        /\ UNCHANGED <<safe, retained, current, surface>>
     \/ /\ May("read")
        /\ EnterSafe({surface, current})
        /\ op' = Idle
  /\ UNCHANGED <<db, lines, up, starts, activeGen, requestGen, reqs, prepared,
                 observed, charOf, live>>

\* restore_selection renders a persisted tuple without writing one.
Render(s) ==
  /\ Unused # {}
  /\ requestGen' = requestGen + 1
  /\ charOf' = [charOf EXCEPT ![Fresh] = s.char]
  /\ ReleaseExcept(Fresh, {surface}, {Fresh})
  /\ current' = Fresh /\ surface' = Fresh
  /\ safe' = FALSE

\* Not READY, not buildable or not paintable: the caches are released again.
Unrendered ==
  /\ requestGen' \in {requestGen, requestGen + 1}
  /\ UNCHANGED <<safe, retained, prepared, screen>>

RestoreActive ==
  /\ At("restore")
  /\ \/ /\ op.sel # None
        /\ Render(op.sel)
        /\ observed' = op.sel
        /\ op' = Idle
     \/ /\ op.sel = None \/ May("media") \/ May("paint")
        /\ Unrendered
        /\ GoTo("restore_lkg")
        /\ UNCHANGED observed
  /\ UNCHANGED <<db, lines, up, starts, activeGen, reqs>>

\* The repair that follows commits the restored runtime as a new ACTIVE.
RestoreLkg ==
  /\ At("restore_lkg")
  /\ \/ /\ lkg # None
        /\ Render(lkg)
        /\ op' = [Idle EXCEPT !.kind = "repair", !.at = "read",
                              !.cand = Fresh, !.old = Fresh]
     \/ /\ lkg = None \/ May("media") \/ May("paint")
        /\ Unrendered
        /\ GoTo("fallback")
  /\ UNCHANGED <<db, lines, up, starts, activeGen, reqs, observed>>

\* _fallback_to_builtin is a switch of its own.
Fallback ==
  /\ At("fallback")
  /\ requestGen' = requestGen + 1
  /\ \/ /\ Unused # {}
        /\ charOf' = [charOf EXCEPT ![Fresh] = Builtin]
        /\ live' = live \cup {Fresh} /\ prepared' = {Fresh}
        /\ op' = [Idle EXCEPT !.kind = "fallback", !.at = "read",
                              !.cand = Fresh, !.old = surface]
     \/ /\ May("media")
        /\ GoTo("giveup")
        /\ UNCHANGED <<charOf, live, prepared>>
  /\ UNCHANGED <<db, lines, up, starts, activeGen, reqs, safe, retained,
                 observed, current, surface>>

\* The application shows Bootstrap after a failed repair or fallback.
GiveUp ==
  /\ At("giveup")
  /\ EnterSafe({surface, current})
  /\ op' = Idle
  /\ UNCHANGED <<db, lines, up, starts, activeGen, requestGen, reqs, prepared,
                 observed, charOf, live>>

Observe ==
  /\ At("observe")
  /\ observed' = active
  /\ op' = Idle
  /\ UNCHANGED <<db, lines, up, starts, activeGen, requestGen, reqs, safe,
                 retained, prepared, screen>>

\* The observation of the restored tuple completes once.
CheckpointBegin ==
  /\ Free /\ observed # None
  /\ observed' = None
  /\ \/ /\ active = observed /\ ~ safe
        /\ current # None /\ charOf[current] = active.char
        /\ op' = [Idle EXCEPT !.kind = "checkpoint", !.at = "promote",
                              !.sel = active]
     \/ /\ \/ active # observed \/ safe
           \/ May("media") \/ May("read")
        /\ UNCHANGED op
  /\ UNCHANGED <<db, lines, up, starts, activeGen, requestGen, reqs, safe,
                 retained, prepared, screen>>

\* Mutant: the checkpoint is written under the request generation.
PromoteAsRequested ==
  /\ At("promote")
  /\ lkg' = [op.sel EXCEPT !.gen = requestGen]
  /\ op' = Idle
  /\ UNCHANGED <<active, due, lines, up, starts, memory, screen>>

Promote ==
  /\ At("promote")
  /\ lkg' = op.sel \/ (May("ledger") /\ UNCHANGED lkg)
  /\ op' = Idle
  /\ UNCHANGED <<active, due, lines, up, starts, memory, screen>>

(***************************************************************************)
(* The environment and the specification                                   *)
(***************************************************************************)

\* Another writer of state.db wins a generation; its line is still due.
OtherWriter(c) ==
  /\ May("writer") /\ up
  /\ GenOf(active) < MaxGen
  /\ WriteActive([char |-> c, gen |-> GenOf(active) + 1])
  /\ UNCHANGED <<lkg, lines, up, starts, memory, screen, op>>

\* The program is closed, or killed in the middle of a handler: nothing
\* volatile is left.
Down ==
  /\ up
  /\ op = Idle \/ May("kill")
  /\ up' = FALSE
  /\ activeGen' = 0 /\ requestGen' = 0 /\ reqs' = {} /\ safe' = FALSE
  /\ retained' = {} /\ prepared' = {} /\ observed' = None
  /\ current' = None /\ surface' = Boot /\ live' = {}
  /\ charOf' = [r \in Runtimes |-> None]
  /\ op' = Idle
  /\ UNCHANGED <<db, lines, starts>>

User == \/ \E c \in Characters : Request(c)
        \/ \E q \in reqs : Drop(q) \/ Prepare(q) \/ CommitStale(q) \/ CommitBegin(q)

SwitchStep == \/ ReadPrevious \/ Swap \/ CommitWon \/ CommitLost
              \/ CommitIndeterminate \/ AuthorityUnknown \/ ReadbackCommitted
              \/ ReadbackEmpty \/ RenderAuthoritative \/ AuthorityUnrenderable
AuditStep  == DrainNext \/ DrainDrop \/ Inline \/ Clear
StartStep  == \/ BootSwitcher \/ ReadSlots \/ RestoreActive \/ RestoreLkg
              \/ Fallback \/ GiveUp \/ Observe
HealthStep == CheckpointBegin \/ Promote

\* What the GUI thread does once a handler is under way.
Proceed == SwitchStep \/ AuditStep \/ StartStep \/ Promote

Next == \/ User \/ SwitchStep \/ AuditStep \/ StartStep \/ HealthStep
        \/ Start \/ Down \/ \E c \in Characters : OtherWriter(c)

Spec == Init /\ [][Next]_vars
FairSpec == Spec /\ WF_vars(Proceed)

(***************************************************************************)
(* Properties                                                              *)
(***************************************************************************)

\* When a handler has returned, the window shows the runtime the switcher
\* calls current, and unless another writer has committed a later generation
\* since, that runtime draws the persisted ACTIVE character.  Safe mode shows
\* Bootstrap.
ShownIsAuthority ==
  Free =>
    \/ /\ current = None /\ surface = Boot
       /\ safe \/ active = None \/ activeGen < active.gen
    \/ /\ ~ safe /\ current # None /\ surface = current
       /\ active # None /\ activeGen <= active.gen
       /\ activeGen = active.gen => charOf[current] = active.char

\* Every decoded cache has an owner and every owner has its cache: that of a
\* runtime on screen, or held as an unconfirmed lease, has never been released,
\* and between handlers none is alive that nobody will ever release.
ShownCacheLive ==
  (({surface, current} \ {Boot, None}) \cup retained) \subseteq live
NoCacheLeak ==
  op = Idle => live \subseteq {current, surface} \cup retained \cup prepared
CachesOwned == ShownCacheLive /\ NoCacheLeak

\* ACTIVE moves only to a later generation, whoever writes it.  This process
\* writes it neither for a request that a newer one has overtaken nor in safe
\* mode: a candidate prepared before is gone and a new one is refused, until a
\* start has rendered a persisted selection again.
LatestRequestWins ==
  [][active' # active =>
       /\ GenOf(active') > GenOf(active)
       /\ op' # op => /\ ~ safe
                      /\ op.req # None => \A q \in reqs : q.id <= op.req]_vars

\* The restore basis is never ahead of ACTIVE, and at the same generation it
\* is ACTIVE.
LkgBehindActive ==
  lkg # None => /\ GenOf(lkg) <= GenOf(active)
                /\ GenOf(lkg) = GenOf(active) => lkg = active

\* No confirmed activation is lost to the audit: whatever failed, every
\* generation has its line or its due row.
AuditNeverLost ==
  \A g \in 1..GenOf(active) : g \in due \cup Lines

\* Every handler returns, or the process dies in it.
HandlerReturns == op # Idle ~> op = Idle
=============================================================================
