------------------------ MODULE RuntimeSwitcherProofs ------------------------
(***************************************************************************)
(* Theorems about RuntimeSwitcher, for any characters and runtimes, any    *)
(* choice of what may fail or interfere, and any number of switches and    *)
(* starts.                                                                 *)
(*                                                                         *)
(* The safety properties of the module speak of a window between handlers; *)
(* an induction has to follow a handler through its sites.  IInv says what *)
(* it works on at each site, which generation it may assume, and who owns  *)
(* each decoded cache meanwhile.                                           *)
(***************************************************************************)
EXTENDS RuntimeSwitcher, SequenceTheorems, WellFoundedInduction, TLAPS

Switching == {"read", "swap", "commit", "loser", "readback"}
Auditing  == {"drain", "drop", "inline", "clear"}
Restoring == {"boot", "slots", "restore", "restore_lkg", "fallback"}

OpSet == [kind : Kinds, at : Sites, req : Nat \cup {None},
          cand : Runtimes \cup {None}, old : Runtimes \cup {Boot, None},
          sel : Selections \cup {None}, row : Nat \cup {None}]

\* The types of everything but the handler.
StateTyped ==
  /\ active \in Selections \cup {None} /\ lkg \in Selections \cup {None}
  /\ due \subseteq Nat /\ lines \in Seq(Nat)
  /\ up \in BOOLEAN /\ safe \in BOOLEAN /\ starts \in 0..MaxStarts
  /\ activeGen \in Nat /\ requestGen \in Nat
  /\ reqs \subseteq Requests
  /\ current \in Runtimes \cup {None} /\ surface \in Runtimes \cup {Boot}
  /\ retained \subseteq Runtimes /\ prepared \subseteq Runtimes
  /\ charOf \in [Runtimes -> Characters \cup {None}] /\ live \subseteq Runtimes
  /\ observed \in Selections \cup {None}

Typed == StateTyped /\ op \in OpSet

\* Which handler is at which site, and what it has in hand there.
Sited ==
  /\ op.at = "idle" => op = Idle
  /\ op.kind = "none" => op.at = "idle"
  /\ ~ up => op.at = "idle"
  /\ op.kind = "checkpoint" => op.at = "promote"
  /\ op.at = "promote" => op.kind = "checkpoint" /\ op.sel # None
  /\ op.kind = "switch" => op.at \in Switching \cup Auditing
  /\ op.at \in Restoring => op.kind = "start"
  /\ op.kind = "start" => op.at \in Restoring \cup Auditing \cup {"giveup"}
  /\ op.at \in Switching => op.kind # "start" /\ op.cand # None
  /\ op.at \in {"swap", "readback"} => op.kind # "repair"
  /\ op.at = "observe" => op.kind = "repair"
  /\ op.at = "readback" => op.sel # None
  /\ op.at \in Auditing => (op.sel = None <=> op.kind = "start")
  /\ op.at = "clear" => op.kind # "start"
  /\ op.at = "drop" => op.row # None

\* No later state of the catalog makes a selection read before newer than it.
Behind(s) == s # None => /\ GenOf(s) <= GenOf(active)
                         /\ GenOf(s) = GenOf(active) => s = active

\* The generations and the audit.
Dated ==
  /\ activeGen <= GenOf(active)
  /\ Behind(lkg)
  /\ op.at \in Auditing \cup {"promote", "restore"} => Behind(op.sel)
  /\ op.at = "restore" /\ op.sel # None => activeGen <= GenOf(op.sel)
  /\ op.at = "drop" => op.row \in Lines
  /\ op.at = "clear" => op.sel.gen \in Lines

\* What a handler serves: a start no request, a switch the latest, and neither
\* is entered in safe mode.
Serving ==
  /\ op.kind \in {"start", "repair", "fallback"} => reqs = {} /\ op.req = None
  /\ ~ up => reqs = {} /\ ~ safe
  /\ op.at \in Switching \cup Restoring \cup {"promote"} => ~ safe
  /\ op.kind = "switch" /\ op.at \in Switching => op.req = requestGen

\* Only the latest request may have a candidate that is alive, none in safe mode.
Requested ==
  /\ \A q \in reqs : q.id <= requestGen
  /\ \A q, r \in reqs : q.id = r.id => q = r
  /\ \A q \in reqs : q.id = requestGen /\ q.cand # None => ~ safe /\ q.cand \in prepared
  /\ \A q \in reqs : q.id # requestGen => q.cand \notin live

\* A program that is down, or has not drawn a character yet, holds nothing.
Blank == /\ current = None /\ surface = Boot
         /\ live = {} /\ retained = {} /\ prepared = {}

\* The caches and their owners: who is alive has one, who owns one is alive, and
\* a candidate that is prepared is not on screen until it is swapped in.
Owned ==
  /\ \A r \in live : r = current \/ r = surface \/ r \in retained \/ r \in prepared
  /\ current # None => current \in live
  /\ surface # Boot => surface \in live
  /\ \A r \in retained : r \in live /\ r \notin prepared
  /\ \A r \in prepared : r \in live /\ r # current
  /\ surface \in prepared => op.at \in {"commit", "loser", "readback"}

Drawn == \A r \in live : charOf[r] \in Characters

\* What a switch has in hand: until the swap the window shows the old runtime,
\* afterwards the candidate.
InHand ==
  /\ ~ up \/ op.kind = "start" => Blank /\ ~ safe
  /\ op.at \in Switching => op.cand \in live
  /\ op.at \in {"read", "swap"} => surface = op.old
  /\ op.at \in {"commit", "loser", "readback"} => surface = op.cand
  /\ op.kind = "repair" /\ op.at \in Switching
       => /\ current = op.cand /\ surface = op.cand /\ op.old = op.cand
          /\ retained = {} /\ prepared = {}
  /\ op.kind = "fallback" /\ op.at \in Switching
       => current = None /\ op.old = Boot /\ retained = {} /\ prepared = {op.cand}
  /\ op.kind = "switch" /\ op.at \in Switching
       => /\ op.cand \in prepared
          /\ (current = None /\ op.old = Boot) \/ (current # None /\ op.old = current)

\* What the window shows, were its surface the given one.
Settled(sfc) ==
  \/ /\ current = None /\ sfc = Boot
     /\ safe \/ active = None \/ activeGen < active.gen
  \/ /\ ~ safe /\ current # None /\ sfc = current
     /\ active # None /\ activeGen <= active.gen
     /\ activeGen = active.gen => charOf[current] = active.char

Shown ==
  /\ up /\ op.at \in {"idle", "promote"} => Settled(surface)
  /\ op.kind # "start" /\ op.at \in Auditing \cup {"observe"} => Settled(surface)
  /\ op.kind = "switch" /\ op.at \in Switching => Settled(op.old)
  /\ op.at = "readback" => op.sel.char = charOf[op.cand]

IInv == /\ Typed /\ Sited /\ Dated /\ Serving /\ Requested
        /\ Owned /\ Drawn /\ InHand /\ Shown /\ AuditNeverLost

USE SwitcherAssumption, NoneAssumption

-----------------------------------------------------------------------------
(***************************************************************************)
(* What is chosen.                                                         *)
(***************************************************************************)
LEMMA FreshUnused == Unused # {} => Fresh \in Unused
BY DEF Fresh

\* The ledger hands out one of its rows.
LEMMA OldestOfRows ==
  ASSUME NEW rows, rows \subseteq Nat, rows # {}
  PROVE  Oldest(rows) \in rows
<1>1. PICK g \in rows : \A h \in rows : ~ (<<h, g>> \in OpToRel(<, Nat))
  BY WFMin, NatLessThanWellFounded
<1>2. ASSUME NEW h \in rows PROVE g <= h
  <2>1. g \in Nat /\ h \in Nat
    OBVIOUS
  <2>2. ~ (<<h, g>> \in OpToRel(<, Nat))
    BY <1>1
  <2>3. ~ (h < g)
    BY <2>1, <2>2 DEF OpToRel
  <2> QED  BY <2>1, <2>3
<1> QED  BY <1>1, <1>2 DEF Oldest

\* What a journal line leaves in the journal.
LEMMA RecordLines ==
  ASSUME lines \in Seq(Nat), NEW g \in Nat, Record(g)
  PROVE  /\ lines' \in Seq(Nat)
         /\ {lines'[i] : i \in DOMAIN lines'} = Lines \cup {g}
<1>1. CASE g \in Lines /\ UNCHANGED lines
  BY <1>1 DEF Lines
<1>2. CASE lines' = Append(lines, g)
  <2>1. /\ lines' \in Seq(Nat)
        /\ Len(lines') = Len(lines) + 1
        /\ lines'[Len(lines) + 1] = g
        /\ \A i \in 1 .. Len(lines) : lines'[i] = lines[i]
    BY <1>2, AppendProperties
  <2>2. /\ DOMAIN lines = 1 .. Len(lines)
        /\ DOMAIN lines' = 1 .. Len(lines) + 1
        /\ Len(lines) \in Nat
    BY <2>1, LenProperties
  <2>3. 1 .. Len(lines) + 1 = (1 .. Len(lines)) \cup {Len(lines) + 1}
    BY <2>2
  <2> QED  BY <2>1, <2>2, <2>3 DEF Lines
<1> QED  BY <1>1, <1>2 DEF Record

-----------------------------------------------------------------------------
(***************************************************************************)
(* The types and the sites.                                                *)
(***************************************************************************)
LEMMA IdleOp == Idle \in OpSet /\ Idle.at = "idle" /\ Idle.kind = "none"
BY DEF Idle, OpSet, Kinds, Sites

\* A handler goes on at another site with what it has in hand.
LEMMA GoToOp ==
  ASSUME op \in OpSet, NEW at \in Sites, GoTo(at)
  PROVE  /\ op' \in OpSet /\ op'.at = at /\ op'.kind = op.kind /\ op'.req = op.req
         /\ op'.cand = op.cand /\ op'.old = op.old /\ op'.sel = op.sel /\ op'.row = op.row
BY DEF GoTo, OpSet

\* A switch that fails returns; what happens at start-up is given up.
LEMMA FailedOp ==
  ASSUME op \in OpSet, Failed
  PROVE  /\ op' \in OpSet
         /\ op.kind = "switch" => op' = Idle
         /\ op.kind # "switch" => /\ op'.at = "giveup" /\ op'.kind = op.kind
                                  /\ op'.req = op.req /\ op'.cand = op.cand
                                  /\ op'.old = op.old /\ op'.sel = op.sel
BY IdleOp, GoToOp DEF Failed, Sites

\* The audit of a handler is done.
LEMMA RecordedOp ==
  ASSUME op \in OpSet, Recorded
  PROVE  /\ op' \in OpSet
         /\ op.kind \notin {"start", "repair"} => op' = Idle
         /\ op.kind = "start" => /\ op'.at = "boot" /\ op'.kind = "start"
                                 /\ op'.req = op.req /\ op'.sel = op.sel
         /\ op.kind = "repair" => /\ op'.at = "observe" /\ op'.kind = "repair"
                                  /\ op'.req = op.req /\ op'.sel = op.sel
<1>1. CASE op.kind = "start"
  BY <1>1, GoToOp DEF Recorded, Sites
<1>2. CASE op.kind = "repair"
  BY <1>2, GoToOp DEF Recorded, Sites
<1>3. CASE op.kind \notin {"start", "repair"}
  BY <1>3, IdleOp DEF Recorded
<1> QED  BY <1>1, <1>2, <1>3

\* An adopted selection is audited next.
LEMMA AdoptOp ==
  ASSUME op \in OpSet, NEW s \in Selections, Adopt(s)
  PROVE  /\ op' \in OpSet /\ op'.at = "drain" /\ op'.sel = s /\ op'.kind = op.kind
         /\ op'.req = op.req /\ op'.cand = op.cand /\ op'.old = op.old
BY DEF Adopt, OpSet, Sites

\* Requests after one of them has lost its candidate.
LEMMA ForgetTyped ==
  ASSUME reqs \subseteq Requests, NEW id
  PROVE  /\ Forget(id) \subseteq Requests
         /\ \A q \in Forget(id) : \E r \in reqs :
              q.id = r.id /\ q.cand = (IF r.id = id THEN None ELSE r.cand)
         /\ (\A q, r \in reqs : q.id = r.id => q = r)
              => \A q, r \in Forget(id) : q.id = r.id => q = r
BY DEF Forget, Requests

\* Safe mode keeps the types.
LEMMA EnterSafeTyped ==
  ASSUME retained \subseteq Runtimes, NEW S, EnterSafe(S)
  PROVE  /\ retained' \subseteq Runtimes /\ safe' \in BOOLEAN
         /\ surface' \in Runtimes \cup {Boot} /\ current' \in Runtimes \cup {None}
BY DEF EnterSafe, Hold

\* So does releasing runtimes.
LEMMA ReleaseTyped ==
  ASSUME live \subseteq Runtimes, NEW keep, NEW S, NEW built \in SUBSET Runtimes,
         ReleaseExcept(keep, S, built)
  PROVE  /\ live' \subseteq Runtimes
         /\ retained' \subseteq Runtimes /\ prepared' \subseteq Runtimes
BY DEF ReleaseExcept

\* So does a request with its candidate.
LEMMA CandidateTyped ==
  ASSUME Typed, op.cand \in Runtimes, charOf[op.cand] \in Characters
  PROVE  /\ Candidate \in Selections /\ Candidate.gen = activeGen + 1
         /\ Candidate.char = charOf[op.cand]
BY DEF Candidate, Selections, Typed, StateTyped


\* What _render_authoritative draws with: a runtime that is at hand and draws the
\* persisted selection, or one that it builds.
LEMMA RenderTarget ==
  ASSUME Typed, RenderAuthoritative
  PROVE  \E target \in Runtimes, built \in SUBSET Runtimes :
           /\ \/ target \in {op.cand, op.old, current} /\ charOf[target] = active.char /\ built = {}
              \/ target \in Unused /\ built = {target}
           /\ charOf' = [charOf EXCEPT ![target] = active.char]
           /\ \/ /\ surface' = target /\ current' = target
                 /\ ReleaseExcept(target, {op.old, op.cand}, built)
                 /\ activeGen' = active.gen
                 /\ safe' = FALSE
              \/ /\ EnterSafe({target, op.old, op.cand})
                 /\ live' = live \cup built
                 /\ prepared' = prepared \ {op.cand}
                 /\ UNCHANGED activeGen
<1> DEFINE draws(r) == r \in Runtimes /\ charOf[r] = active.char
           known    == {r \in {op.cand, op.old, current} : draws(r)}
           target   == IF known = {} THEN Fresh
                       ELSE IF draws(op.cand) THEN op.cand
                       ELSE IF draws(op.old) THEN op.old ELSE current
           built    == IF known = {} THEN {Fresh} ELSE {}
<1>1. known # {} \/ Unused # {}
  BY DEF RenderAuthoritative
<1>4. /\ target \in Runtimes /\ built \in SUBSET Runtimes
      /\ \/ target \in {op.cand, op.old, current} /\ charOf[target] = active.char /\ built = {}
         \/ target \in Unused /\ built = {target}
  <2>1. CASE known = {}
    BY <1>1, <2>1, FreshUnused DEF Unused
  <2>2. CASE known # {}
    <3>1. target \in known /\ built = {}
      BY <2>2
    <3> QED  BY <3>1
  <2> QED  BY <2>1, <2>2
<1>5. /\ charOf' = [charOf EXCEPT ![target] = active.char]
      /\ \/ /\ surface' = target /\ current' = target
            /\ ReleaseExcept(target, {op.old, op.cand}, built)
            /\ activeGen' = active.gen
            /\ safe' = FALSE
         \/ /\ EnterSafe({target, op.old, op.cand})
            /\ live' = live \cup built
            /\ prepared' = prepared \ {op.cand}
            /\ UNCHANGED activeGen
  BY DEF RenderAuthoritative
<1> HIDE DEF target, built
<1> QED  BY <1>4, <1>5

\* So does everything the user does.
LEMMA UserTyped == ASSUME Typed, Sited, User PROVE Typed'
<1> USE DEF Typed, StateTyped, db, memory, screen
<1>1. ASSUME NEW c \in Characters, Request(c) PROVE Typed'
  <2>1. [id |-> requestGen + 1, char |-> c, cand |-> None] \in Requests
    BY DEF Requests
  <2> QED  BY <1>1, <2>1 DEF Request
<1>2. ASSUME NEW q \in reqs, Drop(q) PROVE Typed'
  BY <1>2 DEF Drop
<1>3. ASSUME NEW q \in reqs, Prepare(q) PROVE Typed'
  <2>1. q \in Requests
    OBVIOUS
  <2>2. \A r \in Runtimes \cup {None} : [q EXCEPT !.cand = r] \in Requests
    BY <2>1 DEF Requests
  <2>3. Unused # {} => Fresh \in Runtimes
    BY FreshUnused DEF Unused
  <2>4. q.char \in Characters
    BY <2>1 DEF Requests
  <2>5. reqs' \subseteq Requests
    BY <1>3, <2>2, <2>3 DEF Prepare
  <2>6. charOf' \in [Runtimes -> Characters \cup {None}]
    BY <1>3, <2>4 DEF Prepare
  <2>7. live' \subseteq Runtimes /\ prepared' \subseteq Runtimes
    BY <1>3, <2>3 DEF Prepare
  <2> QED  BY <1>3, <2>5, <2>6, <2>7 DEF Prepare
<1>4. ASSUME NEW q \in reqs, CommitStale(q) PROVE Typed'
  BY <1>4, ForgetTyped DEF CommitStale
<1>5. ASSUME NEW q \in reqs, CommitBegin(q) PROVE Typed'
  <2>1. q.id \in Nat /\ q.cand \in Runtimes \cup {None}
    BY DEF Requests
  <2>2. op' = [kind |-> "switch", at |-> "read", req |-> q.id, cand |-> q.cand,
               old |-> surface, sel |-> None, row |-> None]
    BY <1>5 DEF CommitBegin, Idle
  <2>3. op' \in OpSet
    BY <2>1, <2>2 DEF OpSet, Kinds, Sites
  <2> QED  BY <1>5, <2>3 DEF CommitBegin
<1> QED  BY <1>1, <1>2, <1>3, <1>4, <1>5 DEF User

\* So does every step of a switch.
LEMMA SwitchStepTyped == ASSUME Typed, Sited, Drawn, InHand, SwitchStep PROVE Typed'
<1> USE DEF Typed, StateTyped, db, memory, screen
<1>1. CASE ReadPrevious
  <2>1. op' \in OpSet
    BY <1>1, GoToOp, FailedOp DEF ReadPrevious, Sites
  <2>2. requestGen' \in Nat
    BY <1>1 DEF ReadPrevious
  <2>3. /\ retained' \subseteq Runtimes /\ safe' \in BOOLEAN
        /\ surface' \in Runtimes \cup {Boot} /\ current' \in Runtimes \cup {None}
    BY <1>1, EnterSafeTyped DEF ReadPrevious
  <2>4. /\ live' \subseteq Runtimes
        /\ prepared' \subseteq Runtimes
        /\ reqs' \subseteq Requests
    BY <1>1, ForgetTyped DEF ReadPrevious
  <2> QED  BY <1>1, <2>1, <2>2, <2>3, <2>4 DEF ReadPrevious
<1>2. CASE Swap
  <2>1. op' \in OpSet
    BY <1>2, GoToOp, FailedOp DEF Swap, Sites
  <2>2. op.cand \in Runtimes /\ op.old \in Runtimes \cup {Boot}
    BY <1>2 DEF Swap, At, Sited, InHand, Switching, OpSet
  <2> QED  BY <1>2, <2>1, <2>2, ForgetTyped DEF Swap
<1>3. CASE CommitWon
  <2>1. Candidate \in Selections /\ op.cand \in Runtimes
    BY <1>3, CandidateTyped DEF CommitWon, At, Sited, Drawn, InHand, Switching, OpSet
  <2>2. op' \in OpSet
    BY <1>3, <2>1, AdoptOp DEF CommitWon
  <2>3. Candidate.gen \in Nat
    BY <2>1 DEF Selections
  <2>4. /\ live' \subseteq Runtimes
        /\ retained' \subseteq Runtimes
        /\ prepared' \subseteq Runtimes
    BY <1>3, ReleaseTyped DEF CommitWon, Adopt
  <2> QED  BY <1>3, <2>1, <2>2, <2>3, <2>4, ForgetTyped DEF CommitWon, WriteActive, Adopt
<1>4. CASE CommitLost
  <2>1. op' \in OpSet
    BY <1>4, GoToOp DEF CommitLost, Sites
  <2> QED  BY <1>4, <2>1 DEF CommitLost
<1>5. CASE CommitIndeterminate
  <2>1. Candidate \in Selections /\ Candidate.gen \in Nat
    BY <1>5, CandidateTyped DEF CommitIndeterminate, At, Sited, Drawn, InHand, Switching
  <2>2. op' \in OpSet
    <3>1. CASE op.kind = "repair"
      BY <1>5, <3>1, FailedOp DEF CommitIndeterminate
    <3>2. CASE op' = [op EXCEPT !.at = "readback", !.sel = Candidate]
      BY <2>1, <3>2 DEF OpSet, Sites
    <3> QED  BY <1>5, <3>1, <3>2 DEF CommitIndeterminate
  <2>3. /\ retained' \subseteq Runtimes /\ safe' \in BOOLEAN
        /\ surface' \in Runtimes \cup {Boot} /\ current' \in Runtimes \cup {None}
    BY <1>5, EnterSafeTyped DEF CommitIndeterminate
  <2>4. active' \in Selections \cup {None} /\ due' \subseteq Nat
    BY <1>5, <2>1 DEF CommitIndeterminate, WriteActive
  <2> QED  BY <1>5, <2>2, <2>3, <2>4 DEF CommitIndeterminate
<1>6. CASE AuthorityUnknown
  <2>1. op' \in OpSet
    BY <1>6, FailedOp DEF AuthorityUnknown, Sites
  <2> QED  BY <1>6, <2>1, ForgetTyped DEF AuthorityUnknown, EnterSafe, Hold
<1>7. CASE ReadbackCommitted
  <2>1. op.sel \in Selections
    BY <1>7 DEF ReadbackCommitted, At, Sited, OpSet
  <2>2. op' \in OpSet
    BY <1>7, <2>1, AdoptOp DEF ReadbackCommitted
  <2>3. op.cand \in Runtimes
    BY <1>7 DEF ReadbackCommitted, At, Sited, Switching, OpSet
  <2> QED  BY <1>7, <2>1, <2>2, <2>3, ForgetTyped DEF ReadbackCommitted, Adopt,
              ReleaseExcept, Selections
<1>8. CASE ReadbackEmpty
  <2>1. op' \in OpSet
    BY <1>8, FailedOp DEF ReadbackEmpty
  <2>2. op.old \in Runtimes \cup {Boot}
    BY <1>8 DEF ReadbackEmpty, At, Sited, InHand, Switching, OpSet, Kinds
  <2> QED  BY <1>8, <2>1, <2>2, ForgetTyped DEF ReadbackEmpty, ReleaseExcept
<1>9. CASE RenderAuthoritative
  <2>1. op' \in OpSet
    BY <1>9, FailedOp DEF RenderAuthoritative
  <2>2. PICK target \in Runtimes, built \in SUBSET Runtimes :
          /\ charOf' = [charOf EXCEPT ![target] = active.char]
          /\ \/ /\ surface' = target /\ current' = target
                /\ ReleaseExcept(target, {op.old, op.cand}, built)
                /\ activeGen' = active.gen
                /\ safe' = FALSE
             \/ /\ EnterSafe({target, op.old, op.cand})
                /\ live' = live \cup built
                /\ prepared' = prepared \ {op.cand}
                /\ UNCHANGED activeGen
    BY <1>9, RenderTarget
  <2>3. active.char \in Characters /\ active.gen \in Nat
    BY <1>9 DEF RenderAuthoritative, Selections
  <2>4. charOf' \in [Runtimes -> Characters \cup {None}]
    BY <2>2, <2>3
  <2>5. reqs' \subseteq Requests
    BY <1>9, ForgetTyped DEF RenderAuthoritative
  <2>6. CASE EnterSafe({target, op.old, op.cand}) /\ live' = live \cup built
              /\ prepared' = prepared \ {op.cand} /\ UNCHANGED activeGen
    BY <1>9, <2>1, <2>4, <2>5, <2>6, EnterSafeTyped DEF RenderAuthoritative
  <2>7. CASE /\ surface' = target /\ current' = target
             /\ ReleaseExcept(target, {op.old, op.cand}, built)
             /\ activeGen' = active.gen /\ safe' = FALSE
    BY <1>9, <2>1, <2>3, <2>4, <2>5, <2>7, ReleaseTyped DEF RenderAuthoritative
  <2> QED  BY <2>2, <2>6, <2>7
<1>10. CASE AuthorityUnrenderable
  <2>1. op' \in OpSet
    BY <1>10, FailedOp DEF AuthorityUnrenderable, Sites
  <2> QED  BY <1>10, <2>1, ForgetTyped DEF AuthorityUnrenderable, EnterSafe, Hold
<1> QED  BY <1>1, <1>2, <1>3, <1>4, <1>5, <1>6, <1>7, <1>8, <1>9, <1>10 DEF SwitchStep

\* So does every step of the audit.
LEMMA AuditStepTyped == ASSUME Typed, Sited, Drawn, InHand, AuditStep PROVE Typed'
<1> USE DEF Typed, StateTyped, db, memory, screen
<1>1. CASE DrainNext
  <2> DEFINE rows == due \ {GenOf(op.sel)}
  <2>1. rows # {} => Oldest(rows) \in Nat
    BY OldestOfRows
  <2>2. CASE GoTo("inline") /\ UNCHANGED lines
    <3>1. op' \in OpSet
      BY <2>2, GoToOp DEF Sites
    <3> QED  BY <1>1, <2>2, <3>1 DEF DrainNext
  <2>3. CASE /\ rows # {} /\ Record(Oldest(rows))
             /\ op' = [op EXCEPT !.at = "drop", !.row = Oldest(rows)]
    <3>1. op' \in OpSet
      BY <2>1, <2>3 DEF OpSet, Sites
    <3>2. lines' \in Seq(Nat)
      BY <2>1, <2>3, RecordLines
    <3> QED  BY <1>1, <3>1, <3>2 DEF DrainNext
  <2> QED  BY <1>1, <2>2, <2>3 DEF DrainNext
<1>2. CASE DrainDrop
  <2>1. PICK at \in Sites : op' = [op EXCEPT !.at = at, !.row = None]
    BY <1>2 DEF DrainDrop, Sites
  <2>2. op' \in OpSet
    BY <2>1 DEF OpSet
  <2> QED  BY <1>2, <2>2 DEF DrainDrop, Remove
<1>3. CASE Inline
  <2> DEFINE own == IF op.kind = "start" THEN active ELSE op.sel
  <2>1. own # None => own.gen \in Nat
    BY DEF Selections, OpSet
  <2>2. lines' \in Seq(Nat)
    BY <1>3, <2>1, RecordLines DEF Inline
  <2>3. op' \in OpSet
    BY <1>3, GoToOp, RecordedOp DEF Inline, Sites
  <2> QED  BY <1>3, <2>2, <2>3 DEF Inline
<1>4. CASE Clear
  <2>1. op' \in OpSet
    BY <1>4, RecordedOp DEF Clear, Sites
  <2> QED  BY <1>4, <2>1 DEF Clear, Remove
<1> QED  BY <1>1, <1>2, <1>3, <1>4 DEF AuditStep


\* What a restored selection is drawn with.
LEMMA RenderTyped ==
  ASSUME Typed, NEW s \in Selections, Render(s)
  PROVE  /\ requestGen' \in Nat /\ safe' \in BOOLEAN
         /\ current' \in Runtimes /\ surface' \in Runtimes
         /\ retained' \subseteq Runtimes /\ prepared' \subseteq Runtimes
         /\ live' \subseteq Runtimes
         /\ charOf' \in [Runtimes -> Characters \cup {None}]
<1> USE DEF Typed, StateTyped
<1>1. Fresh \in Runtimes /\ s.char \in Characters
  BY FreshUnused DEF Render, Unused, Selections
<1>2. {Fresh} \in SUBSET Runtimes
  BY <1>1
<1>3. /\ live' \subseteq Runtimes
      /\ retained' \subseteq Runtimes
      /\ prepared' \subseteq Runtimes
  BY <1>2, ReleaseTyped DEF Render
<1>4. charOf' \in [Runtimes -> Characters \cup {None}]
  BY <1>1 DEF Render
<1>5. safe' \in BOOLEAN
  BY DEF Render
<1> QED  BY <1>1, <1>3, <1>4, <1>5 DEF Render

\* So does every step of a start.
LEMMA StartStepTyped == ASSUME Typed, Sited, Drawn, InHand, StartStep PROVE Typed'
<1> USE DEF Typed, StateTyped, db, memory, screen
<1>1. CASE BootSwitcher
  <2>1. op' \in OpSet
    BY <1>1, GoToOp DEF BootSwitcher, Sites
  <2>2. GenOf(lkg) \in Nat /\ GenOf(active) \in Nat
    BY DEF GenOf, Selections
  <2> QED  BY <1>1, <2>1, <2>2 DEF BootSwitcher
<1>2. CASE ReadSlots
  <2>1. CASE /\ op' = [op EXCEPT !.at = "restore", !.sel = active]
             /\ UNCHANGED <<safe, retained, current, surface>>
    <3>1. op' \in OpSet
      BY <2>1 DEF OpSet, Sites
    <3> QED  BY <1>2, <2>1, <3>1 DEF ReadSlots
  <2>2. CASE EnterSafe({surface, current}) /\ op' = Idle
    BY <1>2, <2>2, IdleOp, EnterSafeTyped DEF ReadSlots
  <2> QED  BY <1>2, <2>1, <2>2 DEF ReadSlots
<1>3. CASE RestoreActive
  <2>1. CASE op.sel # None /\ Render(op.sel) /\ observed' = op.sel /\ op' = Idle
    <3>1. op.sel \in Selections
      BY <2>1 DEF OpSet
    <3> QED  BY <1>3, <2>1, <3>1, IdleOp, RenderTyped DEF RestoreActive
  <2>2. CASE Unrendered /\ GoTo("restore_lkg") /\ UNCHANGED observed
    <3>1. op' \in OpSet
      BY <2>2, GoToOp DEF Sites
    <3> QED  BY <1>3, <2>2, <3>1 DEF RestoreActive, Unrendered
  <2> QED  BY <1>3, <2>1, <2>2 DEF RestoreActive
<1>4. CASE RestoreLkg
  <2>1. CASE lkg # None /\ Render(lkg)
             /\ op' = [Idle EXCEPT !.kind = "repair", !.at = "read", !.cand = Fresh, !.old = Fresh]
    <3>1. Fresh \in Runtimes
      BY <2>1, FreshUnused DEF Render, Unused
    <3>2. op' \in OpSet
      BY <2>1, <3>1 DEF Idle, OpSet, Kinds, Sites
    <3>3. lkg \in Selections
      BY <2>1
    <3> QED  BY <1>4, <2>1, <3>2, <3>3, RenderTyped DEF RestoreLkg
  <2>2. CASE Unrendered /\ GoTo("fallback")
    <3>1. op' \in OpSet
      BY <2>2, GoToOp DEF Sites
    <3> QED  BY <1>4, <2>2, <3>1 DEF RestoreLkg, Unrendered
  <2> QED  BY <1>4, <2>1, <2>2 DEF RestoreLkg
<1>5. CASE Fallback
  <2>1. CASE /\ Unused # {} /\ charOf' = [charOf EXCEPT ![Fresh] = Builtin]
             /\ live' = live \cup {Fresh} /\ prepared' = {Fresh}
             /\ op' = [Idle EXCEPT !.kind = "fallback", !.at = "read",
                                   !.cand = Fresh, !.old = surface]
    <3>1. Fresh \in Runtimes
      BY <2>1, FreshUnused DEF Unused
    <3>2. op' \in OpSet
      BY <2>1, <3>1 DEF Idle, OpSet, Kinds, Sites
    <3> QED  BY <1>5, <2>1, <3>1, <3>2 DEF Fallback
  <2>2. CASE GoTo("giveup") /\ UNCHANGED <<charOf, live, prepared>>
    <3>1. op' \in OpSet
      BY <2>2, GoToOp DEF Sites
    <3> QED  BY <1>5, <2>2, <3>1 DEF Fallback
  <2> QED  BY <1>5, <2>1, <2>2 DEF Fallback
<1>6. CASE GiveUp
  BY <1>6, IdleOp, EnterSafeTyped DEF GiveUp
<1>7. CASE Observe
  BY <1>7, IdleOp DEF Observe
<1> QED  BY <1>1, <1>2, <1>3, <1>4, <1>5, <1>6, <1>7 DEF StartStep

\* So do the remaining steps.
LEMMA OtherStepsTyped ==
  ASSUME Typed, Sited, HealthStep \/ Start \/ Down \/ (\E c \in Characters : OtherWriter(c))
  PROVE  Typed'
<1> USE DEF Typed, StateTyped, db, memory, screen
<1>1. CASE CheckpointBegin
  <2>1. CASE op' = [Idle EXCEPT !.kind = "checkpoint", !.at = "promote", !.sel = active]
    <3>1. op' \in OpSet
      BY <2>1 DEF Idle, OpSet, Kinds, Sites
    <3> QED  BY <1>1, <3>1 DEF CheckpointBegin
  <2>2. CASE UNCHANGED op
    BY <1>1, <2>2 DEF CheckpointBegin
  <2> QED  BY <1>1, <2>1, <2>2 DEF CheckpointBegin
<1>2. CASE Promote
  BY <1>2, IdleOp DEF Promote, OpSet
<1>3. CASE Start
  <2>1. op' \in OpSet
    BY <1>3 DEF Start, Idle, OpSet, Kinds, Sites
  <2>2. starts' \in 0 .. MaxStarts /\ up' \in BOOLEAN
    BY <1>3 DEF Start
  <2> QED  BY <1>3, <2>1, <2>2 DEF Start
<1>4. CASE Down
  <2>1. charOf' \in [Runtimes -> Characters \cup {None}]
    BY <1>4 DEF Down
  <2> QED  BY <1>4, <2>1, IdleOp DEF Down
<1>5. ASSUME NEW c \in Characters, OtherWriter(c) PROVE Typed'
  <2>1. GenOf(active) + 1 \in Nat
    BY DEF GenOf, Selections
  <2>2. [char |-> c, gen |-> GenOf(active) + 1] \in Selections
    BY <2>1 DEF Selections
  <2> QED  BY <1>5, <2>1, <2>2 DEF OtherWriter, WriteActive
<1> QED  BY <1>1, <1>2, <1>3, <1>4, <1>5 DEF HealthStep

-----------------------------------------------------------------------------
(***************************************************************************)
(* What each action does to the sites, the generations, the requests, the  *)
(* caches and the window.                                                  *)
(***************************************************************************)

\* The handler goes on at another site with what it had in hand.
GoesTo(at) == /\ op' \in OpSet /\ op'.at = at /\ op'.kind = op.kind /\ op'.req = op.req
              /\ op'.cand = op.cand
              /\ op'.old = op.old
              /\ op'.sel = op.sel
              /\ op'.row = op.row

\* The handler has failed, and what it does about it.
HasFailed == /\ op' \in OpSet
             /\ op.kind = "switch" => op' = Idle
             /\ op.kind # "switch" => op'.at = "giveup" /\ op'.kind = op.kind /\ op'.req = op.req

\* Every request is still there but the one that is served holds no candidate.
HasForgotten ==
  /\ reqs' \subseteq Requests
  /\ \A q \in reqs' : \E r \in reqs :
       q.id = r.id /\ q.cand = (IF r.id = op.req THEN None ELSE r.cand)
  /\ \A q, r \in reqs' : q.id = r.id => q = r

\* GoTo changes the step and nothing else.
LEMMA GoesToSite == ASSUME op \in OpSet, NEW at \in Sites, GoTo(at) PROVE GoesTo(at)
BY GoToOp DEF GoesTo

\* A failed call returns.
LEMMA FailedReturns == ASSUME op \in OpSet, Failed PROVE HasFailed
BY FailedOp DEF HasFailed

\* A forgotten request has no candidate any more.
LEMMA ForgetForgets == ASSUME Typed, Requested, reqs' = Forget(op.req) PROVE HasForgotten
BY ForgetTyped DEF HasForgotten, Typed, StateTyped, Requested

\* What the invariant says in the middle of a switch.
LEMMA InSwitch ==
  ASSUME IInv, op.at \in Switching
  PROVE  /\ up /\ ~ safe /\ op.kind \in {"switch", "repair", "fallback"}
         /\ op.cand \in Runtimes /\ op.cand \in live /\ charOf[op.cand] \in Characters
         /\ op.old = Boot \/ op.old = current
         /\ \A r \in live : r = op.cand \/ r = current \/ r \in retained \/ r \in prepared
         /\ op.kind = "repair" =>
              /\ current = op.cand /\ surface = op.cand /\ op.old = op.cand
              /\ retained = {} /\ prepared = {} /\ reqs = {}
         /\ op.kind = "fallback" =>
              current = None /\ op.old = Boot /\ retained = {} /\ prepared = {op.cand} /\ reqs = {}
         /\ op.kind # "repair" => /\ op.cand \in prepared /\ op.cand # current
                                  /\ op.cand \notin retained
         /\ op.kind = "switch" => /\ op.req = requestGen
                                  /\ (current = None /\ op.old = Boot) \/ (current # None /\ op.old = current)
<1> USE DEF IInv, Typed, StateTyped
<1>1. op.kind \in Kinds /\ op.cand \in Runtimes \cup {None}
  BY DEF OpSet
<1>2. /\ up
      /\ ~ safe
      /\ op.kind \in {"switch", "repair", "fallback"}
      /\ op.cand \in Runtimes
  BY <1>1 DEF Sited, Serving, Kinds, Switching
<1>3. op.old = Boot \/ op.old = current
  BY <1>2 DEF InHand
<1>4. \A r \in live : r = op.cand \/ r = current \/ r \in retained \/ r \in prepared
  BY <1>3 DEF InHand, Owned, Switching
<1>5. op.cand \in live /\ charOf[op.cand] \in Characters
  BY DEF InHand, Drawn
<1>6. op.kind \in {"repair", "fallback"} => reqs = {}
  BY DEF Serving
<1>7. op.kind # "repair" => op.cand \in prepared /\ op.cand # current /\ op.cand \notin retained
  BY <1>2 DEF InHand, Owned
<1> QED  BY <1>2, <1>3, <1>4, <1>5, <1>6, <1>7 DEF InHand, Serving

\* A switch whose request has given up its candidate leaves none behind.
LEMMA ForgottenRequested ==
  ASSUME IInv, op.at \in Switching, HasForgotten, requestGen' = requestGen,
         \A q \in reqs : q.cand \in live' => q.cand \in live
  PROVE  Requested'
<1>1. reqs = {} \/ op.req = requestGen
  <2>1. op.kind \in {"switch", "repair", "fallback"}
    BY InSwitch
  <2>2. op.kind = "switch" => op.req = requestGen
    BY InSwitch
  <2>3. op.kind # "switch" => reqs = {}
    BY <2>1 DEF IInv, Serving
  <2> QED  BY <2>2, <2>3
<1>2. \A r \in reqs : r.id \in Nat /\ r.cand \in Runtimes \cup {None}
  BY DEF IInv, Typed, StateTyped, Requests
<1> QED  BY <1>1, <1>2 DEF HasForgotten, Requested, IInv

\* A request draws a new generation.
LEMMA RequestKeeps ==
  ASSUME IInv, NEW c \in Characters, Request(c)
  PROVE  (Sited /\ Dated /\ Serving /\ Requested /\ Owned /\ Drawn /\ InHand /\ Shown)'
<1> USE DEF IInv, Typed, StateTyped
<1>1. ASSUME /\ op = Idle /\ up /\ live' = live \ prepared /\ prepared' = {}
             /\ requestGen' = requestGen + 1
             /\ reqs' = reqs \cup {[id |-> requestGen + 1, char |-> c, cand |-> None]}
             /\ UNCHANGED <<active, lkg, due, lines, up, starts, activeGen, safe, retained,
                observed, current, surface, charOf, op>>
      PROVE  (Sited /\ Dated /\ Serving /\ Requested /\ Owned /\ Drawn /\ InHand /\ Shown)'
  <2>1. Sited'
    BY <1>1 DEF Sited, Switching, Auditing, Restoring, Idle
  <2>2. Dated'
    BY <1>1 DEF Sited, Dated, Behind, GenOf, Selections, Lines, Switching, Auditing,
       Restoring, Idle
  <2>3. Serving'
    BY <1>1 DEF Sited, Serving, InHand, Switching, Auditing, Restoring, Idle
  <2>4. Requested'
    BY <1>1 DEF Requested, Owned, Requests, Idle
  <2>5. Owned'
    BY <1>1 DEF Sited, Owned, InHand, Blank, Switching, Auditing, Restoring, Idle
  <2>6. Drawn'
    BY <1>1 DEF Drawn
  <2>7. InHand'
    BY <1>1 DEF Sited, Owned, InHand, Blank, Switching, Auditing, Restoring, Idle
  <2>8. Shown'
    BY <1>1 DEF Sited, Dated, InHand, Shown, Settled, GenOf, Selections, Blank,
       Switching, Auditing, Restoring, Idle
  <2> QED  BY <2>1, <2>2, <2>3, <2>4, <2>5, <2>6, <2>7, <2>8
<1> QED  BY <1>1 DEF Request, Free, db, Owned

\* A dropped request is gone.
LEMMA DropKeeps ==
  ASSUME IInv, NEW q \in reqs, Drop(q)
  PROVE  (Sited /\ Dated /\ Serving /\ Requested /\ Owned /\ Drawn /\ InHand /\ Shown)'
<1> USE DEF IInv, Typed, StateTyped
<1>1. ASSUME /\ op = Idle /\ up /\ reqs' = reqs \ {q}
             /\ UNCHANGED <<active, lkg, due, lines, up, starts, activeGen, requestGen, safe,
                retained, prepared, observed, current, surface, charOf, live, op>>
      PROVE  (Sited /\ Dated /\ Serving /\ Requested /\ Owned /\ Drawn /\ InHand /\ Shown)'
  <2>1. Sited'
    BY <1>1 DEF Sited, Switching, Auditing, Restoring, Idle
  <2>2. Dated'
    BY <1>1 DEF Sited, Dated, Behind, GenOf, Selections, Lines, Switching, Auditing,
       Restoring, Idle
  <2>3. Serving'
    BY <1>1 DEF Sited, Serving, InHand, Switching, Auditing, Restoring, Idle
  <2>4. Requested'
    BY <1>1 DEF Requested, Owned, Requests, Idle
  <2>5. Owned'
    BY <1>1 DEF Sited, Owned, InHand, Blank, Switching, Auditing, Restoring, Idle
  <2>6. Drawn'
    BY <1>1 DEF Drawn
  <2>7. InHand'
    BY <1>1 DEF Sited, Owned, InHand, Blank, Switching, Auditing, Restoring, Idle
  <2>8. Shown'
    BY <1>1 DEF Sited, Dated, InHand, Shown, Settled, GenOf, Selections, Blank,
       Switching, Auditing, Restoring, Idle
  <2> QED  BY <2>1, <2>2, <2>3, <2>4, <2>5, <2>6, <2>7, <2>8
<1> QED  BY <1>1 DEF Drop, Free, db, screen

\* A candidate is built for its request.
LEMMA PrepareKeeps ==
  ASSUME IInv, NEW q \in reqs, Prepare(q)
  PROVE  (Sited /\ Dated /\ Serving /\ Requested /\ Owned /\ Drawn /\ InHand /\ Shown)'
<1> USE DEF IInv, Typed, StateTyped
<1>1. ASSUME /\ op = Idle /\ up
             /\ reqs' = (reqs \ {q}) \cup {[q EXCEPT !.cand = None]}
             /\ live' = live \ {q.cand} /\ prepared' = prepared \ {q.cand}
             /\ UNCHANGED <<active, lkg, due, lines, up, starts, activeGen, requestGen, safe,
                retained, observed, current, surface, charOf, op>>
      PROVE  (Sited /\ Dated /\ Serving /\ Requested /\ Owned /\ Drawn /\ InHand /\ Shown)'
  <2>1. q.cand \in live => q.cand \in prepared
    BY DEF Requested, Requests
  <2>2. \A r \in reqs : r # q => r.cand = None \/ r.cand # q.cand \/ r.cand \notin live
    BY DEF Requested, Owned
  <2>3. Sited'
    BY <1>1, <2>1, <2>2 DEF Sited, Switching, Auditing, Restoring, Idle
  <2>4. Dated'
    BY <1>1, <2>1, <2>2 DEF Sited, Dated, Behind, GenOf, Selections, Lines, Switching,
       Auditing, Restoring, Idle
  <2>5. Serving'
    BY <1>1, <2>1, <2>2 DEF Sited, Serving, InHand, Switching, Auditing, Restoring, Idle
  <2>6. Requested'
    <3>1. \A r \in reqs' : r \in reqs \/ (r.id = q.id /\ r.cand = None)
      BY <1>1 DEF Requests
    <3>2. \A r \in reqs' : (r \in reqs /\ r # q) \/ (r.id = q.id /\ r.cand = None /\ r = [q EXCEPT !.cand = None])
      BY <1>1 DEF Requests
    <3>3. \A r, s \in reqs' : r.id = s.id => r = s
      BY <1>1, <3>2 DEF Requested
    <3>4. None \notin live
      OBVIOUS
    <3>5. \A r \in reqs' : r.id <= requestGen
      BY <1>1, <3>2 DEF Requested
    <3>6. \A r \in reqs' : r.id = requestGen /\ r.cand # None => ~ safe /\ r.cand \in prepared'
      BY <1>1, <2>2, <3>2 DEF Requested, Owned
    <3>7. \A r \in reqs' : r.id # requestGen => r.cand \notin live'
      BY <1>1, <3>2, <3>4 DEF Requested
    <3> QED  BY <1>1, <3>3, <3>5, <3>6, <3>7 DEF Requested
  <2>7. Owned'
    BY <1>1, <2>1, <2>2 DEF Sited, Owned, InHand, Blank, Switching, Auditing, Restoring,
       Idle
  <2>8. Drawn'
    BY <1>1, <2>1, <2>2 DEF Drawn
  <2>9. InHand'
    BY <1>1, <2>1, <2>2 DEF Sited, Owned, InHand, Blank, Switching, Auditing, Restoring,
       Idle
  <2>10. Shown'
    BY <1>1, <2>1, <2>2 DEF Sited, Dated, InHand, Shown, Settled, GenOf, Selections,
       Blank, Switching, Auditing, Restoring, Idle
  <2> QED  BY <2>3, <2>4, <2>5, <2>6, <2>7, <2>8, <2>9, <2>10
<1>2. ASSUME /\ op = Idle /\ up /\ ~ safe /\ q.id = requestGen /\ Fresh \in Unused
             /\ reqs' = (reqs \ {q}) \cup {[q EXCEPT !.cand = Fresh]}
             /\ charOf' = [charOf EXCEPT ![Fresh] = q.char]
             /\ live' = (live \ {q.cand}) \cup {Fresh}
             /\ prepared' = (prepared \ {q.cand}) \cup {Fresh}
             /\ UNCHANGED <<active, lkg, due, lines, up, starts, activeGen, requestGen, safe,
                retained, observed, current, surface, op>>
      PROVE  (Sited /\ Dated /\ Serving /\ Requested /\ Owned /\ Drawn /\ InHand /\ Shown)'
  <2>1. q.cand \in live => q.cand \in prepared
    BY DEF Requested, Requests
  <2>2. \A r \in reqs : r # q => r.id # requestGen
    BY <1>2 DEF Requested
  <2>3. /\ Fresh \in Runtimes /\ Fresh \notin live /\ Fresh # current /\ Fresh # surface
        /\ Fresh \notin retained /\ Fresh \notin prepared
        /\ \A r \in reqs : r.cand # Fresh
    BY <1>2 DEF Unused, Referenced
  <2>4. q.char \in Characters /\ q.cand \in Runtimes \cup {None} /\ q.id \in Nat
    BY DEF Requests
  <2>5. Sited'
    BY <1>2, <2>1, <2>2, <2>3, <2>4 DEF Sited, Switching, Auditing, Restoring, Idle
  <2>6. Dated'
    BY <1>2, <2>1, <2>2, <2>3, <2>4 DEF Sited, Dated, Behind, GenOf, Selections, Lines,
       Switching, Auditing, Restoring, Idle
  <2>7. Serving'
    BY <1>2, <2>1, <2>2, <2>3, <2>4 DEF Sited, Serving, InHand, Switching, Auditing,
       Restoring, Idle
  <2>8. Requested'
    BY <1>2, <2>1, <2>2, <2>3, <2>4 DEF Requested, Owned, Requests, Idle
  <2>9. Owned'
    BY <1>2, <2>1, <2>2, <2>3, <2>4 DEF Sited, Owned, InHand, Blank, Switching, Auditing,
       Restoring, Idle
  <2>10. Drawn'
    BY <1>2, <2>1, <2>2, <2>3, <2>4 DEF Drawn
  <2>11. InHand'
    BY <1>2, <2>1, <2>2, <2>3, <2>4 DEF Sited, Owned, InHand, Blank, Switching, Auditing,
       Restoring, Idle
  <2>12. Shown'
    BY <1>2, <2>1, <2>2, <2>3, <2>4 DEF Sited, Dated, InHand, Shown, Settled, GenOf,
       Selections, Blank, Switching, Auditing, Restoring, Idle
  <2> QED  BY <2>5, <2>6, <2>7, <2>8, <2>9, <2>10, <2>11, <2>12
<1> QED  BY <1>1, <1>2, FreshUnused DEF Prepare, Free, db, Rejected

\* A commit of an overtaken request writes nothing.
LEMMA CommitStaleKeeps ==
  ASSUME IInv, NEW q \in reqs, CommitStale(q)
  PROVE  (Sited /\ Dated /\ Serving /\ Requested /\ Owned /\ Drawn /\ InHand /\ Shown)'
<1> USE DEF IInv, Typed, StateTyped
<1>1. ASSUME /\ op = Idle /\ up
             /\ reqs' \subseteq Requests
             /\ \A r \in reqs' : \E s \in reqs : r.id = s.id /\ r.cand \in {s.cand, None}
             /\ \A r, s \in reqs' : r.id = s.id => r = s
             /\ UNCHANGED <<active, lkg, due, lines, up, starts, activeGen, requestGen, safe,
                retained, prepared, observed, current, surface, charOf, live, op>>
      PROVE  (Sited /\ Dated /\ Serving /\ Requested /\ Owned /\ Drawn /\ InHand /\ Shown)'
  <2>1. Sited'
    BY <1>1 DEF Sited, Switching, Auditing, Restoring, Idle
  <2>2. Dated'
    BY <1>1 DEF Sited, Dated, Behind, GenOf, Selections, Lines, Switching, Auditing,
       Restoring, Idle
  <2>3. Serving'
    BY <1>1 DEF Sited, Serving, InHand, Switching, Auditing, Restoring, Idle
  <2>4. Requested'
    <3>1. \A r \in reqs' : r.id <= requestGen
      BY <1>1 DEF Requested
    <3>2. \A r \in reqs' : r.id = requestGen /\ r.cand # None => ~ safe /\ r.cand \in prepared
      BY <1>1 DEF Requested
    <3>3. None \notin live
      BY DEF Owned
    <3>4. \A r \in reqs' : r.id # requestGen => r.cand \notin live
      BY <1>1, <3>3 DEF Requested
    <3> QED  BY <1>1, <3>1, <3>2, <3>4 DEF Requested
  <2>5. Owned'
    BY <1>1 DEF Sited, Owned, InHand, Blank, Switching, Auditing, Restoring, Idle
  <2>6. Drawn'
    BY <1>1 DEF Drawn
  <2>7. InHand'
    BY <1>1 DEF Sited, Owned, InHand, Blank, Switching, Auditing, Restoring, Idle
  <2>8. Shown'
    BY <1>1 DEF Sited, Dated, InHand, Shown, Settled, GenOf, Selections, Blank,
       Switching, Auditing, Restoring, Idle
  <2> QED  BY <2>1, <2>2, <2>3, <2>4, <2>5, <2>6, <2>7, <2>8
<1> QED  BY <1>1, ForgetTyped DEF CommitStale, Free, db, Requested, Owned

\* A commit takes the candidate of the latest request.
LEMMA CommitBeginKeeps ==
  ASSUME IInv, NEW q \in reqs, CommitBegin(q)
  PROVE  (Sited /\ Dated /\ Serving /\ Requested /\ Owned /\ Drawn /\ InHand /\ Shown)'
<1> USE DEF IInv, Typed, StateTyped
<1>1. ASSUME /\ op = Idle /\ up /\ q.cand # None /\ q.id = requestGen
             /\ op' = [kind |-> "switch", at |-> "read", req |-> q.id, cand |-> q.cand,
                old |-> surface, sel |-> None, row |-> None]
             /\ UNCHANGED <<active, lkg, due, lines, up, starts, activeGen, requestGen, reqs,
                safe, retained, prepared, observed, current, surface, charOf, live>>
      PROVE  (Sited /\ Dated /\ Serving /\ Requested /\ Owned /\ Drawn /\ InHand /\ Shown)'
  <2>1. Sited'
    BY <1>1 DEF Sited, Switching, Auditing, Restoring, Idle
  <2>2. Dated'
    BY <1>1 DEF Sited, Dated, Behind, GenOf, Selections, Lines, Switching, Auditing,
       Restoring, Idle
  <2>3. Serving'
    BY <1>1 DEF Sited, Serving, InHand, Switching, Auditing, Restoring, Idle, Requested
  <2>4. Requested'
    BY <1>1 DEF Requested, Owned, Requests, Idle
  <2>5. Owned'
    BY <1>1 DEF Sited, Owned, InHand, Blank, Switching, Auditing, Restoring, Idle
  <2>6. Drawn'
    BY <1>1 DEF Drawn
  <2>7. InHand'
    BY <1>1 DEF Sited, Owned, InHand, Blank, Switching, Auditing, Restoring, Idle,
       Requested, Serving, Shown, Settled
  <2>8. Shown'
    BY <1>1 DEF Sited, Dated, InHand, Shown, Settled, GenOf, Selections, Blank,
       Switching, Auditing, Restoring, Idle
  <2> QED  BY <2>1, <2>2, <2>3, <2>4, <2>5, <2>6, <2>7, <2>8
<1> QED  BY <1>1 DEF CommitBegin, Free, db, memory, screen, Idle

\* The previous selection is read before the swap.
LEMMA ReadPreviousKeeps ==
  ASSUME IInv, ReadPrevious
  PROVE  (Sited /\ Dated /\ Serving /\ Requested /\ Owned /\ Drawn /\ InHand /\ Shown)'
<1> USE DEF IInv, Typed, StateTyped
<1>1. ASSUME /\ op.at = "read" /\ op.kind = "repair" /\ GoesTo("commit")
             /\ requestGen' = requestGen + 1
             /\ UNCHANGED <<active, lkg, due, lines, up, starts, activeGen, reqs, safe,
                retained, prepared, observed, current, surface, charOf, live>>
      PROVE  (Sited /\ Dated /\ Serving /\ Requested /\ Owned /\ Drawn /\ InHand /\ Shown)'
  <2>1. op.at \in Switching
    BY <1>1 DEF Switching
  <2>2. Sited'
    BY <1>1, <2>1 DEF Sited, Switching, Auditing, Restoring, GoesTo
  <2>3. Dated'
    BY <1>1, <2>1 DEF Sited, Dated, Behind, GenOf, Selections, Lines, Switching,
       Auditing, Restoring, GoesTo
  <2>4. Serving'
    BY <1>1, <2>1 DEF Sited, Serving, InHand, Switching, Auditing, Restoring, GoesTo
  <2>5. Requested'
    BY <1>1, <2>1, InSwitch DEF Requested
  <2>6. Owned'
    BY <1>1, <2>1 DEF Sited, Owned, InHand, Blank, Switching, Auditing, Restoring, GoesTo
  <2>7. Drawn'
    BY <1>1, <2>1 DEF Drawn
  <2>8. InHand'
    BY <1>1, <2>1 DEF Sited, Owned, InHand, Blank, Switching, Auditing, Restoring, GoesTo
  <2>9. Shown'
    BY <1>1, <2>1 DEF Sited, Dated, InHand, Shown, Settled, GenOf, Selections, Blank,
       Switching, Auditing, Restoring, GoesTo
  <2> QED  BY <2>2, <2>3, <2>4, <2>5, <2>6, <2>7, <2>8, <2>9
<1>2. ASSUME /\ op.at = "read" /\ op.kind # "repair" /\ GoesTo("swap")
             /\ UNCHANGED <<active, lkg, due, lines, up, starts, activeGen, requestGen, reqs,
                safe, retained, prepared, observed, current, surface, charOf, live>>
      PROVE  (Sited /\ Dated /\ Serving /\ Requested /\ Owned /\ Drawn /\ InHand /\ Shown)'
  <2>1. Sited'
    BY <1>2 DEF Sited, Switching, Auditing, Restoring, GoesTo
  <2>2. Dated'
    BY <1>2 DEF Sited, Dated, Behind, GenOf, Selections, Lines, Switching, Auditing,
       Restoring, GoesTo
  <2>3. Serving'
    BY <1>2 DEF Sited, Serving, InHand, Switching, Auditing, Restoring, GoesTo
  <2>4. Requested'
    BY <1>2 DEF Requested, Owned, Requests
  <2>5. Owned'
    BY <1>2 DEF Sited, Owned, InHand, Blank, Switching, Auditing, Restoring, GoesTo
  <2>6. Drawn'
    BY <1>2 DEF Drawn
  <2>7. InHand'
    BY <1>2 DEF Sited, Owned, InHand, Blank, Switching, Auditing, Restoring, GoesTo
  <2>8. Shown'
    BY <1>2 DEF Sited, Dated, InHand, Shown, Settled, GenOf, Selections, Blank,
       Switching, Auditing, Restoring, GoesTo
  <2> QED  BY <2>1, <2>2, <2>3, <2>4, <2>5, <2>6, <2>7, <2>8
<1>3. ASSUME /\ op.at = "read" /\ op.kind = "repair" /\ HasFailed /\ HasForgotten
             /\ retained' = {op.cand}
             /\ surface' = Boot
             /\ current' = None
             /\ safe' = TRUE
             /\ prepared' = {}
             /\ UNCHANGED <<active, lkg, due, lines, up, starts, activeGen, requestGen,
                observed, charOf, live>>
      PROVE  (Sited /\ Dated /\ Serving /\ Requested /\ Owned /\ Drawn /\ InHand /\ Shown)'
  <2>1. op.at \in Switching
    BY <1>3 DEF Switching
  <2>2. Sited'
    BY <1>3, <2>1 DEF Sited, Switching, Auditing, Restoring, Idle, HasFailed
  <2>3. Dated'
    BY <1>3, <2>1 DEF Sited, Dated, Behind, GenOf, Selections, Lines, Switching,
       Auditing, Restoring, Idle, HasFailed
  <2>4. Serving'
    BY <1>3, <2>1 DEF Sited, Serving, InHand, HasForgotten, Switching, Auditing,
       Restoring, Idle, HasFailed
  <2>5. Requested'
    BY <1>3, <2>1, ForgottenRequested
  <2>6. Owned'
    BY <1>3, <2>1, InSwitch DEF Owned, InHand, Switching, Auditing, Restoring, Idle,
       HasFailed
  <2>7. Drawn'
    BY <1>3, <2>1 DEF Drawn
  <2>8. InHand'
    BY <1>3, <2>1, InSwitch DEF InHand, Blank, Sited, Switching, Auditing, Restoring,
       Idle, HasFailed
  <2>9. Shown'
    BY <1>3, <2>1 DEF Sited, Dated, InHand, Shown, Settled, GenOf, Selections, Blank,
       Switching, Auditing, Restoring, Idle, HasFailed
  <2> QED  BY <2>2, <2>3, <2>4, <2>5, <2>6, <2>7, <2>8, <2>9
<1>4. ASSUME /\ op.at = "read" /\ op.kind # "repair" /\ HasFailed /\ HasForgotten
             /\ retained' = retained \cup ({op.old} \cap Runtimes)
             /\ surface' = Boot /\ current' = None /\ safe' = TRUE
             /\ live' = live \ {op.cand} /\ prepared' = prepared \ {op.cand}
             /\ UNCHANGED <<active, lkg, due, lines, up, starts, activeGen, requestGen,
                observed, charOf>>
      PROVE  (Sited /\ Dated /\ Serving /\ Requested /\ Owned /\ Drawn /\ InHand /\ Shown)'
  <2>1. op.at \in Switching
    BY <1>4 DEF Switching
  <2>2. Sited'
    BY <1>4, <2>1 DEF Sited, Switching, Auditing, Restoring, Idle, HasFailed
  <2>3. Dated'
    BY <1>4, <2>1 DEF Sited, Dated, Behind, GenOf, Selections, Lines, Switching,
       Auditing, Restoring, Idle, HasFailed
  <2>4. Serving'
    BY <1>4, <2>1 DEF Sited, Serving, InHand, HasForgotten, Switching, Auditing,
       Restoring, Idle, HasFailed
  <2>5. Requested'
    BY <1>4, <2>1, ForgottenRequested
  <2>6. Owned'
    BY <1>4, <2>1, InSwitch DEF Owned, InHand, Switching, Auditing, Restoring, Idle,
       HasFailed
  <2>7. Drawn'
    BY <1>4, <2>1 DEF Drawn
  <2>8. InHand'
    BY <1>4, <2>1, InSwitch DEF InHand, Blank, Sited, Switching, Auditing, Restoring,
       Idle, HasFailed
  <2>9. Shown'
    BY <1>4, <2>1 DEF Sited, Dated, InHand, Shown, Settled, GenOf, Selections, Blank,
       Switching, Auditing, Restoring, Idle, HasFailed
  <2> QED  BY <2>2, <2>3, <2>4, <2>5, <2>6, <2>7, <2>8, <2>9
<1>5. CASE /\ requestGen' = requestGen + (IF op.kind = "repair" THEN 1 ELSE 0)
           /\ GoTo(IF op.kind = "repair" THEN "commit" ELSE "swap")
           /\ UNCHANGED <<reqs, safe, retained, prepared, current, surface, live>>
  <2>1. requestGen \in Nat
    OBVIOUS
  <2>2. CASE op.kind = "repair"
    BY <1>1, <1>5, <2>2, GoesToSite DEF ReadPrevious, At, Sites, db
  <2>3. CASE op.kind # "repair"
    BY <1>2, <1>5, <2>1, <2>3, GoesToSite DEF ReadPrevious, At, Sites, db
  <2> QED  BY <2>2, <2>3
<1>6. CASE /\ EnterSafe(IF op.kind = "repair" THEN {op.old, op.cand} ELSE {op.old})
           /\ live' = IF op.kind = "repair" THEN live ELSE live \ {op.cand}
           /\ prepared' = prepared \ {op.cand} /\ reqs' = Forget(op.req)
           /\ Failed /\ UNCHANGED requestGen
  <2>1. HasFailed /\ HasForgotten
    BY <1>6, FailedReturns, ForgetForgets
  <2>2. CASE op.kind = "repair"
    <3>1. retained' = {op.cand} /\ prepared' = {}
      BY <1>6, <2>2, InSwitch DEF ReadPrevious, At, EnterSafe, Hold, Switching
    <3> QED  BY <1>3, <1>6, <2>1, <2>2, <3>1 DEF ReadPrevious, At, EnterSafe, db
  <2>3. CASE op.kind # "repair"
    BY <1>4, <1>6, <2>1, <2>3 DEF ReadPrevious, At, EnterSafe, Hold, db
  <2> QED  BY <2>2, <2>3
<1> QED  BY <1>5, <1>6 DEF ReadPrevious

\* The swap is of the generation that was read.
LEMMA SwapKeeps ==
  ASSUME IInv, Swap
  PROVE  (Sited /\ Dated /\ Serving /\ Requested /\ Owned /\ Drawn /\ InHand /\ Shown)'
<1> USE DEF IInv, Typed, StateTyped
<1>1. ASSUME /\ op.at = "swap" /\ GoesTo("commit") /\ surface' = op.cand
             /\ UNCHANGED <<active, lkg, due, lines, up, starts, activeGen, requestGen, reqs,
                safe, retained, prepared, observed, current, charOf, live>>
      PROVE  (Sited /\ Dated /\ Serving /\ Requested /\ Owned /\ Drawn /\ InHand /\ Shown)'
  <2>1. op.at \in Switching
    BY <1>1 DEF Switching
  <2>2. Sited'
    BY <1>1, <2>1 DEF Sited, Switching, Auditing, Restoring, GoesTo
  <2>3. Dated'
    BY <1>1, <2>1 DEF Sited, Dated, Behind, GenOf, Selections, Lines, Switching,
       Auditing, Restoring, GoesTo
  <2>4. Serving'
    BY <1>1, <2>1 DEF Sited, Serving, InHand, Switching, Auditing, Restoring, GoesTo
  <2>5. Requested'
    BY <1>1, <2>1 DEF Requested, Owned, Requests
  <2>6. Owned'
    BY <1>1, <2>1, InSwitch DEF Owned, InHand, Switching, Auditing, Restoring, GoesTo
  <2>7. Drawn'
    BY <1>1, <2>1 DEF Drawn
  <2>8. InHand'
    BY <1>1, <2>1 DEF Sited, Owned, InHand, Blank, Switching, Auditing, Restoring, GoesTo
  <2>9. Shown'
    BY <1>1, <2>1 DEF Sited, Dated, InHand, Shown, Settled, GenOf, Selections, Blank,
       Switching, Auditing, Restoring, GoesTo
  <2> QED  BY <2>2, <2>3, <2>4, <2>5, <2>6, <2>7, <2>8, <2>9
<1>2. ASSUME /\ op.at = "swap" /\ HasFailed /\ HasForgotten /\ surface' = op.old
             /\ live' = live \ {op.cand} /\ prepared' = prepared \ {op.cand}
             /\ UNCHANGED <<active, lkg, due, lines, up, starts, activeGen, requestGen, safe,
                retained, observed, current, charOf>>
      PROVE  (Sited /\ Dated /\ Serving /\ Requested /\ Owned /\ Drawn /\ InHand /\ Shown)'
  <2>1. op.at \in Switching
    BY <1>2 DEF Switching
  <2>2. op.kind # "repair"
    BY <1>2 DEF Sited
  <2>3. Sited'
    BY <1>2, <2>1, <2>2 DEF Sited, Switching, Auditing, Restoring, Idle, HasFailed
  <2>4. Dated'
    BY <1>2, <2>1, <2>2 DEF Sited, Dated, Behind, GenOf, Selections, Lines, Switching,
       Auditing, Restoring, Idle, HasFailed
  <2>5. Serving'
    BY <1>2, <2>1, <2>2 DEF Sited, Serving, InHand, HasForgotten, Switching, Auditing,
       Restoring, Idle, HasFailed
  <2>6. Requested'
    BY <1>2, <2>1, ForgottenRequested
  <2>7. Owned'
    BY <1>2, <2>1, InSwitch, <2>2 DEF Owned, InHand, Switching, Auditing, Restoring,
       Idle, HasFailed
  <2>8. Drawn'
    BY <1>2, <2>1, <2>2 DEF Drawn
  <2>9. InHand'
    BY <1>2, <2>1, InSwitch, <2>2 DEF InHand, Blank, Sited, Switching, Auditing,
       Restoring, Idle, HasFailed
  <2>10. Shown'
    BY <1>2, <2>1, <2>2 DEF Sited, Dated, InHand, Shown, Settled, GenOf, Selections,
       Blank, Switching, Auditing, Restoring, Idle, HasFailed
  <2> QED  BY <2>3, <2>4, <2>5, <2>6, <2>7, <2>8, <2>9, <2>10
<1> QED  BY <1>1, <1>2, FailedReturns, ForgetForgets, GoesToSite DEF Swap, At, Sites, db

\* A lost swap leaves the slot to the other writer.
LEMMA CommitLostKeeps ==
  ASSUME IInv, CommitLost
  PROVE  (Sited /\ Dated /\ Serving /\ Requested /\ Owned /\ Drawn /\ InHand /\ Shown)'
<1> USE DEF IInv, Typed, StateTyped
<1>1. ASSUME /\ op.at = "commit" /\ GoesTo("loser")
             /\ UNCHANGED <<active, lkg, due, lines, up, starts, activeGen, requestGen, reqs,
                safe, retained, prepared, observed, current, surface, charOf, live>>
      PROVE  (Sited /\ Dated /\ Serving /\ Requested /\ Owned /\ Drawn /\ InHand /\ Shown)'
  <2>1. Sited'
    BY <1>1 DEF Sited, Switching, Auditing, Restoring, GoesTo
  <2>2. Dated'
    BY <1>1 DEF Sited, Dated, Behind, GenOf, Selections, Lines, Switching, Auditing,
       Restoring, GoesTo
  <2>3. Serving'
    BY <1>1 DEF Sited, Serving, InHand, Switching, Auditing, Restoring, GoesTo
  <2>4. Requested'
    BY <1>1 DEF Requested, Owned, Requests
  <2>5. Owned'
    BY <1>1 DEF Sited, Owned, InHand, Blank, Switching, Auditing, Restoring, GoesTo
  <2>6. Drawn'
    BY <1>1 DEF Drawn
  <2>7. InHand'
    BY <1>1 DEF Sited, Owned, InHand, Blank, Switching, Auditing, Restoring, GoesTo
  <2>8. Shown'
    BY <1>1 DEF Sited, Dated, InHand, Shown, Settled, GenOf, Selections, Blank,
       Switching, Auditing, Restoring, GoesTo
  <2> QED  BY <2>1, <2>2, <2>3, <2>4, <2>5, <2>6, <2>7, <2>8
<1> QED  BY <1>1, GoesToSite DEF CommitLost, At, Sites, db, memory, screen

\* After a release only the runtime that is kept is alive.
LEMMA ReleasedTo ==
  ASSUME IInv, op.at \in Switching, NEW keep, NEW S, NEW built \in SUBSET {keep},
         op.cand \in S \cup {keep}, ReleaseExcept(keep, S, built)
  PROVE  live' = (live \cup built) \cap {keep} /\ retained' = {} /\ prepared' = {}
<1>1. \A r \in live : r = op.cand \/ r = current \/ r \in retained \/ r \in prepared
  BY InSwitch
<1>2. /\ live' = (live \cup built) \ ((S \cup {current} \cup retained \cup prepared) \ {keep})
      /\ retained' = {} /\ prepared' = {}
  BY DEF ReleaseExcept
<1>3. \A r \in live : r \in (S \cup {current} \cup retained \cup prepared) \ {keep} \/ r = keep
  BY <1>1
<1> QED  BY <1>2, <1>3

\* The candidate has been adopted as the runtime of a selection.
HasAdopted(s) ==
  /\ op' \in OpSet /\ op'.at = "drain" /\ op'.sel = s /\ op'.kind = op.kind
  /\ op'.req = op.req /\ op'.cand = op.cand /\ op'.old = op.old
  /\ activeGen' = s.gen /\ current' = op.cand /\ safe' = FALSE
  /\ live' = {op.cand} /\ retained' = {} /\ prepared' = {}
  /\ HasForgotten

\* Adopting makes the candidate the current runtime and keeps the old one.
LEMMA AdoptAdopts ==
  ASSUME IInv, op.at \in Switching, NEW s \in Selections, Adopt(s)
  PROVE  HasAdopted(s)
<1>1. HasForgotten
  BY ForgetForgets DEF IInv, Adopt
<1>2. live' = (live \cup {}) \cap {op.cand} /\ retained' = {} /\ prepared' = {}
  BY ReleasedTo DEF Adopt
<1>3. live' = {op.cand}
  BY <1>2, InSwitch
<1> QED  BY <1>1, <1>2, <1>3, AdoptOp DEF HasAdopted, Adopt, IInv, Typed

\* A won swap owes its audit line.
LEMMA CommitWonKeeps ==
  ASSUME IInv, CommitWon
  PROVE  (Sited /\ Dated /\ Serving /\ Requested /\ Owned /\ Drawn /\ InHand /\ Shown)'
<1> USE DEF IInv, Typed, StateTyped
<1>1. ASSUME /\ op.at = "commit" /\ active' = Candidate /\ HasAdopted(Candidate)
             /\ Candidate \in Selections /\ Candidate.gen = activeGen + 1
             /\ Candidate.char = charOf[op.cand] /\ GenOf(active) < Candidate.gen
             /\ UNCHANGED <<lkg, lines, up, starts, requestGen, observed, surface,
                            charOf>>
      PROVE  (Sited /\ Dated /\ Serving /\ Requested /\ Owned /\ Drawn /\ InHand /\ Shown)'
  <2>1. op.at \in Switching
    BY <1>1 DEF Switching
  <2>2. Sited'
    BY <1>1, <2>1 DEF Sited, Switching, Auditing, Restoring, HasAdopted
  <2>3. Dated'
    BY <1>1, <2>1 DEF Sited, Dated, Behind, GenOf, Selections, Lines, Switching,
       Auditing, Restoring, HasAdopted
  <2>4. Serving'
    BY <1>1, <2>1 DEF Sited, Serving, InHand, HasForgotten, Switching, Auditing,
       Restoring, HasAdopted
  <2>5. Requested'
    BY <1>1, <2>1, InSwitch, ForgottenRequested DEF HasAdopted
  <2>6. Owned'
    BY <1>1, <2>1, InSwitch DEF Owned, InHand, HasAdopted
  <2>7. Drawn'
    BY <1>1, <2>1, InSwitch DEF Drawn, HasAdopted
  <2>8. InHand'
    BY <1>1, <2>1 DEF Sited, Owned, InHand, Blank, Switching, Auditing, Restoring,
       HasAdopted
  <2>9. Shown'
    BY <1>1, <2>1 DEF Sited, Dated, InHand, Shown, Settled, GenOf, Selections, Blank,
       Switching, Auditing, Restoring, HasAdopted
  <2> QED  BY <2>2, <2>3, <2>4, <2>5, <2>6, <2>7, <2>8, <2>9
<1>2. op.at \in Switching /\ op.cand \in Runtimes /\ charOf[op.cand] \in Characters
  BY InSwitch DEF CommitWon, At, Switching
<1>3. /\ Candidate \in Selections /\ Candidate.gen = activeGen + 1
      /\ Candidate.char = charOf[op.cand]
  BY <1>2, CandidateTyped
<1> QED  BY <1>1, <1>2, <1>3, AdoptAdopts DEF CommitWon, At, Wins, WriteActive

\* A commit whose answer was lost is found by reading it back.
LEMMA ReadbackCommittedKeeps ==
  ASSUME IInv, ReadbackCommitted
  PROVE  (Sited /\ Dated /\ Serving /\ Requested /\ Owned /\ Drawn /\ InHand /\ Shown)'
<1> USE DEF IInv, Typed, StateTyped
<1>1. ASSUME /\ op.at = "readback"
             /\ active = op.sel
             /\ op.sel \in Selections
             /\ HasAdopted(op.sel)
             /\ UNCHANGED <<active, lkg, due, lines, up, starts, requestGen, observed,
                surface, charOf>>
      PROVE  (Sited /\ Dated /\ Serving /\ Requested /\ Owned /\ Drawn /\ InHand /\ Shown)'
  <2>1. op.at \in Switching
    BY <1>1 DEF Switching
  <2>2. Sited'
    BY <1>1, <2>1 DEF Sited, Switching, Auditing, Restoring, HasAdopted
  <2>3. Dated'
    BY <1>1, <2>1 DEF Sited, Dated, Behind, GenOf, Selections, Lines, Switching,
       Auditing, Restoring, HasAdopted
  <2>4. Serving'
    BY <1>1, <2>1 DEF Sited, Serving, InHand, HasForgotten, Switching, Auditing,
       Restoring, HasAdopted
  <2>5. Requested'
    BY <1>1, <2>1, InSwitch, ForgottenRequested DEF HasAdopted
  <2>6. Owned'
    BY <1>1, <2>1, InSwitch DEF Owned, InHand, HasAdopted
  <2>7. Drawn'
    BY <1>1, <2>1, InSwitch DEF Drawn, HasAdopted
  <2>8. InHand'
    BY <1>1, <2>1 DEF Sited, Owned, InHand, Blank, Switching, Auditing, Restoring,
       HasAdopted
  <2>9. Shown'
    BY <1>1, <2>1 DEF Sited, Dated, InHand, Shown, Settled, GenOf, Selections, Blank,
       Switching, Auditing, Restoring, HasAdopted
  <2> QED  BY <2>2, <2>3, <2>4, <2>5, <2>6, <2>7, <2>8, <2>9
<1>2. op.at \in Switching /\ op.sel \in Selections
  BY DEF ReadbackCommitted, At, Switching, Sited, OpSet
<1> QED  BY <1>1, <1>2, AdoptAdopts DEF ReadbackCommitted, At, db

\* An empty read-back brings back what was shown before.
LEMMA ReadbackEmptyKeeps ==
  ASSUME IInv, ReadbackEmpty
  PROVE  (Sited /\ Dated /\ Serving /\ Requested /\ Owned /\ Drawn /\ InHand /\ Shown)'
<1> USE DEF IInv, Typed, StateTyped
<1>1. ASSUME /\ op.at = "readback"
             /\ active = None
             /\ op.old = Boot
             /\ surface' = Boot
             /\ current' = None
             /\ safe' = FALSE /\ live' = {} /\ retained' = {} /\ prepared' = {}
             /\ HasFailed /\ HasForgotten
             /\ UNCHANGED <<active, lkg, due, lines, up, starts, activeGen, requestGen,
                observed, charOf>>
      PROVE  (Sited /\ Dated /\ Serving /\ Requested /\ Owned /\ Drawn /\ InHand /\ Shown)'
  <2>1. op.at \in Switching
    BY <1>1 DEF Switching
  <2>2. Sited'
    BY <1>1, <2>1 DEF Sited, Switching, Auditing, Restoring, Idle, HasFailed
  <2>3. Dated'
    BY <1>1, <2>1 DEF Sited, Dated, Behind, GenOf, Selections, Lines, Switching,
       Auditing, Restoring, Idle, HasFailed
  <2>4. Serving'
    BY <1>1, <2>1 DEF Sited, Serving, InHand, HasForgotten, Switching, Auditing,
       Restoring, Idle, HasFailed
  <2>5. Requested'
    BY <1>1, <2>1, ForgottenRequested
  <2>6. Owned'
    BY <1>1, <2>1 DEF Sited, Owned, InHand, Blank, Switching, Auditing, Restoring, Idle,
       HasFailed
  <2>7. Drawn'
    BY <1>1, <2>1 DEF Drawn
  <2>8. InHand'
    BY <1>1, <2>1 DEF Sited, Owned, InHand, Blank, Switching, Auditing, Restoring, Idle,
       HasFailed
  <2>9. Shown'
    BY <1>1, <2>1 DEF Sited, Dated, InHand, Shown, Settled, GenOf, Selections, Blank,
       Switching, Auditing, Restoring, Idle, HasFailed
  <2> QED  BY <2>2, <2>3, <2>4, <2>5, <2>6, <2>7, <2>8, <2>9
<1>2. op.at \in Switching /\ active = None
  BY DEF ReadbackEmpty, At, Switching
<1>3. op.kind = "switch" \/ op.kind = "fallback"
  BY <1>2, InSwitch DEF ReadbackEmpty, At, Sited
<1>4. op.old = Boot
  BY <1>2, <1>3, InSwitch DEF Shown, Settled
<1>5. live' = (live \cup {}) \cap {op.old} /\ retained' = {} /\ prepared' = {}
  BY <1>2, ReleasedTo DEF ReadbackEmpty
<1>6. live' = {}
  BY <1>4, <1>5
<1> QED  BY <1>1, <1>2, <1>4, <1>5, <1>6, FailedReturns, ForgetForgets DEF ReadbackEmpty,
            At, db

\* An authority that cannot be read means safe mode.
LEMMA AuthorityUnknownKeeps ==
  ASSUME IInv, AuthorityUnknown
  PROVE  (Sited /\ Dated /\ Serving /\ Requested /\ Owned /\ Drawn /\ InHand /\ Shown)'
<1> USE DEF IInv, Typed, StateTyped
<1>1. ASSUME /\ op.at \in {"loser", "readback"} /\ HasFailed /\ HasForgotten
             /\ retained' = retained \cup ({op.old, op.cand} \cap Runtimes)
             /\ surface' = Boot
             /\ current' = None
             /\ safe' = TRUE
             /\ prepared' = prepared \ {op.cand}
             /\ UNCHANGED <<active, lkg, due, lines, up, starts, activeGen, requestGen,
                observed, charOf, live>>
      PROVE  (Sited /\ Dated /\ Serving /\ Requested /\ Owned /\ Drawn /\ InHand /\ Shown)'
  <2>1. op.at \in Switching
    BY <1>1 DEF Switching
  <2>2. Sited'
    BY <1>1, <2>1 DEF Sited, Switching, Auditing, Restoring, Idle, HasFailed
  <2>3. Dated'
    BY <1>1, <2>1 DEF Sited, Dated, Behind, GenOf, Selections, Lines, Switching,
       Auditing, Restoring, Idle, HasFailed
  <2>4. Serving'
    BY <1>1, <2>1 DEF Sited, Serving, InHand, HasForgotten, Switching, Auditing,
       Restoring, Idle, HasFailed
  <2>5. Requested'
    BY <1>1, <2>1, ForgottenRequested
  <2>6. Owned'
    BY <1>1, <2>1, InSwitch DEF Owned, InHand, Switching, Auditing, Restoring, Idle,
       HasFailed
  <2>7. Drawn'
    BY <1>1, <2>1 DEF Drawn
  <2>8. InHand'
    BY <1>1, <2>1, InSwitch DEF InHand, Blank, Sited, Switching, Auditing, Restoring,
       Idle, HasFailed
  <2>9. Shown'
    BY <1>1, <2>1 DEF Sited, Dated, InHand, Shown, Settled, GenOf, Selections, Blank,
       Switching, Auditing, Restoring, Idle, HasFailed
  <2> QED  BY <2>2, <2>3, <2>4, <2>5, <2>6, <2>7, <2>8, <2>9
<1> QED  BY <1>1, FailedReturns, ForgetForgets DEF AuthorityUnknown, EnterSafe, Hold, db

\* So does one that cannot be shown.
LEMMA AuthorityUnrenderableKeeps ==
  ASSUME IInv, AuthorityUnrenderable
  PROVE  (Sited /\ Dated /\ Serving /\ Requested /\ Owned /\ Drawn /\ InHand /\ Shown)'
<1> USE DEF IInv, Typed, StateTyped
<1>1. ASSUME /\ op.at \in {"loser", "readback"} /\ HasFailed /\ HasForgotten
             /\ retained' = retained \cup ({op.old, op.cand} \cap Runtimes)
             /\ surface' = Boot
             /\ current' = None
             /\ safe' = TRUE
             /\ prepared' = prepared \ {op.cand}
             /\ UNCHANGED <<active, lkg, due, lines, up, starts, activeGen, requestGen,
                observed, charOf, live>>
      PROVE  (Sited /\ Dated /\ Serving /\ Requested /\ Owned /\ Drawn /\ InHand /\ Shown)'
  <2>1. op.at \in Switching
    BY <1>1 DEF Switching
  <2>2. Sited'
    BY <1>1, <2>1 DEF Sited, Switching, Auditing, Restoring, Idle, HasFailed
  <2>3. Dated'
    BY <1>1, <2>1 DEF Sited, Dated, Behind, GenOf, Selections, Lines, Switching,
       Auditing, Restoring, Idle, HasFailed
  <2>4. Serving'
    BY <1>1, <2>1 DEF Sited, Serving, InHand, HasForgotten, Switching, Auditing,
       Restoring, Idle, HasFailed
  <2>5. Requested'
    BY <1>1, <2>1, ForgottenRequested
  <2>6. Owned'
    BY <1>1, <2>1, InSwitch DEF Owned, InHand, Switching, Auditing, Restoring, Idle,
       HasFailed
  <2>7. Drawn'
    BY <1>1, <2>1 DEF Drawn
  <2>8. InHand'
    BY <1>1, <2>1, InSwitch DEF InHand, Blank, Sited, Switching, Auditing, Restoring,
       Idle, HasFailed
  <2>9. Shown'
    BY <1>1, <2>1 DEF Sited, Dated, InHand, Shown, Settled, GenOf, Selections, Blank,
       Switching, Auditing, Restoring, Idle, HasFailed
  <2> QED  BY <2>2, <2>3, <2>4, <2>5, <2>6, <2>7, <2>8, <2>9
<1> QED  BY <1>1, FailedReturns, ForgetForgets DEF AuthorityUnrenderable, At, EnterSafe,
            Hold, db

\* An indeterminate commit is read back.
LEMMA CommitIndeterminateKeeps ==
  ASSUME IInv, CommitIndeterminate
  PROVE  (Sited /\ Dated /\ Serving /\ Requested /\ Owned /\ Drawn /\ InHand /\ Shown)'
<1> USE DEF IInv, Typed, StateTyped
<1>1. ASSUME /\ op.at = "commit" /\ op.kind = "repair" /\ HasFailed
             /\ active' = active \/ (active' \in Selections /\ active'.gen > GenOf(active))
             /\ retained' = {op.cand}
             /\ surface' = Boot
             /\ current' = None
             /\ safe' = TRUE
             /\ UNCHANGED <<lkg, lines, up, starts, activeGen, requestGen, reqs, prepared,
                observed, charOf, live>>
      PROVE  (Sited /\ Dated /\ Serving /\ Requested /\ Owned /\ Drawn /\ InHand /\ Shown)'
  <2>1. op.at \in Switching
    BY <1>1 DEF Switching
  <2>2. Sited'
    BY <1>1, <2>1 DEF Sited, Switching, Auditing, Restoring, Idle, HasFailed
  <2>3. Dated'
    BY <1>1, <2>1 DEF Sited, Dated, Behind, GenOf, Selections, Lines, Switching,
       Auditing, Restoring, Idle, HasFailed
  <2>4. Serving'
    BY <1>1, <2>1 DEF Sited, Serving, InHand, Switching, Auditing, Restoring, Idle,
       HasFailed
  <2>5. Requested'
    BY <1>1, <2>1, InSwitch DEF Requested
  <2>6. Owned'
    BY <1>1, <2>1, InSwitch DEF Owned, InHand, Switching, Auditing, Restoring, Idle,
       HasFailed
  <2>7. Drawn'
    BY <1>1, <2>1 DEF Drawn
  <2>8. InHand'
    BY <1>1, <2>1, InSwitch DEF InHand, Blank, Sited, Switching, Auditing, Restoring,
       Idle, HasFailed
  <2>9. Shown'
    BY <1>1, <2>1 DEF Sited, Dated, InHand, Shown, Settled, GenOf, Selections, Blank,
       Switching, Auditing, Restoring, Idle, HasFailed
  <2> QED  BY <2>2, <2>3, <2>4, <2>5, <2>6, <2>7, <2>8, <2>9
<1>2. ASSUME /\ op.at = "commit" /\ op.kind # "repair"
             /\ op' \in OpSet
             /\ op'.at = "readback"
             /\ op'.sel = Candidate
             /\ op'.kind = op.kind
             /\ op'.req = op.req /\ op'.cand = op.cand /\ op'.old = op.old
             /\ Candidate \in Selections
             /\ Candidate.gen = activeGen + 1
             /\ Candidate.char = charOf[op.cand]
             /\ active' = active \/ (active' = Candidate /\ GenOf(active) < Candidate.gen)
             /\ UNCHANGED <<lkg, lines, up, starts, activeGen, requestGen, reqs, safe,
                retained, prepared, observed, current, surface, charOf, live>>
      PROVE  (Sited /\ Dated /\ Serving /\ Requested /\ Owned /\ Drawn /\ InHand /\ Shown)'
  <2>1. op.at \in Switching
    BY <1>2 DEF Switching
  <2>2. Sited'
    BY <1>2, <2>1 DEF Sited, Switching, Auditing, Restoring
  <2>3. Dated'
    BY <1>2, <2>1 DEF Sited, Dated, Behind, GenOf, Selections, Lines, Switching,
       Auditing, Restoring
  <2>4. Serving'
    BY <1>2, <2>1 DEF Sited, Serving, InHand, Switching, Auditing, Restoring
  <2>5. Requested'
    BY <1>2, <2>1 DEF Requested, Owned, Requests
  <2>6. Owned'
    BY <1>2, <2>1 DEF Sited, Owned, InHand, Blank, Switching, Auditing, Restoring
  <2>7. Drawn'
    BY <1>2, <2>1 DEF Drawn
  <2>8. InHand'
    BY <1>2, <2>1 DEF Sited, Owned, InHand, Blank, Switching, Auditing, Restoring
  <2>9. Shown'
    BY <1>2, <2>1 DEF Sited, Dated, InHand, Shown, Settled, GenOf, Selections, Blank,
       Switching, Auditing, Restoring
  <2> QED  BY <2>2, <2>3, <2>4, <2>5, <2>6, <2>7, <2>8, <2>9
<1>3. op.at \in Switching /\ op.cand \in Runtimes /\ charOf[op.cand] \in Characters
  BY InSwitch DEF CommitIndeterminate, At, Switching
<1>4. /\ Candidate \in Selections /\ Candidate.gen = activeGen + 1
      /\ Candidate.char = charOf[op.cand]
  BY <1>3, CandidateTyped
<1>5. active' = active \/ (active' = Candidate /\ GenOf(active) < Candidate.gen)
  BY DEF CommitIndeterminate, WriteActive, Wins
<1>6. CASE op.kind = "repair"
  <2>1. retained' = {op.cand}
    BY <1>3, <1>6, InSwitch DEF CommitIndeterminate, EnterSafe, Hold
  <2>2. active' = active \/ (active' \in Selections /\ active'.gen > GenOf(active))
    BY <1>4, <1>5 DEF GenOf, Selections
  <2> QED  BY <1>1, <1>6, <2>1, <2>2, FailedReturns DEF CommitIndeterminate, At, EnterSafe
<1>7. CASE op.kind # "repair"
  <2>1. op' = [op EXCEPT !.at = "readback", !.sel = Candidate]
    BY <1>7 DEF CommitIndeterminate
  <2>2. /\ op' \in OpSet
        /\ op'.at = "readback"
        /\ op'.sel = Candidate
        /\ op'.kind = op.kind
        /\ op'.req = op.req /\ op'.cand = op.cand /\ op'.old = op.old
    BY <1>4, <2>1 DEF OpSet, Sites
  <2> QED  BY <1>2, <1>4, <1>5, <1>7, <2>2 DEF CommitIndeterminate, At
<1> QED  BY <1>6, <1>7

\* What the slot says is what is rendered.
LEMMA RenderAuthoritativeKeeps ==
  ASSUME IInv, RenderAuthoritative
  PROVE  (Sited /\ Dated /\ Serving /\ Requested /\ Owned /\ Drawn /\ InHand /\ Shown)'
<1> USE DEF IInv, Typed, StateTyped
<1>1. ASSUME NEW target,
             /\ op.at \in {"loser", "readback"}
             /\ HasFailed
             /\ HasForgotten
             /\ active \in Selections
             /\ target \in Runtimes
             /\ target \in {op.cand, op.old, current} \/ target \in Unused
             /\ target \in Unused \/ charOf[target] = active.char
             /\ charOf' = [charOf EXCEPT ![target] = active.char]
             /\ surface' = target
             /\ current' = target
             /\ activeGen' = active.gen
             /\ safe' = FALSE
             /\ live' = {target} /\ retained' = {} /\ prepared' = {}
             /\ UNCHANGED <<active, lkg, due, lines, up, starts, requestGen, observed>>
      PROVE  (Sited /\ Dated /\ Serving /\ Requested /\ Owned /\ Drawn /\ InHand /\ Shown)'
  <2>1. op.at \in Switching
    BY <1>1 DEF Switching
  <2>2. \A q \in reqs : q.cand \in live' => q.cand \in live
    BY <1>1, <2>1, InSwitch DEF Unused, Referenced, Owned
  <2>3. active.char \in Characters /\ active.gen \in Nat
    BY <1>1 DEF Selections
  <2>4. Sited'
    BY <1>1, <2>1, <2>2, <2>3 DEF Sited, Switching, Auditing, Restoring, Idle, HasFailed
  <2>5. Dated'
    BY <1>1, <2>1, <2>3 DEF Sited, Dated, Behind, GenOf, Lines, HasFailed, Switching,
       Auditing, Restoring, Idle
  <2>6. Serving'
    BY <1>1, <2>1, <2>2, <2>3 DEF Sited, Serving, InHand, HasForgotten, Switching,
       Auditing, Restoring, Idle, HasFailed
  <2>7. Requested'
    BY <1>1, <2>1, <2>2, ForgottenRequested
  <2>8. Owned'
    BY <1>1, <2>1, <2>2, <2>3 DEF Sited, Owned, InHand, Blank, Switching, Auditing,
       Restoring, Idle, HasFailed
  <2>9. Drawn'
    BY <1>1, <2>1, <2>2, <2>3 DEF Drawn
  <2>10. InHand'
    BY <1>1, <2>1, <2>2, <2>3 DEF Sited, Owned, InHand, Blank, Switching, Auditing,
       Restoring, Idle, HasFailed
  <2>11. Shown'
    BY <1>1, <2>1, <2>2, <2>3 DEF Sited, Dated, InHand, Shown, Settled, GenOf,
       Selections, Blank, Switching, Auditing, Restoring, Idle, HasFailed
  <2> QED  BY <2>4, <2>5, <2>6, <2>7, <2>8, <2>9, <2>10, <2>11
<1>2. ASSUME NEW target,
             /\ op.at \in {"loser", "readback"}
             /\ HasFailed
             /\ HasForgotten
             /\ active \in Selections
             /\ target \in Runtimes
             /\ target \in {op.cand, op.old, current} \/ target \in Unused
             /\ target \in Unused \/ charOf[target] = active.char
             /\ charOf' = [charOf EXCEPT ![target] = active.char]
             /\ surface' = Boot /\ current' = None /\ safe' = TRUE
             /\ live' = live \cup {target} /\ prepared' = prepared \ {op.cand}
             /\ retained' = retained \cup ({target, op.old, op.cand} \cap Runtimes)
             /\ UNCHANGED <<active, lkg, due, lines, up, starts, activeGen, requestGen,
                            observed>>
      PROVE  (Sited /\ Dated /\ Serving /\ Requested /\ Owned /\ Drawn /\ InHand /\ Shown)'
  <2>1. op.at \in Switching
    BY <1>2 DEF Switching
  <2>2. \A q \in reqs : q.cand \in live' => q.cand \in live
    BY <1>2, <2>1, InSwitch DEF Unused, Referenced, Owned
  <2>3. active.char \in Characters /\ active.gen \in Nat
    BY <1>2 DEF Selections
  <2>4. target \notin prepared'
    BY <1>2, <2>1, InSwitch DEF Unused, Referenced, Owned
  <2>5. Sited'
    BY <1>2, <2>1, <2>2, <2>3, <2>4 DEF Sited, Switching, Auditing, Restoring, Idle,
       HasFailed
  <2>6. Dated'
    BY <1>2, <2>1, <2>2, <2>3, <2>4 DEF Sited, Dated, Behind, GenOf, Selections, Lines,
       Switching, Auditing, Restoring, Idle, HasFailed
  <2>7. Serving'
    BY <1>2, <2>1, <2>2, <2>3, <2>4 DEF Sited, Serving, InHand, HasForgotten, Switching,
       Auditing, Restoring, Idle, HasFailed
  <2>8. Requested'
    BY <1>2, <2>1, <2>2, ForgottenRequested
  <2>9. Owned'
    BY <1>2, <2>1, <2>4, InSwitch DEF Owned, InHand, Switching, Auditing, Restoring,
       Idle, HasFailed
  <2>10. Drawn'
    BY <1>2, <2>1, <2>2, <2>3, <2>4 DEF Drawn
  <2>11. InHand'
    BY <1>2, <2>1, InSwitch DEF InHand, Blank, Sited, Switching, Auditing, Restoring,
       Idle, HasFailed
  <2>12. Shown'
    BY <1>2, <2>1, <2>2, <2>3, <2>4 DEF Sited, Dated, InHand, Shown, Settled, GenOf,
       Selections, Blank, Switching, Auditing, Restoring, Idle, HasFailed
  <2> QED  BY <2>5, <2>6, <2>7, <2>8, <2>9, <2>10, <2>11, <2>12
<1>3. op.at \in {"loser", "readback"} /\ op.at \in Switching /\ active \in Selections
  BY DEF RenderAuthoritative, At, Switching
<1>4. HasFailed /\ HasForgotten
  BY FailedReturns, ForgetForgets DEF RenderAuthoritative
<1>5. PICK target \in Runtimes, built \in SUBSET Runtimes :
        /\ \/ target \in {op.cand, op.old, current} /\ charOf[target] = active.char /\ built = {}
           \/ target \in Unused /\ built = {target}
        /\ charOf' = [charOf EXCEPT ![target] = active.char]
        /\ \/ /\ surface' = target /\ current' = target
              /\ ReleaseExcept(target, {op.old, op.cand}, built)
              /\ activeGen' = active.gen
              /\ safe' = FALSE
           \/ /\ EnterSafe({target, op.old, op.cand})
              /\ live' = live \cup built
              /\ prepared' = prepared \ {op.cand}
              /\ UNCHANGED activeGen
  BY RenderTarget
<1>6. target \in live \/ built = {target}
  BY <1>3, <1>5, InSwitch DEF Owned
<1>7. CASE /\ surface' = target /\ current' = target
           /\ ReleaseExcept(target, {op.old, op.cand}, built)
           /\ activeGen' = active.gen /\ safe' = FALSE
  <2>1. built \in SUBSET {target}
    BY <1>5
  <2>2. live' = (live \cup built) \cap {target} /\ retained' = {} /\ prepared' = {}
    BY <1>3, <1>7, <2>1, ReleasedTo
  <2>3. live' = {target}
    BY <1>6, <2>2
  <2> QED  BY <1>1, <1>3, <1>4, <1>5, <1>7, <2>2, <2>3 DEF RenderAuthoritative, db
<1>8. CASE /\ EnterSafe({target, op.old, op.cand}) /\ live' = live \cup built
           /\ prepared' = prepared \ {op.cand} /\ UNCHANGED activeGen
  <2>1. live' = live \cup {target}
    BY <1>5, <1>6, <1>8
  <2> QED  BY <1>2, <1>3, <1>4, <1>5, <1>8, <2>1 DEF RenderAuthoritative, EnterSafe,
              Hold, db
<1> QED  BY <1>5, <1>7, <1>8

\* The audit of a handler is done, and what follows.
HasRecorded == /\ op' \in OpSet
               /\ op.kind \notin {"start", "repair"} => op' = Idle
               /\ op.kind = "start" => /\ op'.at = "boot" /\ op'.kind = "start"
                                       /\ op'.req = op.req /\ op'.sel = op.sel
               /\ op.kind = "repair" => /\ op'.at = "observe" /\ op'.kind = "repair"
                                        /\ op'.req = op.req /\ op'.sel = op.sel

\* A recorded activation is followed by the rest of the drain, or returns.
LEMMA RecordedReturns == ASSUME op \in OpSet, Recorded PROVE HasRecorded
BY RecordedOp DEF HasRecorded

\* The drain takes the oldest row that is due.
LEMMA DrainNextKeeps ==
  ASSUME IInv, DrainNext
  PROVE  (Sited /\ Dated /\ Serving /\ Requested /\ Owned /\ Drawn /\ InHand /\ Shown)'
<1> USE DEF IInv, Typed, StateTyped
<1>1. ASSUME /\ op.at = "drain" /\ GoesTo("inline")
             /\ UNCHANGED <<active, lkg, due, lines, up, starts, activeGen, requestGen, reqs,
                safe, retained, prepared, observed, current, surface, charOf, live>>
      PROVE  (Sited /\ Dated /\ Serving /\ Requested /\ Owned /\ Drawn /\ InHand /\ Shown)'
  <2>1. Sited'
    BY <1>1 DEF Sited, Switching, Auditing, Restoring, GoesTo
  <2>2. Dated'
    BY <1>1 DEF Sited, Dated, Behind, GenOf, Selections, Lines, Switching, Auditing,
       Restoring, GoesTo
  <2>3. Serving'
    BY <1>1 DEF Sited, Serving, InHand, Switching, Auditing, Restoring, GoesTo
  <2>4. Requested'
    BY <1>1 DEF Requested, Owned, Requests
  <2>5. Owned'
    BY <1>1 DEF Sited, Owned, InHand, Blank, Switching, Auditing, Restoring, GoesTo
  <2>6. Drawn'
    BY <1>1 DEF Drawn
  <2>7. InHand'
    BY <1>1 DEF Sited, Owned, InHand, Blank, Switching, Auditing, Restoring, GoesTo
  <2>8. Shown'
    BY <1>1 DEF Sited, Dated, InHand, Shown, Settled, GenOf, Selections, Blank,
       Switching, Auditing, Restoring, GoesTo
  <2> QED  BY <2>1, <2>2, <2>3, <2>4, <2>5, <2>6, <2>7, <2>8
<1>2. ASSUME NEW row,
             /\ op.at = "drain" /\ row \in Nat
             /\ op' \in OpSet /\ op'.at = "drop" /\ op'.kind = op.kind /\ op'.req = op.req
             /\ op'.cand = op.cand
             /\ op'.old = op.old
             /\ op'.sel = op.sel
             /\ op'.row = row
             /\ Lines' = Lines \cup {row}
             /\ UNCHANGED <<active, lkg, due, up, starts, activeGen, requestGen, reqs, safe,
                retained, prepared, observed, current, surface, charOf, live>>
      PROVE  (Sited /\ Dated /\ Serving /\ Requested /\ Owned /\ Drawn /\ InHand /\ Shown)'
  <2>1. Sited'
    BY <1>2 DEF Sited, Switching, Auditing, Restoring
  <2>2. Dated'
    BY <1>2 DEF Sited, Dated, Behind, GenOf, Selections, Switching, Auditing, Restoring
  <2>3. Serving'
    BY <1>2 DEF Sited, Serving, InHand, Switching, Auditing, Restoring
  <2>4. Requested'
    BY <1>2 DEF Requested, Owned, Requests
  <2>5. Owned'
    BY <1>2 DEF Sited, Owned, InHand, Blank, Switching, Auditing, Restoring
  <2>6. Drawn'
    BY <1>2 DEF Drawn
  <2>7. InHand'
    BY <1>2 DEF Sited, Owned, InHand, Blank, Switching, Auditing, Restoring
  <2>8. Shown'
    BY <1>2 DEF Sited, Dated, InHand, Shown, Settled, GenOf, Selections, Blank,
       Switching, Auditing, Restoring
  <2> QED  BY <2>1, <2>2, <2>3, <2>4, <2>5, <2>6, <2>7, <2>8
<1> DEFINE rows == due \ {GenOf(op.sel)}
<1>3. CASE GoTo("inline") /\ UNCHANGED lines
  BY <1>1, <1>3, GoesToSite DEF DrainNext, At, Sites, db, memory, screen
<1>4. CASE /\ rows # {} /\ Record(Oldest(rows))
           /\ op' = [op EXCEPT !.at = "drop", !.row = Oldest(rows)]
  <2>1. Oldest(rows) \in Nat
    BY <1>4, OldestOfRows
  <2>2. /\ op' \in OpSet /\ op'.at = "drop" /\ op'.kind = op.kind /\ op'.req = op.req
        /\ op'.cand = op.cand
        /\ op'.old = op.old
        /\ op'.sel = op.sel
        /\ op'.row = Oldest(rows)
    BY <1>4, <2>1 DEF OpSet, Sites
  <2>3. Lines' = Lines \cup {Oldest(rows)}
    BY <1>4, <2>1, RecordLines DEF Lines
  <2> HIDE DEF rows
  <2> QED  BY <1>2, <2>1, <2>2, <2>3 DEF DrainNext, At, db, memory, screen
<1> QED  BY <1>3, <1>4 DEF DrainNext

\* A row whose line is there is dropped.
LEMMA DrainDropKeeps ==
  ASSUME IInv, DrainDrop
  PROVE  (Sited /\ Dated /\ Serving /\ Requested /\ Owned /\ Drawn /\ InHand /\ Shown)'
<1> USE DEF IInv, Typed, StateTyped
<1>1. ASSUME NEW at,
             /\ op.at = "drop" /\ at \in {"drain", "inline", "boot"}
             /\ at = "boot" => op.kind = "start"
             /\ op' \in OpSet /\ op'.at = at /\ op'.kind = op.kind /\ op'.req = op.req
             /\ op'.cand = op.cand
             /\ op'.old = op.old
             /\ op'.sel = op.sel
             /\ op'.row = None
             /\ UNCHANGED <<active, lkg, lines, up, starts, activeGen, requestGen, reqs,
                safe, retained, prepared, observed, current, surface, charOf, live>>
      PROVE  (Sited /\ Dated /\ Serving /\ Requested /\ Owned /\ Drawn /\ InHand /\ Shown)'
  <2>1. Sited'
    BY <1>1 DEF Sited, Switching, Auditing, Restoring
  <2>2. Dated'
    BY <1>1 DEF Sited, Dated, Behind, GenOf, Selections, Lines, Switching, Auditing,
       Restoring
  <2>3. Serving'
    BY <1>1 DEF Sited, Serving, InHand, Switching, Auditing, Restoring
  <2>4. Requested'
    BY <1>1 DEF Requested, Owned, Requests
  <2>5. Owned'
    BY <1>1 DEF Sited, Owned, InHand, Blank, Switching, Auditing, Restoring
  <2>6. Drawn'
    BY <1>1 DEF Drawn
  <2>7. InHand'
    BY <1>1 DEF Sited, Owned, InHand, Blank, Switching, Auditing, Restoring
  <2>8. Shown'
    BY <1>1 DEF Sited, Dated, InHand, Shown, Settled, GenOf, Selections, Blank,
       Switching, Auditing, Restoring
  <2> QED  BY <2>1, <2>2, <2>3, <2>4, <2>5, <2>6, <2>7, <2>8
<1>2. PICK at \in {"drain", "inline", "boot"} :
        op' = [op EXCEPT !.at = at, !.row = None] /\ (at = "boot" => op.kind = "start")
  BY DEF DrainDrop
<1>3. /\ op' \in OpSet /\ op'.at = at /\ op'.kind = op.kind /\ op'.req = op.req
      /\ op'.cand = op.cand /\ op'.old = op.old /\ op'.sel = op.sel /\ op'.row = None
  BY <1>2 DEF OpSet, Sites
<1> QED  BY <1>1, <1>2, <1>3 DEF DrainDrop, At, memory, screen

\* The line of a commit is written at once if it can be.
LEMMA InlineKeeps ==
  ASSUME IInv, Inline
  PROVE  (Sited /\ Dated /\ Serving /\ Requested /\ Owned /\ Drawn /\ InHand /\ Shown)'
<1> USE DEF IInv, Typed, StateTyped
<1>1. ASSUME /\ op.at = "inline" /\ HasRecorded /\ Lines \subseteq Lines'
             /\ UNCHANGED <<active, lkg, due, up, starts, activeGen, requestGen, reqs, safe,
                retained, prepared, observed, current, surface, charOf, live>>
      PROVE  (Sited /\ Dated /\ Serving /\ Requested /\ Owned /\ Drawn /\ InHand /\ Shown)'
  <2>1. Sited'
    BY <1>1 DEF Sited, Switching, Auditing, Restoring, Idle, HasRecorded
  <2>2. Dated'
    BY <1>1 DEF Sited, Dated, Behind, GenOf, Selections, HasRecorded, Switching,
       Auditing, Restoring, Idle
  <2>3. Serving'
    BY <1>1 DEF Sited, Serving, InHand, Switching, Auditing, Restoring, Idle, HasRecorded
  <2>4. Requested'
    BY <1>1 DEF Requested, Owned, Requests, Idle
  <2>5. Owned'
    BY <1>1 DEF Sited, Owned, InHand, Blank, Switching, Auditing, Restoring, Idle,
       HasRecorded
  <2>6. Drawn'
    BY <1>1 DEF Drawn
  <2>7. InHand'
    BY <1>1 DEF Sited, Owned, InHand, Blank, Switching, Auditing, Restoring, Idle,
       HasRecorded
  <2>8. Shown'
    BY <1>1 DEF Sited, Dated, InHand, Shown, Settled, GenOf, Selections, Blank,
       Switching, Auditing, Restoring, Idle, HasRecorded
  <2> QED  BY <2>1, <2>2, <2>3, <2>4, <2>5, <2>6, <2>7, <2>8
<1>2. ASSUME /\ op.at = "inline" /\ op.kind # "start" /\ GoesTo("clear")
             /\ Lines' = Lines \cup {op.sel.gen}
             /\ UNCHANGED <<active, lkg, due, up, starts, activeGen, requestGen, reqs, safe,
                retained, prepared, observed, current, surface, charOf, live>>
      PROVE  (Sited /\ Dated /\ Serving /\ Requested /\ Owned /\ Drawn /\ InHand /\ Shown)'
  <2>1. Sited'
    BY <1>2 DEF Sited, Switching, Auditing, Restoring, GoesTo
  <2>2. Dated'
    BY <1>2 DEF Sited, Dated, Behind, GenOf, Selections, Switching, Auditing, Restoring,
       GoesTo
  <2>3. Serving'
    BY <1>2 DEF Sited, Serving, InHand, Switching, Auditing, Restoring, GoesTo
  <2>4. Requested'
    BY <1>2 DEF Requested, Owned, Requests
  <2>5. Owned'
    BY <1>2 DEF Sited, Owned, InHand, Blank, Switching, Auditing, Restoring, GoesTo
  <2>6. Drawn'
    BY <1>2 DEF Drawn
  <2>7. InHand'
    BY <1>2 DEF Sited, Owned, InHand, Blank, Switching, Auditing, Restoring, GoesTo
  <2>8. Shown'
    BY <1>2 DEF Sited, Dated, InHand, Shown, Settled, GenOf, Selections, Blank,
       Switching, Auditing, Restoring, GoesTo
  <2> QED  BY <2>1, <2>2, <2>3, <2>4, <2>5, <2>6, <2>7, <2>8
<1> DEFINE own == IF op.kind = "start" THEN active ELSE op.sel
<1>3. own # None => own.gen \in Nat
  BY DEF Selections, OpSet
<1>4. own # None /\ Record(own.gen) => Lines' = Lines \cup {own.gen}
  BY <1>3, RecordLines DEF Lines
<1>5. CASE Recorded
  <2>1. Lines \subseteq Lines'
    BY <1>4 DEF Inline, Lines
  <2> QED  BY <1>1, <1>5, <2>1, RecordedReturns DEF Inline, At, db, memory, screen
<1>6. CASE op.kind # "start" /\ own # None /\ Record(own.gen) /\ GoTo("clear")
  BY <1>2, <1>4, <1>6, GoesToSite DEF Inline, At, Sites, db, memory, screen
<1> QED  BY <1>5, <1>6 DEF Inline

\* A row is cleared after its line.
LEMMA ClearKeeps ==
  ASSUME IInv, Clear
  PROVE  (Sited /\ Dated /\ Serving /\ Requested /\ Owned /\ Drawn /\ InHand /\ Shown)'
<1> USE DEF IInv, Typed, StateTyped
<1>1. ASSUME /\ op.at = "clear" /\ HasRecorded
             /\ UNCHANGED <<active, lkg, lines, up, starts, activeGen, requestGen, reqs,
                safe, retained, prepared, observed, current, surface, charOf, live>>
      PROVE  (Sited /\ Dated /\ Serving /\ Requested /\ Owned /\ Drawn /\ InHand /\ Shown)'
  <2>1. Sited'
    BY <1>1 DEF Sited, Switching, Auditing, Restoring, Idle, HasRecorded
  <2>2. Dated'
    BY <1>1 DEF Sited, Dated, Behind, GenOf, Selections, Lines, Switching, Auditing,
       Restoring, Idle, HasRecorded
  <2>3. Serving'
    BY <1>1 DEF Sited, Serving, InHand, Switching, Auditing, Restoring, Idle, HasRecorded
  <2>4. Requested'
    BY <1>1 DEF Requested, Owned, Requests, Idle
  <2>5. Owned'
    BY <1>1 DEF Sited, Owned, InHand, Blank, Switching, Auditing, Restoring, Idle,
       HasRecorded
  <2>6. Drawn'
    BY <1>1 DEF Drawn
  <2>7. InHand'
    BY <1>1 DEF Sited, Owned, InHand, Blank, Switching, Auditing, Restoring, Idle,
       HasRecorded
  <2>8. Shown'
    BY <1>1 DEF Sited, Dated, InHand, Shown, Settled, GenOf, Selections, Blank,
       Switching, Auditing, Restoring, Idle, HasRecorded
  <2> QED  BY <2>1, <2>2, <2>3, <2>4, <2>5, <2>6, <2>7, <2>8
<1> QED  BY <1>1, RecordedReturns DEF Clear, At, memory, screen

\* A start begins with the bootstrap runtime.
LEMMA BootSwitcherKeeps ==
  ASSUME IInv, BootSwitcher
  PROVE  (Sited /\ Dated /\ Serving /\ Requested /\ Owned /\ Drawn /\ InHand /\ Shown)'
<1> USE DEF IInv, Typed, StateTyped
<1>1. ASSUME /\ op.at = "boot" /\ GoesTo("slots") /\ activeGen' = GenOf(active)
             /\ requestGen' = activeGen'
             /\ UNCHANGED <<active, lkg, due, lines, up, starts, reqs, safe, retained,
                prepared, observed, current, surface, charOf, live>>
      PROVE  (Sited /\ Dated /\ Serving /\ Requested /\ Owned /\ Drawn /\ InHand /\ Shown)'
  <2>1. Sited'
    BY <1>1 DEF Sited, Switching, Auditing, Restoring, GoesTo
  <2>2. Dated'
    BY <1>1 DEF Sited, Dated, Behind, GenOf, Selections, Lines, Switching, Auditing,
       Restoring, GoesTo
  <2>3. Serving'
    BY <1>1 DEF Sited, Serving, InHand, Switching, Auditing, Restoring, GoesTo
  <2>4. Requested'
    BY <1>1 DEF Requested, Sited, Serving, Restoring
  <2>5. Owned'
    BY <1>1 DEF Sited, Owned, InHand, Blank, Switching, Auditing, Restoring, GoesTo
  <2>6. Drawn'
    BY <1>1 DEF Drawn
  <2>7. InHand'
    BY <1>1 DEF Sited, Owned, InHand, Blank, Switching, Auditing, Restoring, GoesTo
  <2>8. Shown'
    BY <1>1 DEF Sited, Dated, InHand, Shown, Settled, GenOf, Selections, Blank,
       Switching, Auditing, Restoring, GoesTo
  <2> QED  BY <2>1, <2>2, <2>3, <2>4, <2>5, <2>6, <2>7, <2>8
<1>2. GenOf(lkg) \in Nat /\ GenOf(active) \in Nat
  BY DEF GenOf, Selections
<1>3. GenOf(lkg) <= GenOf(active)
  BY <1>2 DEF Dated, Behind, GenOf
<1>4. activeGen' = GenOf(active)
  BY <1>2, <1>3 DEF BootSwitcher
<1> QED  BY <1>1, <1>4, GoesToSite DEF BootSwitcher, At, Sites, db, screen

\* It reads both slots once.
LEMMA ReadSlotsKeeps ==
  ASSUME IInv, ReadSlots
  PROVE  (Sited /\ Dated /\ Serving /\ Requested /\ Owned /\ Drawn /\ InHand /\ Shown)'
<1> USE DEF IInv, Typed, StateTyped
<1>1. ASSUME /\ op.at = "slots"
             /\ op' \in OpSet
             /\ op'.at = "restore"
             /\ op'.kind = op.kind
             /\ op'.req = op.req
             /\ op'.cand = op.cand
             /\ op'.old = op.old
             /\ op'.sel = active
             /\ UNCHANGED <<active, lkg, due, lines, up, starts, activeGen, requestGen, reqs,
                safe, retained, prepared, observed, current, surface, charOf, live>>
      PROVE  (Sited /\ Dated /\ Serving /\ Requested /\ Owned /\ Drawn /\ InHand /\ Shown)'
  <2>1. Sited'
    BY <1>1 DEF Sited, Switching, Auditing, Restoring
  <2>2. Dated'
    BY <1>1 DEF Sited, Dated, Behind, GenOf, Selections, Lines, Switching, Auditing,
       Restoring
  <2>3. Serving'
    BY <1>1 DEF Sited, Serving, InHand, Switching, Auditing, Restoring
  <2>4. Requested'
    BY <1>1 DEF Requested, Owned, Requests
  <2>5. Owned'
    BY <1>1 DEF Sited, Owned, InHand, Blank, Switching, Auditing, Restoring
  <2>6. Drawn'
    BY <1>1 DEF Drawn
  <2>7. InHand'
    BY <1>1 DEF Sited, Owned, InHand, Blank, Switching, Auditing, Restoring
  <2>8. Shown'
    BY <1>1 DEF Sited, Dated, InHand, Shown, Settled, GenOf, Selections, Blank,
       Switching, Auditing, Restoring
  <2> QED  BY <2>1, <2>2, <2>3, <2>4, <2>5, <2>6, <2>7, <2>8
<1>2. ASSUME /\ op.at = "slots" /\ retained' = {}
             /\ op' = Idle /\ surface' = Boot /\ current' = None /\ safe' = TRUE
             /\ UNCHANGED <<active, lkg, due, lines, up, starts, activeGen, requestGen, reqs,
                prepared, observed, charOf, live>>
      PROVE  (Sited /\ Dated /\ Serving /\ Requested /\ Owned /\ Drawn /\ InHand /\ Shown)'
  <2>1. Sited'
    BY <1>2 DEF Sited, Switching, Auditing, Restoring, Idle
  <2>2. Dated'
    BY <1>2 DEF Sited, Dated, Behind, GenOf, Selections, Lines, Switching, Auditing,
       Restoring, Idle
  <2>3. Serving'
    BY <1>2 DEF Sited, Serving, InHand, Switching, Auditing, Restoring, Idle
  <2>4. Requested'
    BY <1>2 DEF Requested, Sited, Serving, Restoring
  <2>5. Owned'
    BY <1>2 DEF Sited, Owned, InHand, Blank, Switching, Auditing, Restoring, Idle
  <2>6. Drawn'
    BY <1>2 DEF Drawn
  <2>7. InHand'
    BY <1>2 DEF Sited, Owned, InHand, Blank, Switching, Auditing, Restoring, Idle
  <2>8. Shown'
    BY <1>2 DEF Sited, Dated, InHand, Shown, Settled, GenOf, Selections, Blank,
       Switching, Auditing, Restoring, Idle
  <2> QED  BY <2>1, <2>2, <2>3, <2>4, <2>5, <2>6, <2>7, <2>8
<1>3. Blank
  BY DEF ReadSlots, At, Sited, InHand, Restoring
<1>4. CASE /\ op' = [op EXCEPT !.at = "restore", !.sel = active]
           /\ UNCHANGED <<safe, retained, current, surface>>
  <2>1. /\ op' \in OpSet /\ op'.at = "restore" /\ op'.kind = op.kind
        /\ op'.req = op.req /\ op'.cand = op.cand /\ op'.old = op.old /\ op'.sel = active
    BY <1>4 DEF OpSet, Sites
  <2> QED  BY <1>1, <1>4, <2>1 DEF ReadSlots, At, db
<1>5. CASE EnterSafe({surface, current}) /\ op' = Idle
  <2>1. retained' = {}
    BY <1>3, <1>5 DEF EnterSafe, Hold, Blank
  <2> QED  BY <1>2, <1>5, <2>1 DEF ReadSlots, At, EnterSafe, db
<1> QED  BY <1>4, <1>5 DEF ReadSlots

\* Nothing is alive before the first selection is drawn, so what is drawn is all
\* that is alive.
LEMMA RenderDraws ==
  ASSUME IInv, op.at \in Restoring, NEW s \in Selections, Render(s)
  PROVE  /\ Fresh \in Runtimes /\ charOf'[Fresh] = s.char /\ s.char \in Characters
         /\ live' = {Fresh} /\ retained' = {} /\ prepared' = {}
<1> USE DEF IInv, Typed, StateTyped
<1>1. Blank
  BY DEF Sited, InHand
<1>2. Fresh \in Runtimes /\ s.char \in Characters
  BY FreshUnused DEF Render, Unused, Selections
<1>3. charOf'[Fresh] = s.char
  BY <1>2 DEF Render
<1>4. live' = {Fresh} /\ retained' = {} /\ prepared' = {}
  BY <1>1 DEF Render, ReleaseExcept, Blank
<1> QED  BY <1>2, <1>3, <1>4

\* It shows ACTIVE if it can be loaded.
LEMMA RestoreActiveKeeps ==
  ASSUME IInv, RestoreActive
  PROVE  (Sited /\ Dated /\ Serving /\ Requested /\ Owned /\ Drawn /\ InHand /\ Shown)'
<1> USE DEF IInv, Typed, StateTyped
<1>1. ASSUME /\ op.at = "restore"
             /\ Fresh \in Runtimes
             /\ charOf'[Fresh] = op.sel.char
             /\ op.sel.char \in Characters
             /\ live' = {Fresh} /\ retained' = {} /\ prepared' = {}
             /\ current' = Fresh /\ surface' = Fresh /\ safe' = FALSE /\ op.sel # None
             /\ op' = Idle
             /\ UNCHANGED <<active, lkg, due, lines, up, starts, activeGen, reqs>>
      PROVE  (Sited /\ Dated /\ Serving /\ Requested /\ Owned /\ Drawn /\ InHand /\ Shown)'
  <2>1. /\ active # None
        /\ activeGen <= active.gen
        /\ (activeGen = active.gen => op.sel = active)
    BY <1>1 DEF Dated, Behind, GenOf, Selections, OpSet
  <2>2. Sited'
    BY <1>1, <2>1 DEF Sited, Switching, Auditing, Restoring, Idle
  <2>3. Dated'
    BY <1>1, <2>1 DEF Sited, Dated, Behind, GenOf, Selections, Lines, Switching,
       Auditing, Restoring, Idle
  <2>4. Serving'
    BY <1>1, <2>1 DEF Sited, Serving, InHand, Switching, Auditing, Restoring, Idle
  <2>5. Requested'
    BY <1>1 DEF Requested, Sited, Serving, Restoring
  <2>6. Owned'
    BY <1>1, <2>1 DEF Sited, Owned, InHand, Blank, Switching, Auditing, Restoring, Idle
  <2>7. Drawn'
    BY <1>1, <2>1 DEF Drawn
  <2>8. InHand'
    BY <1>1, <2>1 DEF Sited, Owned, InHand, Blank, Switching, Auditing, Restoring, Idle
  <2>9. Shown'
    BY <1>1, <2>1 DEF Sited, Dated, InHand, Shown, Settled, GenOf, Selections, Blank,
       Switching, Auditing, Restoring, Idle
  <2> QED  BY <2>2, <2>3, <2>4, <2>5, <2>6, <2>7, <2>8, <2>9
<1>2. ASSUME /\ op.at = "restore" /\ GoesTo("restore_lkg")
             /\ UNCHANGED <<active, lkg, due, lines, up, starts, activeGen, reqs, safe,
                retained, prepared, observed, current, surface, charOf, live>>
      PROVE  (Sited /\ Dated /\ Serving /\ Requested /\ Owned /\ Drawn /\ InHand /\ Shown)'
  <2>1. Sited'
    BY <1>2 DEF Sited, Switching, Auditing, Restoring, GoesTo
  <2>2. Dated'
    BY <1>2 DEF Sited, Dated, Behind, GenOf, Selections, Lines, Switching, Auditing,
       Restoring, GoesTo
  <2>3. Serving'
    BY <1>2 DEF Sited, Serving, InHand, Switching, Auditing, Restoring, GoesTo
  <2>4. Requested'
    BY <1>2 DEF Requested, Sited, Serving, Restoring
  <2>5. Owned'
    BY <1>2 DEF Sited, Owned, InHand, Blank, Switching, Auditing, Restoring, GoesTo
  <2>6. Drawn'
    BY <1>2 DEF Drawn
  <2>7. InHand'
    BY <1>2 DEF Sited, Owned, InHand, Blank, Switching, Auditing, Restoring, GoesTo
  <2>8. Shown'
    BY <1>2 DEF Sited, Dated, InHand, Shown, Settled, GenOf, Selections, Blank,
       Switching, Auditing, Restoring, GoesTo
  <2> QED  BY <2>1, <2>2, <2>3, <2>4, <2>5, <2>6, <2>7, <2>8
<1>3. op.at = "restore" /\ op.at \in Restoring
  BY DEF RestoreActive, At, Restoring
<1>4. CASE op.sel # None /\ Render(op.sel) /\ op' = Idle
  <2>1. op.sel \in Selections
    BY <1>4 DEF OpSet
  <2> QED  BY <1>1, <1>3, <1>4, <2>1, RenderDraws DEF RestoreActive, Render, db
<1>5. CASE Unrendered /\ GoTo("restore_lkg") /\ UNCHANGED observed
  BY <1>2, <1>3, <1>5, GoesToSite DEF RestoreActive, Unrendered, Sites, db, screen
<1> QED  BY <1>4, <1>5 DEF RestoreActive

\* Else it shows LAST-KNOWN-GOOD and repairs the slot with it.
LEMMA RestoreLkgKeeps ==
  ASSUME IInv, RestoreLkg
  PROVE  (Sited /\ Dated /\ Serving /\ Requested /\ Owned /\ Drawn /\ InHand /\ Shown)'
<1> USE DEF IInv, Typed, StateTyped
<1>1. ASSUME /\ op.at = "restore_lkg"
             /\ Fresh \in Runtimes
             /\ charOf'[Fresh] = lkg.char
             /\ lkg.char \in Characters
             /\ live' = {Fresh} /\ retained' = {} /\ prepared' = {}
             /\ current' = Fresh /\ surface' = Fresh /\ safe' = FALSE /\ lkg # None
             /\ op' = [kind |-> "repair", at |-> "read", req |-> None, cand |-> Fresh,
                old |-> Fresh, sel |-> None, row |-> None]
             /\ UNCHANGED <<active, lkg, due, lines, up, starts, activeGen, reqs>>
      PROVE  (Sited /\ Dated /\ Serving /\ Requested /\ Owned /\ Drawn /\ InHand /\ Shown)'
  <2>1. Sited'
    BY <1>1 DEF Sited, Switching, Auditing, Restoring
  <2>2. Dated'
    BY <1>1 DEF Sited, Dated, Behind, GenOf, Selections, Lines, Switching, Auditing,
       Restoring
  <2>3. Serving'
    BY <1>1 DEF Sited, Serving, InHand, Switching, Auditing, Restoring
  <2>4. Requested'
    BY <1>1 DEF Requested, Sited, Serving, Restoring
  <2>5. Owned'
    BY <1>1 DEF Sited, Owned, InHand, Blank, Switching, Auditing, Restoring
  <2>6. Drawn'
    BY <1>1 DEF Drawn
  <2>7. InHand'
    BY <1>1 DEF Sited, Owned, InHand, Blank, Switching, Auditing, Restoring
  <2>8. Shown'
    BY <1>1 DEF Sited, Dated, InHand, Shown, Settled, GenOf, Selections, Blank,
       Switching, Auditing, Restoring
  <2> QED  BY <2>1, <2>2, <2>3, <2>4, <2>5, <2>6, <2>7, <2>8
<1>2. ASSUME /\ op.at = "restore_lkg" /\ GoesTo("fallback")
             /\ UNCHANGED <<active, lkg, due, lines, up, starts, activeGen, reqs, safe,
                retained, prepared, observed, current, surface, charOf, live>>
      PROVE  (Sited /\ Dated /\ Serving /\ Requested /\ Owned /\ Drawn /\ InHand /\ Shown)'
  <2>1. Sited'
    BY <1>2 DEF Sited, Switching, Auditing, Restoring, GoesTo
  <2>2. Dated'
    BY <1>2 DEF Sited, Dated, Behind, GenOf, Selections, Lines, Switching, Auditing,
       Restoring, GoesTo
  <2>3. Serving'
    BY <1>2 DEF Sited, Serving, InHand, Switching, Auditing, Restoring, GoesTo
  <2>4. Requested'
    BY <1>2 DEF Requested, Sited, Serving, Restoring
  <2>5. Owned'
    BY <1>2 DEF Sited, Owned, InHand, Blank, Switching, Auditing, Restoring, GoesTo
  <2>6. Drawn'
    BY <1>2 DEF Drawn
  <2>7. InHand'
    BY <1>2 DEF Sited, Owned, InHand, Blank, Switching, Auditing, Restoring, GoesTo
  <2>8. Shown'
    BY <1>2 DEF Sited, Dated, InHand, Shown, Settled, GenOf, Selections, Blank,
       Switching, Auditing, Restoring, GoesTo
  <2> QED  BY <2>1, <2>2, <2>3, <2>4, <2>5, <2>6, <2>7, <2>8
<1>3. op.at = "restore_lkg" /\ op.at \in Restoring
  BY DEF RestoreLkg, At, Restoring
<1>4. CASE lkg # None /\ Render(lkg)
          /\ op' = [Idle EXCEPT !.kind = "repair", !.at = "read", !.cand = Fresh, !.old = Fresh]
  <2>1. lkg \in Selections
    BY <1>4
  <2>2. op' = [kind |-> "repair", at |-> "read", req |-> None, cand |-> Fresh,
               old |-> Fresh, sel |-> None, row |-> None]
    BY <1>4 DEF Idle
  <2> QED  BY <1>1, <1>3, <1>4, <2>1, <2>2, RenderDraws DEF RestoreLkg, Render, db
<1>5. CASE Unrendered /\ GoTo("fallback")
  BY <1>2, <1>3, <1>5, GoesToSite DEF RestoreLkg, Unrendered, Sites, db, screen
<1> QED  BY <1>4, <1>5 DEF RestoreLkg

\* Else it stays with the bootstrap runtime.
LEMMA FallbackKeeps ==
  ASSUME IInv, Fallback
  PROVE  (Sited /\ Dated /\ Serving /\ Requested /\ Owned /\ Drawn /\ InHand /\ Shown)'
<1> USE DEF IInv, Typed, StateTyped
<1>1. ASSUME /\ op.at = "fallback" /\ Fresh \in Runtimes /\ Blank
             /\ charOf' = [charOf EXCEPT ![Fresh] = Builtin]
             /\ live' = {Fresh}
             /\ prepared' = {Fresh}
             /\ op' = [kind |-> "fallback", at |-> "read", req |-> None, cand |-> Fresh,
                old |-> Boot, sel |-> None, row |-> None]
             /\ UNCHANGED <<active, lkg, due, lines, up, starts, activeGen, reqs, safe,
                retained, observed, current, surface>>
      PROVE  (Sited /\ Dated /\ Serving /\ Requested /\ Owned /\ Drawn /\ InHand /\ Shown)'
  <2>1. Sited'
    BY <1>1 DEF Sited, Switching, Auditing, Restoring
  <2>2. Dated'
    BY <1>1 DEF Sited, Dated, Behind, GenOf, Selections, Lines, Switching, Auditing,
       Restoring
  <2>3. Serving'
    BY <1>1 DEF Sited, Serving, InHand, Switching, Auditing, Restoring
  <2>4. Requested'
    BY <1>1 DEF Requested, Sited, Serving, Restoring
  <2>5. Owned'
    BY <1>1 DEF Sited, Owned, InHand, Blank, Switching, Auditing, Restoring
  <2>6. Drawn'
    BY <1>1 DEF Drawn
  <2>7. InHand'
    BY <1>1 DEF Sited, Owned, InHand, Blank, Switching, Auditing, Restoring
  <2>8. Shown'
    BY <1>1 DEF Sited, Dated, InHand, Shown, Settled, GenOf, Selections, Blank,
       Switching, Auditing, Restoring
  <2> QED  BY <2>1, <2>2, <2>3, <2>4, <2>5, <2>6, <2>7, <2>8
<1>2. ASSUME /\ op.at = "fallback" /\ GoesTo("giveup")
             /\ UNCHANGED <<active, lkg, due, lines, up, starts, activeGen, reqs, safe,
                retained, prepared, observed, current, surface, charOf, live>>
      PROVE  (Sited /\ Dated /\ Serving /\ Requested /\ Owned /\ Drawn /\ InHand /\ Shown)'
  <2>1. Sited'
    BY <1>2 DEF Sited, Switching, Auditing, Restoring, GoesTo
  <2>2. Dated'
    BY <1>2 DEF Sited, Dated, Behind, GenOf, Selections, Lines, Switching, Auditing,
       Restoring, GoesTo
  <2>3. Serving'
    BY <1>2 DEF Sited, Serving, InHand, Switching, Auditing, Restoring, GoesTo
  <2>4. Requested'
    BY <1>2 DEF Requested, Sited, Serving, Restoring
  <2>5. Owned'
    BY <1>2 DEF Sited, Owned, InHand, Blank, Switching, Auditing, Restoring, GoesTo
  <2>6. Drawn'
    BY <1>2 DEF Drawn
  <2>7. InHand'
    BY <1>2 DEF Sited, Owned, InHand, Blank, Switching, Auditing, Restoring, GoesTo
  <2>8. Shown'
    BY <1>2 DEF Sited, Dated, InHand, Shown, Settled, GenOf, Selections, Blank,
       Switching, Auditing, Restoring, GoesTo
  <2> QED  BY <2>1, <2>2, <2>3, <2>4, <2>5, <2>6, <2>7, <2>8
<1>3. Blank
  BY DEF Fallback, At, Sited, InHand, Restoring
<1>4. CASE /\ Unused # {} /\ charOf' = [charOf EXCEPT ![Fresh] = Builtin]
           /\ live' = live \cup {Fresh} /\ prepared' = {Fresh}
           /\ op' = [Idle EXCEPT !.kind = "fallback", !.at = "read",
                                !.cand = Fresh, !.old = surface]
  <2>1. Fresh \in Runtimes /\ live' = {Fresh}
    BY <1>3, <1>4, FreshUnused DEF Unused, Blank
  <2>2. op' = [kind |-> "fallback", at |-> "read", req |-> None, cand |-> Fresh,
               old |-> Boot, sel |-> None, row |-> None]
    BY <1>3, <1>4 DEF Idle, Blank
  <2> QED  BY <1>1, <1>3, <1>4, <2>1, <2>2 DEF Fallback, At, db
<1>5. CASE GoTo("giveup") /\ UNCHANGED <<charOf, live, prepared>>
  BY <1>2, <1>5, GoesToSite DEF Fallback, At, Sites, db
<1> QED  BY <1>4, <1>5 DEF Fallback

\* A start that gives up enters safe mode.
LEMMA GiveUpKeeps ==
  ASSUME IInv, GiveUp
  PROVE  (Sited /\ Dated /\ Serving /\ Requested /\ Owned /\ Drawn /\ InHand /\ Shown)'
<1> USE DEF IInv, Typed, StateTyped
<1>1. ASSUME /\ op.at = "giveup"
             /\ retained' = retained \cup ({surface, current} \cap Runtimes)
             /\ op' = Idle /\ surface' = Boot /\ current' = None /\ safe' = TRUE
             /\ UNCHANGED <<active, lkg, due, lines, up, starts, activeGen, requestGen, reqs,
                prepared, observed, charOf, live>>
      PROVE  (Sited /\ Dated /\ Serving /\ Requested /\ Owned /\ Drawn /\ InHand /\ Shown)'
  <2>1. reqs = {}
    BY <1>1 DEF Sited, Serving, OpSet, Kinds, Switching, Auditing
  <2>2. Sited'
    BY <1>1, <2>1 DEF Sited, Switching, Auditing, Restoring, Idle
  <2>3. Dated'
    BY <1>1, <2>1 DEF Sited, Dated, Behind, GenOf, Selections, Lines, Switching,
       Auditing, Restoring, Idle
  <2>4. Serving'
    BY <1>1, <2>1 DEF Sited, Serving, InHand, Switching, Auditing, Restoring, Idle
  <2>5. Requested'
    BY <1>1, <2>1 DEF Requested, Owned, Requests, Idle
  <2>6. Owned'
    BY <1>1, <2>1 DEF Sited, Owned, InHand, Blank, Switching, Auditing, Restoring, Idle
  <2>7. Drawn'
    BY <1>1, <2>1 DEF Drawn
  <2>8. InHand'
    BY <1>1, <2>1 DEF Sited, Owned, InHand, Blank, Switching, Auditing, Restoring, Idle
  <2>9. Shown'
    BY <1>1, <2>1 DEF Sited, Dated, InHand, Shown, Settled, GenOf, Selections, Blank,
       Switching, Auditing, Restoring, Idle
  <2> QED  BY <2>2, <2>3, <2>4, <2>5, <2>6, <2>7, <2>8, <2>9
<1> QED  BY <1>1 DEF GiveUp, At, EnterSafe, Hold, db

\* The end of a start notes ACTIVE for the health observation.
LEMMA ObserveKeeps ==
  ASSUME IInv, Observe
  PROVE  (Sited /\ Dated /\ Serving /\ Requested /\ Owned /\ Drawn /\ InHand /\ Shown)'
<1> USE DEF IInv, Typed, StateTyped
<1>1. ASSUME /\ op.at = "observe" /\ op' = Idle
             /\ UNCHANGED <<active, lkg, due, lines, up, starts, activeGen, requestGen, reqs,
                safe, retained, prepared, current, surface, charOf, live>>
      PROVE  (Sited /\ Dated /\ Serving /\ Requested /\ Owned /\ Drawn /\ InHand /\ Shown)'
  <2>1. Sited'
    BY <1>1 DEF Sited, Switching, Auditing, Restoring, Idle
  <2>2. Dated'
    BY <1>1 DEF Sited, Dated, Behind, GenOf, Selections, Lines, Switching, Auditing,
       Restoring, Idle
  <2>3. Serving'
    BY <1>1 DEF Sited, Serving, InHand, Switching, Auditing, Restoring, Idle
  <2>4. Requested'
    BY <1>1 DEF Requested, Owned, Requests, Idle
  <2>5. Owned'
    BY <1>1 DEF Sited, Owned, InHand, Blank, Switching, Auditing, Restoring, Idle
  <2>6. Drawn'
    BY <1>1 DEF Drawn
  <2>7. InHand'
    BY <1>1 DEF Sited, Owned, InHand, Blank, Switching, Auditing, Restoring, Idle
  <2>8. Shown'
    BY <1>1 DEF Sited, Dated, InHand, Shown, Settled, GenOf, Selections, Blank,
       Switching, Auditing, Restoring, Idle
  <2> QED  BY <2>1, <2>2, <2>3, <2>4, <2>5, <2>6, <2>7, <2>8
<1> QED  BY <1>1 DEF Observe, At, db, screen

\* A checkpoint is of the runtime that is shown.
LEMMA CheckpointBeginKeeps ==
  ASSUME IInv, CheckpointBegin
  PROVE  (Sited /\ Dated /\ Serving /\ Requested /\ Owned /\ Drawn /\ InHand /\ Shown)'
<1> USE DEF IInv, Typed, StateTyped
<1>1. ASSUME /\ op = Idle /\ up /\ active # None /\ ~ safe
             /\ op' = [kind |-> "checkpoint", at |-> "promote", req |-> None, cand |-> None,
                old |-> None, sel |-> active, row |-> None]
             /\ UNCHANGED <<active, lkg, due, lines, up, starts, activeGen, requestGen, reqs,
                safe, retained, prepared, current, surface, charOf, live>>
      PROVE  (Sited /\ Dated /\ Serving /\ Requested /\ Owned /\ Drawn /\ InHand /\ Shown)'
  <2>1. Sited'
    BY <1>1 DEF Sited, Switching, Auditing, Restoring, Idle
  <2>2. Dated'
    BY <1>1 DEF Sited, Dated, Behind, GenOf, Selections, Lines, Switching, Auditing,
       Restoring, Idle
  <2>3. Serving'
    BY <1>1 DEF Sited, Serving, InHand, Switching, Auditing, Restoring, Idle
  <2>4. Requested'
    BY <1>1 DEF Requested, Owned, Requests, Idle
  <2>5. Owned'
    BY <1>1 DEF Sited, Owned, InHand, Blank, Switching, Auditing, Restoring, Idle
  <2>6. Drawn'
    BY <1>1 DEF Drawn
  <2>7. InHand'
    BY <1>1 DEF Sited, Owned, InHand, Blank, Switching, Auditing, Restoring, Idle
  <2>8. Shown'
    BY <1>1 DEF Sited, Dated, InHand, Shown, Settled, GenOf, Selections, Blank,
       Switching, Auditing, Restoring, Idle
  <2> QED  BY <2>1, <2>2, <2>3, <2>4, <2>5, <2>6, <2>7, <2>8
<1>2. ASSUME /\ UNCHANGED <<active, lkg, due, lines, up, starts, activeGen, requestGen, reqs,
                safe, retained, prepared, current, surface, charOf, live, op>>
      PROVE  (Sited /\ Dated /\ Serving /\ Requested /\ Owned /\ Drawn /\ InHand /\ Shown)'
  <2>1. Sited'
    BY <1>2 DEF Sited, Switching, Auditing, Restoring
  <2>2. Dated'
    BY <1>2 DEF Sited, Dated, Behind, GenOf, Selections, Lines, Switching, Auditing,
       Restoring
  <2>3. Serving'
    BY <1>2 DEF Sited, Serving, InHand, Switching, Auditing, Restoring
  <2>4. Requested'
    BY <1>2 DEF Requested, Owned, Requests
  <2>5. Owned'
    BY <1>2 DEF Sited, Owned, InHand, Blank, Switching, Auditing, Restoring
  <2>6. Drawn'
    BY <1>2 DEF Drawn
  <2>7. InHand'
    BY <1>2 DEF Sited, Owned, InHand, Blank, Switching, Auditing, Restoring
  <2>8. Shown'
    BY <1>2 DEF Sited, Dated, InHand, Shown, Settled, GenOf, Selections, Blank,
       Switching, Auditing, Restoring
  <2> QED  BY <2>1, <2>2, <2>3, <2>4, <2>5, <2>6, <2>7, <2>8
<1>3. CASE /\ op' = [Idle EXCEPT !.kind = "checkpoint", !.at = "promote", !.sel = active]
           /\ active = observed
           /\ ~ safe
  BY <1>1, <1>3 DEF CheckpointBegin, Free, Idle, db, screen
<1>4. CASE UNCHANGED op
  BY <1>2, <1>4 DEF CheckpointBegin, db, screen
<1> QED  BY <1>3, <1>4 DEF CheckpointBegin

\* A promotion never passes ACTIVE.
LEMMA PromoteKeeps ==
  ASSUME IInv, Promote
  PROVE  (Sited /\ Dated /\ Serving /\ Requested /\ Owned /\ Drawn /\ InHand /\ Shown)'
<1> USE DEF IInv, Typed, StateTyped
<1>1. ASSUME /\ op.at = "promote" /\ op' = Idle /\ lkg' \in {op.sel, lkg}
             /\ UNCHANGED <<active, due, lines, up, starts, activeGen, requestGen, reqs,
                safe, retained, prepared, observed, current, surface, charOf, live>>
      PROVE  (Sited /\ Dated /\ Serving /\ Requested /\ Owned /\ Drawn /\ InHand /\ Shown)'
  <2>1. Sited'
    BY <1>1 DEF Sited, Switching, Auditing, Restoring, Idle
  <2>2. Dated'
    BY <1>1 DEF Sited, Dated, Behind, GenOf, Selections, Lines, Switching, Auditing,
       Restoring, Idle
  <2>3. Serving'
    BY <1>1 DEF Sited, Serving, InHand, Switching, Auditing, Restoring, Idle
  <2>4. Requested'
    BY <1>1 DEF Requested, Owned, Requests, Idle
  <2>5. Owned'
    BY <1>1 DEF Sited, Owned, InHand, Blank, Switching, Auditing, Restoring, Idle
  <2>6. Drawn'
    BY <1>1 DEF Drawn
  <2>7. InHand'
    BY <1>1 DEF Sited, Owned, InHand, Blank, Switching, Auditing, Restoring, Idle
  <2>8. Shown'
    BY <1>1 DEF Sited, Dated, InHand, Shown, Settled, GenOf, Selections, Blank,
       Switching, Auditing, Restoring, Idle
  <2> QED  BY <2>1, <2>2, <2>3, <2>4, <2>5, <2>6, <2>7, <2>8
<1> QED  BY <1>1 DEF Promote, At, memory, screen

\* A start finds what the last one left on the disk.
LEMMA StartKeeps ==
  ASSUME IInv, Start
  PROVE  (Sited /\ Dated /\ Serving /\ Requested /\ Owned /\ Drawn /\ InHand /\ Shown)'
<1> USE DEF IInv, Typed, StateTyped
<1>1. ASSUME /\ ~ up
             /\ up'
             /\ op' = [kind |-> "start", at |-> "drain", req |-> None, cand |-> None,
                old |-> None, sel |-> None, row |-> None]
             /\ UNCHANGED <<active, lkg, due, lines, activeGen, requestGen, reqs, safe,
                retained, prepared, observed, current, surface, charOf, live>>
      PROVE  (Sited /\ Dated /\ Serving /\ Requested /\ Owned /\ Drawn /\ InHand /\ Shown)'
  <2>1. Sited'
    BY <1>1 DEF Sited, Switching, Auditing, Restoring
  <2>2. Dated'
    BY <1>1 DEF Sited, Dated, Behind, GenOf, Selections, Lines, Switching, Auditing,
       Restoring
  <2>3. Serving'
    BY <1>1 DEF Sited, Serving, InHand, Switching, Auditing, Restoring
  <2>4. Requested'
    BY <1>1 DEF Requested, Owned, Requests
  <2>5. Owned'
    BY <1>1 DEF Sited, Owned, InHand, Blank, Switching, Auditing, Restoring
  <2>6. Drawn'
    BY <1>1 DEF Drawn
  <2>7. InHand'
    BY <1>1 DEF Sited, Owned, InHand, Blank, Switching, Auditing, Restoring
  <2>8. Shown'
    BY <1>1 DEF Sited, Dated, InHand, Shown, Settled, GenOf, Selections, Blank,
       Switching, Auditing, Restoring
  <2> QED  BY <2>1, <2>2, <2>3, <2>4, <2>5, <2>6, <2>7, <2>8
<1> QED  BY <1>1 DEF Start, Idle, db, memory, screen

\* A kill leaves the disk as it is.
LEMMA DownKeeps ==
  ASSUME IInv, Down
  PROVE  (Sited /\ Dated /\ Serving /\ Requested /\ Owned /\ Drawn /\ InHand /\ Shown)'
<1> USE DEF IInv, Typed, StateTyped
<1>1. ASSUME /\ ~ up'
             /\ op' = Idle
             /\ Blank'
             /\ reqs' = {}
             /\ safe' = FALSE
             /\ activeGen' = 0
             /\ UNCHANGED <<active, lkg, due, lines, starts>>
      PROVE  (Sited /\ Dated /\ Serving /\ Requested /\ Owned /\ Drawn /\ InHand /\ Shown)'
  <2>1. Sited'
    BY <1>1 DEF Sited, Switching, Auditing, Restoring, Idle
  <2>2. Dated'
    BY <1>1 DEF Sited, Dated, Behind, GenOf, Selections, Lines, Switching, Auditing,
       Restoring, Idle
  <2>3. Serving'
    BY <1>1 DEF Sited, Serving, InHand, Switching, Auditing, Restoring, Idle
  <2>4. Requested'
    BY <1>1 DEF Requested, Owned, Requests, Idle
  <2>5. Owned'
    BY <1>1 DEF Sited, Owned, InHand, Blank, Switching, Auditing, Restoring, Idle
  <2>6. Drawn'
    BY <1>1 DEF Drawn, Blank
  <2>7. InHand'
    BY <1>1 DEF Sited, Owned, InHand, Blank, Switching, Auditing, Restoring, Idle
  <2>8. Shown'
    BY <1>1 DEF Sited, Dated, InHand, Shown, Settled, GenOf, Selections, Blank,
       Switching, Auditing, Restoring, Idle
  <2> QED  BY <2>1, <2>2, <2>3, <2>4, <2>5, <2>6, <2>7, <2>8
<1> QED  BY <1>1 DEF Down, Blank, db

\* The other writer raises the generation and owes the line.
LEMMA OtherWriterKeeps ==
  ASSUME IInv, NEW c \in Characters, OtherWriter(c)
  PROVE  (Sited /\ Dated /\ Serving /\ Requested /\ Owned /\ Drawn /\ InHand /\ Shown)'
<1> USE DEF IInv, Typed, StateTyped
<1>1. ASSUME /\ active' \in Selections /\ active'.gen = GenOf(active) + 1
             /\ UNCHANGED <<lkg, lines, up, starts, activeGen, requestGen, reqs, safe,
                retained, prepared, observed, current, surface, charOf, live, op>>
      PROVE  (Sited /\ Dated /\ Serving /\ Requested /\ Owned /\ Drawn /\ InHand /\ Shown)'
  <2>1. /\ GenOf(active) \in Nat /\ GenOf(active') = GenOf(active) + 1 /\ active' # None
        /\ GenOf(lkg) \in Nat /\ GenOf(op.sel) \in Nat
    BY <1>1 DEF GenOf, Selections, OpSet
  <2>2. /\ Behind(lkg) => GenOf(lkg) < GenOf(active')
        /\ Behind(op.sel) => GenOf(op.sel) < GenOf(active') \/ op.sel = None
    BY <2>1 DEF Behind, GenOf
  <2>3. Sited'
    BY <1>1, <2>1, <2>2 DEF Sited, Switching, Auditing, Restoring
  <2>4. Dated'
    BY <1>1, <2>1, <2>2 DEF Dated, Behind, Lines
  <2>5. Serving'
    BY <1>1, <2>1, <2>2 DEF Sited, Serving, InHand, Switching, Auditing, Restoring
  <2>6. Requested'
    BY <1>1, <2>1, <2>2 DEF Requested, Owned, Requests
  <2>7. Owned'
    BY <1>1, <2>1, <2>2 DEF Sited, Owned, InHand, Blank, Switching, Auditing, Restoring
  <2>8. Drawn'
    BY <1>1, <2>1, <2>2 DEF Drawn
  <2>9. InHand'
    BY <1>1, <2>1, <2>2 DEF Sited, Owned, InHand, Blank, Switching, Auditing, Restoring
  <2>10. Shown'
    BY <1>1, <2>1, <2>2 DEF Sited, Dated, InHand, Shown, Settled, GenOf, Selections,
       Blank, Switching, Auditing, Restoring
  <2> QED  BY <2>3, <2>4, <2>5, <2>6, <2>7, <2>8, <2>9, <2>10
<1>2. GenOf(active) \in Nat
  BY DEF GenOf, Selections
<1>3. [char |-> c, gen |-> GenOf(active) + 1] \in Selections
  BY <1>2 DEF Selections
<1> QED  BY <1>1, <1>3 DEF OtherWriter, WriteActive, memory, screen

-----------------------------------------------------------------------------
(***************************************************************************)
(* The audit, the invariant and the theorems.                              *)
(***************************************************************************)

\* The actions that write neither ACTIVE nor the audit.
Quiet == \/ \E c \in Characters : Request(c)
         \/ \E q \in reqs : Drop(q) \/ Prepare(q) \/ CommitStale(q) \/ CommitBegin(q)
         \/ ReadPrevious \/ Swap \/ CommitLost \/ AuthorityUnknown \/ ReadbackCommitted
         \/ ReadbackEmpty \/ RenderAuthoritative \/ AuthorityUnrenderable
         \/ StartStep \/ HealthStep \/ Start \/ Down

\* A step that touches neither slot nor journal.
LEMMA QuietStep == ASSUME Quiet PROVE UNCHANGED <<active, due, lines>>
<1> USE DEF db
<1>1. ASSUME NEW c \in Characters, Request(c) PROVE UNCHANGED <<active, due, lines>>
  BY <1>1 DEF Request
<1>2. ASSUME NEW q \in reqs, Drop(q) \/ Prepare(q) \/ CommitStale(q) \/ CommitBegin(q)
      PROVE  UNCHANGED <<active, due, lines>>
  BY <1>2 DEF Drop, Prepare, CommitStale, CommitBegin
<1>3. CASE ReadPrevious \/ Swap \/ CommitLost \/ AuthorityUnknown \/ ReadbackCommitted
  BY <1>3 DEF ReadPrevious, Swap, CommitLost, AuthorityUnknown, ReadbackCommitted
<1>4. CASE ReadbackEmpty \/ RenderAuthoritative \/ AuthorityUnrenderable
  BY <1>4 DEF ReadbackEmpty, RenderAuthoritative, AuthorityUnrenderable
<1>5. CASE StartStep
  BY <1>5 DEF StartStep, BootSwitcher, ReadSlots, RestoreActive, RestoreLkg, Fallback,
              GiveUp, Observe
<1>6. CASE HealthStep \/ Start \/ Down
  BY <1>6 DEF HealthStep, CheckpointBegin, Promote, Start, Down
<1> QED  BY <1>1, <1>2, <1>3, <1>4, <1>5, <1>6 DEF Quiet

\* What a commit writes is the next generation, and it is due at once.
LEMMA CommitWrites ==
  ASSUME IInv, CommitWon \/ CommitIndeterminate
  PROVE  /\ op.at = "commit" /\ UNCHANGED lines
         /\ \/ UNCHANGED <<active, due>>
            \/ /\ active' \in Selections /\ active'.gen = GenOf(active) + 1
               /\ due' = due \cup {active'.gen}
<1> USE DEF IInv, Typed, StateTyped
<1>1. op.at = "commit" /\ op.at \in Switching
  BY DEF CommitWon, CommitIndeterminate, At, Switching
<1>2. Candidate \in Selections /\ Candidate.gen = activeGen + 1
  BY <1>1, InSwitch, CandidateTyped
<1>3. GenOf(active) \in Nat /\ activeGen <= GenOf(active)
  BY DEF GenOf, Selections, Dated
<1>4. CASE UNCHANGED <<active, due>>
  BY <1>1, <1>4 DEF CommitWon, CommitIndeterminate
<1>5. CASE Wins /\ WriteActive(Candidate)
  <2>1. Candidate.gen = GenOf(active) + 1
    BY <1>2, <1>3, <1>5 DEF Wins
  <2> QED  BY <1>1, <1>2, <1>5, <2>1 DEF CommitWon, CommitIndeterminate, WriteActive
<1> QED  BY <1>4, <1>5 DEF CommitWon, CommitIndeterminate

\* What the other writer leaves in the slot and the ledger.
LEMMA OtherWrites ==
  ASSUME IInv, NEW c \in Characters, OtherWriter(c)
  PROVE  /\ UNCHANGED <<op, lines>>
         /\ active' \in Selections /\ active'.gen = GenOf(active) + 1
         /\ due' = due \cup {active'.gen}
<1>1. GenOf(active) + 1 \in Nat
  BY DEF GenOf, Selections, IInv, Typed, StateTyped
<1>2. [char |-> c, gen |-> GenOf(active) + 1] \in Selections
  BY <1>1 DEF Selections
<1> QED  BY <1>2 DEF OtherWriter, WriteActive

\* A row goes only when its line is in the journal, and a line stays.
LEMMA AuditKeeps ==
  ASSUME IInv, AuditStep
  PROVE  UNCHANGED active /\ due \cup Lines \subseteq due' \cup Lines'
<1> USE DEF IInv, Typed, StateTyped, db
<1>1. CASE DrainNext
  <2> DEFINE rows == due \ {GenOf(op.sel)}
  <2>1. rows # {} => Oldest(rows) \in Nat
    BY OldestOfRows
  <2>2. rows # {} /\ Record(Oldest(rows)) => Lines \subseteq Lines'
    BY <2>1, RecordLines DEF Lines
  <2>3. UNCHANGED lines => Lines' = Lines
    BY DEF Lines
  <2> QED  BY <1>1, <2>2, <2>3 DEF DrainNext
<1>2. CASE DrainDrop
  <2>1. op.row \in Lines /\ Lines' = Lines
    BY <1>2 DEF DrainDrop, At, Dated, Lines
  <2> QED  BY <1>2, <2>1 DEF DrainDrop, Remove
<1>3. CASE Inline
  <2> DEFINE own == IF op.kind = "start" THEN active ELSE op.sel
  <2>1. own # None => own.gen \in Nat
    BY DEF Selections, OpSet
  <2>2. own # None /\ Record(own.gen) => Lines \subseteq Lines'
    BY <2>1, RecordLines DEF Lines
  <2>3. UNCHANGED lines => Lines' = Lines
    BY DEF Lines
  <2> QED  BY <1>3, <2>2, <2>3 DEF Inline
<1>4. CASE Clear
  <2>1. op.sel.gen \in Lines /\ Lines' = Lines
    BY <1>4 DEF Clear, At, Dated, Lines
  <2> QED  BY <1>4, <2>1 DEF Clear, Remove
<1> QED  BY <1>1, <1>2, <1>3, <1>4 DEF AuditStep

\* Every step keeps a line or a due row of each confirmed generation.
LEMMA AuditInv == ASSUME IInv, Next PROVE AuditNeverLost'
<1> USE DEF IInv, Typed, StateTyped
<1>1. GenOf(active) \in Nat
  BY DEF GenOf, Selections
<1>2. UNCHANGED lines => Lines' = Lines
  BY DEF Lines
<1>3. CASE UNCHANGED active /\ due \cup Lines \subseteq due' \cup Lines'
  BY <1>3 DEF AuditNeverLost
<1>4. CASE /\ active' \in Selections /\ active'.gen = GenOf(active) + 1
           /\ due' = due \cup {active'.gen} /\ UNCHANGED lines
  <2>1. GenOf(active') = GenOf(active) + 1
    BY <1>4 DEF GenOf
  <2>2. \A g \in 1 .. GenOf(active') : g \in 1 .. GenOf(active) \/ g = active'.gen
    BY <1>1, <1>4, <2>1
  <2>3. (due \cup Lines)' = due \cup {active'.gen} \cup Lines
    BY <1>2, <1>4
  <2> QED  BY <2>2, <2>3 DEF AuditNeverLost
<1>5. CASE Quiet
  BY <1>2, <1>3, <1>5, QuietStep
<1>6. CASE CommitWon \/ CommitIndeterminate
  BY <1>2, <1>3, <1>4, <1>6, CommitWrites
<1>7. CASE AuditStep
  BY <1>3, <1>7, AuditKeeps
<1>8. ASSUME NEW c \in Characters, OtherWriter(c) PROVE AuditNeverLost'
  BY <1>4, <1>8, OtherWrites
<1> QED  BY <1>5, <1>6, <1>7, <1>8 DEF Next, User, SwitchStep, Quiet

\* The first start satisfies the invariant.
LEMMA InitInv == Init => IInv
<1> SUFFICES ASSUME Init PROVE IInv
  OBVIOUS
<1>1. lines = <<>> /\ lines \in Seq(Nat)
  BY DEF Init
<1>2. op \in OpSet /\ op = Idle
  BY IdleOp DEF Init
<1>3. charOf \in [Runtimes -> Characters \cup {None}]
  BY DEF Init
<1>4. Typed
  <2>1. up \in BOOLEAN /\ safe \in BOOLEAN
    BY DEF Init
  <2>2. starts \in 0 .. MaxStarts
    BY DEF Init
  <2> QED  BY <1>1, <1>2, <1>3, <2>1, <2>2 DEF Init, Typed, StateTyped
<1>5. op.at = "idle" /\ op.kind = "none"
  BY <1>2, IdleOp
<1>6. Sited /\ Serving /\ Requested
  BY <1>2, <1>5 DEF Init, Sited, Serving, Requested, Switching, Auditing, Restoring
<1>7. Dated
  BY <1>5 DEF Init, Dated, Behind, GenOf, Auditing
<1>8. Owned /\ Drawn /\ InHand /\ Shown
  BY <1>5 DEF Init, Owned, Drawn, InHand, Blank, Shown, Switching, Auditing
<1>9. AuditNeverLost
  BY DEF Init, AuditNeverLost, GenOf
<1> QED  BY <1>4, <1>6, <1>7, <1>8, <1>9 DEF IInv

\* Every step preserves it.
LEMMA NextInv == IInv /\ Next => IInv'
<1> SUFFICES ASSUME IInv, Next PROVE IInv'
  OBVIOUS
<1>1. AuditNeverLost'
  BY AuditInv
<1>2. Typed'
  BY UserTyped, SwitchStepTyped, AuditStepTyped, StartStepTyped, OtherStepsTyped
     DEF Next, IInv
<1> DEFINE Rest == Sited /\ Dated /\ Serving /\ Requested /\ Owned /\ Drawn /\ InHand /\ Shown
<1>3. ASSUME User PROVE Rest'
  BY <1>3, RequestKeeps, DropKeeps, PrepareKeeps, CommitStaleKeeps, CommitBeginKeeps
     DEF User
<1>4. ASSUME SwitchStep PROVE Rest'
  BY <1>4, ReadPreviousKeeps, SwapKeeps, CommitWonKeeps, CommitLostKeeps,
     CommitIndeterminateKeeps, AuthorityUnknownKeeps, ReadbackCommittedKeeps,
     ReadbackEmptyKeeps, RenderAuthoritativeKeeps, AuthorityUnrenderableKeeps DEF SwitchStep
<1>5. ASSUME AuditStep PROVE Rest'
  BY <1>5, DrainNextKeeps, DrainDropKeeps, InlineKeeps, ClearKeeps DEF AuditStep
<1>6. ASSUME StartStep PROVE Rest'
  BY <1>6, BootSwitcherKeeps, ReadSlotsKeeps, RestoreActiveKeeps, RestoreLkgKeeps,
     FallbackKeeps, GiveUpKeeps, ObserveKeeps DEF StartStep
<1>7. ASSUME HealthStep \/ Start \/ Down PROVE Rest'
  BY <1>7, CheckpointBeginKeeps, PromoteKeeps, StartKeeps, DownKeeps DEF HealthStep
<1>8. ASSUME NEW c \in Characters, OtherWriter(c) PROVE Rest'
  BY <1>8, OtherWriterKeeps
<1>9. Rest'
  BY <1>3, <1>4, <1>5, <1>6, <1>7, <1>8 DEF Next
<1> QED  BY <1>1, <1>2, <1>9 DEF IInv

\* A stuttering step preserves it.
LEMMA StutterInv == IInv /\ UNCHANGED vars => IInv'
<1> SUFFICES ASSUME IInv, UNCHANGED vars PROVE IInv'
  OBVIOUS
<1> USE DEF vars, db, memory, screen
<1>1. Typed' /\ Sited'
  BY DEF IInv, Typed, StateTyped, Sited
<1>2. Dated' /\ AuditNeverLost'
  BY DEF IInv, Dated, Behind, Lines, AuditNeverLost
<1>3. Serving' /\ Requested'
  BY DEF IInv, Serving, Requested
<1>4. Owned' /\ Drawn' /\ InHand'
  BY DEF IInv, Owned, Drawn, InHand, Blank
<1>5. Shown'
  BY DEF IInv, Shown, Settled
<1> QED  BY <1>1, <1>2, <1>3, <1>4, <1>5 DEF IInv

\* The invariant holds in every reachable state.
LEMMA Invariance == Spec => []IInv
<1>1. IInv /\ [Next]_vars => IInv'
  BY NextInv, StutterInv
<1> QED  BY <1>1, InitInv, PTL DEF Spec

\* Every state of the switcher is well typed, whatever fails and whenever the
\* program dies.
THEOREM TypeCorrect == Spec => []TypeOK
<1>1. IInv => TypeOK
  BY DEF IInv, Typed, StateTyped, OpSet, TypeOK
<1> QED  BY <1>1, Invariance, PTL

\* Between handlers the window shows the runtime the switcher calls current, and
\* it draws the persisted ACTIVE character unless another writer has committed
\* since; after a failure that leaves the authority unknown it shows Bootstrap.
THEOREM WindowShowsAuthority == Spec => []ShownIsAuthority
<1>1. IInv => ShownIsAuthority
  BY IdleOp DEF IInv, Shown, Settled, ShownIsAuthority, Free
<1> QED  BY <1>1, Invariance, PTL

\* No cache that is shown or held as a lease is ever released, and none is alive
\* between handlers without an owner that will release it.
THEOREM CachesHaveOwners == Spec => []CachesOwned
<1>1. IInv => ShownCacheLive
  BY DEF IInv, Owned, ShownCacheLive
<1>2. IInv => NoCacheLeak
  BY DEF IInv, Owned, NoCacheLeak
<1> QED  BY <1>1, <1>2, Invariance, PTL DEF CachesOwned

\* The basis of a restore is never ahead of ACTIVE: the checkpoint that writes it
\* has read ACTIVE before, and no later commit can fall behind what it read.
THEOREM LkgFollowsActive == Spec => []LkgBehindActive
<1>1. IInv => LkgBehindActive
  BY DEF IInv, Dated, Behind, LkgBehindActive
<1> QED  BY <1>1, Invariance, PTL

\* No confirmed activation is lost to the audit: whatever write fails, whoever
\* committed it and whenever the program dies, each generation has its line in the
\* journal or its due row in the ledger.
THEOREM ActivationsAudited == Spec => []AuditNeverLost
<1>1. IInv => AuditNeverLost
  BY DEF IInv
<1> QED  BY <1>1, Invariance, PTL

\* ACTIVE moves only forward, and a handler moves it neither in safe mode nor for
\* a request that a newer one has overtaken.
THEOREM LatestWins == Spec => LatestRequestWins
<1> DEFINE Moves == active' # active =>
                      /\ GenOf(active') > GenOf(active)
                      /\ op' # op => /\ ~ safe
                                     /\ op.req # None => \A q \in reqs : q.id <= op.req
<1>1. IInv /\ [Next]_vars => [Moves]_vars
  <2> SUFFICES ASSUME IInv, Next PROVE Moves
    OBVIOUS
  <2>1. GenOf(active) \in Nat
    BY DEF GenOf, Selections, IInv, Typed, StateTyped
  <2>2. active' \in Selections /\ active'.gen = GenOf(active) + 1
          => GenOf(active') > GenOf(active)
    BY <2>1 DEF GenOf
  <2>3. CASE Quiet
    BY <2>3, QuietStep
  <2>4. CASE CommitWon \/ CommitIndeterminate
    <3>1. op.at \in Switching /\ ~ safe
      BY <2>4, CommitWrites, InSwitch DEF Switching
    <3>2. op.req # None => op.req = requestGen
      <4>1. op.kind \in {"switch", "repair", "fallback"}
        BY <3>1, InSwitch
      <4> QED  BY <3>1, <4>1 DEF IInv, Serving
    <3>3. \A q \in reqs : q.id <= requestGen
      BY DEF IInv, Requested
    <3> QED  BY <2>2, <2>4, <3>1, <3>2, <3>3, CommitWrites
  <2>5. CASE AuditStep
    BY <2>5, AuditKeeps
  <2>6. ASSUME NEW c \in Characters, OtherWriter(c) PROVE Moves
    BY <2>2, <2>6, OtherWrites
  <2> QED  BY <2>3, <2>4, <2>5, <2>6 DEF Next, User, SwitchStep, Quiet
<1> QED  BY <1>1, Invariance, PTL DEF Spec, LatestRequestWins

=============================================================================
