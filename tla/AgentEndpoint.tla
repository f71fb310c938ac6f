--------------------------- MODULE AgentEndpoint ---------------------------
(***************************************************************************)
(* The local agent endpoint: the newline framing of single_instance.py on  *)
(* the per-user local server, and the request pipeline of                  *)
(* agent_protocol.py behind it (idempotency keys with a bounded replay     *)
(* cache, the expected generation, the handlers), against a todo content   *)
(* that the pages of the same program change too.                          *)
(*                                                                         *)
(* A request line is one token, its number on the connection; a piece of a *)
(* line sent on its own is a Fragment token before it, so the cap on a     *)
(* line's bytes is a cap on its tokens.  What a request asks for matters   *)
(* only when it is handled and is chosen there.  The content is a version  *)
(* number: a handler changes it, reads it or fails.  Everything but the    *)
(* clients runs on the GUI thread, one event at a time; which pending      *)
(* event comes next is open.                                               *)
(***************************************************************************)
EXTENDS Naturals, FiniteSetsExt, Functions, SequencesExt

CONSTANTS
  Clients,    \* client processes, each with at most one connection
  Keys,       \* idempotency keys
  CacheSize,  \* IDEMPOTENCY_CACHE_SIZE
  LineCap,    \* MAX_LINE_BYTES, in tokens
  MaxTokens,  \* bound on the tokens all clients send
  MaxEdits,   \* bound on the versions of the content
  MaxStarts,  \* bound on starts of the program
  Fragment,   \* a piece of a line, without its newline
  Legacy,     \* a one-shot command line such as show or panel
  None

ASSUME AgentAssumption ==
  /\ None \notin Keys \cup Nat
  /\ Fragment \notin Nat /\ Legacy \notin Nat /\ Fragment # Legacy
  /\ CacheSize \in Nat \ {0} /\ LineCap \in Nat \ {0}
  /\ MaxTokens \in Nat /\ MaxEdits \in Nat /\ MaxStarts \in Nat

Ops == {"write", "read"}

VARIABLES
  running,  \* is the program up
  content,  \* version of the committed todo data
  gen,      \* data_generation of this process
  cache,    \* _replay_cache
  order,    \* _replay_order
  conn,     \* the connection of each client
  sent,     \* tokens sent so far
  epochs,   \* history: the content each start of the program found
  ran,      \* history: the keyed requests this process executed
  answer    \* history: the answer the latest step gave

todo    == <<content, gen>>
replay  == <<cache, order>>
history == <<epochs, ran>>
vars    == <<running, todo, replay, conn, sent, history, answer>>

\* No connection: what the guard keeps of one is gone.
Closed == [open |-> FALSE, peer |-> FALSE, wire |-> <<>>, buffer |-> <<>>,
           passes |-> 0, timer |-> FALSE, asked |-> 0, answered |-> <<>>]
Opened == [Closed EXCEPT !.open = TRUE, !.peer = TRUE]

NoAnswer == [of |-> None, code |-> "none", again |-> FALSE,
             data |-> 0, generation |-> 0, base |-> 0]

TypeOK ==
  /\ running \in BOOLEAN
  /\ epochs \in Seq(0..content) /\ Len(epochs) <= MaxStarts
  /\ content \in 0..MaxEdits /\ gen \in 0..content
  /\ IsInjective(order) /\ Len(order) <= CacheSize /\ Range(order) = DOMAIN cache
  /\ DOMAIN cache \subseteq Keys
  /\ \A c \in Clients :
       /\ conn[c].open \in BOOLEAN /\ conn[c].peer \in BOOLEAN
       /\ conn[c].timer \in BOOLEAN /\ conn[c].passes \in Nat
       /\ conn[c].passes > 0 \/ conn[c].timer \/ conn[c].buffer # <<>> => conn[c].open
       /\ \A t \in Range(conn[c].wire) \cup Range(conn[c].buffer) :
            t \in {Fragment, Legacy} \cup 1..conn[c].asked
  /\ sent \in 0..MaxTokens
  /\ answer.code \in {"none", "OK", "CONFLICT", "UNAVAILABLE"}

Init ==
  /\ running = FALSE /\ epochs = <<>>
  /\ content = 0 /\ gen = 0
  /\ cache = <<>> /\ order = <<>>
  /\ conn = [c \in Clients |-> Closed]
  /\ sent = 0 /\ ran = <<>> /\ answer = NoAnswer

\* Every generation there has been: its process and the content it stood for.
Generations ==
  LET Final(p) == IF p = Len(epochs) THEN content ELSE epochs[p + 1]
  IN  UNION {{[process |-> p, gen |-> v - epochs[p], content |-> v] :
                v \in epochs[p]..Final(p)} : p \in DOMAIN epochs}

\* A step that answers nothing.
Silent == answer' = NoAnswer

(***************************************************************************)
(* The program, its pages and the clients                                  *)
(***************************************************************************)
\* The primary instance listens; its counters and its cache are new.
Start ==
  /\ ~running /\ Len(epochs) < MaxStarts
  /\ running' = TRUE /\ epochs' = Append(epochs, content)
  /\ gen' = 0 /\ cache' = <<>> /\ order' = <<>> /\ ran' = <<>>
  /\ Silent /\ UNCHANGED <<content, conn, sent>>

\* release at a normal exit, or a kill: no connection survives.
Exit ==
  /\ running /\ running' = FALSE
  /\ conn' = [c \in Clients |-> Closed]
  /\ Silent /\ UNCHANGED <<todo, replay, sent, history>>

\* A page of the program commits a change.
PageEdit ==
  /\ running /\ content < MaxEdits
  /\ content' = content + 1 /\ gen' = gen + 1
  /\ Silent /\ UNCHANGED <<running, replay, conn, sent, history>>

Connect(c) ==
  /\ running /\ ~conn[c].open /\ ~conn[c].peer
  /\ conn' = [conn EXCEPT ![c] = Opened]
  /\ Silent /\ UNCHANGED <<running, todo, replay, sent, history>>

Transmit(c, token) ==
  /\ conn[c].peer /\ sent < MaxTokens
  /\ sent' = sent + 1
  /\ conn' = [conn EXCEPT ![c].wire = Append(@, token)]
  /\ Silent /\ UNCHANGED <<running, todo, replay, history>>

SendFragment(c) == Transmit(c, Fragment)
SendLegacy(c)   == Transmit(c, Legacy)

SendRequest(c) ==
  /\ conn[c].peer /\ sent < MaxTokens
  /\ sent' = sent + 1
  /\ conn' = [conn EXCEPT ![c].wire  = Append(@, conn[c].asked + 1),
                          ![c].asked = @ + 1]
  /\ Silent /\ UNCHANGED <<running, todo, replay, history>>

\* A client that has its answer, or timed out waiting for it, hangs up.
HangUp(c) ==
  /\ conn[c].peer
  /\ conn' = [conn EXCEPT ![c].peer = FALSE]
  /\ Silent /\ UNCHANGED <<running, todo, replay, sent, history>>

\* The guard learns of it once everything sent was read.
Disconnected(c) ==
  /\ conn[c].open /\ ~conn[c].peer /\ conn[c].wire = <<>>
  /\ conn' = [conn EXCEPT ![c] = Closed]
  /\ Silent /\ UNCHANGED <<running, todo, replay, sent, history>>

(***************************************************************************)
(* The request pipeline                                                    *)
(***************************************************************************)
\* Mutant: the fingerprint leaves the expected generation out.
SameOperation(r, entry) == r.op = entry.op

\* _request_fingerprint: operation, arguments and expected generation.
SameRequest(r, entry) == r.op = entry.op /\ r.expect = entry.expect

\* Mutant: a generation the content has already left behind is accepted.
NotFromTheFuture(expected) == expected # None => expected <= gen

\* _check_expected_generation
GenerationMatches(expected) == expected # None => expected = gen

\* Mutant: the cache forgets one answer too early.
StoreAndForgetEarly(k, entry) ==
  LET all == Append(order, k)
      o   == IF Len(all) >= CacheSize THEN Tail(all) ELSE all
  IN  /\ order' = o
      /\ cache' = [x \in ToSet(o) |-> IF x = k THEN entry ELSE cache[x]]

\* Mutant: the order forgets the oldest key and the cache keeps it.
StoreLeaky(k, entry) ==
  LET all == Append(order, k)
      o   == IF Len(all) > CacheSize THEN Tail(all) ELSE all
  IN  /\ order' = o
      /\ cache' = [x \in ToSet(all) |-> IF x = k THEN entry ELSE cache[x]]

\* _store_replay
StoreReplay(k, entry) ==
  LET all == Append(order, k)
      o   == IF Len(all) > CacheSize THEN Tail(all) ELSE all
  IN  /\ order' = o
      /\ cache' = [x \in ToSet(o) |-> IF x = k THEN entry ELSE cache[x]]

Succeed(r, again, data, generation) ==
  answer' = [of |-> r, code |-> "OK", again |-> again, data |-> data,
             generation |-> generation, base |-> content]

Fail(code) == answer' = [NoAnswer EXCEPT !.code = code, !.generation = gen]

\* The key is known: its first answer again, or a conflict.
AnswerAgain(r) ==
  /\ r.key \in DOMAIN cache
  /\ IF SameRequest(r, cache[r.key])
     THEN Succeed(r, TRUE, cache[r.key].data, cache[r.key].generation)
     ELSE Fail("CONFLICT")
  /\ UNCHANGED <<todo, replay, history>>

\* A failed handler, or a generation that does not match, leaves no trace.
Refuse(r) ==
  /\ r.key \notin DOMAIN cache
  /\ IF GenerationMatches(r.expect) THEN Fail("UNAVAILABLE") ELSE Fail("CONFLICT")
  /\ UNCHANGED <<todo, replay, history>>

\* The handler runs; its answer is kept under the key, whatever the operation.
Execute(r) ==
  /\ r.key \notin DOMAIN cache /\ GenerationMatches(r.expect)
  /\ r.op = "write" => content < MaxEdits
  /\ content' = IF r.op = "write" THEN content + 1 ELSE content
  /\ gen' = IF r.op = "write" THEN gen + 1 ELSE gen
  /\ Succeed(r, FALSE, content', gen')
  /\ UNCHANGED epochs
  /\ LET entry == [op |-> r.op, expect |-> r.expect,
                   data |-> content', generation |-> gen']
     IN  IF r.key = None THEN UNCHANGED <<replay, ran>>
         ELSE /\ StoreReplay(r.key, entry)
              /\ ran' = Append(ran, [key |-> r.key, entry |-> entry])

\* What a line may ask for; a generation it expects is one there has been.
Requests == [key : Keys \cup {None}, op : Ops,
             expect : {t.gen : t \in Generations} \cup {None}]

\* handle_line: one answer, whatever happens.
Handle == \E r \in Requests : AnswerAgain(r) \/ Refuse(r) \/ Execute(r)

(***************************************************************************)
(* The framing                                                             *)
(***************************************************************************)
\* Mutant: a read forgets what the earlier ones left in the buffer.
LastArrived(c) == conn[c].wire

\* What a read sees: what earlier reads left and what has arrived.
Buffered(c) == conn[c].buffer \o conn[c].wire
LineEnds(s) == {i \in DOMAIN s : s[i] # Fragment}

\* Mutant: the lines after the first wait for more bytes to arrive.
NoMorePasses(left, rest) == left

\* What the read leaves scheduled: another pass over a remainder.
PassesAfter(left, rest) == IF rest = <<>> THEN left ELSE left + 1

\* _abort_connection, and disconnectFromServer after a one-shot command.
Drop(c) ==
  /\ conn' = [conn EXCEPT ![c] = Closed]
  /\ Silent /\ UNCHANGED <<todo, replay, history>>

\* An incomplete line is kept, and its clock starts again.
KeepPartial(c, left) ==
  LET b == Buffered(c) IN
  /\ LineEnds(b) = {} /\ Len(b) <= LineCap
  /\ conn' = [conn EXCEPT ![c].buffer = b, ![c].wire = <<>>,
                          ![c].timer = TRUE, ![c].passes = left]
  /\ Silent /\ UNCHANGED <<todo, replay, history>>

\* A line longer than the cap, complete or not.
DropOversized(c) ==
  LET b == Buffered(c) IN
  /\ IF LineEnds(b) = {} THEN Len(b) > LineCap ELSE Min(LineEnds(b)) > LineCap
  /\ Drop(c)

DropLegacy(c) ==
  LET b == Buffered(c) IN
  /\ LineEnds(b) # {} /\ Min(LineEnds(b)) <= LineCap
  /\ b[Min(LineEnds(b))] = Legacy
  /\ Drop(c)

\* The first line is a request: it is handled and answered at once.
ServeLine(c, left) ==
  LET b == Buffered(c) IN
  /\ LineEnds(b) # {} /\ Min(LineEnds(b)) <= LineCap
  /\ LET i    == Min(LineEnds(b))
         rest == SubSeq(b, i + 1, Len(b))
     IN  /\ b[i] # Legacy
         /\ Handle
         /\ conn' = [conn EXCEPT ![c].buffer = rest, ![c].wire = <<>>,
                                 ![c].timer = FALSE,
                                 ![c].passes = PassesAfter(left, rest),
                                 ![c].answered = Append(@, b[i])]

\* _read: at most one line of what has arrived is served.
Read(c, left) ==
  /\ conn[c].open
  /\ KeepPartial(c, left) \/ DropOversized(c) \/ DropLegacy(c) \/ ServeLine(c, left)
  /\ UNCHANGED <<running, sent>>

ReadyRead(c) == conn[c].wire # <<>> /\ Read(c, conn[c].passes)
NextPass(c)  == conn[c].passes > 0 /\ Read(c, conn[c].passes - 1)

\* The clock of an incomplete line runs out.
LineTimeout(c) ==
  /\ conn[c].timer
  /\ Drop(c)
  /\ UNCHANGED <<running, sent>>

\* One event of the connection's: bytes, a scheduled pass, a timer, its end.
LoopEvent(c) == ReadyRead(c) \/ NextPass(c) \/ LineTimeout(c) \/ Disconnected(c)

Next ==
  \/ Start \/ Exit \/ PageEdit
  \/ \E c \in Clients :
       \/ Connect(c) \/ SendFragment(c) \/ SendLegacy(c) \/ SendRequest(c)
       \/ HangUp(c) \/ LoopEvent(c)

Spec == Init /\ [][Next]_vars

(***************************************************************************)
(* Properties                                                              *)
(***************************************************************************)
\* A key names one execution for as long as the cache reaches back: while
\* fewer than CacheSize other keyed requests succeeded since, a retry on any
\* connection does not run its request a second time.
RunsOnceWithinWindow ==
  \A i, j \in DOMAIN ran : i < j /\ ran[i].key = ran[j].key => j - i > CacheSize

\* A retry gets the result and the generation of the latest execution of its
\* key, and gets them only for the request the key was first used with; what
\* the pages and other clients did meanwhile does not show.
RetryGetsTheFirstAnswer ==
  answer.again =>
    \E i \in DOMAIN ran :
      /\ ran[i].key = answer.of.key
      /\ \A j \in DOMAIN ran : j > i => ran[j].key # ran[i].key
      /\ answer.of.op = ran[i].entry.op /\ answer.of.expect = ran[i].entry.expect
      /\ ran[i].entry.data = answer.data
      /\ ran[i].entry.generation = answer.generation

\* With the types: whatever is lost and retried, a keyed request is one execution.
OneExecution == TypeOK /\ RunsOnceWithinWindow /\ RetryGetsTheFirstAnswer

\* A connection gets one answer for each request line, in the order of the
\* lines, however the bytes arrive and whichever event is next.
AnsweredInOrder ==
  \A c \in Clients :
    /\ Len(conn[c].answered) <= conn[c].asked
    /\ \A i \in DOMAIN conn[c].answered : conn[c].answered[i] = i

\* A write that names the generation it was made against runs only on the
\* content that generation stands for in this process.
StaleWriteRefused ==
  answer.code = "OK" /\ ~answer.again /\ answer.of.expect # None =>
    \A t \in Generations :
      t.process = Len(epochs) /\ t.gen = answer.of.expect => t.content = answer.base

\* Nothing that arrived is left behind without an event that will come back to
\* it: a complete line waits for a scheduled pass, an incomplete one has its
\* clock running or a pass still to come.
BufferIsRevisited ==
  \A c \in Clients :
    /\ LineEnds(conn[c].buffer) # {} => conn[c].passes > 0
    /\ conn[c].buffer # <<>> => conn[c].passes > 0 \/ conn[c].timer

\* Both: every complete line gets its answer, in its turn.
LinesAreServed == AnsweredInOrder /\ BufferIsRevisited
=============================================================================
