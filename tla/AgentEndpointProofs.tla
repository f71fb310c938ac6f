------------------------- MODULE AgentEndpointProofs -------------------------
(***************************************************************************)
(* Theorems about AgentEndpoint, for any number of clients, any size of    *)
(* the replay cache and any cap on a line.  The framing is an invariant of *)
(* each connection by itself; the pipeline is one of the replay cache, the *)
(* keyed executions it remembers and the generations of the content.       *)
(***************************************************************************)
EXTENDS AgentEndpoint, SequenceTheorems, WellFoundedInduction, TLAPS

USE AgentAssumption

Tokens == {Fragment, Legacy} \cup Nat

Connections == [open : BOOLEAN, peer : BOOLEAN, wire : Seq(Tokens), buffer : Seq(Tokens),
                passes : Nat, timer : BOOLEAN, asked : Nat, answered : Seq(Nat)]

\* Of the requests 1..asked, n are answered; the others are in b, each once and
\* in their order.
InTurn(b, n, asked) ==
  /\ n \in Nat /\ asked \in Nat /\ n <= asked
  /\ \A i \in 1..Len(b) : b[i] \in Nat => n < b[i] /\ b[i] <= asked
  /\ \A i, j \in 1..Len(b) : i < j /\ b[i] \in Nat /\ b[j] \in Nat => b[i] < b[j]
  /\ \A k \in Nat : n < k /\ k <= asked => \E i \in 1..Len(b) : b[i] = k

\* Something will come back to what the guard has read and not served.
Revisited(x) ==
  /\ LineEnds(x.buffer) # {} => x.passes > 0
  /\ x.buffer # <<>> => x.passes > 0 \/ x.timer
  /\ x.passes > 0 \/ x.timer \/ x.buffer # <<>> => x.open

\* The invariant of one connection.
Framed(x) ==
  /\ x \in Connections
  /\ InTurn(x.buffer \o x.wire, Len(x.answered), x.asked)
  /\ \A i \in 1..Len(x.answered) : x.answered[i] = i
  /\ Revisited(x)

FrameInv ==
  /\ conn = [c \in Clients |-> conn[c]] /\ sent \in 0..MaxTokens
  /\ \A c \in Clients : Framed(conn[c])

-----------------------------------------------------------------------------
(***************************************************************************)
(* Lemmas about the operators                                              *)
(***************************************************************************)

\* The least number of a set.
LEMMA MinOf ==
  ASSUME NEW S, S \subseteq Nat, S # {}
  PROVE  Min(S) \in S /\ \A x \in S : Min(S) <= x
<1>1. PICK g \in S : \A h \in S : ~ (<<h, g>> \in OpToRel(<, Nat))
  BY WFMin, NatLessThanWellFounded
<1>2. ASSUME NEW h \in S
      PROVE  g <= h
  <2>1. g \in Nat /\ h \in Nat
    OBVIOUS
  <2>2. ~ (h < g)
    BY <1>1, <2>1 DEF OpToRel
  <2> QED  BY <2>1, <2>2
<1> QED  BY <1>1, <1>2 DEF Min

\* What is sent is added at the end of what was not served.
LEMMA AppendedToWire ==
  ASSUME NEW b \in Seq(Tokens), NEW w \in Seq(Tokens), NEW t \in Tokens
  PROVE  b \o Append(w, t) = Append(b \o w, t)
<1>1. Append(w, t) = w \o <<t>> /\ <<t>> \in Seq(Tokens)
  BY AppendIsConcat
<1>2. b \o w \in Seq(Tokens)
  BY ConcatProperties
<1>3. Append(b \o w, t) = (b \o w) \o <<t>>
  BY <1>2, AppendIsConcat
<1> QED  BY <1>1, <1>3, ConcatAssociative

\* A token that is no request changes no turn.
LEMMA TokenInTurn ==
  ASSUME NEW b \in Seq(Tokens), NEW n, NEW asked, InTurn(b, n, asked),
         NEW t \in {Fragment, Legacy}
  PROVE  InTurn(Append(b, t), n, asked)
<1>1. /\ Len(Append(b, t)) = Len(b) + 1 /\ Len(b) \in Nat
      /\ \A i \in 1..Len(b) : Append(b, t)[i] = b[i]
      /\ Append(b, t)[Len(b) + 1] = t /\ t \notin Nat
  BY AppendProperties, LenProperties DEF Tokens
<1>2. \A i \in 1..Len(Append(b, t)) : i \in 1..Len(b) \/ i = Len(b) + 1
  BY <1>1
<1> HIDE DEF Tokens
<1> QED  BY <1>1, <1>2 DEF InTurn

\* A request is the next one.
LEMMA RequestInTurn ==
  ASSUME NEW b \in Seq(Tokens), NEW n, NEW asked, InTurn(b, n, asked)
  PROVE  InTurn(Append(b, asked + 1), n, asked + 1)
<1>1. asked \in Nat /\ n \in Nat /\ n <= asked /\ asked + 1 \in Tokens
  BY DEF InTurn, Tokens
<1>2. /\ Len(Append(b, asked + 1)) = Len(b) + 1 /\ Len(b) \in Nat
      /\ \A i \in 1..Len(b) : Append(b, asked + 1)[i] = b[i]
      /\ Append(b, asked + 1)[Len(b) + 1] = asked + 1
  BY <1>1, AppendProperties, LenProperties
<1>3. \A i \in 1..Len(Append(b, asked + 1)) : i \in 1..Len(b) \/ i = Len(b) + 1
  BY <1>2
<1>4. ASSUME NEW k \in Nat, n < k, k <= asked + 1
      PROVE  \E i \in 1..Len(Append(b, asked + 1)) : Append(b, asked + 1)[i] = k
  <2>1. CASE k = asked + 1
    BY <1>2, <2>1
  <2>2. CASE k <= asked
    BY <1>2, <1>4, <2>2 DEF InTurn
  <2> QED  BY <1>1, <1>4, <2>1, <2>2
<1>5. ASSUME NEW i \in 1..Len(Append(b, asked + 1)), Append(b, asked + 1)[i] \in Nat
      PROVE  n < Append(b, asked + 1)[i] /\ Append(b, asked + 1)[i] <= asked + 1
  BY <1>1, <1>2, <1>3, <1>5 DEF InTurn
<1>6. ASSUME NEW i \in 1..Len(Append(b, asked + 1)), NEW j \in 1..Len(Append(b, asked + 1)),
             i < j, Append(b, asked + 1)[i] \in Nat, Append(b, asked + 1)[j] \in Nat
      PROVE  Append(b, asked + 1)[i] < Append(b, asked + 1)[j]
  <2>1. i \in 1..Len(b)
    BY <1>2, <1>6
  <2>2. CASE j \in 1..Len(b)
    BY <1>2, <1>6, <2>1, <2>2 DEF InTurn
  <2>3. CASE j = Len(b) + 1
    BY <1>1, <1>2, <1>6, <2>1, <2>3 DEF InTurn
  <2> QED  BY <1>3, <2>2, <2>3
<1>7. asked + 1 \in Nat /\ n <= asked + 1
  BY <1>1
<1> QED  BY <1>1, <1>4, <1>5, <1>6, <1>7, SMTT(30) DEF InTurn

\* The first line that is a request is the one whose turn it is, and the rest
\* waits in turn.
LEMMA FirstInTurn ==
  ASSUME NEW b \in Seq(Tokens), NEW n, NEW asked, InTurn(b, n, asked),
         NEW i \in 1..Len(b), b[i] \in Nat, \A j \in 1..Len(b) : j < i => b[j] \notin Nat
  PROVE  /\ b[i] = n + 1
         /\ SubSeq(b, i + 1, Len(b)) \in Seq(Tokens)
         /\ InTurn(SubSeq(b, i + 1, Len(b)), n + 1, asked)
<1> DEFINE r == SubSeq(b, i + 1, Len(b))
<1>1. /\ n \in Nat
      /\ asked \in Nat
      /\ Len(b) \in Nat
      /\ i \in Nat
      /\ n < b[i]
      /\ b[i] <= asked
  BY LenProperties DEF InTurn
<1>2. b[i] = n + 1
  <2>1. PICK p \in 1..Len(b) : b[p] = n + 1
    BY <1>1 DEF InTurn
  <2>2. ~ (p < i)
    BY <1>1, <2>1
  <2>3. ~ (i < p)
    BY <1>1, <2>1 DEF InTurn
  <2> QED  BY <1>1, <2>1, <2>2, <2>3
<1>3. /\ r \in Seq(Tokens) /\ Len(r) = Len(b) - i
      /\ \A j \in 1..Len(r) : j + i \in 1..Len(b) /\ r[j] = b[j + i]
  <2>1. \A j \in i + 1..Len(b) : b[j] \in Tokens
    BY <1>1, ElementOfSeq
  <2>2. i + 1 \in Int /\ Len(b) \in Int
    BY <1>1
  <2>3. /\ r \in Seq(Tokens)
        /\ Len(r) = IF i + 1 <= Len(b) THEN Len(b) - (i + 1) + 1 ELSE 0
        /\ \A j \in 1..Len(b) - (i + 1) + 1 : r[j] = b[(i + 1) + j - 1]
    BY <2>1, <2>2, SubSeqProperties
  <2> HIDE DEF r
  <2>4. Len(r) = Len(b) - i
    BY <1>1, <2>3
  <2>5. ASSUME NEW j \in 1..Len(r)
        PROVE  j + i \in 1..Len(b) /\ r[j] = b[j + i]
    <3>1. j \in 1..Len(b) - (i + 1) + 1 /\ (i + 1) + j - 1 = j + i
      BY <1>1, <2>4
    <3> QED  BY <1>1, <2>3, <3>1
  <2> QED  BY <2>3, <2>4, <2>5
<1> HIDE DEF r
<1>4. \A j \in 1..Len(r) : r[j] \in Nat => n + 1 < r[j] /\ r[j] <= asked
  <2> SUFFICES ASSUME NEW j \in 1..Len(r), r[j] \in Nat
               PROVE  n + 1 < r[j] /\ r[j] <= asked
    OBVIOUS
  <2>1. j + i \in 1..Len(b) /\ r[j] = b[j + i] /\ i < j + i
    BY <1>1, <1>3
  <2>2. b[i] < b[j + i] /\ b[j + i] <= asked
    BY <2>1 DEF InTurn
  <2> QED  BY <1>2, <2>1, <2>2
<1>5. \A j, l \in 1..Len(r) : j < l /\ r[j] \in Nat /\ r[l] \in Nat => r[j] < r[l]
  <2> SUFFICES ASSUME NEW j \in 1..Len(r), NEW l \in 1..Len(r), j < l, r[j] \in Nat, r[l] \in Nat
               PROVE  r[j] < r[l]
    OBVIOUS
  <2>1. /\ j + i \in 1..Len(b) /\ l + i \in 1..Len(b) /\ j + i < l + i
        /\ r[j] = b[j + i] /\ r[l] = b[l + i]
    BY <1>1, <1>3
  <2> QED  BY <2>1 DEF InTurn
<1>6. \A k \in Nat : n + 1 < k /\ k <= asked => \E j \in 1..Len(r) : r[j] = k
  <2> SUFFICES ASSUME NEW k \in Nat, n + 1 < k, k <= asked
               PROVE  \E j \in 1..Len(r) : r[j] = k
    OBVIOUS
  <2>1. PICK p \in 1..Len(b) : b[p] = k
    BY <1>1 DEF InTurn
  <2>2. i < p
    BY <1>1, <1>2, <2>1
  <2>3. p - i \in 1..Len(r) /\ (p - i) + i = p
    BY <1>1, <1>3, <2>2
  <2> QED  BY <1>3, <2>1, <2>3
<1>7. n + 1 \in Nat /\ n + 1 <= asked
  BY <1>1
<1> QED  BY <1>1, <1>2, <1>3, <1>4, <1>5, <1>6, <1>7 DEF InTurn, r

-----------------------------------------------------------------------------
(***************************************************************************)
(* The framing                                                             *)
(***************************************************************************)

\* A connection that is closed, or new, has nothing to serve.
LEMMA FramedClosed == Framed(Closed) /\ Framed(Opened)
<1>1. <<>> \o <<>> = <<>> /\ Len(<<>>) = 0 /\ <<>> \in Seq(Tokens) /\ <<>> \in Seq(Nat)
  BY ConcatEmptySeq, EmptySeq
<1>2. InTurn(<<>>, 0, 0)
  BY <1>1 DEF InTurn
<1>3. Closed \in Connections /\ Opened \in Connections
  BY <1>1 DEF Closed, Opened, Connections
<1>4. LineEnds(<<>>) = {}
  BY DEF LineEnds
<1> QED  BY <1>1, <1>2, <1>3, <1>4 DEF Framed, Revisited, Closed, Opened

\* A piece of a line, or a one-shot command, that arrives.
LEMMA FramedTransmit ==
  ASSUME NEW x, Framed(x), NEW t \in {Fragment, Legacy}
  PROVE  Framed([x EXCEPT !.wire = Append(@, t)])
<1> DEFINE y == [x EXCEPT !.wire = Append(@, t)]
<1>1. x \in Connections /\ t \in Tokens
  BY DEF Framed, Tokens
<1>2. /\ y \in Connections /\ y.wire = Append(x.wire, t) /\ y.buffer = x.buffer
      /\ y.answered = x.answered /\ y.asked = x.asked
      /\ y.passes = x.passes /\ y.timer = x.timer /\ y.open = x.open
  BY <1>1, AppendProperties DEF Connections
<1> HIDE DEF y
<1>3. x.buffer \in Seq(Tokens) /\ x.wire \in Seq(Tokens)
  BY <1>1 DEF Connections
<1>4. y.buffer \o y.wire = Append(x.buffer \o x.wire, t)
  <2>1. x.buffer \o Append(x.wire, t) = Append(x.buffer \o x.wire, t)
    BY <1>1, <1>3, AppendedToWire
  <2> QED  BY <1>2, <2>1, Zenon
<1>5. x.buffer \o x.wire \in Seq(Tokens)
  BY <1>3, ConcatProperties
<1>6. InTurn(y.buffer \o y.wire, Len(y.answered), y.asked)
  BY <1>2, <1>4, <1>5, TokenInTurn DEF Framed
<1> QED  BY <1>2, <1>6 DEF Framed, Revisited, y

\* A request that arrives is the next of its connection.
LEMMA FramedRequest ==
  ASSUME NEW x, Framed(x)
  PROVE  Framed([x EXCEPT !.wire = Append(@, x.asked + 1), !.asked = @ + 1])
<1> DEFINE y == [x EXCEPT !.wire = Append(@, x.asked + 1), !.asked = @ + 1]
<1>1. x \in Connections /\ x.asked \in Nat /\ x.asked + 1 \in Tokens
  BY DEF Framed, Connections, Tokens
<1>2. Append(x.wire, x.asked + 1) \in Seq(Tokens)
  BY <1>1, AppendProperties DEF Connections
<1>3. /\ y \in Connections /\ y.wire = Append(x.wire, x.asked + 1) /\ y.buffer = x.buffer
      /\ y.answered = x.answered /\ y.asked = x.asked + 1
      /\ y.passes = x.passes /\ y.timer = x.timer /\ y.open = x.open
  <2> DEFINE w == Append(x.wire, x.asked + 1)
             n == x.asked + 1
  <2>1. w \in Seq(Tokens) /\ n \in Nat /\ y = [x EXCEPT !.wire = w, !.asked = n]
    BY <1>1, <1>2
  <2> HIDE DEF w, n, y
  <2>2. /\ y \in Connections /\ y.wire = w /\ y.buffer = x.buffer
        /\ y.answered = x.answered /\ y.asked = n
        /\ y.passes = x.passes /\ y.timer = x.timer /\ y.open = x.open
    BY <1>1, <2>1 DEF Connections
  <2> QED  BY <2>2 DEF w, n
<1> HIDE DEF y
<1>4. x.buffer \in Seq(Tokens) /\ x.wire \in Seq(Tokens)
  BY <1>1 DEF Connections
<1>5. y.buffer \o y.wire = Append(x.buffer \o x.wire, x.asked + 1)
  <2>1. x.buffer \o Append(x.wire, x.asked + 1) = Append(x.buffer \o x.wire, x.asked + 1)
    BY <1>1, <1>4, AppendedToWire
  <2> QED  BY <1>3, <2>1, Zenon
<1>6. x.buffer \o x.wire \in Seq(Tokens)
  BY <1>4, ConcatProperties
<1>7. InTurn(y.buffer \o y.wire, Len(y.answered), y.asked)
  <2>1. InTurn(x.buffer \o x.wire, Len(x.answered), x.asked)
    BY DEF Framed
  <2>2. InTurn(Append(x.buffer \o x.wire, x.asked + 1), Len(x.answered), x.asked + 1)
    BY <1>6, <2>1, RequestInTurn
  <2>3. Len(y.answered) = Len(x.answered)
    BY <1>3
  <2> QED  BY <1>3, <1>5, <2>2, <2>3, Zenon
<1> QED  BY <1>3, <1>7 DEF Framed, Revisited, y

\* The client hangs up.
LEMMA FramedHangUp ==
  ASSUME NEW x, Framed(x)
  PROVE  Framed([x EXCEPT !.peer = FALSE])
BY DEF Framed, Revisited, Connections

\* An incomplete line is kept, with its clock running.
LEMMA FramedPartial ==
  ASSUME NEW x, Framed(x), x.open, NEW left \in Nat, LineEnds(x.buffer \o x.wire) = {}
  PROVE  Framed([x EXCEPT !.buffer = x.buffer \o x.wire, !.wire = <<>>,
                          !.timer = TRUE, !.passes = left])
<1> DEFINE b == x.buffer \o x.wire
<1> DEFINE y == [x EXCEPT !.buffer = b, !.wire = <<>>, !.timer = TRUE, !.passes = left]
<1>1. x \in Connections /\ b \in Seq(Tokens) /\ LineEnds(b) = {} /\ <<>> \in Seq(Tokens)
      /\ InTurn(b, Len(x.answered), x.asked)
  BY ConcatProperties DEF Framed, Connections
<1>2. b \o <<>> = b
  BY <1>1, ConcatEmptySeq
<1> HIDE DEF b
<1>3. /\ y \in Connections /\ y.wire = <<>> /\ y.buffer = b
      /\ y.answered = x.answered /\ y.asked = x.asked
      /\ y.passes = left /\ y.timer = TRUE /\ y.open = x.open
  BY <1>1 DEF Connections
<1> HIDE DEF y
<1>4. Framed(y)
  BY <1>1, <1>2, <1>3 DEF Framed, Revisited
<1> QED  BY <1>4 DEF y, b

\* The first line of what was read, and what comes before its end.
LEMMA FirstLine ==
  ASSUME NEW b \in Seq(Tokens), LineEnds(b) # {}
  PROVE  LET i == Min(LineEnds(b)) IN
         /\ i \in 1..Len(b) /\ b[i] # Fragment
         /\ \A k \in 1..Len(b) : k < i => b[k] = Fragment
<1>1. Len(b) \in Nat /\ DOMAIN b = 1..Len(b)
  BY LenProperties
<1>2. LineEnds(b) = {k \in 1..Len(b) : b[k] # Fragment} /\ LineEnds(b) \subseteq Nat
  BY <1>1 DEF LineEnds
<1> DEFINE i == Min(LineEnds(b))
<1>3. i \in LineEnds(b) /\ \A k \in LineEnds(b) : i <= k
  BY <1>2, MinOf
<1> HIDE DEF i
<1>4. i \in 1..Len(b) /\ b[i] # Fragment
  BY <1>2, <1>3
<1>5. ASSUME NEW k \in 1..Len(b), k < i
      PROVE  b[k] = Fragment
  <2>1. k \notin LineEnds(b)
    BY <1>1, <1>3, <1>4, <1>5
  <2> QED  BY <1>2, <2>1
<1> QED  BY <1>4, <1>5 DEF i

\* A remainder has a pass to come.
LEMMA PassScheduled ==
  ASSUME NEW left \in Nat, NEW rest
  PROVE  PassesAfter(left, rest) \in Nat /\ (rest # <<>> => PassesAfter(left, rest) > 0)
BY DEF PassesAfter

\* The first line is served: it is the one whose turn it is, and what follows
\* it waits for a pass.
LEMMA FramedServed ==
  ASSUME NEW x, Framed(x), x.open, NEW left \in Nat,
         NEW b, b = x.buffer \o x.wire, LineEnds(b) # {}, b[Min(LineEnds(b))] # Legacy,
         NEW rest, rest = SubSeq(b, Min(LineEnds(b)) + 1, Len(b))
  PROVE  Framed([x EXCEPT !.buffer = rest, !.wire = <<>>, !.timer = FALSE,
                          !.passes = PassesAfter(left, rest),
                          !.answered = Append(@, b[Min(LineEnds(b))])])
<1> DEFINE i == Min(LineEnds(b))
<1> DEFINE y == [x EXCEPT !.buffer = rest, !.wire = <<>>, !.timer = FALSE,
                          !.passes = PassesAfter(left, rest),
                          !.answered = Append(@, b[i])]
<1>1. /\ x \in Connections /\ b \in Seq(Tokens) /\ <<>> \in Seq(Tokens)
      /\ InTurn(b, Len(x.answered), x.asked) /\ x.answered \in Seq(Nat)
      /\ \A k \in 1..Len(x.answered) : x.answered[k] = k
  BY ConcatProperties DEF Framed, Connections
<1>2. /\ Len(b) \in Nat /\ DOMAIN b = 1..Len(b) /\ Len(x.answered) \in Nat
      /\ \A k \in 1..Len(b) : b[k] \in Tokens
  BY <1>1, LenProperties, ElementOfSeq
<1>3. i \in 1..Len(b) /\ b[i] # Fragment /\ \A k \in 1..Len(b) : k < i => b[k] = Fragment
  BY <1>1, FirstLine
<1> HIDE DEF i
<1>4. /\ i \in 1..Len(b) /\ b[i] \in Nat
      /\ \A k \in 1..Len(b) : k < i => b[k] \notin Nat
  <2>1. b[i] # Legacy /\ b[i] \in Tokens
    BY <1>2, <1>3 DEF i
  <2> QED  BY <1>3, <2>1 DEF Tokens
<1>5. /\ b[i] = Len(x.answered) + 1
      /\ rest \in Seq(Tokens) /\ InTurn(rest, Len(x.answered) + 1, x.asked)
  BY <1>1, <1>4, FirstInTurn DEF i
<1>6. rest \o <<>> = rest
  BY <1>5, ConcatEmptySeq
<1>7. PassesAfter(left, rest) \in Nat /\ (rest # <<>> => PassesAfter(left, rest) > 0)
  BY PassScheduled
<1>8. /\ Append(x.answered, b[i]) \in Seq(Nat)
      /\ Len(Append(x.answered, b[i])) = Len(x.answered) + 1
      /\ \A k \in 1..Len(x.answered) : Append(x.answered, b[i])[k] = x.answered[k]
      /\ Append(x.answered, b[i])[Len(x.answered) + 1] = b[i]
  BY <1>1, <1>4, AppendProperties
<1>9. /\ y \in Connections /\ y.wire = <<>> /\ y.buffer = rest
      /\ y.answered = Append(x.answered, b[i]) /\ y.asked = x.asked
      /\ y.passes = PassesAfter(left, rest) /\ y.timer = FALSE /\ y.open = x.open
  BY <1>1, <1>5, <1>7, <1>8 DEF Connections
<1> HIDE DEF y
<1>10. \A k \in 1..Len(y.answered) : y.answered[k] = k
  BY <1>1, <1>2, <1>5, <1>8, <1>9
<1>11. LineEnds(<<>>) = {}
  <2>1. DOMAIN <<>> = {}
    BY EmptySeq
  <2> QED  BY <2>1 DEF LineEnds
<1>12. Revisited(y)
  BY <1>7, <1>9, <1>11 DEF Revisited
<1>13. InTurn(y.buffer \o y.wire, Len(y.answered), y.asked)
  BY <1>5, <1>6, <1>8, <1>9
<1>14. Framed(y)
  BY <1>9, <1>10, <1>12, <1>13 DEF Framed
<1> QED  BY <1>14 DEF y, i

\* A step that changes one connection.
LEMMA OneConnection ==
  ASSUME FrameInv, NEW c \in Clients, NEW X, Framed(X),
         conn' = [conn EXCEPT ![c] = X], sent' \in 0..MaxTokens
  PROVE  FrameInv'
<1>1. conn' = [d \in Clients |-> IF d = c THEN X ELSE conn[d]]
  BY DEF FrameInv
<1>2. \A d \in Clients : Framed(conn'[d])
  BY <1>1 DEF FrameInv
<1> QED  BY <1>1, <1>2 DEF FrameInv

\* A read keeps the framing of its connection.
LEMMA ReadFramed ==
  ASSUME FrameInv, NEW c \in Clients, NEW left \in Nat, Read(c, left)
  PROVE  FrameInv'
<1> DEFINE x == conn[c]
<1>1. /\ Framed(x) /\ x.open /\ sent' \in 0..MaxTokens /\ x \in Connections
      /\ conn = [d \in Clients |-> conn[d]]
  BY DEF FrameInv, Framed, Read
<1>2. CASE KeepPartial(c, left)
  <2> DEFINE y == [x EXCEPT !.buffer = x.buffer \o x.wire, !.wire = <<>>,
                            !.timer = TRUE, !.passes = left]
  <2>1. Framed(y)
    BY <1>1, <1>2, FramedPartial DEF KeepPartial, Buffered
  <2>2. conn' = [conn EXCEPT ![c] = y]
    BY <1>1, <1>2 DEF KeepPartial, Buffered, Connections
  <2> HIDE DEF x, y
  <2> QED  BY <1>1, <2>1, <2>2, OneConnection
<1>3. CASE DropOversized(c) \/ DropLegacy(c)
  BY <1>1, <1>3, FramedClosed, OneConnection DEF DropOversized, DropLegacy, Drop
<1>4. CASE ServeLine(c, left)
  <2> DEFINE b    == x.buffer \o x.wire
             rest == SubSeq(b, Min(LineEnds(b)) + 1, Len(b))
             y    == [x EXCEPT !.buffer = rest, !.wire = <<>>, !.timer = FALSE,
                               !.passes = PassesAfter(left, rest),
                               !.answered = Append(@, b[Min(LineEnds(b))])]
  <2>1. LineEnds(b) # {} /\ b[Min(LineEnds(b))] # Legacy
    BY <1>4 DEF ServeLine, Buffered
  <2>2. Framed(y)
    BY <1>1, <2>1, FramedServed
  <2>3. conn' = [conn EXCEPT ![c].buffer = rest, ![c].wire = <<>>, ![c].timer = FALSE,
                             ![c].passes = PassesAfter(left, rest),
                             ![c].answered = Append(@, b[Min(LineEnds(b))])]
    BY <1>4 DEF ServeLine, Buffered
  <2> HIDE DEF rest
  <2>4. conn' = [conn EXCEPT ![c] = y]
    BY <1>1, <2>3 DEF Connections
  <2> HIDE DEF x, y
  <2> QED  BY <1>1, <2>2, <2>4, OneConnection
<1> QED  BY <1>2, <1>3, <1>4 DEF Read

\* Every step keeps the framing of every connection.
LEMMA FramedNext == FrameInv /\ [Next]_vars => FrameInv'
<1> SUFFICES ASSUME FrameInv, [Next]_vars
             PROVE  FrameInv'
  OBVIOUS
<1>1. ASSUME NEW c \in Clients
      PROVE  /\ Framed(conn[c]) /\ conn[c] \in Connections /\ conn[c].passes \in Nat
             /\ conn = [d \in Clients |-> conn[d]] /\ sent \in 0..MaxTokens
  BY DEF FrameInv, Framed, Connections
<1>2. CASE UNCHANGED <<conn, sent>>
  BY <1>2 DEF FrameInv
<1>3. CASE Exit
  BY <1>3, FramedClosed DEF Exit, FrameInv
<1>4. ASSUME NEW c \in Clients, Connect(c) \/ LineTimeout(c) \/ Disconnected(c)
      PROVE  FrameInv'
  BY <1>1, <1>4, FramedClosed, OneConnection
     DEF Connect, LineTimeout, Drop, Disconnected
<1>5. ASSUME NEW c \in Clients, NEW t \in {Fragment, Legacy}, Transmit(c, t)
      PROVE  FrameInv'
  <2>1. Framed([conn[c] EXCEPT !.wire = Append(@, t)])
    BY <1>1, FramedTransmit
  <2>2. conn' = [conn EXCEPT ![c] = [conn[c] EXCEPT !.wire = Append(@, t)]]
    BY <1>1, <1>5 DEF Transmit, Connections
  <2>3. sent' \in 0..MaxTokens
    BY <1>1, <1>5 DEF Transmit
  <2> QED  BY <2>1, <2>2, <2>3, OneConnection
<1>6. ASSUME NEW c \in Clients, SendRequest(c)
      PROVE  FrameInv'
  <2> DEFINE y == [conn[c] EXCEPT !.wire = Append(@, conn[c].asked + 1), !.asked = @ + 1]
  <2>1. Framed(y)
    BY <1>1, FramedRequest
  <2>2. conn' = [conn EXCEPT ![c] = y]
    BY <1>1, <1>6 DEF SendRequest, Connections
  <2>3. sent' \in 0..MaxTokens
    BY <1>1, <1>6 DEF SendRequest
  <2> HIDE DEF y
  <2> QED  BY <2>1, <2>2, <2>3, OneConnection
<1>7. ASSUME NEW c \in Clients, HangUp(c)
      PROVE  FrameInv'
  <2>1. Framed([conn[c] EXCEPT !.peer = FALSE])
    BY <1>1, FramedHangUp
  <2>2. conn' = [conn EXCEPT ![c] = [conn[c] EXCEPT !.peer = FALSE]]
    BY <1>1, <1>7 DEF HangUp, Connections
  <2> QED  BY <1>1, <1>7, <2>1, <2>2, OneConnection DEF HangUp
<1>8. ASSUME NEW c \in Clients, ReadyRead(c) \/ NextPass(c)
      PROVE  FrameInv'
  <2>1. PICK left \in Nat : Read(c, left)
    BY <1>1, <1>8 DEF ReadyRead, NextPass
  <2> QED  BY <2>1, ReadFramed
<1>9. CASE Start \/ PageEdit \/ UNCHANGED vars
  BY <1>2, <1>9 DEF Start, PageEdit, vars
<1> QED  BY <1>3, <1>4, <1>5, <1>6, <1>7, <1>8, <1>9
        DEF Next, LoopEvent, SendFragment, SendLegacy

\* No connection at the start.
LEMMA FramedInit == Init => FrameInv
BY FramedClosed DEF Init, FrameInv

\* What the invariant says of a connection is what the property asks.
LEMMA FramedLinesServed == FrameInv => LinesAreServed
<1> SUFFICES ASSUME FrameInv, NEW c \in Clients
             PROVE  /\ Len(conn[c].answered) <= conn[c].asked
                    /\ \A i \in DOMAIN conn[c].answered : conn[c].answered[i] = i
                    /\ LineEnds(conn[c].buffer) # {} => conn[c].passes > 0
                    /\ conn[c].buffer # <<>> => conn[c].passes > 0 \/ conn[c].timer
  BY DEF LinesAreServed, AnsweredInOrder, BufferIsRevisited
<1>1. Framed(conn[c]) /\ conn[c].answered \in Seq(Nat)
  BY DEF FrameInv, Framed, Connections
<1> QED  BY <1>1, LenProperties DEF Framed, InTurn, Revisited

\* Every complete line that reaches the guard gets its answer, one, in its turn,
\* for any number of clients and any cap on a line: the answers of a connection
\* are those to its first requests in their order, a complete line that was read
\* and not served has a pass scheduled, and an incomplete one has a pass or its
\* clock (_read and _on_ready_read of the single instance guard).
THEOREM LinesServed == Spec => []LinesAreServed
<1>1. FrameInv => LinesAreServed
  BY FramedLinesServed
<1> QED  BY FramedInit, FramedNext, <1>1, PTL DEF Spec

-----------------------------------------------------------------------------
(***************************************************************************)
(* The request pipeline                                                    *)
(***************************************************************************)

Entries == [op : Ops, expect : Nat \cup {None}, data : Nat, generation : Nat]
Runs    == [key : Keys, entry : Entries]

\* How many of the n keyed executions the cache remembers.
Window(n) == IF n <= CacheSize THEN n ELSE CacheSize

\* The cache o, ca holds the last executions of rs, each under its key.
Holds(o, ca, rs) ==
  /\ o \in Seq(Keys) /\ rs \in Seq(Runs)
  /\ Len(o) = Window(Len(rs))
  /\ \A i \in 1..Len(o) : o[i] = rs[Len(rs) - Len(o) + i].key
  /\ \A i \in 1..Len(o) : ca[o[i]] = rs[Len(rs) - Len(o) + i].entry
  /\ \A i, j \in 1..Len(o) : o[i] = o[j] => i = j
  /\ DOMAIN ca = {o[i] : i \in 1..Len(o)}

Spaced(rs) == \A i, j \in 1..Len(rs) : i < j /\ rs[i].key = rs[j].key => j - i > CacheSize

\* The generation of a process counts the content it has seen change.
Counted ==
  /\ running \in BOOLEAN /\ content \in 0..MaxEdits
  /\ epochs \in Seq(Nat) /\ Len(epochs) <= MaxStarts
  /\ \A p \in 1..Len(epochs) : epochs[p] <= content
  /\ running => epochs # <<>>
  /\ gen = IF epochs = <<>> THEN 0 ELSE content - epochs[Len(epochs)]

Live == \A c \in Clients : conn[c].open => running

Remembers == Holds(order, cache, ran) /\ Spaced(ran)

\* The answer of the latest step.
Answered ==
  /\ answer.code \in {"none", "OK", "CONFLICT", "UNAVAILABLE"}
  /\ RetryGetsTheFirstAnswer /\ StaleWriteRefused

PipeInv == Counted /\ Live /\ Remembers /\ Answered

\* The keys of a window are those of the executions it covers, and no others.
LEMMA WindowCovers ==
  ASSUME NEW o, NEW ca, NEW rs, Holds(o, ca, rs),
         NEW j \in 1..Len(rs), j > Len(rs) - CacheSize
  PROVE  \E i \in 1..Len(o) : j = Len(rs) - Len(o) + i
<1>1. Len(o) \in Nat /\ Len(rs) \in Nat /\ Len(o) = Window(Len(rs)) /\ CacheSize \in Nat
  BY LenProperties DEF Holds
<1>2. j - (Len(rs) - Len(o)) \in 1..Len(o)
  BY <1>1 DEF Window
<1> QED  BY <1>1, <1>2

\* One more execution pushes the oldest key out when the cache is full.
LEMMA WindowGrows ==
  ASSUME NEW n \in Nat
  PROVE  /\ Window(n) \in Nat /\ Window(n) <= n
         /\ Window(n) + 1 > CacheSize => Window(n + 1) = Window(n)
         /\ ~ (Window(n) + 1 > CacheSize) => Window(n + 1) = Window(n) + 1
BY DEF Window

\* Position i of p is position i + d of o, and its last one is k.
Shifted(p, o, k, d) ==
  /\ p \in Seq(Keys) /\ Len(p) = Len(o) + 1 - d
  /\ \A i \in 1..Len(p) : /\ i + d <= Len(o) + 1
                          /\ i + d <= Len(o) => p[i] = o[i + d]
                          /\ i + d = Len(o) + 1 => p[i] = k

\* rs with one more execution, of k.
Grown(qs, rs, k, entry) ==
  /\ qs \in Seq(Runs) /\ Len(qs) = Len(rs) + 1
  /\ \A i \in 1..Len(rs) : qs[i] = rs[i]
  /\ qs[Len(rs) + 1].key = k /\ qs[Len(rs) + 1].entry = entry

\* da keeps entry under k, and what ca has under the other keys of p.
Kept(da, p, ca, k, entry) ==
  /\ DOMAIN da = {p[i] : i \in 1..Len(p)}
  /\ \A x \in DOMAIN da : da[x] = IF x = k THEN entry ELSE ca[x]

\* The order of the cache after one more key.
LEMMA OrderAfter ==
  ASSUME NEW o \in Seq(Keys), NEW k \in Keys, NEW n \in Nat, Len(o) = Window(n)
  PROVE  LET p == IF Len(Append(o, k)) > CacheSize THEN Tail(Append(o, k))
                                                    ELSE Append(o, k)
         IN  \E d \in {0, 1} : Shifted(p, o, k, d) /\ Len(p) = Window(n + 1)
<1> DEFINE all == Append(o, k)
           p   == IF Len(all) > CacheSize THEN Tail(all) ELSE all
<1>1. /\ all \in Seq(Keys) /\ Len(all) = Len(o) + 1 /\ all[Len(o) + 1] = k
      /\ \A i \in 1..Len(o) : all[i] = o[i]
      /\ Len(o) \in Nat /\ CacheSize \in Nat \ {0}
  BY AppendProperties, LenProperties
<1>2. p = IF Len(all) > CacheSize THEN Tail(all) ELSE all
  OBVIOUS
<1> SUFFICES \E d \in {0, 1} : Shifted(p, o, k, d) /\ Len(p) = Window(n + 1)
  OBVIOUS
<1> HIDE DEF all, p
<1>3. CASE Len(o) + 1 > CacheSize
  <2>1. p = Tail(all) /\ all # <<>>
    BY <1>1, <1>2, <1>3, EmptySeq
  <2>2. p \in Seq(Keys) /\ Len(p) = Len(o) /\ \A i \in 1..Len(p) : p[i] = all[i + 1]
    <3>1. Len(all) - 1 = Len(o)
      BY <1>1
    <3> QED  BY <1>1, <2>1, <3>1, HeadTailProperties
  <2>3. Len(p) = Window(n + 1)
    BY <1>3, <2>2, WindowGrows
  <2>4. ASSUME NEW i \in 1..Len(p)
        PROVE  i + 1 <= Len(o) + 1 /\ (i + 1 <= Len(o) => p[i] = o[i + 1])
               /\ (i + 1 = Len(o) + 1 => p[i] = k)
    <3>1. i \in Nat /\ 1 <= i /\ i <= Len(o) /\ p[i] = all[i + 1]
      BY <1>1, <2>2
    <3>2. i + 1 <= Len(o) => i + 1 \in 1..Len(o)
      BY <1>1, <3>1
    <3> QED  BY <1>1, <3>1, <3>2
  <2>5. 1 \in {0, 1} /\ Len(p) = Len(o) + 1 - 1
    BY <1>1, <2>2
  <2> QED  BY <2>2, <2>3, <2>4, <2>5 DEF Shifted
<1>4. CASE ~ (Len(o) + 1 > CacheSize)
  <2>1. p = all
    BY <1>1, <1>2, <1>4
  <2>2. Len(p) = Window(n + 1)
    BY <1>1, <1>4, <2>1, WindowGrows
  <2>3. ASSUME NEW i \in 1..Len(p)
        PROVE  i + 0 <= Len(o) + 1 /\ (i + 0 <= Len(o) => p[i] = o[i + 0])
               /\ (i + 0 = Len(o) + 1 => p[i] = k)
    BY <1>1, <2>1
  <2>4. 0 \in {0, 1} /\ Len(p) = Len(o) + 1 - 0
    BY <1>1, <2>1
  <2> QED  BY <1>1, <2>1, <2>2, <2>3, <2>4 DEF Shifted
<1> QED  BY <1>3, <1>4

\* The cache after one more execution, of a key it does not hold.
LEMMA Remembered ==
  ASSUME NEW o, NEW ca, NEW rs, Holds(o, ca, rs), Spaced(rs),
         NEW k \in Keys, k \notin DOMAIN ca, NEW entry \in Entries,
         NEW d \in {0, 1}, NEW p, Shifted(p, o, k, d),
         NEW qs, Grown(qs, rs, k, entry), Len(p) = Window(Len(qs)),
         NEW da, Kept(da, p, ca, k, entry)
  PROVE  Holds(p, da, qs) /\ Spaced(qs)
<1>1. /\ Len(o) \in Nat /\ Len(rs) \in Nat /\ Len(p) \in Nat /\ Len(qs) \in Nat
      /\ Len(o) <= Len(rs) /\ CacheSize \in Nat
      /\ Len(p) = Len(o) + 1 - d /\ Len(qs) = Len(rs) + 1 /\ d \in Nat /\ d <= 1
  <2>1. /\ o \in Seq(Keys)
        /\ rs \in Seq(Runs)
        /\ Len(o) = Window(Len(rs))
        /\ CacheSize \in Nat
    BY DEF Holds
  <2>2. p \in Seq(Keys) /\ qs \in Seq(Runs)
        /\ Len(p) = Len(o) + 1 - d /\ Len(qs) = Len(rs) + 1
    BY DEF Shifted, Grown
  <2>3. Len(o) \in Nat /\ Len(rs) \in Nat /\ Len(p) \in Nat /\ Len(qs) \in Nat
    BY <2>1, <2>2, LenProperties
  <2>4. Len(o) <= Len(rs)
    BY <2>1, <2>3, WindowGrows
  <2>5. d \in Nat /\ d <= 1
    OBVIOUS
  <2> QED  BY <2>1, <2>2, <2>3, <2>4, <2>5
<1>2. \A i \in 1..Len(o) :
        /\ o[i] # k /\ o[i] \in DOMAIN ca
        /\ Len(rs) - Len(o) + i \in 1..Len(rs)
        /\ o[i] = rs[Len(rs) - Len(o) + i].key
        /\ ca[o[i]] = rs[Len(rs) - Len(o) + i].entry
  BY <1>1 DEF Holds
<1>3. \A i, j \in 1..Len(o) : o[i] = o[j] => i = j
  BY DEF Holds
<1>4. ASSUME NEW i \in 1..Len(p)
      PROVE  /\ i \in Nat /\ 1 <= i /\ i <= Len(p) /\ i + d \in Nat /\ 1 <= i + d
             /\ \/ i + d \in 1..Len(o) /\ p[i] = o[i + d] /\ da[p[i]] = ca[p[i]]
                \/ i + d = Len(o) + 1 /\ p[i] = k /\ da[p[i]] = entry
  <2>1. i \in Nat /\ 1 <= i /\ i <= Len(p) /\ i + d \in Nat /\ 1 <= i + d
    BY <1>1
  <2>2. /\ i + d <= Len(o) + 1
        /\ i + d <= Len(o) => p[i] = o[i + d]
        /\ i + d = Len(o) + 1 => p[i] = k
    BY DEF Shifted
  <2>3. da[p[i]] = IF p[i] = k THEN entry ELSE ca[p[i]]
    BY DEF Kept
  <2>4. CASE i + d = Len(o) + 1
    BY <2>1, <2>2, <2>3, <2>4
  <2>5. CASE i + d <= Len(o)
    <3>1. i + d \in 1..Len(o)
      BY <1>1, <2>1, <2>5
    <3>2. p[i] = o[i + d] /\ p[i] # k
      BY <1>2, <2>2, <2>5, <3>1
    <3> QED  BY <2>1, <2>3, <3>1, <3>2
  <2> QED  BY <1>1, <2>1, <2>2, <2>4, <2>5
<1>10. \A i \in 1..Len(rs) : qs[i] = rs[i]
  BY DEF Grown
<1>11. qs[Len(rs) + 1].key = k /\ qs[Len(rs) + 1].entry = entry
  BY DEF Grown
<1>12. ASSUME NEW i \in 1..Len(p)
       PROVE  /\ p[i] = qs[Len(qs) - Len(p) + i].key
              /\ da[p[i]] = qs[Len(qs) - Len(p) + i].entry
  <2>1. /\ i \in Nat /\ i + d \in Nat
        /\ Len(qs) - Len(p) + i = Len(rs) - Len(o) + (i + d)
    <3>1. i \in Nat /\ i + d \in Nat
      BY <1>1, <1>4
    <3>2. Len(qs) - Len(p) = Len(rs) - Len(o) + d
      BY <1>1
    <3>3. Len(rs) - Len(o) \in Int
      BY <1>1
    <3> QED  BY <1>1, <3>1, <3>2, <3>3
  <2>2. CASE i + d = Len(o) + 1 /\ p[i] = k /\ da[p[i]] = entry
    <3>1. Len(qs) - Len(p) + i = Len(rs) + 1
      BY <1>1, <2>1, <2>2
    <3> QED  BY <1>11, <2>2, <3>1
  <2>3. CASE i + d \in 1..Len(o) /\ p[i] = o[i + d] /\ da[p[i]] = ca[p[i]]
    <3>1. Len(rs) - Len(o) + (i + d) \in 1..Len(rs)
          /\ p[i] = rs[Len(rs) - Len(o) + (i + d)].key
          /\ da[p[i]] = rs[Len(rs) - Len(o) + (i + d)].entry
      BY <1>2, <2>3
    <3> QED  BY <1>10, <2>1, <3>1
  <2> QED  BY <1>4, <2>2, <2>3
<1>5. ASSUME NEW i \in 1..Len(p), NEW j \in 1..Len(p), p[i] = p[j]
      PROVE  i = j
  <2>1. i \in Nat /\ j \in Nat
    BY <1>4
  <2>2. \/ i + d \in 1..Len(o) /\ p[i] = o[i + d]
        \/ i + d = Len(o) + 1 /\ p[i] = k
    BY <1>4
  <2>3. \/ j + d \in 1..Len(o) /\ p[j] = o[j + d]
        \/ j + d = Len(o) + 1 /\ p[j] = k
    BY <1>4
  <2>4. i + d = j + d
    BY <1>2, <1>3, <1>5, <2>2, <2>3
  <2> QED  BY <1>1, <2>1, <2>4
<1>6. Holds(p, da, qs)
  BY <1>5, <1>12 DEF Holds, Shifted, Grown, Kept
<1>7. ASSUME NEW i \in 1..Len(qs), NEW j \in 1..Len(qs), i < j, qs[i].key = qs[j].key
      PROVE  j - i > CacheSize
  <2>1. i \in Nat /\ j \in Nat /\ 1 <= i /\ i <= Len(rs) /\ j <= Len(rs) + 1
    BY <1>1, <1>7
  <2>2. i \in 1..Len(rs) /\ qs[i] = rs[i]
    BY <1>1, <1>10, <2>1
  <2>3. CASE j <= Len(rs)
    <3>1. j \in 1..Len(rs) /\ qs[j] = rs[j]
      BY <1>1, <1>7, <1>10, <2>1, <2>3
    <3> QED  BY <1>7, <2>2, <3>1 DEF Spaced
  <2>4. CASE j = Len(rs) + 1
    <3>1. rs[i].key = k
      BY <1>7, <1>11, <2>2, <2>4
    <3>2. ASSUME i > Len(rs) - CacheSize
          PROVE  FALSE
      <4>1. PICK n \in 1..Len(o) : i = Len(rs) - Len(o) + n
        BY <2>2, <3>2, WindowCovers
      <4> QED  BY <1>2, <3>1, <4>1
    <3>3. ~ (i > Len(rs) - CacheSize)
      BY <3>2
    <3> QED  BY <1>1, <2>1, <2>4, <3>3
  <2>5. j <= Len(rs) \/ j = Len(rs) + 1
    BY <1>1, <2>1
  <2> QED  BY <2>3, <2>4, <2>5
<1>8. Spaced(qs)
  BY <1>7 DEF Spaced
<1> QED  BY <1>6, <1>8

\* _store_replay after an execution under a key the cache does not hold.
LEMMA StoreReplayRemembers ==
  ASSUME NEW k \in Keys, NEW entry \in Entries, Remembers, k \notin DOMAIN cache,
         StoreReplay(k, entry), ran' = Append(ran, [key |-> k, entry |-> entry])
  PROVE  Remembers'
<1>1. /\ order \in Seq(Keys) /\ ran \in Seq(Runs) /\ Len(ran) \in Nat
      /\ Len(order) = Window(Len(ran)) /\ Holds(order, cache, ran) /\ Spaced(ran)
  BY LenProperties DEF Remembers, Holds
<1>2. order' = IF Len(Append(order, k)) > CacheSize THEN Tail(Append(order, k))
                                                    ELSE Append(order, k)
  BY DEF StoreReplay
<1>3. PICK d \in {0, 1} :
        Shifted(order', order, k, d) /\ Len(order') = Window(Len(ran) + 1)
  <2> DEFINE p == IF Len(Append(order, k)) > CacheSize THEN Tail(Append(order, k))
                                                       ELSE Append(order, k)
  <2>1. \E d \in {0, 1} : Shifted(p, order, k, d) /\ Len(p) = Window(Len(ran) + 1)
    BY <1>1, OrderAfter
  <2>2. order' = p
    BY <1>2
  <2> HIDE DEF p
  <2> QED  BY <2>1, <2>2
<1>4. cache' = [x \in ToSet(order') |-> IF x = k THEN entry ELSE cache[x]]
  BY DEF StoreReplay
<1>5. ToSet(order') = {order'[i] : i \in 1..Len(order')}
  BY <1>3, LenProperties DEF ToSet, Shifted
<1>6. /\ DOMAIN cache' = {order'[i] : i \in 1..Len(order')}
      /\ \A x \in DOMAIN cache' : cache'[x] = IF x = k THEN entry ELSE cache[x]
  BY <1>4, <1>5
<1>7. [key |-> k, entry |-> entry] \in Runs
  BY DEF Runs
<1>8. /\ ran' \in Seq(Runs) /\ Len(ran') = Len(ran) + 1
      /\ ran'[Len(ran) + 1] = [key |-> k, entry |-> entry]
      /\ \A i \in 1..Len(ran) : ran'[i] = ran[i]
  BY <1>1, <1>7, AppendProperties
<1>9. Grown(ran', ran, k, entry)
  BY <1>8 DEF Grown
<1>10. Kept(cache', order', cache, k, entry)
  BY <1>6 DEF Kept
<1>11. Len(order') = Window(Len(ran'))
  BY <1>3, <1>8
<1>12. Holds(order', cache', ran') /\ Spaced(ran')
  BY <1>1, <1>3, <1>9, <1>10, <1>11, Remembered
<1> QED  BY <1>12 DEF Remembers

\* An answer kept is that of the latest execution of its key.
LEMMA HeldIsLatest ==
  ASSUME NEW o, NEW ca, NEW rs, Holds(o, ca, rs), NEW k \in DOMAIN ca
  PROVE  \E i \in 1..Len(rs) :
           /\ rs[i].key = k /\ rs[i].entry = ca[k]
           /\ \A j \in 1..Len(rs) : j > i => rs[j].key # k
<1>1. /\ o \in Seq(Keys) /\ rs \in Seq(Runs) /\ Len(o) \in Nat /\ Len(rs) \in Nat
      /\ Len(o) = Window(Len(rs)) /\ CacheSize \in Nat /\ Len(o) <= Len(rs)
  <2>1. /\ o \in Seq(Keys)
        /\ rs \in Seq(Runs)
        /\ Len(o) = Window(Len(rs))
        /\ CacheSize \in Nat
    BY DEF Holds
  <2>2. Len(o) \in Nat /\ Len(rs) \in Nat
    BY <2>1, LenProperties
  <2> QED  BY <2>1, <2>2 DEF Window
<1>2. PICK n \in 1..Len(o) : o[n] = k
  BY DEF Holds
<1> DEFINE i == Len(rs) - Len(o) + n
<1>3. i \in 1..Len(rs) /\ rs[i].key = k /\ rs[i].entry = ca[k]
  BY <1>1, <1>2 DEF Holds
<1>4. ASSUME NEW j \in 1..Len(rs), j > i, rs[j].key = k
      PROVE  FALSE
  <2> DEFINE m == j - (Len(rs) - Len(o))
  <2>1. m \in 1..Len(o) /\ j = Len(rs) - Len(o) + m /\ m # n
    BY <1>1, <1>4
  <2>2. o[m] = k
    BY <1>4, <2>1 DEF Holds
  <2> QED  BY <1>2, <2>1, <2>2 DEF Holds
<1> QED  BY <1>3, <1>4

\* A generation of a process is the content it stands for, counted from the
\* content the process found.
LEMMA GenerationCounts ==
  ASSUME Counted, NEW t \in Generations
  PROVE  /\ t.gen \in Nat
         /\ t.process = Len(epochs) => t.gen = t.content - epochs[Len(epochs)] /\ t.content \in Nat
<1> DEFINE Final(p) == IF p = Len(epochs) THEN content ELSE epochs[p + 1]
<1>1. PICK p \in DOMAIN epochs : \E v \in epochs[p]..Final(p) :
        t = [process |-> p, gen |-> v - epochs[p], content |-> v]
  BY DEF Generations
<1>2. PICK v \in epochs[p]..Final(p) : t = [process |-> p, gen |-> v - epochs[p], content |-> v]
  BY <1>1
<1>3. epochs[p] \in Nat
  BY ElementOfSeq, LenProperties DEF Counted
<1>4. v \in Int /\ epochs[p] <= v
  BY <1>2
<1> HIDE DEF Final
<1>5. t.process = p /\ t.gen = v - epochs[p] /\ t.content = v
  BY <1>2
<1> QED  BY <1>3, <1>4, <1>5

\* A step that answers nothing claims nothing.
LEMMA SilentAnswered == Silent => Answered'
BY DEF Silent, NoAnswer, Answered, RetryGetsTheFirstAnswer, StaleWriteRefused

\* What a request may expect.
LEMMA RequestTyped ==
  ASSUME Counted, NEW r \in Requests
  PROVE  r.key \in Keys \cup {None} /\ r.op \in Ops /\ r.expect \in Nat \cup {None}
BY GenerationCounts DEF Requests

\* An answer that is given again, and a conflict on its key, change nothing.
LEMMA AgainKeeps ==
  ASSUME Counted, Remembers, NEW r \in Requests, AnswerAgain(r), UNCHANGED running
  PROVE  Counted' /\ Remembers' /\ Answered'
<1>1. UNCHANGED <<todo, replay, history>>
  BY DEF AnswerAgain
<1>2. Counted' /\ Remembers'
  BY <1>1 DEF Counted, Remembers, todo, replay, history
<1>3. CASE SameRequest(r, cache[r.key])
  <2>1. answer' = [of |-> r, code |-> "OK", again |-> TRUE, data |-> cache[r.key].data,
                   generation |-> cache[r.key].generation, base |-> content]
    BY <1>3 DEF AnswerAgain, Succeed
  <2>2. r.key \in DOMAIN cache /\ Holds(order, cache, ran)
    BY DEF AnswerAgain, Remembers
  <2>3. PICK i \in 1..Len(ran) :
          /\ ran[i].key = r.key /\ ran[i].entry = cache[r.key]
          /\ \A j \in 1..Len(ran) : j > i => ran[j].key # r.key
    BY <2>2, HeldIsLatest
  <2>4. DOMAIN ran = 1..Len(ran) /\ ran' = ran
    BY <1>1, <2>2, LenProperties DEF Holds, history
  <2>5. RetryGetsTheFirstAnswer'
    BY <1>3, <2>1, <2>3, <2>4 DEF RetryGetsTheFirstAnswer, SameRequest
  <2>6. StaleWriteRefused'
    BY <2>1 DEF StaleWriteRefused
  <2> QED  BY <1>2, <2>1, <2>5, <2>6 DEF Answered
<1>4. CASE ~ SameRequest(r, cache[r.key])
  <2>1. answer'.code = "CONFLICT" /\ answer'.again = FALSE
    BY <1>4 DEF AnswerAgain, Fail, NoAnswer
  <2> QED  BY <1>2, <2>1 DEF Answered, RetryGetsTheFirstAnswer, StaleWriteRefused
<1> QED  BY <1>3, <1>4

\* A refused request leaves no trace.
LEMMA RefuseKeeps ==
  ASSUME Counted, Remembers, NEW r \in Requests, Refuse(r), UNCHANGED running
  PROVE  Counted' /\ Remembers' /\ Answered'
<1>1. UNCHANGED <<todo, replay, history>>
  BY DEF Refuse
<1>2. Counted' /\ Remembers'
  BY <1>1 DEF Counted, Remembers, todo, replay, history
<1>3. answer'.code \in {"CONFLICT", "UNAVAILABLE"} /\ answer'.again = FALSE
  BY DEF Refuse, Fail, NoAnswer
<1> QED  BY <1>2, <1>3 DEF Answered, RetryGetsTheFirstAnswer, StaleWriteRefused

\* An executed request is counted, and remembered when it has a key.
LEMMA ExecuteKeeps ==
  ASSUME Counted, Remembers, running, NEW r \in Requests, Execute(r), UNCHANGED running
  PROVE  Counted' /\ Remembers' /\ Answered'
<1>1. /\ r.key \in Keys \cup {None} /\ r.op \in Ops /\ r.expect \in Nat \cup {None}
      /\ r.key \notin DOMAIN cache /\ epochs' = epochs
  BY RequestTyped DEF Execute
<1>2. /\ epochs \in Seq(Nat) /\ epochs # <<>> /\ Len(epochs) \in Nat
      /\ epochs[Len(epochs)] \in Nat /\ epochs[Len(epochs)] <= content
      /\ content \in 0..MaxEdits
      /\ gen = content - epochs[Len(epochs)]
      /\ MaxEdits \in Nat
  <2>1. epochs \in Seq(Nat) /\ epochs # <<>> /\ Len(epochs) \in Nat
    BY LenProperties DEF Counted
  <2>2. Len(epochs) \in 1..Len(epochs)
    BY <2>1, EmptySeq
  <2> QED  BY <2>1, <2>2, ElementOfSeq DEF Counted
<1>3. /\ content' \in 0..MaxEdits /\ content <= content'
      /\ gen' = content' - epochs[Len(epochs)] /\ gen' \in Nat
  BY <1>1, <1>2 DEF Execute, Ops
<1>4. Counted'
  <2>1. \A p \in 1..Len(epochs) : epochs[p] <= content'
    <3> SUFFICES ASSUME NEW p \in 1..Len(epochs)
                 PROVE  epochs[p] <= content'
      OBVIOUS
    <3>1. epochs[p] \in Nat /\ epochs[p] <= content
      BY <1>2, ElementOfSeq DEF Counted
    <3> QED  BY <1>2, <1>3, <3>1
  <2> QED  BY <1>1, <1>2, <1>3, <2>1 DEF Counted
<1> DEFINE entry == [op |-> r.op, expect |-> r.expect,
                     data |-> content', generation |-> gen']
<1>5. entry \in Entries
  BY <1>1, <1>3 DEF Entries
<1>6. Remembers'
  <2>1. CASE r.key = None
    BY <2>1 DEF Execute, Remembers, replay
  <2>2. CASE r.key # None
    <3>1. /\ r.key \in Keys /\ StoreReplay(r.key, entry)
          /\ ran' = Append(ran, [key |-> r.key, entry |-> entry])
      BY <1>1, <2>2 DEF Execute
    <3> HIDE DEF entry
    <3> QED  BY <1>1, <1>5, <3>1, StoreReplayRemembers
  <2> QED  BY <2>1, <2>2
<1>7. answer' = [of |-> r, code |-> "OK", again |-> FALSE, data |-> content',
                 generation |-> gen', base |-> content]
  BY DEF Execute, Succeed
<1>8. StaleWriteRefused'
  <2> SUFFICES ASSUME r.expect # None, NEW t \in Generations',
                      t.process = Len(epochs'), t.gen = r.expect
               PROVE  t.content = content
    BY <1>7 DEF StaleWriteRefused
  <2> DEFINE Final(p) == IF p = Len(epochs') THEN content' ELSE epochs'[p + 1]
  <2>1. PICK p \in DOMAIN epochs' : \E v \in epochs'[p]..Final(p) :
          t = [process |-> p, gen |-> v - epochs'[p], content |-> v]
    BY DEF Generations
  <2>2. PICK v \in epochs'[p]..Final(p) :
          t = [process |-> p, gen |-> v - epochs'[p], content |-> v]
    BY <2>1
  <2> HIDE DEF Final
  <2>3. /\ p = Len(epochs) /\ t.gen = v - epochs[Len(epochs)] /\ t.content = v
        /\ v \in Int
    BY <1>1, <2>2
  <2>4. r.expect = gen
    BY DEF Execute, GenerationMatches
  <2>5. v - epochs[Len(epochs)] = content - epochs[Len(epochs)]
    BY <1>2, <2>3, <2>4
  <2>6. v = content
    BY <1>2, <2>3, <2>5
  <2> QED  BY <2>3, <2>6
<1>9. RetryGetsTheFirstAnswer' /\ answer'.code = "OK"
  BY <1>7 DEF RetryGetsTheFirstAnswer
<1> QED  BY <1>4, <1>6, <1>8, <1>9 DEF Answered

\* A read handles a request, or leaves the pipeline alone and answers nothing.
LEMMA ReadHandles ==
  ASSUME NEW c \in Clients, NEW left, Read(c, left)
  PROVE  /\ conn[c].open /\ UNCHANGED running
         /\ Handle \/ (Silent /\ UNCHANGED <<todo, replay, history>>)
BY DEF Read, KeepPartial, DropOversized, DropLegacy, ServeLine, Drop

\* Every step keeps what the pipeline remembers.
LEMMA PipelineNext == PipeInv /\ [Next]_vars => (Counted /\ Remembers /\ Answered)'
<1> SUFFICES ASSUME PipeInv, [Next]_vars
             PROVE  (Counted /\ Remembers /\ Answered)'
  OBVIOUS
<1>1. Counted /\ Remembers /\ Answered /\ Live
  BY DEF PipeInv
<1>2. CASE UNCHANGED vars
  BY <1>1, <1>2
     DEF vars, todo, replay, history, Counted, Remembers, Answered,
         RetryGetsTheFirstAnswer,
         StaleWriteRefused, Generations
<1>3. CASE Start
  <2>1. /\ epochs \in Seq(Nat) /\ content \in 0..MaxEdits /\ content \in Nat
        /\ Len(epochs) \in Nat /\ Len(epochs) < MaxStarts
    BY <1>1, <1>3, LenProperties DEF Counted, Start
  <2>2. /\ epochs' \in Seq(Nat) /\ Len(epochs') = Len(epochs) + 1
        /\ \A p \in 1..Len(epochs) : epochs'[p] = epochs[p]
        /\ epochs'[Len(epochs) + 1] = content /\ epochs' # <<>>
    BY <1>3, <2>1, AppendProperties DEF Start
  <2>3. ASSUME NEW p \in 1..Len(epochs')
        PROVE  epochs'[p] <= content
    <3>1. CASE p \in 1..Len(epochs)
      BY <1>1, <2>2, <3>1 DEF Counted
    <3>2. CASE p = Len(epochs) + 1
      BY <2>1, <2>2, <3>2
    <3> QED  BY <2>1, <2>2, <3>1, <3>2
  <2>4. Counted'
    BY <1>1, <1>3, <2>1, <2>2, <2>3 DEF Counted, Start
  <2>5. /\ order' = <<>> /\ cache' = <<>> /\ ran' = <<>> /\ Window(0) = 0
        /\ <<>> \in Seq(Keys) /\ <<>> \in Seq(Runs) /\ Len(<<>>) = 0
        /\ DOMAIN <<>> = {}
    BY <1>3, EmptySeq DEF Start, Window
  <2>6. Remembers'
    BY <2>5 DEF Remembers, Holds, Spaced
  <2>7. Answered'
    BY <1>3, SilentAnswered DEF Start
  <2> QED  BY <2>4, <2>6, <2>7
<1>4. CASE PageEdit
  <2>1. Remembers' /\ Answered'
    BY <1>1, <1>4, SilentAnswered DEF PageEdit, Remembers, replay, history
  <2>2. /\ epochs \in Seq(Nat) /\ epochs # <<>> /\ Len(epochs) \in Nat /\ epochs' = epochs
        /\ content \in 0..MaxEdits /\ content < MaxEdits
        /\ content' = content + 1 /\ gen' = gen + 1
    BY <1>1, <1>4, LenProperties DEF PageEdit, Counted, history
  <2>3. Len(epochs) \in 1..Len(epochs)
    BY <2>2, EmptySeq
  <2>4. \A p \in 1..Len(epochs) : epochs[p] \in Nat /\ epochs[p] <= content
    BY <1>1, <2>2, ElementOfSeq DEF Counted
  <2>5. gen = content - epochs[Len(epochs)] /\ MaxEdits \in Nat
    BY <1>1, <2>2, AgentAssumption DEF Counted
  <2>6. /\ epochs[Len(epochs)] \in Nat /\ gen' = content' - epochs[Len(epochs)]
        /\ content' \in 0..MaxEdits
    BY <2>2, <2>3, <2>4, <2>5
  <2>7. \A p \in 1..Len(epochs) : epochs[p] <= content'
    BY <2>2, <2>4
  <2> QED  BY <1>1, <1>4, <2>1, <2>2, <2>6, <2>7 DEF PageEdit, Counted
<1>5. ASSUME Silent, UNCHANGED <<todo, replay, history>>, running' \in BOOLEAN,
             running' => running
      PROVE  (Counted /\ Remembers /\ Answered)'
  <2>1. Counted' /\ Remembers'
    BY <1>1, <1>5 DEF Counted, Remembers, todo, replay, history
  <2> QED  BY <1>5, <2>1, SilentAnswered
<1>6. running \in BOOLEAN
  BY <1>1 DEF Counted
<1>7. CASE Exit
  BY <1>5, <1>7 DEF Exit
<1>8. ASSUME NEW c \in Clients,
             \/ Connect(c) \/ SendFragment(c) \/ SendLegacy(c) \/ SendRequest(c)
             \/ HangUp(c) \/ Disconnected(c) \/ LineTimeout(c)
      PROVE  (Counted /\ Remembers /\ Answered)'
  BY <1>5, <1>6, <1>8
     DEF Connect, SendFragment, SendLegacy, Transmit, SendRequest, HangUp, Disconnected,
         LineTimeout, Drop
<1>9. ASSUME NEW c \in Clients, NEW left, Read(c, left)
      PROVE  (Counted /\ Remembers /\ Answered)'
  <2>1. running /\ UNCHANGED running
    BY <1>1, <1>9, ReadHandles DEF Live
  <2>2. CASE Handle
    <3>1. PICK r \in Requests : AnswerAgain(r) \/ Refuse(r) \/ Execute(r)
      BY <2>2 DEF Handle
    <3> QED  BY <1>1, <2>1, <3>1, AgainKeeps, RefuseKeeps, ExecuteKeeps
  <2>3. CASE Silent /\ UNCHANGED <<todo, replay, history>>
    BY <1>5, <1>6, <2>1, <2>3
  <2> QED  BY <1>9, <2>2, <2>3, ReadHandles
<1>10. ASSUME NEW c \in Clients, ReadyRead(c) \/ NextPass(c)
       PROVE  (Counted /\ Remembers /\ Answered)'
  BY <1>9, <1>10 DEF ReadyRead, NextPass
<1> QED  BY <1>2, <1>3, <1>4, <1>7, <1>8, <1>10 DEF Next, LoopEvent

\* A connection lives as long as the program it is to.
LEMMA LiveNext == FrameInv /\ Live /\ [Next]_vars => Live'
<1> SUFFICES ASSUME FrameInv, Live, [Next]_vars
             PROVE  Live'
  OBVIOUS
<1>1. /\ conn = [d \in Clients |-> conn[d]]
      /\ \A d \in Clients : conn[d] \in Connections
  BY DEF FrameInv, Framed
<1>2. CASE UNCHANGED <<running, conn>>
  BY <1>2 DEF Live
<1>3. CASE Start
  BY <1>3 DEF Start, Live
<1>4. CASE Exit
  BY <1>4 DEF Exit, Live, Closed
<1>5. ASSUME NEW c \in Clients, NEW X, conn' = [conn EXCEPT ![c] = X], UNCHANGED running,
             X.open => running
      PROVE  Live'
  <2> SUFFICES ASSUME NEW d \in Clients, conn'[d].open
               PROVE  running
    BY <1>5 DEF Live
  <2>1. conn'[d] = IF d = c THEN X ELSE conn[d]
    BY <1>1, <1>5
  <2> QED  BY <1>5, <2>1 DEF Live
<1>6. ASSUME NEW c \in Clients, Connect(c) \/ Disconnected(c) \/ LineTimeout(c)
      PROVE  Live'
  <2>1. Closed.open = FALSE
    BY DEF Closed
  <2> QED  BY <1>5, <1>6, <2>1 DEF Connect, Disconnected, LineTimeout, Drop
\* A step that touches the fields of an open connection leaves it as open.
<1>7. ASSUME NEW c \in Clients, UNCHANGED running, DOMAIN conn' = Clients,
             \A d \in Clients : conn'[d].open = conn[d].open
      PROVE  Live'
  BY <1>7 DEF Live
<1>8. ASSUME NEW c \in Clients,
             SendFragment(c) \/ SendLegacy(c) \/ SendRequest(c) \/ HangUp(c)
      PROVE  Live'
  <2>1. UNCHANGED running
    BY <1>8 DEF SendFragment, SendLegacy, Transmit, SendRequest, HangUp
  <2>2. SUFFICES ASSUME NEW d \in Clients
                 PROVE  conn'[d].open = conn[d].open
    BY <2>1 DEF Live
  <2>3. conn[d] \in Connections
    BY <1>1
  <2>4. CASE SendFragment(c)
    BY <1>1, <2>3, <2>4 DEF SendFragment, Transmit, Connections
  <2>5. CASE SendLegacy(c)
    BY <1>1, <2>3, <2>5 DEF SendLegacy, Transmit, Connections
  <2>6. CASE SendRequest(c)
    BY <1>1, <2>3, <2>6 DEF SendRequest, Transmit, Connections
  <2>7. CASE HangUp(c)
    BY <1>1, <2>3, <2>7 DEF HangUp, Connections
  <2> QED  BY <1>8, <2>4, <2>5, <2>6, <2>7
<1>9. ASSUME NEW c \in Clients, NEW left, Read(c, left)
      PROVE  Live'
  <2>1. running /\ UNCHANGED running
    BY <1>9 DEF Live, Read
  <2> QED  BY <2>1 DEF Live
<1>10. ASSUME NEW c \in Clients, ReadyRead(c) \/ NextPass(c)
       PROVE  Live'
  BY <1>9, <1>10 DEF ReadyRead, NextPass
<1>11. CASE PageEdit \/ UNCHANGED vars
  BY <1>2, <1>11 DEF PageEdit, vars
<1> QED  BY <1>3, <1>4, <1>6, <1>8, <1>10, <1>11 DEF Next, LoopEvent

\* Nothing is counted or remembered at the start.
LEMMA PipelineInit == Init => PipeInv
<1> SUFFICES ASSUME Init
             PROVE  PipeInv
  OBVIOUS
<1>1. /\ <<>> \in Seq(Keys) /\ <<>> \in Seq(Runs) /\ <<>> \in Seq(Nat)
      /\ Len(<<>>) = 0 /\ DOMAIN <<>> = {} /\ Window(0) = 0
  BY EmptySeq DEF Window
<1>2. Counted
  <2>1. running = FALSE /\ content = 0 /\ gen = 0 /\ epochs = <<>>
    BY DEF Init, todo
  <2>2. \A p \in 1..Len(epochs) : epochs[p] <= content
    BY <1>1, <2>1
  <2>3. 0 \in 0..MaxEdits /\ 0 <= MaxStarts
    BY AgentAssumption
  <2>4. running \in BOOLEAN /\ ~ running /\ content \in 0..MaxEdits
        /\ epochs \in Seq(Nat) /\ Len(epochs) <= MaxStarts
    BY <1>1, <2>1, <2>3
  <2>5. gen = IF epochs = <<>> THEN 0 ELSE content - epochs[Len(epochs)]
    BY <2>1
  <2> QED  BY <2>2, <2>4, <2>5 DEF Counted
<1>3. Remembers
  BY <1>1 DEF Init, Remembers, Holds, Spaced
<1>4. Answered
  BY DEF Init, NoAnswer, Answered, RetryGetsTheFirstAnswer, StaleWriteRefused
<1>5. Live
  BY DEF Init, Live, Closed
<1> QED  BY <1>2, <1>3, <1>4, <1>5 DEF PipeInv

\* The types, from both halves.
LEMMA Typed == FrameInv /\ PipeInv => TypeOK
<1> SUFFICES ASSUME FrameInv, PipeInv
             PROVE  TypeOK
  OBVIOUS
<1>1. /\ Holds(order, cache, ran) /\ order \in Seq(Keys) /\ Len(order) \in Nat
      /\ Len(ran) \in Nat /\ Len(order) = Window(Len(ran)) /\ DOMAIN order = 1..Len(order)
  BY LenProperties DEF PipeInv, Remembers, Holds
<1>2. Len(order) <= CacheSize
  BY <1>1 DEF Window
<1>3. IsInjective(order) /\ Range(order) = DOMAIN cache
  BY <1>1 DEF Holds, IsInjective, Range
<1>4. DOMAIN cache \subseteq Keys
  BY <1>1, ElementOfSeq DEF Holds
<1>5. /\ running \in BOOLEAN /\ content \in 0..MaxEdits /\ Len(epochs) <= MaxStarts
      /\ epochs \in Seq(Nat) /\ \A p \in 1..Len(epochs) : epochs[p] <= content
      /\ gen = IF epochs = <<>> THEN 0 ELSE content - epochs[Len(epochs)]
  BY DEF PipeInv, Counted
<1>6. /\ Len(epochs) \in Nat /\ DOMAIN epochs = 1..Len(epochs)
      /\ \A p \in 1..Len(epochs) : epochs[p] \in 0..content
  BY <1>5, LenProperties, ElementOfSeq
<1>7. epochs \in Seq(0..content)
  BY <1>5, <1>6, SeqDef
<1>8. gen \in 0..content
  <2>1. CASE epochs = <<>>
    BY <1>5, <2>1
  <2>2. CASE epochs # <<>>
    <3>1. Len(epochs) \in 1..Len(epochs)
      BY <1>5, <1>6, <2>2, EmptySeq
    <3> QED  BY <1>5, <1>6, <2>2, <3>1
  <2> QED  BY <2>1, <2>2
<1>9. ASSUME NEW c \in Clients
      PROVE  /\ conn[c].open \in BOOLEAN /\ conn[c].peer \in BOOLEAN
             /\ conn[c].timer \in BOOLEAN /\ conn[c].passes \in Nat
             /\ conn[c].passes > 0 \/ conn[c].timer \/ conn[c].buffer # <<>> => conn[c].open
             /\ \A t \in Range(conn[c].wire) \cup Range(conn[c].buffer) :
                  t \in {Fragment, Legacy} \cup 1..conn[c].asked
  <2> DEFINE b == conn[c].buffer
             w == conn[c].wire
  <2>1. /\ conn[c] \in Connections /\ Revisited(conn[c])
        /\ InTurn(b \o w, Len(conn[c].answered), conn[c].asked)
    BY DEF FrameInv, Framed
  <2>2. b \in Seq(Tokens) /\ w \in Seq(Tokens) /\ conn[c].asked \in Nat
    BY <2>1 DEF Connections
  <2>3. /\ Len(b \o w) = Len(b) + Len(w) /\ b \o w \in Seq(Tokens)
        /\ \A i \in 1..Len(b) + Len(w) : (b \o w)[i] = IF i <= Len(b) THEN b[i]
                                                                    ELSE w[i - Len(b)]
    BY <2>2, ConcatProperties
  <2>4. Len(b) \in Nat /\ Len(w) \in Nat /\ DOMAIN b = 1..Len(b) /\ DOMAIN w = 1..Len(w)
    BY <2>2, LenProperties
  <2> HIDE DEF b, w
  <2>5. ASSUME NEW i \in 1..Len(b \o w)
        PROVE  (b \o w)[i] \in {Fragment, Legacy} \cup 1..conn[c].asked
    <3>1. (b \o w)[i] \in Tokens
      BY <2>3, ElementOfSeq
    <3>2. (b \o w)[i] \in Nat => (b \o w)[i] \in 1..conn[c].asked
      BY <2>1, <2>2 DEF InTurn
    <3> QED  BY <3>1, <3>2 DEF Tokens
  <2>6. ASSUME NEW t \in Range(w)
        PROVE  t \in {Fragment, Legacy} \cup 1..conn[c].asked
    <3>1. PICK j \in 1..Len(w) : t = w[j]
      BY <2>4 DEF Range
    <3>2. /\ j + Len(b) \in 1..Len(b) + Len(w) /\ ~ (j + Len(b) <= Len(b))
          /\ j + Len(b) - Len(b) = j
      BY <2>4
    <3>3. (b \o w)[j + Len(b)] = t
      BY <2>3, <3>1, <3>2
    <3> QED  BY <2>3, <2>5, <3>2, <3>3
  <2>7. ASSUME NEW t \in Range(b)
        PROVE  t \in {Fragment, Legacy} \cup 1..conn[c].asked
    <3>1. PICK j \in 1..Len(b) : t = b[j]
      BY <2>4 DEF Range
    <3>2. j \in 1..Len(b) + Len(w) /\ j <= Len(b)
      BY <2>4
    <3>3. (b \o w)[j] = t
      BY <2>3, <3>1, <3>2
    <3> QED  BY <2>3, <2>5, <3>2, <3>3
  <2>8. \A t \in Range(w) \cup Range(b) : t \in {Fragment, Legacy} \cup 1..conn[c].asked
    BY <2>6, <2>7
  <2> QED  BY <2>1, <2>8 DEF b, w, Revisited, Connections
<1>10. sent \in 0..MaxTokens /\ answer.code \in {"none", "OK", "CONFLICT", "UNAVAILABLE"}
  BY DEF FrameInv, PipeInv, Answered
<1> QED  BY <1>1, <1>2, <1>3, <1>4, <1>5, <1>7, <1>8, <1>9, <1>10 DEF TypeOK

EndpointInv == FrameInv /\ PipeInv

\* Between two events, both halves of the invariant hold.
THEOREM EndpointInvariant == Spec => []EndpointInv
<1>1. Init => EndpointInv
  BY FramedInit, PipelineInit DEF EndpointInv
<1>2. EndpointInv /\ [Next]_vars => EndpointInv'
  BY FramedNext, PipelineNext, LiveNext DEF EndpointInv, PipeInv
<1> QED  BY <1>1, <1>2, PTL DEF Spec

\* Whatever is lost and retried, for any number of clients and of keys and any
\* size of the replay cache: while fewer than CacheSize other keyed requests
\* succeeded since, a retry runs nothing a second time, and what it is answered
\* is the result and the generation of the latest execution of its key
\* (handle_line, _store_replay and _request_fingerprint).
THEOREM RetriesExecuteOnce == Spec => []OneExecution
<1>1. EndpointInv => OneExecution
  <2> SUFFICES ASSUME EndpointInv
               PROVE  OneExecution
    OBVIOUS
  <2>1. TypeOK /\ RetryGetsTheFirstAnswer /\ Spaced(ran)
    BY Typed DEF EndpointInv, PipeInv, Answered, Remembers
  <2>2. DOMAIN ran = 1..Len(ran)
    BY LenProperties DEF EndpointInv, PipeInv, Remembers, Holds
  <2>3. RunsOnceWithinWindow
    BY <2>1, <2>2 DEF RunsOnceWithinWindow, Spaced
  <2> QED  BY <2>1, <2>3 DEF OneExecution
<1> QED  BY <1>1, EndpointInvariant, PTL

\* A request that names the generation it was made against succeeds only on the
\* content that generation stands for in this process, whatever the pages and
\* the other clients changed meanwhile and however often the program was
\* started again (_check_expected_generation).
THEOREM StaleWritesRefused == Spec => []StaleWriteRefused
<1>1. EndpointInv => StaleWriteRefused
  BY DEF EndpointInv, PipeInv, Answered
<1> QED  BY <1>1, EndpointInvariant, PTL
=============================================================================
