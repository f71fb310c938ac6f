------------------------------ MODULE PetProofs ------------------------------
(***************************************************************************)
(* The pet on the desktop: what it performs (PetBehaviour), who states     *)
(* that music plays (MediaBridge), and what runs only while it is to be    *)
(* seen (Presence).                                                        *)
(*                                                                         *)
(* Inv of PetBehaviour is inductive: what the pet performs for its facts   *)
(* is what the facts call for, whatever the facts, characters and modes.   *)
(* Every action changes the pet through SetFact, ClearOwned, Apply or a    *)
(* direct request; each of them keeps a performance sound (Sound), so one  *)
(* lemma for each and one step for each action carry the proof.  The same  *)
(* lemmas are stated once more for the discipline of a meeting: what each  *)
(* of those ways may begin while the meeting goes on.                      *)
(*                                                                         *)
(* BridgeInv is inductive too, for any set of players and any number of    *)
(* rescans in flight: the fact and the snapshot change together, in        *)
(* Project; only the bookkeeping of the rescans is a matter of sequences.  *)
(*                                                                         *)
(* PresenceInv is not: that no gate is open for a hidden pet needs what    *)
(* each gate was set to by the handlers before (GatesAsSet).               *)
(***************************************************************************)
EXTENDS PetBehaviour, MediaBridge, Presence, SequenceTheorems, TLAPS

Pets == [facts : [Facts -> Owners \cup {None}], act : Acts \cup {None},
         by : Ways \cup {None}]

\* A pet whose resolved performance is the one its facts call for.
Sound(s, c, d) ==
  /\ s \in Pets /\ s.act \notin d
  /\ s.by = "resolve" =>
       /\ s.act \in Held(s) \cap c
       /\ \A f \in Held(s) : Precedence[s.act] <= Precedence[f]

\* What the facts of the services and of the todo module have to say.
Honest(facts, own, foc) ==
  /\ facts["meeting"] = "schedule" => own
  /\ ~(facts["work"] = "rhythm" /\ facts["rest"] = "rhythm")
  /\ facts["work"] = "todo" => foc

\* A set of facts has a member that comes first in either order.
LEMMA FirstExists ==
  ASSUME NEW S \in SUBSET Facts, S # {}, NEW order \in {Precedence, FactOrder}
  PROVE  \E f \in S : \A g \in S : order[f] <= order[g]
<1>1. S \subseteq {"meeting", "work", "eat", "exercise", "music", "rest"}
  BY BehaviourAssumption DEF AllFacts, Precedence
<1>2. CASE order = Precedence
  <2>1. CASE "meeting" \in S  BY <1>1, <1>2, <2>1 DEF Precedence
  <2>2. CASE "meeting" \notin S /\ "work" \in S  BY <1>1, <1>2, <2>2 DEF Precedence
  <2>3. CASE S \cap {"meeting", "work"} = {} /\ "eat" \in S
    BY <1>1, <1>2, <2>3 DEF Precedence
  <2>4. CASE S \cap {"meeting", "work", "eat"} = {} /\ "exercise" \in S
    BY <1>1, <1>2, <2>4 DEF Precedence
  <2>5. CASE S \subseteq {"music", "rest"} /\ "music" \in S
    BY <1>2, <2>5 DEF Precedence
  <2>6. CASE S = {"rest"}  BY <1>2, <2>6 DEF Precedence
  <2> QED  BY <1>1, <2>1, <2>2, <2>3, <2>4, <2>5, <2>6
<1>3. CASE order = FactOrder
  <2>1. CASE "work" \in S  BY <1>1, <1>3, <2>1 DEF FactOrder
  <2>2. CASE "work" \notin S /\ "rest" \in S  BY <1>1, <1>3, <2>2 DEF FactOrder
  <2>3. CASE S \cap {"work", "rest"} = {} /\ "eat" \in S
    BY <1>1, <1>3, <2>3 DEF FactOrder
  <2>4. CASE S \cap {"work", "rest", "eat"} = {} /\ "exercise" \in S
    BY <1>1, <1>3, <2>4 DEF FactOrder
  <2>5. CASE S \subseteq {"meeting", "music"} /\ "meeting" \in S
    BY <1>3, <2>5 DEF FactOrder
  <2>6. CASE S = {"music"}  BY <1>3, <2>6 DEF FactOrder
  <2> QED  BY <1>1, <2>1, <2>2, <2>3, <2>4, <2>5, <2>6
<1> QED  BY <1>2, <1>3

\* The first of a set is in it, and nothing in it comes earlier.
LEMMA FirstIsFirst ==
  ASSUME NEW S \in SUBSET Facts, S # {}, NEW order \in {Precedence, FactOrder}
  PROVE  /\ FirstIn(order, S) \in S
         /\ \A g \in S : order[FirstIn(order, S)] <= order[g]
  BY FirstExists DEF FirstIn

\* The services see no current action exactly when no fact holds.
LEMMA NoCurrent ==
  ASSUME NEW s \in Pets, CurrentAction(s) = None
  PROVE  \A f \in Facts : s.facts[f] = None
<1>1. SUFFICES Held(s) = {}  BY <1>1 DEF Held
<1>2. SUFFICES ASSUME Held(s) # {} PROVE FALSE  OBVIOUS
<1>3. CurrentAction(s) \in Facts  BY <1>2, FirstIsFirst DEF Held, CurrentAction
<1> QED  BY <1>3, BehaviourAssumption DEF Acts

\* The bridge leaves a sound pet, with the facts it was given.
LEMMA ApplySound ==
  ASSUME NEW s \in Pets, NEW c \in SUBSET Facts, None \notin disabled
  PROVE  Sound(Apply(s, c), c, disabled) /\ Apply(s, c).facts = s.facts
<1> DEFINE a == Resolve(s, c)
<1>1. Held(s) \in SUBSET Facts  BY DEF Held
<1>2. CASE a \in {None} \cup disabled
  <2>1. Apply(s, c) = Ended(s)  BY <1>2 DEF Apply, Vetoed, Accepted
  <2>2. Ended(s) \in Pets /\ Ended(s).act = None /\ Ended(s).by = None
        /\ Ended(s).facts = s.facts
    BY DEF Ended, Pets
  <2>3. None # "resolve"  BY BehaviourAssumption DEF Ways
  <2> QED  BY <2>1, <2>2, <2>3 DEF Sound
<1>3. CASE a \notin {None} \cup disabled
  <2> DEFINE t == [s EXCEPT !.act = a, !.by = "resolve"]
  <2>1. Apply(s, c) = t  BY <1>3 DEF Apply, Vetoed, Accepted
  <2>2. Held(s) # {} /\ a = FirstIn(Precedence, Held(s)) /\ a \in c
    BY <1>3 DEF Resolve, FirstIn
  <2>3. a \in Held(s) /\ \A g \in Held(s) : Precedence[a] <= Precedence[g]
    BY <1>1, <2>2, FirstIsFirst
  <2>4. a \in Acts  BY <2>3, <1>1, BehaviourAssumption DEF Acts
  <2>5. t \in Pets /\ t.facts = s.facts /\ t.act = a  BY <2>4 DEF Pets, Ways
  <2>6. Held(t) = Held(s)  BY <2>5 DEF Held
  <2> QED  BY <2>1, <2>2, <2>3, <2>5, <2>6, <1>3 DEF Sound
<1> QED  BY <1>2, <1>3

\* A service that states or clears a fact leaves a sound pet, with that one
\* fact changed.
LEMMA SetSound ==
  ASSUME NEW s, Sound(s, caps, disabled), caps \in SUBSET Facts,
         None \notin disabled, NEW f \in Facts, NEW o \in Owners
  PROVE  /\ Sound(SetFact(s, f, o), caps, disabled)
         /\ SetFact(s, f, o).facts = [s.facts EXCEPT ![f] = o]
<1>0. s \in Pets  BY DEF Sound
<1>1. CASE s.facts[f] = o
  <2>1. SetFact(s, f, o) = s  BY <1>1 DEF SetFact
  <2>2. s.facts = [s.facts EXCEPT ![f] = o]  BY <1>0, <1>1 DEF Pets
  <2> QED  BY <2>1, <2>2
<1>2. CASE s.facts[f] # o
  <2> DEFINE t == [s EXCEPT !.facts[f] = o]
  <2>1. t \in Pets /\ t.facts = [s.facts EXCEPT ![f] = o]  BY <1>0 DEF Pets
  <2>2. SetFact(s, f, o) = Apply(t, caps)  BY <1>2 DEF SetFact
  <2> QED  BY <2>1, <2>2, ApplySound
<1> QED  BY <1>1, <1>2

\* A fact is cleared only by its owner.
LEMMA ClearOwnedSound ==
  ASSUME NEW s, Sound(s, caps, disabled), caps \in SUBSET Facts,
         None \notin disabled, NEW f \in Facts, NEW o
  PROVE  /\ Sound(ClearOwned(s, f, o), caps, disabled)
         /\ ClearOwned(s, f, o).facts =
              IF s.facts[f] = o THEN [s.facts EXCEPT ![f] = None] ELSE s.facts
<1>0. s \in Pets  BY DEF Sound
<1>1. CASE s.facts[f] # o
  BY <1>1 DEF ClearOwned
<1>2. CASE s.facts[f] = o
  <2> DEFINE t == [s EXCEPT !.facts[f] = None]
  <2>1. t \in Pets /\ t.facts = [s.facts EXCEPT ![f] = None]  BY <1>0 DEF Pets
  <2>2. ClearOwned(s, f, o) = Apply(t, caps)  BY <1>2 DEF ClearOwned
  <2> QED  BY <2>1, <2>2, <1>2, ApplySound
<1> QED  BY <1>1, <1>2

\* Clearing one fact leaves the others.
LEMMA ClearFactSound ==
  ASSUME NEW s, Sound(s, caps, disabled), caps \in SUBSET Facts,
         None \notin disabled, NEW f \in Facts
  PROVE  /\ Sound(ClearFact(s, f), caps, disabled)
         /\ ClearFact(s, f).facts = [s.facts EXCEPT ![f] = None]
<1>1. ClearFact(s, f) = ClearOwned(s, f, s.facts[f])  BY DEF ClearFact
<1> QED  BY <1>1, ClearOwnedSound

\* A direct request and an end leave a sound pet, with its facts.
LEMMA DirectSound ==
  ASSUME NEW s, Sound(s, caps, disabled), NEW a \in Acts \ disabled,
         NEW w \in {"direct", "once"}
  PROVE  /\ Sound([s EXCEPT !.act = a, !.by = w], caps, disabled)
         /\ [s EXCEPT !.act = a, !.by = w].facts = s.facts
<1> DEFINE t == [s EXCEPT !.act = a, !.by = w]
<1>1. t \in Pets /\ t.act = a /\ t.by = w /\ t.facts = s.facts
  BY DEF Sound, Pets, Ways
<1> QED  BY <1>1 DEF Sound

\* The end of a performance leaves the facts.
LEMMA EndedSound ==
  ASSUME NEW s \in Pets, NEW c, NEW d, None \notin d
  PROVE  Sound(Ended(s), c, d) /\ Ended(s).facts = s.facts
<1>1. Ended(s) \in Pets /\ Ended(s).act = None /\ Ended(s).by = None
      /\ Ended(s).facts = s.facts
  BY DEF Ended, Pets
<1>2. None # "resolve"  BY BehaviourAssumption DEF Ways
<1> QED  BY <1>1, <1>2 DEF Sound

\* Inv, seen as a sound pet with honest facts.
LEMMA InvParts ==
  Inv <=> /\ TypeOK /\ Sound(pet, caps, disabled)
          /\ Honest(pet.facts, fromSchedule, focus)
  BY DEF Inv, TypeOK, Sound, Honest, Pets, ResolvedIsCurrent, DisabledNeverPlayed,
         ScheduleRemembers, RhythmExcludes, FocusIsReal

\* What TypeOK says of the constants' part.
LEMMA Typed ==
  ASSUME TypeOK
  PROVE  caps \in SUBSET Facts /\ None \notin disabled
  BY BehaviourAssumption DEF TypeOK

\* The facts and the owners that the services name.
LEMMA FactNames ==
  /\ {"work", "rest", "meeting"} \subseteq Facts
  /\ {"user", "menu", "schedule", "rhythm", "todo", "audio"} = Owners
  /\ None \notin Owners
  BY BehaviourAssumption DEF Owners

\* The parts of the tick: the pet stays sound and the facts stay honest.
LEMMA RhythmSound ==
  ASSUME Inv, NEW long \in BOOLEAN
  PROVE  /\ Sound(RhythmTick(long).pet, caps, disabled)
         /\ Honest(RhythmTick(long).pet.facts, fromSchedule, focus)
         /\ RhythmTick(long).resume \in {"none", "armed", "due"}
<1>0. /\ TypeOK /\ Sound(pet, caps, disabled) /\ pet \in Pets
      /\ Honest(pet.facts, fromSchedule, focus)
      /\ caps \in SUBSET Facts /\ None \notin disabled
  BY InvParts, Typed DEF Sound
<1> DEFINE current == CurrentAction(pet)
<1>1. CASE input = "active"
  <2> DEFINE rested == IF current = "rest" /\ resume = "due"
                       THEN ClearFact(pet, "rest") ELSE pet
  <2>1. /\ RhythmTick(long).pet = BeginWork(rested, current, long)
        /\ RhythmTick(long).resume \in {"none", "armed", resume}
    BY <1>1 DEF RhythmTick, OnActive
  <2>2. CASE current = None /\ long
    <3>1. rested = pet  BY <2>2, BehaviourAssumption DEF Acts, AllFacts, Precedence
    <3>2. pet.facts["rest"] = None  BY <1>0, <2>2, NoCurrent, FactNames
    <3>3. RhythmTick(long).pet = SetFact(pet, "work", "rhythm")
      BY <2>1, <2>2, <3>1 DEF BeginWork
    <3>4. /\ Sound(SetFact(pet, "work", "rhythm"), caps, disabled)
          /\ SetFact(pet, "work", "rhythm").facts = [pet.facts EXCEPT !["work"] = "rhythm"]
      BY <1>0, SetSound, FactNames
    <3>5. Honest([pet.facts EXCEPT !["work"] = "rhythm"], fromSchedule, focus)
      BY <1>0, <3>2, FactNames DEF Honest, Pets
    <3> QED  BY <1>0, <2>1, <3>3, <3>4, <3>5 DEF TypeOK
  <2>3. CASE ~(current = None /\ long)
    <3>1. RhythmTick(long).pet = rested  BY <2>1, <2>3 DEF BeginWork
    <3>2. /\ Sound(ClearFact(pet, "rest"), caps, disabled)
          /\ ClearFact(pet, "rest").facts = [pet.facts EXCEPT !["rest"] = None]
      BY <1>0, ClearFactSound, FactNames
    <3>3. Honest([pet.facts EXCEPT !["rest"] = None], fromSchedule, focus)
      BY <1>0, FactNames DEF Honest, Pets
    <3> QED  BY <1>0, <2>1, <3>1, <3>2, <3>3 DEF TypeOK
  <2> QED  BY <2>2, <2>3
<1>2. CASE input = "idle"
  <2> DEFINE freed == IF current = "work" THEN ClearFact(pet, "work") ELSE pet
  <2>1. /\ RhythmTick(long).pet = IF long /\ current \in {None, "work"}
                                  THEN SetFact(freed, "rest", "rhythm") ELSE pet
        /\ RhythmTick(long).resume = resume
    BY <1>2 DEF RhythmTick, OnIdle
  <2>2. CASE long /\ current \in {None, "work"}
    <3>1. /\ Sound(freed, caps, disabled) /\ freed \in Pets
          /\ freed.facts["work"] = None
          /\ freed.facts["meeting"] = pet.facts["meeting"]
      <4>1. CASE current = "work"
        <5>1. /\ Sound(ClearFact(pet, "work"), caps, disabled)
              /\ ClearFact(pet, "work").facts = [pet.facts EXCEPT !["work"] = None]
          BY <1>0, ClearFactSound, FactNames
        <5> QED  BY <1>0, <4>1, <5>1, FactNames DEF Sound, Pets
      <4>2. CASE current # "work"
        <5>1. current = None /\ freed = pet  BY <2>2, <4>2
        <5> QED  BY <1>0, <5>1, NoCurrent, FactNames
      <4> QED  BY <4>1, <4>2
    <3>2. /\ Sound(SetFact(freed, "rest", "rhythm"), caps, disabled)
          /\ SetFact(freed, "rest", "rhythm").facts = [freed.facts EXCEPT !["rest"] = "rhythm"]
      BY <1>0, <3>1, SetSound, FactNames
    <3>3. Honest([freed.facts EXCEPT !["rest"] = "rhythm"], fromSchedule, focus)
      BY <1>0, <3>1, FactNames DEF Honest, Pets
    <3> QED  BY <1>0, <2>1, <2>2, <3>2, <3>3 DEF TypeOK
  <2>3. CASE ~(long /\ current \in {None, "work"})
    BY <1>0, <2>1, <2>3 DEF TypeOK
  <2> QED  BY <2>2, <2>3
<1>3. CASE input = "unlinked"
  BY <1>0, <1>3 DEF RhythmTick, TypeOK
<1> QED  BY <1>0, <1>1, <1>2, <1>3 DEF TypeOK

\* The meeting check keeps the pet sound and its own fact honest.
LEMMA MeetingSound ==
  ASSUME TypeOK, NEW s, Sound(s, caps, disabled), Honest(s.facts, fromSchedule, focus)
  PROVE  /\ Sound(CheckMeetingWindows(s).pet, caps, disabled)
         /\ Honest(CheckMeetingWindows(s).pet.facts, CheckMeetingWindows(s).own, focus)
         /\ CheckMeetingWindows(s).own \in BOOLEAN
<1>0. s \in Pets /\ caps \in SUBSET Facts /\ None \notin disabled
      /\ fromSchedule \in BOOLEAN
  BY Typed DEF Sound, TypeOK
<1>1. CASE ~manual /\ window /\ CurrentAction(s) # "meeting"
  <2>1. (fromSchedule \/ s.facts["meeting"] # "schedule") = TRUE  BY Zenon DEF Honest
  <2>2. CheckMeetingWindows(s) = [pet |-> SetFact(s, "meeting", "schedule"), own |-> TRUE]
    BY <1>1, <2>1, Zenon DEF CheckMeetingWindows
  <2>3. /\ Sound(SetFact(s, "meeting", "schedule"), caps, disabled)
        /\ SetFact(s, "meeting", "schedule").facts = [s.facts EXCEPT !["meeting"] = "schedule"]
    BY <1>0, SetSound, FactNames
  <2>4. Honest([s.facts EXCEPT !["meeting"] = "schedule"], TRUE, focus)
    BY <1>0, FactNames DEF Honest, Pets
  <2>5. /\ CheckMeetingWindows(s).pet = SetFact(s, "meeting", "schedule")
        /\ CheckMeetingWindows(s).own = TRUE
    BY <2>2
  <2> QED  BY <2>3, <2>4, <2>5
<1>2. CASE ~manual /\ ~window /\ CurrentAction(s) = "meeting" /\ fromSchedule
  <2>1. CheckMeetingWindows(s) = [pet |-> ClearFact(s, "meeting"), own |-> FALSE]
    BY <1>2 DEF CheckMeetingWindows
  <2>2. /\ Sound(ClearFact(s, "meeting"), caps, disabled)
        /\ ClearFact(s, "meeting").facts = [s.facts EXCEPT !["meeting"] = None]
    BY <1>0, ClearFactSound, FactNames
  <2>3. Honest([s.facts EXCEPT !["meeting"] = None], FALSE, focus)
    BY <1>0, FactNames DEF Honest, Pets
  <2>4. /\ CheckMeetingWindows(s).pet = ClearFact(s, "meeting")
        /\ CheckMeetingWindows(s).own = FALSE
    BY <2>1
  <2> QED  BY <2>2, <2>3, <2>4
<1>3. CASE /\ ~(~manual /\ window /\ CurrentAction(s) # "meeting")
           /\ ~(~manual /\ ~window /\ CurrentAction(s) = "meeting" /\ fromSchedule)
  <2>1. CheckMeetingWindows(s) = [pet |-> s, own |-> fromSchedule]
    BY <1>3 DEF CheckMeetingWindows
  <2> QED  BY <1>0, <2>1
<1> QED  BY <1>1, <1>2, <1>3

\* So do the reminders.
LEMMA RemindSound ==
  ASSUME TypeOK, NEW s, NEW own, Sound(s, caps, disabled), Honest(s.facts, own, focus),
         NEW due \in SUBSET Kinds
  PROVE  /\ Sound(Remind(s, due), caps, disabled)
         /\ Honest(Remind(s, due).facts, own, focus)
<1>0. caps \in SUBSET Facts /\ None \notin disabled  BY Typed
<1> DEFINE eaten == IF "eat" \in due THEN SetFact(s, "eat", "schedule") ELSE s
<1>1. Sound(eaten, caps, disabled) /\ Honest(eaten.facts, own, focus)
  <2>1. CASE "eat" \in due
    <3>1. "eat" \in Facts  BY <2>1, BehaviourAssumption
    <3>2. /\ Sound(eaten, caps, disabled)
          /\ eaten.facts = [s.facts EXCEPT !["eat"] = "schedule"]
      BY <1>0, <2>1, <3>1, SetSound, FactNames
    <3> QED  BY <3>1, <3>2, FactNames DEF Honest, Sound, Pets
  <2> QED  BY <2>1
<1>2. CASE "exercise" \in due
  <2>1. "exercise" \in Facts  BY <1>2, BehaviourAssumption
  <2>2. Remind(s, due) = SetFact(eaten, "exercise", "schedule")  BY <1>2 DEF Remind
  <2>3. /\ Sound(Remind(s, due), caps, disabled)
        /\ Remind(s, due).facts = [eaten.facts EXCEPT !["exercise"] = "schedule"]
    BY <1>0, <1>1, <2>1, <2>2, SetSound, FactNames
  <2> HIDE DEF eaten
  <2> QED  BY <1>1, <2>1, <2>3, FactNames DEF Honest, Sound, Pets
<1>3. CASE "exercise" \notin due
  BY <1>1, <1>3 DEF Remind
<1> QED  BY <1>2, <1>3

\* A random performance touches no fact.
LEMMA TryFireSound ==
  ASSUME NEW s, Sound(s, caps, disabled), NEW fires
  PROVE  /\ Sound(TryFire(s, fires), caps, disabled)
         /\ TryFire(s, fires).facts = s.facts
<1>1. CASE /\ fires
           /\ ~manual
           /\ ~window
           /\ s.act \in {None, "idle"}
           /\ "random" \notin disabled
  <2>1. TryFire(s, fires) = [s EXCEPT !.act = "random", !.by = "direct"]
    BY <1>1 DEF TryFire, Vetoed, Accepted
  <2>2. "random" \in Acts \ disabled /\ "direct" \in {"direct", "once"}
    BY <1>1 DEF Acts
  <2>3. /\ Sound([s EXCEPT !.act = "random", !.by = "direct"], caps, disabled)
        /\ [s EXCEPT !.act = "random", !.by = "direct"].facts = s.facts
    BY <2>2, DirectSound
  <2> HIDE DEF Sound
  <2> QED  BY <2>1, <2>3
<1>2. CASE ~(/\ fires /\ ~manual /\ ~window /\ s.act \in {None, "idle"}
             /\ "random" \notin disabled)
  BY <1>2 DEF TryFire, Vetoed, Accepted
<1> QED  BY <1>1, <1>2

\* TypeOK, the pet apart.
OthersTyped ==
  /\ caps \in Bodies /\ disabled \subseteq Gated
  /\ manual \in BOOLEAN /\ fromSchedule \in BOOLEAN /\ window \in BOOLEAN
  /\ input \in {"active", "idle", "unlinked"}
  /\ resume \in {"none", "armed", "due"} /\ emote \in BOOLEAN /\ focus \in BOOLEAN

\* What a step has to establish.
LEMMA InvNext ==
  ASSUME OthersTyped', Sound(pet', caps', disabled'),
         Honest(pet'.facts, fromSchedule', focus')
  PROVE  Inv'
  BY DEF Inv, TypeOK, OthersTyped, Sound, Honest, Pets, ResolvedIsCurrent,
         DisabledNeverPlayed, ScheduleRemembers, RhythmExcludes, FocusIsReal, Held

\* The parts of the invariant, for the steps.
LEMMA InvNow ==
  ASSUME Inv
  PROVE  /\ OthersTyped /\ TypeOK /\ Sound(pet, caps, disabled) /\ pet \in Pets
         /\ Honest(pet.facts, fromSchedule, focus)
         /\ caps \in SUBSET Facts /\ None \notin disabled
  BY InvParts, Typed DEF TypeOK, OthersTyped, Sound

\* The whole service tick.
LEMMA TickSound ==
  ASSUME Inv, SlowTick
  PROVE  Inv'
<1>1. PICK long \in BOOLEAN, due \in SUBSET Kinds, fires \in BOOLEAN :
        LET m == CheckMeetingWindows(RhythmTick(long).pet) IN
        /\ resume' = RhythmTick(long).resume
        /\ fromSchedule' = m.own
        /\ pet' = TryFire(Remind(m.pet, due), fires)
  BY DEF SlowTick
<1> DEFINE r == RhythmTick(long)
           m == CheckMeetingWindows(r.pet)
           e == Remind(m.pet, due)
<1>2. /\ Sound(r.pet, caps, disabled) /\ Honest(r.pet.facts, fromSchedule, focus)
      /\ r.resume \in {"none", "armed", "due"}
  BY RhythmSound
<1>3. /\ Sound(m.pet, caps, disabled) /\ Honest(m.pet.facts, m.own, focus)
      /\ m.own \in BOOLEAN
  BY <1>2, InvNow, MeetingSound
<1>4. Sound(e, caps, disabled) /\ Honest(e.facts, m.own, focus)
  BY <1>3, InvNow, RemindSound
<1>5. Sound(pet', caps, disabled) /\ Honest(pet'.facts, m.own, focus)
  BY <1>1, <1>4, TryFireSound
<1>6. UNCHANGED <<caps, disabled, manual, window, input, emote, focus>>
  BY DEF SlowTick, world
<1>7. OthersTyped'
  <2>1. resume' \in {"none", "armed", "due"} /\ fromSchedule' \in BOOLEAN
    BY <1>1, <1>2, <1>3
  <2> QED  BY <1>6, <2>1, InvNow DEF OthersTyped
<1>8. fromSchedule' = m.own  BY <1>1
<1> HIDE DEF m
<1> QED  BY <1>5, <1>6, <1>7, <1>8, InvNext

\* The steps of the user, one by one; each but SyncCapabilities and SetMode
\* keeps the character and the modes, and none touches the clock.
LEMMA UserStepSound ==
  ASSUME Inv, UserStep
  PROVE  Inv'
<1>0. /\ OthersTyped /\ TypeOK /\ Sound(pet, caps, disabled) /\ pet \in Pets
      /\ Honest(pet.facts, fromSchedule, focus)
      /\ caps \in SUBSET Facts /\ None \notin disabled
  BY InvNow
<1>1. ASSUME NEW f \in Asked, MenuRequest(f)  PROVE Inv'
  <2>1. /\ Sound(SetFact(pet, f, "user"), caps, disabled)
        /\ SetFact(pet, f, "user").facts = [pet.facts EXCEPT ![f] = "user"]
    BY <1>0, SetSound, FactNames, BehaviourAssumption
  <2>2. Honest([pet.facts EXCEPT ![f] = "user"], fromSchedule, focus)
    BY <1>0, FactNames DEF Honest, Pets
  <2> QED  BY <1>0, <1>1, <2>1, <2>2, InvNext
           DEF MenuRequest, OthersTyped, schedule, world
<1>2. CASE Standby
  <2> DEFINE kept == [f \in Facts |-> IF pet.facts[f] = "user" THEN None ELSE pet.facts[f]]
             t    == [pet EXCEPT !.facts = kept]
  <2>1. t \in Pets /\ t.facts = kept  BY <1>0 DEF Pets
  <2>2. pet' = Apply(t, caps)  BY <1>2 DEF Standby
  <2>3. Sound(pet', caps, disabled) /\ pet'.facts = kept  BY <1>0, <2>1, <2>2, ApplySound
  <2>4. Honest(kept, fromSchedule, focus)  BY <1>0, FactNames DEF Honest
  <2> HIDE DEF kept
  <2> QED  BY <1>0, <1>2, <2>3, <2>4, InvNext DEF Standby, OthersTyped, schedule, world
<1>3. CASE ManualMeetingOn
  <2>1. /\ Sound(SetFact(pet, "meeting", "menu"), caps, disabled)
        /\ SetFact(pet, "meeting", "menu").facts = [pet.facts EXCEPT !["meeting"] = "menu"]
    BY <1>0, SetSound, FactNames
  <2>2. Honest([pet.facts EXCEPT !["meeting"] = "menu"], fromSchedule, focus)
    BY <1>0, FactNames DEF Honest, Pets
  <2> QED  BY <1>0, <1>3, <2>1, <2>2, InvNext DEF ManualMeetingOn, OthersTyped, world
<1>4. CASE ManualMeetingOff
  <2>1. /\ Sound(ClearFact(pet, "meeting"), caps, disabled)
        /\ ClearFact(pet, "meeting").facts = [pet.facts EXCEPT !["meeting"] = None]
    BY <1>0, ClearFactSound, FactNames
  <2>2. Honest([pet.facts EXCEPT !["meeting"] = None], fromSchedule, focus)
    BY <1>0, FactNames DEF Honest, Pets
  <2> QED  BY <1>0, <1>4, <2>1, <2>2, InvNext DEF ManualMeetingOff, OthersTyped, world
<1>5. CASE Click
  <2>1. Sound(pet', caps, disabled) /\ pet'.facts = pet.facts
    <3>1. CASE "interact" \in disabled
      BY <1>0, <1>5, <3>1 DEF Click, EmoteAccepted, Vetoed, Accepted
    <3>2. CASE "interact" \notin disabled
      <4>1. pet' = [pet EXCEPT !.act = "interact", !.by = "direct"]
        BY <1>5, <3>2 DEF Click, EmoteAccepted, Vetoed, Accepted
      <4>2. "interact" \in Acts \ disabled /\ "direct" \in {"direct", "once"}
        BY <3>2 DEF Acts
      <4> QED  BY <1>0, <4>1, <4>2, DirectSound, Zenon
    <3> QED  BY <3>1, <3>2
  <2> QED  BY <1>0, <1>5, <2>1, InvNext DEF Click, EmoteAccepted, OthersTyped, schedule,
              world
<1>6. ASSUME NEW k \in Kinds, MarkStarted(k)  PROVE Inv'
  <2>0. k \in Facts /\ k \notin {"meeting", "work", "rest"}  BY BehaviourAssumption
  <2>1. /\ Sound(SetFact(pet, k, "menu"), caps, disabled)
        /\ SetFact(pet, k, "menu").facts = [pet.facts EXCEPT ![k] = "menu"]
    BY <1>0, <2>0, SetSound, FactNames
  <2>2. Honest([pet.facts EXCEPT ![k] = "menu"], fromSchedule, focus)
    BY <1>0, <2>0, FactNames DEF Honest, Pets
  <2> QED  BY <1>0, <1>6, <2>1, <2>2, InvNext
           DEF MarkStarted, OthersTyped, schedule, world
<1>7. ASSUME NEW b \in BOOLEAN, PlaybackChanged(b)  PROVE Inv'
  <2>0. "music" \in Facts  BY <1>7 DEF PlaybackChanged
  <2>1. CASE b
    <3>1. /\ Sound(SetFact(pet, "music", "audio"), caps, disabled)
          /\ SetFact(pet, "music", "audio").facts = [pet.facts EXCEPT !["music"] = "audio"]
      BY <1>0, <2>0, SetSound, FactNames
    <3>2. Honest([pet.facts EXCEPT !["music"] = "audio"], fromSchedule, focus)
      BY <1>0, FactNames DEF Honest, Pets
    <3> QED  BY <1>0, <1>7, <2>1, <3>1, <3>2, InvNext
             DEF PlaybackChanged, OthersTyped, schedule, world
  <2>2. CASE ~b
    <3>1. /\ Sound(ClearFact(pet, "music"), caps, disabled)
          /\ ClearFact(pet, "music").facts = [pet.facts EXCEPT !["music"] = None]
      BY <1>0, <2>0, ClearFactSound, FactNames
    <3>2. Honest([pet.facts EXCEPT !["music"] = None], fromSchedule, focus)
      BY <1>0, FactNames DEF Honest, Pets
    <3> QED  BY <1>0, <1>7, <2>2, <3>1, <3>2, InvNext
             DEF PlaybackChanged, OthersTyped, schedule, world
  <2> QED  BY <2>1, <2>2
<1>8. ASSUME NEW b \in BOOLEAN, SyncFocus(b)  PROVE Inv'
  <2>1. CASE b
    <3>1. /\ Sound(SetFact(pet, "work", "todo"), caps, disabled)
          /\ SetFact(pet, "work", "todo").facts = [pet.facts EXCEPT !["work"] = "todo"]
      BY <1>0, SetSound, FactNames
    <3>2. Honest([pet.facts EXCEPT !["work"] = "todo"], fromSchedule, TRUE)
      BY <1>0, FactNames DEF Honest, Pets
    <3>3. pet' = SetFact(pet, "work", "todo") /\ focus' = TRUE
      BY <1>8, <2>1 DEF SyncFocus
    <3> QED  BY <1>0, <1>8, <3>1, <3>2, <3>3, InvNext
             DEF SyncFocus, OthersTyped, schedule, world
  <2>2. CASE ~b
    <3>1. /\ Sound(ClearOwned(pet, "work", "todo"), caps, disabled)
          /\ ClearOwned(pet, "work", "todo").facts =
               IF pet.facts["work"] = "todo" THEN [pet.facts EXCEPT !["work"] = None]
               ELSE pet.facts
      BY <1>0, ClearOwnedSound, FactNames
    <3>2. Honest(ClearOwned(pet, "work", "todo").facts, fromSchedule, FALSE)
      BY <1>0, <3>1, FactNames DEF Honest, Pets
    <3>3. pet' = ClearOwned(pet, "work", "todo") /\ focus' = FALSE
      BY <1>8, <2>2 DEF SyncFocus
    <3> QED  BY <1>0, <1>8, <3>1, <3>2, <3>3, InvNext
             DEF SyncFocus, OthersTyped, schedule, world
  <2> QED  BY <2>1, <2>2
<1>9. ASSUME NEW a \in Offered, Perform(a)  PROVE Inv'
  <2>1. PICK by \in {"direct", "once"} : pet' = [pet EXCEPT !.act = a, !.by = by]
    BY <1>9 DEF Perform, Accepted
  <2>2. a \in Acts \ disabled  BY <1>9, BehaviourAssumption DEF Perform, MayPerform, Vetoed
  <2>3. Sound(pet', caps, disabled) /\ pet'.facts = pet.facts
    BY <1>0, <2>1, <2>2, DirectSound, Zenon
  <2> QED  BY <1>0, <1>9, <2>3, InvNext DEF Perform, OthersTyped, schedule, world
<1>10. ASSUME NEW a \in Gated, SetMode(a)  PROVE Inv'
  <2>1. UNCHANGED <<caps, manual, fromSchedule, window, input, resume, emote, focus>>
    BY <1>10 DEF SetMode, schedule, world
  <2>2. disabled' \subseteq Gated /\ None \notin disabled'
    BY <1>0, <1>10, BehaviourAssumption DEF SetMode, OthersTyped
  <2>3. Sound(pet', caps, disabled') /\ pet'.facts = pet.facts
    <3>1. CASE disabled' = disabled \ {a} /\ pet' = pet
      BY <1>0, <3>1 DEF Sound
    <3>2. CASE disabled' = disabled \cup {a} /\ pet' = DisableRunning(a)
      <4>1. CASE pet.act = a
        <5>1. pet' = Ended(pet)  BY <3>2, <4>1 DEF DisableRunning
        <5> QED  BY <1>0, <2>2, <5>1, EndedSound
      <4>2. CASE pet.act # a
        <5>1. pet' = pet  BY <3>2, <4>2 DEF DisableRunning
        <5> QED  BY <1>0, <3>2, <4>2, <5>1 DEF Sound
      <4> QED  BY <4>1, <4>2
    <3> QED  BY <1>10, <3>1, <3>2 DEF SetMode
  <2> QED  BY <1>0, <2>1, <2>2, <2>3, InvNext DEF OthersTyped
<1>11. ASSUME NEW c \in Bodies, SyncCapabilities(c)  PROVE Inv'
  <2>1. c \in SUBSET Facts  BY BehaviourAssumption
  <2>2. Sound(Apply(pet, c), c, disabled) /\ Apply(pet, c).facts = pet.facts
    BY <1>0, <2>1, ApplySound
  <2> QED  BY <1>0, <1>11, <2>2, InvNext DEF SyncCapabilities, OthersTyped, schedule,
              world
<1> QED  BY <1>1, <1>2, <1>3, <1>4, <1>5, <1>6, <1>7, <1>8, <1>9, <1>10, <1>11
            DEF UserStep

\* The pet starts idle, with no facts.
LEMMA InitSound == Init => Inv
<1> SUFFICES ASSUME Init PROVE Inv  OBVIOUS
<1>1. pet = [facts |-> [f \in Facts |-> None], act |-> None, by |-> None]  BY DEF Init
<1>2. None \notin Owners /\ None # "resolve" /\ Facts \in Bodies
  BY BehaviourAssumption DEF Ways
<1>3. Sound(pet, caps, disabled)  BY <1>1, <1>2 DEF Sound, Pets, Init
<1>4. Honest(pet.facts, fromSchedule, focus)
  BY <1>1, <1>2, FactNames DEF Honest
<1>5. TypeOK  BY <1>2, <1>3 DEF Sound, Pets, TypeOK, Init
<1> QED  BY <1>3, <1>4, <1>5, InvParts

\* Every step keeps the pet honest.
LEMMA NextSound == Inv /\ [Next]_vars => Inv'
<1> SUFFICES ASSUME Inv, [Next]_vars PROVE Inv'  OBVIOUS
<1>0. /\ OthersTyped /\ Sound(pet, caps, disabled) /\ pet \in Pets
      /\ Honest(pet.facts, fromSchedule, focus) /\ None \notin disabled
  BY InvNow
<1>1. CASE UserStep  BY <1>1, UserStepSound
<1>2. CASE FrameTick
  <2>1. Sound(pet', caps, disabled) /\ pet'.facts = pet.facts
    BY <1>0, <1>2, EndedSound DEF FrameTick
  <2> QED  BY <1>0, <1>2, <2>1, InvNext DEF FrameTick, OthersTyped, schedule, world
<1>3. CASE SlowTick  BY <1>3, TickSound
<1>4. CASE DelayPasses
  BY <1>0, <1>4, InvNext DEF DelayPasses, OthersTyped, schedule, world
<1>5. CASE TimePasses
  <2>1. window' \in BOOLEAN /\ input' \in {"active", "idle", "unlinked"}
    BY <1>0, <1>5 DEF TimePasses, OthersTyped
  <2> QED  BY <1>0, <1>5, <2>1, InvNext DEF TimePasses, OthersTyped, schedule
<1>6. CASE UNCHANGED vars
  BY <1>0, <1>6, InvNext DEF vars, OthersTyped, schedule, world
<1> QED  BY <1>1, <1>2, <1>3, <1>4, <1>5, <1>6 DEF Next

\* The pet performs what the facts of services, menus and modules call for:
\* a performance outlives neither its fact, its character's capability nor
\* its mode, a fact of higher precedence is never passed over, and the facts
\* the schedule, the rhythm and the focus stated are ones they stand by.
THEOREM PetIsHonest == Spec => []Inv
  BY InitSound, NextSound, PTL DEF Spec
-----------------------------------------------------------------------------
(* The discipline of a meeting *)

\* While a meeting is held, the facts call for nothing but the meeting, or,
\* where the character or the user's modes rule that out, for idling.
LEMMA MeetingRules ==
  ASSUME NEW s \in Pets, NEW c \in SUBSET Facts, s.facts["meeting"] # None
  PROVE  Apply(s, c).act \in {"meeting", None} /\ Apply(s, c).facts = s.facts
<1> DEFINE a == FirstIn(Precedence, Held(s))
<1>1. "meeting" \in Held(s) /\ Held(s) \in SUBSET Facts  BY FactNames DEF Held
<1>2. a \in Held(s) /\ Precedence[a] <= Precedence["meeting"]  BY <1>1, FirstIsFirst
<1>3. a = "meeting"
  <2>1. a \in {"meeting", "work", "eat", "exercise", "music", "rest"}
    BY <1>1, <1>2, BehaviourAssumption DEF AllFacts, Precedence
  <2> HIDE DEF a
  <2> QED  BY <1>2, <2>1 DEF Precedence
<1>4. Resolve(s, c) \in {"meeting", None}  BY <1>3 DEF Resolve
<1>5. CASE Resolve(s, c) = None \/ Vetoed(Resolve(s, c))
  <2>1. Apply(s, c) = Ended(s)  BY <1>5 DEF Apply
  <2> QED  BY <2>1 DEF Ended, Pets
<1>6. CASE ~(Resolve(s, c) = None \/ Vetoed(Resolve(s, c)))
  <2>1. Apply(s, c) = [s EXCEPT !.act = "meeting", !.by = "resolve"]
    BY <1>4, <1>6 DEF Apply, Accepted
  <2> QED  BY <2>1 DEF Pets
<1> QED  BY <1>5, <1>6

\* The pet s, seen from one that performed x: a meeting is held, and nothing
\* was started but the meeting.
Quiet(s, x) ==
  /\ Sound(s, caps, disabled) /\ s.facts["meeting"] # None
  /\ s.act \in {x, "meeting", None}

\* Stating a fact keeps quiet while a meeting is held.
LEMMA SetQuiet ==
  ASSUME NEW s, NEW x, Quiet(s, x), caps \in SUBSET Facts, None \notin disabled,
         NEW f \in Facts, NEW o \in Owners
  PROVE  Quiet(SetFact(s, f, o), x)
<1>0. s \in Pets  BY DEF Quiet, Sound
<1>1. /\ Sound(SetFact(s, f, o), caps, disabled)
      /\ SetFact(s, f, o).facts = [s.facts EXCEPT ![f] = o]
  BY SetSound DEF Quiet
<1>2. [s.facts EXCEPT ![f] = o]["meeting"] # None
  BY <1>0, FactNames DEF Quiet, Pets
<1>3. CASE s.facts[f] = o
  <2>1. SetFact(s, f, o) = s  BY <1>3 DEF SetFact
  <2> QED  BY <2>1
<1>4. CASE s.facts[f] # o
  <2> DEFINE t == [s EXCEPT !.facts[f] = o]
  <2>1. t \in Pets /\ t.facts = [s.facts EXCEPT ![f] = o]  BY <1>0 DEF Pets
  <2>2. SetFact(s, f, o) = Apply(t, caps)  BY <1>4 DEF SetFact
  <2>3. Apply(t, caps).act \in {"meeting", None}  BY <1>2, <2>1, MeetingRules
  <2> QED  BY <1>1, <1>2, <2>2, <2>3 DEF Quiet
<1> QED  BY <1>3, <1>4

\* So does clearing one, unless it is the meeting itself.
LEMMA ClearQuiet ==
  ASSUME NEW s, NEW x, Quiet(s, x), caps \in SUBSET Facts, None \notin disabled,
         NEW f \in Facts \ {"meeting"}, NEW o
  PROVE  Quiet(ClearOwned(s, f, o), x)
<1>0. s \in Pets  BY DEF Quiet, Sound
<1>1. /\ Sound(ClearOwned(s, f, o), caps, disabled)
      /\ ClearOwned(s, f, o).facts =
           IF s.facts[f] = o THEN [s.facts EXCEPT ![f] = None] ELSE s.facts
  BY ClearOwnedSound DEF Quiet
<1>3. CASE s.facts[f] # o
  <2>1. ClearOwned(s, f, o) = s  BY <1>3 DEF ClearOwned
  <2> QED  BY <2>1
<1>4. CASE s.facts[f] = o
  <2> DEFINE t == [s EXCEPT !.facts[f] = None]
  <2>1. t \in Pets /\ t.facts = [s.facts EXCEPT ![f] = None]  BY <1>0 DEF Pets
  <2>2. t.facts["meeting"] # None  BY <1>0, <2>1, FactNames DEF Quiet, Pets
  <2>3. ClearOwned(s, f, o) = Apply(t, caps)  BY <1>4 DEF ClearOwned
  <2>4. Apply(t, caps).act \in {"meeting", None}  BY <2>1, <2>2, MeetingRules
  <2> QED  BY <1>1, <1>4, <2>1, <2>2, <2>3, <2>4 DEF Quiet
<1> QED  BY <1>3, <1>4

\* The rhythm touches work and rest only.
LEMMA RhythmQuiet ==
  ASSUME TypeOK, NEW x, Quiet(pet, x), NEW long \in BOOLEAN
  PROVE  Quiet(RhythmTick(long).pet, x)
<1>0. caps \in SUBSET Facts /\ None \notin disabled  BY Typed
<1>1. /\ Quiet(ClearFact(pet, "rest"), x)
      /\ Quiet(ClearFact(pet, "work"), x)
  BY <1>0, ClearQuiet, FactNames DEF ClearFact
<1> DEFINE current == CurrentAction(pet)
<1>2. CASE input = "active"
  <2> DEFINE rested == IF current = "rest" /\ resume = "due"
                       THEN ClearFact(pet, "rest") ELSE pet
  <2>1. RhythmTick(long).pet = BeginWork(rested, current, long)
    BY <1>2 DEF RhythmTick, OnActive
  <2>2. Quiet(rested, x)  BY <1>1
  <2> HIDE DEF rested
  <2>3. Quiet(SetFact(rested, "work", "rhythm"), x)
    BY <1>0, <2>2, SetQuiet, FactNames
  <2> QED  BY <2>1, <2>2, <2>3 DEF BeginWork
<1>3. CASE input = "idle"
  <2> DEFINE freed == IF current = "work" THEN ClearFact(pet, "work") ELSE pet
  <2>1. RhythmTick(long).pet = IF long /\ current \in {None, "work"}
                               THEN SetFact(freed, "rest", "rhythm") ELSE pet
    BY <1>3 DEF RhythmTick, OnIdle
  <2>2. Quiet(freed, x)  BY <1>1
  <2> HIDE DEF freed
  <2>3. Quiet(SetFact(freed, "rest", "rhythm"), x)
    BY <1>0, <2>2, SetQuiet, FactNames
  <2> QED  BY <2>1, <2>3
<1>4. CASE input = "unlinked"
  BY <1>4 DEF RhythmTick
<1> QED  BY <1>2, <1>3, <1>4 DEF TypeOK

\* In a meeting window, or in a manual meeting, the check ends no meeting.
LEMMA MeetingQuiet ==
  ASSUME TypeOK, manual \/ window, NEW s, NEW x, Quiet(s, x)
  PROVE  Quiet(CheckMeetingWindows(s).pet, x)
<1>1. Quiet(SetFact(s, "meeting", "schedule"), x)
  BY Typed, SetQuiet, FactNames
<1>2. CheckMeetingWindows(s).pet \in {s, SetFact(s, "meeting", "schedule")}
  <2>1. CASE ~manual /\ window /\ CurrentAction(s) # "meeting"
    BY <2>1 DEF CheckMeetingWindows
  <2>2. CASE ~(~manual /\ window /\ CurrentAction(s) # "meeting")
    BY <2>2 DEF CheckMeetingWindows
  <2> QED  BY <2>1, <2>2
<1> QED  BY <1>1, <1>2

\* A reminder states its fact, and the meeting goes on.
LEMMA RemindQuiet ==
  ASSUME TypeOK, NEW s, NEW x, Quiet(s, x), NEW due \in SUBSET Kinds
  PROVE  Quiet(Remind(s, due), x)
<1>0. caps \in SUBSET Facts /\ None \notin disabled /\ due \in SUBSET Facts
  BY Typed, BehaviourAssumption
<1> DEFINE eaten == IF "eat" \in due THEN SetFact(s, "eat", "schedule") ELSE s
<1>1. Quiet(eaten, x)  BY <1>0, SetQuiet, FactNames
<1>2. Remind(s, due) = IF "exercise" \in due
                       THEN SetFact(eaten, "exercise", "schedule") ELSE eaten
  BY DEF Remind
<1> HIDE DEF eaten
<1>3. "exercise" \in due => Quiet(SetFact(eaten, "exercise", "schedule"), x)
  BY <1>0, <1>1, SetQuiet, FactNames
<1> QED  BY <1>1, <1>2, <1>3

\* The service tick starts nothing but the meeting.
LEMMA TickQuiet ==
  ASSUME TypeOK, Quiet(pet, pet.act), manual \/ window, SlowTick
  PROVE  Quiet(pet', pet.act)
<1>1. PICK long \in BOOLEAN, due \in SUBSET Kinds, fires \in BOOLEAN :
        LET m == CheckMeetingWindows(RhythmTick(long).pet) IN
        pet' = TryFire(Remind(m.pet, due), fires)
  BY DEF SlowTick
<1> DEFINE m == CheckMeetingWindows(RhythmTick(long).pet)
<1>2. Quiet(m.pet, pet.act)  BY RhythmQuiet, MeetingQuiet
<1>3. Quiet(Remind(m.pet, due), pet.act)  BY <1>2, RemindQuiet
<1>4. pet' = Remind(m.pet, due)  BY <1>1 DEF TryFire
<1> QED  BY <1>3, <1>4

\* What the steps of the user may start in a meeting that they do not end:
\* the meeting, or music.
LEMMA UserQuiet ==
  ASSUME TypeOK, Sound(pet, caps, disabled), pet.facts["meeting"] # None, UserStep,
         pet'.facts["meeting"] # None
  PROVE  pet'.act \in {pet.act, "meeting", "music", None}
<1>0. pet \in Pets /\ caps \in SUBSET Facts /\ None \notin disabled
      /\ Quiet(pet, pet.act)
  BY Typed DEF Sound, Quiet
<1>1. \A f \in Facts, o \in Owners :
        SetFact(pet, f, o).act \in {pet.act, "meeting", None}
  BY <1>0, SetQuiet DEF Quiet
<1>2. \A f \in Facts \ {"meeting"} : \A o :
        ClearOwned(pet, f, o).act \in {pet.act, "meeting", None}
  BY <1>0, ClearQuiet DEF Quiet
<1>3. ASSUME NEW f \in Asked, MenuRequest(f)
      PROVE  pet'.act \in {pet.act, "meeting", None}
  BY <1>1, <1>3, FactNames, BehaviourAssumption DEF MenuRequest
<1>4. CASE Standby
  <2> DEFINE kept == [f \in Facts |-> IF pet.facts[f] = "user" THEN None ELSE pet.facts[f]]
             t    == [pet EXCEPT !.facts = kept]
  <2>1. t \in Pets /\ t.facts = kept  BY <1>0 DEF Pets
  <2>2. pet' = Apply(t, caps)  BY <1>4 DEF Standby
  <2>3. pet'.facts = kept  BY <1>0, <2>1, <2>2, ApplySound
  <2> HIDE DEF kept
  <2> QED  BY <1>0, <2>1, <2>2, <2>3, MeetingRules
<1>5. CASE ManualMeetingOn
  BY <1>1, <1>5, FactNames DEF ManualMeetingOn
<1>6. CASE ManualMeetingOff
  <2>1. CASE CurrentAction(pet) = "meeting"
    <3>1. pet' = ClearFact(pet, "meeting")  BY <1>6, <2>1 DEF ManualMeetingOff
    <3>2. ClearFact(pet, "meeting").facts = [pet.facts EXCEPT !["meeting"] = None]
      BY <1>0, ClearFactSound, FactNames
    <3>3. [pet.facts EXCEPT !["meeting"] = None]["meeting"] = None
      BY <1>0, FactNames DEF Pets
    <3> QED  BY <3>1, <3>2, <3>3
  <2>2. CASE CurrentAction(pet) # "meeting"
    BY <1>6, <2>2 DEF ManualMeetingOff
  <2> QED  BY <2>1, <2>2
<1>7. CASE Click
  BY <1>7 DEF Click, EmoteAccepted
<1>8. ASSUME NEW k \in Kinds, MarkStarted(k)
      PROVE  pet'.act \in {pet.act, "meeting", None}
  BY <1>1, <1>8, FactNames, BehaviourAssumption DEF MarkStarted
<1>9. ASSUME NEW b \in BOOLEAN, PlaybackChanged(b) \/ SyncFocus(b)
      PROVE  pet'.act \in {pet.act, "meeting", None}
  <2>1. CASE PlaybackChanged(b)
    <3>1. "music" \in Facts  BY <2>1 DEF PlaybackChanged
    <3>2. pet' \in {SetFact(pet, "music", "audio"),
                    ClearOwned(pet, "music", pet.facts["music"])}
      BY <2>1 DEF PlaybackChanged, ClearFact
    <3> QED  BY <1>1, <1>2, <3>1, <3>2, FactNames
  <2>2. CASE SyncFocus(b)
    <3>1. pet' \in {SetFact(pet, "work", "todo"), ClearOwned(pet, "work", "todo")}
      BY <2>2 DEF SyncFocus
    <3> QED  BY <1>1, <1>2, <3>1, FactNames
  <2> QED  BY <1>9, <2>1, <2>2
<1>10. ASSUME NEW a \in Offered, Perform(a)  PROVE pet'.act = "music"
  <2>1. a = "music"  BY <1>10 DEF Perform, MayPerform
  <2>2. PICK by \in {"direct", "once"} : pet' = [pet EXCEPT !.act = a, !.by = by]
    BY <1>10 DEF Perform, Accepted
  <2> QED  BY <1>0, <2>1, <2>2 DEF Pets
<1>11. ASSUME NEW a \in Gated, SetMode(a)  PROVE pet'.act \in {pet.act, None}
  <2>1. pet' \in {pet, Ended(pet)}  BY <1>11 DEF SetMode, DisableRunning
  <2>2. Ended(pet).act = None  BY <1>0 DEF Ended, Pets
  <2> QED  BY <2>1, <2>2
<1>12. ASSUME NEW c \in Bodies, SyncCapabilities(c)
       PROVE  pet'.act \in {"meeting", None}
  BY <1>0, <1>12, MeetingRules, BehaviourAssumption DEF SyncCapabilities
<1> QED
  BY <1>3, <1>4, <1>5, <1>6, <1>7, <1>8, <1>9, <1>10, <1>11, <1>12 DEF UserStep

\* One step: the discipline holds of whatever the pet turns to.
LEMMA StepQuiet ==
  ASSUME Inv, [Next]_vars, pet.facts["meeting"] # None, pet'.facts["meeting"] # None,
         manual \/ window
  PROVE  pet'.act \in {pet.act, "meeting", "music", None}
<1>0. TypeOK /\ Sound(pet, caps, disabled) /\ pet \in Pets /\ Quiet(pet, pet.act)
  BY InvNow DEF Quiet
<1>1. CASE UserStep  BY <1>0, <1>1, UserQuiet
<1>2. CASE FrameTick
  <2>1. pet' = Ended(pet) /\ Ended(pet).act = None
    BY <1>0, <1>2 DEF FrameTick, Ended, Pets
  <2> QED  BY <2>1
<1>3. CASE SlowTick  BY <1>0, <1>3, TickQuiet DEF Quiet
<1>4. CASE DelayPasses \/ TimePasses \/ UNCHANGED vars
  BY <1>4 DEF DelayPasses, TimePasses, vars
<1> QED  BY <1>1, <1>2, <1>3, <1>4 DEF Next

\* The discipline matrix: while a meeting goes on, neither a click, the
\* actions page, a reminder, the rhythm, the todo focus, the random scheduler
\* nor a change of character starts anything but the meeting and muted music.
THEOREM MeetingIsRespected == Spec => Discipline
<1>1. Inv /\ [Next]_vars =>
        [(/\ pet.facts["meeting"] # None /\ pet'.facts["meeting"] # None
          /\ manual \/ window
          /\ pet'.act # pet.act)
         => pet'.act \in {"meeting", "music", None}]_vars
  BY StepQuiet
<1> QED  BY <1>1, PetIsHonest, PTL DEF Spec, Discipline

-----------------------------------------------------------------------------
(* The fact of the music *)

\* One rescan fewer is still a sequence of rescans.
LEMMA WithoutType ==
  ASSUME BridgeTypeOK, NEW i \in DOMAIN rescans
  PROVE  Without(i) \in Seq(Rescans) /\ Len(Without(i)) <= MaxRescans
<1> DEFINE n == Len(rescans)
           before == SubSeq(rescans, 1, i - 1)
           after == SubSeq(rescans, i + 1, n)
<1>1. n \in Nat /\ n <= MaxRescans /\ i \in 1 .. n /\ i \in Nat
  BY LenProperties DEF BridgeTypeOK
<1>2. \A j \in 1 .. n : rescans[j] \in Rescans
  BY ElementOfSeq DEF BridgeTypeOK
<1>3. before \in Seq(Rescans) /\ Len(before) = i - 1
  <2>1. \A j \in 1 .. i - 1 : rescans[j] \in Rescans  BY <1>1, <1>2
  <2>2. i - 1 \in Int /\ 1 \in Int  BY <1>1
  <2>3. /\ before \in Seq(Rescans)
        /\ Len(before) = IF 1 <= i - 1 THEN (i - 1) - 1 + 1 ELSE 0
    BY <2>1, <2>2, SubSeqProperties
  <2> QED  BY <1>1, <2>3
<1>4. after \in Seq(Rescans) /\ Len(after) = n - i
  <2>1. \A j \in i + 1 .. n : rescans[j] \in Rescans  BY <1>1, <1>2
  <2>2. i + 1 \in Int /\ n \in Int  BY <1>1
  <2>3. /\ after \in Seq(Rescans)
        /\ Len(after) = IF i + 1 <= n THEN n - (i + 1) + 1 ELSE 0
    BY <2>1, <2>2, SubSeqProperties
  <2> QED  BY <1>1, <2>3
<1>5. before \o after \in Seq(Rescans) /\ Len(before \o after) = n - 1
  <2>1. /\ before \o after \in Seq(Rescans)
        /\ Len(before \o after) = Len(before) + Len(after)
    <3> HIDE DEF before, after
    <3> QED  BY <1>3, <1>4, ConcatProperties
  <2> HIDE DEF n, before, after
  <2> QED  BY <1>1, <1>3, <1>4, <2>1
<1>6. MaxRescans \in Nat  BY MediaAssumption
<1> QED  BY <1>1, <1>5, <1>6 DEF Without

\* What a rescan reads of its sessions keeps it a rescan.
LEMMA ReadingOfOne ==
  ASSUME BridgeTypeOK, NEW i \in DOMAIN rescans, NEW a \in Apps, NEW s \in Statuses
  PROVE  /\ [rescans EXCEPT ![i].st[a] = s] \in Seq(Rescans)
         /\ Len([rescans EXCEPT ![i].st[a] = s]) = Len(rescans)
<1> DEFINE r == [rescans[i] EXCEPT !.st[a] = s]
<1>1. i \in 1 .. Len(rescans)  BY LenProperties DEF BridgeTypeOK
<1>2. rescans[i] \in Rescans  BY <1>1, ElementOfSeq DEF BridgeTypeOK
<1>3. r \in Rescans  BY <1>2 DEF Rescans
<1>4. [rescans EXCEPT ![i].st[a] = s] = [rescans EXCEPT ![i] = r]
  OBVIOUS
<1> QED  BY <1>1, <1>3, <1>4, ExceptSeq DEF BridgeTypeOK

\* A function of the rescans in flight that keeps each of them a rescan.
LEMMA MappedType ==
  ASSUME NEW flight \in Seq(Rescans), NEW g, DOMAIN g = DOMAIN flight,
         g = [i \in DOMAIN flight |-> g[i]], \A i \in DOMAIN flight : g[i] \in Rescans
  PROVE  g \in Seq(Rescans) /\ Len(g) = Len(flight)
<1>1. DOMAIN flight = 1 .. Len(flight) /\ Len(flight) \in Nat  BY LenProperties
<1>2. g \in [1 .. Len(flight) -> Rescans]  BY <1>1
<1> QED  BY <1>1, <1>2, SeqDef

\* Outdating the rescans in flight drops none.
LEMMA OutdatedType ==
  ASSUME NEW flight \in Seq(Rescans)
  PROVE  Outdated(flight) \in Seq(Rescans) /\ Len(Outdated(flight)) = Len(flight)
<1> DEFINE g == Outdated(flight)
<1>1. ASSUME NEW i \in DOMAIN flight PROVE g[i] \in Rescans
  <2>1. flight[i] \in Rescans  BY LenProperties, ElementOfSeq
  <2> QED  BY <2>1 DEF Outdated, Rescans
<1>2. DOMAIN g = DOMAIN flight /\ g = [i \in DOMAIN flight |-> g[i]]  BY DEF Outdated
<1> HIDE DEF g
<1>3. g \in Seq(Rescans) /\ Len(g) = Len(flight)  BY <1>1, <1>2, MappedType
<1> QED  BY <1>3 DEF g

\* Nor does the end of a session they have not read.
LEMMA UnreadType ==
  ASSUME rescans \in Seq(Rescans), NEW a \in Apps
  PROVE  UnreadOf(a) \in Seq(Rescans) /\ Len(UnreadOf(a)) = Len(rescans)
<1> DEFINE g == UnreadOf(a)
<1>1. ASSUME NEW i \in DOMAIN rescans PROVE g[i] \in Rescans
  <2>1. rescans[i] \in Rescans  BY LenProperties, ElementOfSeq
  <2> QED  BY <2>1 DEF UnreadOf, Rescans, Statuses
<1>2. DOMAIN g = DOMAIN rescans /\ g = [i \in DOMAIN rescans |-> g[i]]  BY DEF UnreadOf
<1> HIDE DEF g
<1>3. g \in Seq(Rescans) /\ Len(g) = Len(rescans)  BY <1>1, <1>2, MappedType
<1> QED  BY <1>3 DEF g

\* A rescan that begins is the latest.
LEMMA RescanType ==
  ASSUME BridgeInv, RunRescan
  PROVE  rescans' \in Seq(Rescans) /\ Len(rescans') <= MaxRescans
<1> DEFINE olds == Outdated(rescans)
           new == [st |-> [a \in Apps |-> IF a \in Sessions(os) THEN "await" ELSE "absent"],
                   active |-> os.active, latest |-> TRUE]
<1>1. olds \in Seq(Rescans) /\ Len(olds) = Len(rescans) /\ Len(rescans) \in Nat
  BY OutdatedType, LenProperties DEF BridgeInv, BridgeTypeOK
<1>2. new \in Rescans  BY DEF BridgeInv, BridgeTypeOK, Reading, Rescans, Statuses
<1>3. rescans' = Append(olds, new)  BY DEF RunRescan
<1>4. MaxRescans \in Nat /\ Len(rescans) < MaxRescans
  BY MediaAssumption DEF RunRescan
<1> HIDE DEF olds, new
<1> QED  BY <1>1, <1>2, <1>3, <1>4

\* Project states the bridge's fact when another player plays, and only then;
\* the fact of the local player is left to it while the bridge does not defer.
LEMMA ProjectSound ==
  ASSUME NEW b \in [enabled : BOOLEAN, local : BOOLEAN, appActive : BOOLEAN],
         NEW s \in Reading, NEW m \in {Nobody, "audio", "media_bridge"},
         m = "audio" <=> b.local
  PROVE  /\ Project(b, s, m) \in {Nobody, "audio", "media_bridge"}
         /\ Project(b, s, m) = "media_bridge" => Playing(b, s)
         /\ Project(b, s, m) = "audio" <=> b.local
<1>1. Nobody # "audio" /\ Nobody # "media_bridge"  BY MediaAssumption
<1> QED  BY <1>1 DEF Project, Cleared, Playing

\* Whatever the bridge is told and the player states, refreshing and
\* projecting leaves a sound fact and a typed snapshot.
LEMMA RefreshSound ==
  ASSUME BridgeInv, UNCHANGED worker,
         NEW b \in [enabled : BOOLEAN, local : BOOLEAN, appActive : BOOLEAN],
         b.enabled = bridge.enabled,
         NEW m \in {Nobody, "audio", "media_bridge"}, m = "audio" <=> b.local,
         RefreshAndProject(b, m)
  PROVE  /\ bridge' \in [enabled : BOOLEAN, local : BOOLEAN, appActive : BOOLEAN]
         /\ snapshot' \in Reading /\ music' \in {Nobody, "audio", "media_bridge"}
         /\ MusicHasASource' /\ DisabledIsReleased'
<1>1. Refreshed(b) \in Reading
  BY DEF BridgeInv, BridgeTypeOK, Refreshed, Reading, Nothing, Statuses
<1>2. bridge' = b /\ snapshot' = Refreshed(b) /\ music' = Project(b, Refreshed(b), m)
  BY DEF RefreshAndProject
<1>3. MusicHasASource' /\ music' \in {Nobody, "audio", "media_bridge"}
  BY <1>1, <1>2, ProjectSound DEF MusicHasASource
<1>4. DisabledIsReleased'
  BY <1>2 DEF BridgeInv, DisabledIsReleased, Refreshed, worker
<1> QED  BY <1>1, <1>2, <1>3, <1>4

\* So does a word of the local player, or its silence.
LEMMA PlaybackSound ==
  ASSUME BridgeInv, UNCHANGED worker, NEW p \in BOOLEAN, PlayerChanged(p)
  PROVE  /\ bridge' \in [enabled : BOOLEAN, local : BOOLEAN, appActive : BOOLEAN]
         /\ snapshot' \in Reading /\ music' \in {Nobody, "audio", "media_bridge"}
         /\ MusicHasASource' /\ DisabledIsReleased'
<1> DEFINE stated == IF p THEN "audio" ELSE Nobody
<1>1. stated \in {Nobody, "audio", "media_bridge"} /\ (stated = "audio" <=> p)
      /\ stated # "media_bridge"
  BY MediaAssumption
<1>2. CASE p = bridge.local
  <2>1. music' = stated /\ UNCHANGED <<bridge, snapshot>>
    BY <1>2 DEF PlayerChanged
  <2>2. MusicHasASource'
    BY <1>1, <1>2, <2>1 DEF MusicHasASource
  <2>3. DisabledIsReleased'
    BY <2>1 DEF BridgeInv, DisabledIsReleased, worker
  <2> QED  BY <1>1, <2>1, <2>2, <2>3 DEF BridgeInv, BridgeTypeOK
<1>3. CASE p # bridge.local
  <2> DEFINE b == [bridge EXCEPT !.local = p]
  <2>1. b \in [enabled : BOOLEAN, local : BOOLEAN, appActive : BOOLEAN]
        /\ b.enabled = bridge.enabled /\ b.local = p
    BY DEF BridgeInv, BridgeTypeOK
  <2>2. RefreshAndProject(b, stated)  BY <1>3 DEF PlayerChanged
  <2> HIDE DEF b, stated
  <2> QED  BY <1>1, <2>1, <2>2, RefreshSound
<1> QED  BY <1>2, <1>3

\* The rescans and what the worker knows are typed after every step.
LEMMA BridgePreserved == BridgeInv /\ [BridgeNext]_bridgeVars => BridgeInv'
<1> USE MediaAssumption
<1> SUFFICES ASSUME BridgeInv, [BridgeNext]_bridgeVars PROVE BridgeInv'
  OBVIOUS
<1> USE DEF BridgeInv
<1>a. os \in Reading /\ published \in Reading /\ snapshot \in Reading /\ Nothing \in Reading
  BY DEF BridgeTypeOK, Reading, Nothing, Statuses
<1>b. Refreshed(bridge) \in Reading  BY <1>a DEF Refreshed
<1>c. /\ rescans \in Seq(Rescans) /\ Len(rescans) <= MaxRescans
      /\ Outdated(rescans) \in Seq(Rescans) /\ Len(Outdated(rescans)) <= MaxRescans
      /\ rescans = <<>> => Outdated(rescans) = <<>>
  <2>1. Outdated(<<>>) = <<>>  BY DEF Outdated
  <2> QED  BY <2>1, OutdatedType DEF BridgeTypeOK
<1>1. CASE SessionsChanged
  <2>1. os' \in Reading
    BY <1>1, <1>a DEF SessionsChanged, Reading
  <2>2. PICK a \in Apps : heard' = heard \ {a} /\ rescans' = UnreadOf(a)
    BY <1>1 DEF SessionsChanged
  <2>3. rescans' \in Seq(Rescans) /\ Len(rescans') <= MaxRescans
    BY <1>c, <2>2, UnreadType
  <2>4. rescans = <<>> => rescans' = <<>>
    BY <2>2 DEF UnreadOf
  <2> QED  BY <1>1, <2>1, <2>2, <2>3, <2>4
              DEF SessionsChanged, Schedule, BridgeTypeOK, MusicHasASource, Playing,
                  DisabledIsReleased
<1>2. CASE \E a \in Apps : PlaybackInfoChanged(a)
  <2>1. os' \in Reading
    BY <1>2, <1>a DEF PlaybackInfoChanged, Reading, Statuses
  <2>2. rescans' \in {rescans, Outdated(rescans)} /\ clean' \in BOOLEAN
    BY <1>2 DEF PlaybackInfoChanged, Unheard, BridgeTypeOK
  <2> QED  BY <1>2, <1>c, <2>1, <2>2
              DEF PlaybackInfoChanged, Schedule, BridgeTypeOK, MusicHasASource, Playing,
                  DisabledIsReleased
<1>3. CASE RunRescan
  <2>1. bridge.enabled  BY <1>3 DEF RunRescan, DisabledIsReleased
  <2>2. tokens' \subseteq Apps /\ heard' \subseteq tokens'
    BY <1>3 DEF RunRescan, Subscribe, Unsubscribed, Sessions, BridgeTypeOK
  <2> QED  BY <1>3, <2>1, <2>2, RescanType
              DEF RunRescan, BridgeTypeOK, MusicHasASource, Playing, DisabledIsReleased
<1>4. CASE \E i \in DOMAIN rescans, a \in Apps : Summarize(i, a)
  <2> PICK i \in DOMAIN rescans, a \in Apps : Summarize(i, a)  BY <1>4
  <2> DEFINE s == IF os.st[a] = "playing" THEN "playing" ELSE "quiet"
  <2>1. s \in Statuses  BY DEF Statuses
  <2>2. rescans' = [rescans EXCEPT ![i].st[a] = s]  BY DEF Summarize
  <2>3. rescans' \in Seq(Rescans) /\ Len(rescans') <= MaxRescans
    <3> HIDE DEF s
    <3> QED  BY <2>1, <2>2, ReadingOfOne DEF BridgeTypeOK
  <2>4. bridge.enabled  BY EmptySeq DEF DisabledIsReleased
  <2> QED  BY <2>3, <2>4 DEF Summarize, BridgeTypeOK, MusicHasASource, Playing, DisabledIsReleased
<1>5. CASE \E i \in DOMAIN rescans : Publish(i) \/ RescanFails(i)
  <2> PICK i \in DOMAIN rescans : Publish(i) \/ RescanFails(i)  BY <1>5
  <2>1. rescans' \in Seq(Rescans) /\ Len(rescans') <= MaxRescans
    <3>1. rescans' \in {Without(i), Outdated(Without(i))}
      BY DEF Publish, RescanFails
    <3>2. Without(i) \in Seq(Rescans) /\ Len(Without(i)) <= MaxRescans
      BY WithoutType
    <3> QED  BY <3>1, <3>2, OutdatedType
  <2>2. bridge.enabled  BY EmptySeq DEF DisabledIsReleased
  <2>3. rescans[i] \in Rescans  BY LenProperties, ElementOfSeq DEF BridgeTypeOK
  <2>4. published' \in Reading
    <3>1. CASE RescanFails(i)  BY <1>a, <3>1 DEF RescanFails
    <3>2. CASE Publish(i)
      BY <2>3, <3>2 DEF Publish, Reading, Rescans
    <3> QED  BY <3>1, <3>2
  <2>5. /\ clean' \in BOOLEAN /\ queued' \in BOOLEAN
        /\ tokens' \subseteq Apps /\ heard' \subseteq tokens'
    BY <2>3 DEF Publish, RescanFails, Rescans, BridgeTypeOK
  <2> QED  BY <2>1, <2>2, <2>4, <2>5
              DEF Publish, RescanFails, BridgeTypeOK, MusicHasASource, Playing, DisabledIsReleased
<1>6. CASE Enable
  <2>1. /\ tokens' \subseteq Apps /\ heard' \subseteq tokens' /\ published' \in Reading
        /\ queued' \in BOOLEAN /\ clean' \in BOOLEAN /\ snapshot' \in Reading
    BY <1>6, <1>a DEF Enable, FirstRescan, Sessions, BridgeTypeOK
  <2> QED  BY <1>6, <2>1 DEF Enable, BridgeTypeOK, MusicHasASource, Playing, DisabledIsReleased
<1>7. CASE Disable
  <2>1. rescans' \in Seq(Rescans) /\ Len(rescans') = 0 /\ 0 <= MaxRescans
    BY <1>7, EmptySeq DEF Disable
  <2>2. BridgeTypeOK'
    BY <1>7, <1>a, <2>1 DEF Disable, Cleared, BridgeTypeOK
  <2>3. MusicHasASource' /\ DisabledIsReleased'
    BY <1>7 DEF Disable, Cleared, BridgeTypeOK, MusicHasASource, Playing, DisabledIsReleased
  <2> QED  BY <2>2, <2>3
<1>8. CASE ProviderEvent
  <2>1. UNCHANGED <<os, worker, player>> /\ queued' \in BOOLEAN
    BY <1>8 DEF ProviderEvent
  <2>2. CASE RefreshAndProject(bridge, music)
    <3>1. /\ bridge' \in [enabled : BOOLEAN, local : BOOLEAN, appActive : BOOLEAN]
          /\ snapshot' \in Reading /\ music' \in {Nobody, "audio", "media_bridge"}
          /\ MusicHasASource' /\ DisabledIsReleased'
      BY <2>1, <2>2, RefreshSound DEF BridgeTypeOK, MusicHasASource
    <3> QED  BY <2>1, <3>1 DEF BridgeTypeOK, worker
  <2>3. CASE UNCHANGED <<bridge, snapshot, music>>
    BY <2>1, <2>3 DEF worker, BridgeTypeOK, MusicHasASource, Playing, DisabledIsReleased
  <2> QED  BY <1>8, <2>2, <2>3 DEF ProviderEvent
<1>9. CASE \E b \in BOOLEAN : SetAppActive(b)
  <2>1. UNCHANGED <<os, worker, queued, player>>  BY <1>9 DEF SetAppActive
  <2>2. CASE SetAppActive(TRUE)
    <3> DEFINE c == [bridge EXCEPT !.appActive = TRUE]
    <3>1. c \in [enabled : BOOLEAN, local : BOOLEAN, appActive : BOOLEAN]
          /\ c.enabled = bridge.enabled /\ c.local = bridge.local
      BY DEF BridgeTypeOK
    <3>2. RefreshAndProject(c, music)  BY <2>2 DEF SetAppActive
    <3>3. /\ bridge' \in [enabled : BOOLEAN, local : BOOLEAN, appActive : BOOLEAN]
          /\ snapshot' \in Reading /\ music' \in {Nobody, "audio", "media_bridge"}
          /\ MusicHasASource' /\ DisabledIsReleased'
      <4> HIDE DEF c
      <4> QED  BY <2>1, <3>1, <3>2, RefreshSound DEF BridgeTypeOK, MusicHasASource
    <3> QED  BY <2>1, <3>3 DEF BridgeTypeOK, worker
  <2>3. CASE SetAppActive(FALSE)
    <3>1. bridge' = [bridge EXCEPT !.appActive = FALSE] /\ UNCHANGED <<snapshot, music>>
      BY <2>3 DEF SetAppActive
    <3>2. /\ bridge' \in [enabled : BOOLEAN, local : BOOLEAN, appActive : BOOLEAN]
          /\ bridge'.enabled = bridge.enabled /\ bridge'.local = bridge.local
      BY <3>1 DEF BridgeTypeOK
    <3>3. MusicHasASource' /\ DisabledIsReleased'
      BY <2>1, <3>1, <3>2 DEF worker, MusicHasASource, Playing, DisabledIsReleased
    <3> QED  BY <2>1, <3>1, <3>2, <3>3 DEF worker, BridgeTypeOK
  <2> QED  BY <1>9, <2>2, <2>3
<1>10. CASE Play \/ PauseOrStop \/ PlayerError
  <2>1. UNCHANGED <<os, worker, queued>>
    BY <1>10 DEF Play, PauseOrStop, PlayerError
  <2>2. player' \in {"none", "idle", "playing", "failed"}
    BY <1>10 DEF Play, PauseOrStop, PlayerError
  <2>3. CASE \E p \in BOOLEAN : PlayerChanged(p)
    <3>1. /\ bridge' \in [enabled : BOOLEAN, local : BOOLEAN, appActive : BOOLEAN]
          /\ snapshot' \in Reading /\ music' \in {Nobody, "audio", "media_bridge"}
          /\ MusicHasASource' /\ DisabledIsReleased'
      BY <2>1, <2>3, PlaybackSound
    <3> QED  BY <2>1, <2>2, <3>1 DEF BridgeTypeOK, worker
  <2>4. CASE Silently
    BY <2>1, <2>2, <2>4
       DEF Silently, worker, BridgeTypeOK, MusicHasASource, Playing, DisabledIsReleased
  <2> QED  BY <1>10, <2>3, <2>4 DEF Play, PauseOrStop, PlayerError
<1>11. CASE EndsSilently
  BY <1>11 DEF EndsSilently, Silently, worker, BridgeTypeOK, MusicHasASource, Playing,
               DisabledIsReleased
<1>12. CASE \E c \in Apps \cup {Nobody} : CurrentChanged(c)
  <2>1. os' \in Reading
    BY <1>12, <1>a DEF CurrentChanged, Reading
  <2>2. rescans' = Outdated(rescans) /\ clean' \in BOOLEAN
    BY <1>12 DEF CurrentChanged, Unheard, BridgeTypeOK
  <2> QED  BY <1>12, <1>c, <2>1, <2>2
              DEF CurrentChanged, BridgeTypeOK, MusicHasASource, Playing, DisabledIsReleased
<1>13. CASE ListingFails
  <2>1. bridge.enabled  BY <1>13 DEF ListingFails, DisabledIsReleased
  <2>2. tokens' \subseteq Apps /\ heard' \subseteq tokens'
    BY <1>13 DEF ListingFails, Subscribe, Unsubscribed, Sessions, BridgeTypeOK
  <2> QED  BY <1>13, <1>c, <2>1, <2>2
              DEF ListingFails, BridgeTypeOK, MusicHasASource, Playing, DisabledIsReleased
<1>14. CASE UNCHANGED bridgeVars
  BY <1>14 DEF bridgeVars, worker, BridgeTypeOK, MusicHasASource, Playing, DisabledIsReleased
<1> QED
  BY <1>1, <1>2, <1>3, <1>4, <1>5, <1>6, <1>7, <1>8, <1>9, <1>10, <1>11, <1>12, <1>13, <1>14
     DEF BridgeNext, WorkerStep

\* The bridge starts with nothing of the system.
LEMMA BridgeInitSound == BridgeInit => BridgeInv
<1> SUFFICES ASSUME BridgeInit PROVE BridgeInv
  OBVIOUS
<1>1. rescans \in Seq(Rescans) /\ Len(rescans) = 0  BY EmptySeq DEF BridgeInit
<1>2. os \in Reading /\ published \in Reading /\ snapshot \in Reading
  BY DEF BridgeInit, Reading, Nothing, Statuses
<1>3. 0 <= MaxRescans  BY MediaAssumption
<1>4. BridgeTypeOK  BY <1>1, <1>2, <1>3 DEF BridgeInit, BridgeTypeOK
<1>5. MusicHasASource /\ DisabledIsReleased
  BY MediaAssumption DEF BridgeInit, MusicHasASource, DisabledIsReleased
<1> QED  BY <1>4, <1>5 DEF BridgeInv

\* The MUSIC fact always has the source its owner names, and a bridge that is
\* disabled holds nothing of the system: whatever the players, the rescans in
\* flight and their failures, and the order of the two threads' steps.
THEOREM MusicIsHonest == BridgeSpec => []BridgeInv
  BY BridgeInitSound, BridgePreserved, PTL DEF BridgeSpec

-----------------------------------------------------------------------------
(* The gates of what runs only for a pet in sight *)

\* What each gate was set to, as long as the pet has not been shut down: the
\* clock by its two handlers, the idle timeline and the bridge by the last of
\* the handlers that knows both reasons.  No observation runs while its gate
\* is closed, and none for a character that is not being observed.
GatesAsSet ==
  /\ clock.suspended = suspended
  /\ ~down => clock.visible = shown
  /\ down => ~clock.visible /\ hotkey = "off"
  /\ shown /\ ~down => /\ idleRuns <=> ~suspended
                       /\ told <=> ~suspended
  /\ health.timer => shown /\ ~suspended /\ ~down

PresenceIInv == PresenceTypeOK /\ GatesAsSet

Clocks == [visible : BOOLEAN, suspended : BOOLEAN]
Observations == [expected : BOOLEAN, painted : BOOLEAN, timer : BOOLEAN]

\* The properties say what the gates were set to.
LEMMA PresenceImplied == PresenceIInv => PresenceInv
  BY DEF PresenceIInv, GatesAsSet, PresenceInv, PresenceTypeOK, GatesAgree, NothingLeft,
         ClockRuns

\* The pet starts hidden, and with nothing under observation yet.
LEMMA PresenceInitSound == PresenceInit => PresenceIInv
<1> SUFFICES ASSUME PresenceInit PROVE PresenceIInv
  OBVIOUS
<1>1. PICK restored \in BOOLEAN :
        health = [expected |-> restored, painted |-> FALSE, timer |-> FALSE]
  BY DEF PresenceInit
<1>2. health \in Observations /\ ~health.timer  BY <1>1 DEF Observations
<1>3. clock \in Clocks /\ ~clock.visible /\ ~clock.suspended
  BY DEF PresenceInit, Clocks
<1>4. PresenceTypeOK
  BY <1>2, <1>3 DEF PresenceInit, PresenceTypeOK, Clocks, Observations
<1> QED  BY <1>2, <1>3, <1>4 DEF PresenceInit, PresenceIInv, GatesAsSet

\* An observation is resumed when both reasons to pause it are gone, and not
\* otherwise.
LEMMA ResumedSound ==
  ASSUME health \in Observations, NEW v \in BOOLEAN, NEW s \in BOOLEAN
  PROVE  /\ Resumed(v, s) \in Observations
         /\ Resumed(v, s).timer => health.timer \/ (v /\ ~s /\ ~down)
<1>1. CASE health.expected /\ health.painted /\ Open(v, s) /\ ~down
  <2>1. Resumed(v, s) = [health EXCEPT !.timer = TRUE]  BY <1>1 DEF Resumed
  <2> QED  BY <1>1, <2>1 DEF Observations, Open
<1>2. CASE ~(health.expected /\ health.painted /\ Open(v, s) /\ ~down)
  <2>1. Resumed(v, s) = health  BY <1>2 DEF Resumed
  <2> QED  BY <2>1
<1> QED  BY <1>1, <1>2

\* A paused observation runs no timer.
LEMMA PausedSound ==
  ASSUME health \in Observations
  PROVE  Paused \in Observations /\ ~Paused.timer
  BY DEF Paused, Observations

\* A message of the system sets the flag and every gate that depends on it;
\* one that says what is known, or comes to another handle, sets nothing.
LEMMA MessageSound ==
  ASSUME PresenceIInv, NEW number \in Nat, Message(number), UNCHANGED <<shown, down, hotkey>>
  PROVE  /\ suspended' \in BOOLEAN /\ clock' \in Clocks /\ health' \in Observations
         /\ idleRuns' \in BOOLEAN /\ told' \in BOOLEAN
         /\ GatesAsSet'
<1> USE DEF PresenceIInv
<1>t. clock \in Clocks /\ health \in Observations /\ suspended \in BOOLEAN
      /\ shown \in BOOLEAN /\ down \in BOOLEAN
  BY DEF PresenceTypeOK, Clocks, Observations
<1>1. CASE Notices(number)
  <2> DEFINE s == Heard(number)
  <2>1. s \in BOOLEAN  BY <1>t DEF Heard
  <2>2. SetSuspended(s) /\ ~down  BY <1>1 DEF Message, Notices
  <2> HIDE DEF s
  <2>3. clock' = [clock EXCEPT !.suspended = s] /\ suspended' = s
    BY <2>2 DEF SetSuspended
  <2>4. clock' \in Clocks /\ clock'.suspended = s /\ clock'.visible = clock.visible
    BY <1>t, <2>1, <2>3 DEF Clocks
  <2>5. idleRuns' = Open(shown, s) /\ told' = Open(shown, s)
    BY <2>2 DEF SetSuspended, UpdateIdle
  <2>6. Open(shown, s) \in BOOLEAN /\ (shown => (Open(shown, s) <=> ~s))
    BY <1>t, <2>1 DEF Open
  <2>7. health' \in Observations /\ (health'.timer => shown /\ ~s /\ ~down)
    <3>1. CASE s  
      <4>1. health' = Paused  BY <2>2, <3>1 DEF SetSuspended
      <4> QED  BY <1>t, <4>1, PausedSound
    <3>2. CASE ~s
      <4>1. health' = Resumed(shown, s)  BY <2>2, <3>2 DEF SetSuspended
      <4>2. health.timer => shown  BY DEF GatesAsSet
      <4> QED  BY <1>t, <2>1, <2>2, <3>2, <4>1, <4>2, ResumedSound
    <3> QED  BY <3>1, <3>2
  <2> QED  BY <1>t, <2>1, <2>2, <2>3, <2>4, <2>5, <2>6, <2>7 DEF GatesAsSet
<1>2. CASE ~Notices(number)
  <2>1. UNCHANGED <<suspended, gates>>  BY <1>2 DEF Message
  <2> QED  BY <1>t, <2>1 DEF gates, GatesAsSet, PresenceTypeOK
<1> QED  BY <1>1, <1>2

\* Every handler leaves each gate as the handlers before it expect.
LEMMA PresencePreserved == PresenceIInv /\ [PresenceNext]_presenceVars => PresenceIInv'
<1> SUFFICES ASSUME PresenceIInv, [PresenceNext]_presenceVars PROVE PresenceIInv'
  OBVIOUS
<1> USE DEF PresenceIInv
<1>t. /\ clock \in Clocks /\ health \in Observations
      /\ shown \in BOOLEAN /\ down \in BOOLEAN /\ suspended \in BOOLEAN
      /\ away \subseteq Causes /\ woken \in BOOLEAN
      /\ watching \in BOOLEAN /\ hotkey \in {"on", "off", "stale"}
      /\ idleRuns \in BOOLEAN /\ told \in BOOLEAN
  BY DEF PresenceTypeOK, Clocks, Observations
<1>n. \A c \in Causes : LeaveEvent[c] \in Nat /\ ReturnEvent[c] \in Nat
  BY PresenceAssumption DEF AllCauses, LeaveEvent, ReturnEvent
<1>1. CASE Show
  <2>1. /\ ~down /\ shown' = TRUE /\ clock' = [clock EXCEPT !.visible = TRUE]
        /\ idleRuns' = Open(TRUE, suspended) /\ told' = Open(TRUE, suspended)
        /\ health' = Resumed(TRUE, suspended) /\ UNCHANGED <<down, session, windowed>>
    BY <1>1 DEF Show, UpdateIdle
  <2>2. clock' \in Clocks /\ clock'.visible /\ clock'.suspended = clock.suspended
    BY <1>t, <2>1 DEF Clocks
  <2>3. Open(TRUE, suspended) = ~suspended  BY <1>t DEF Open
  <2>4. health' \in Observations /\ (health'.timer => ~suspended /\ ~down)
    BY <1>t, <2>1, ResumedSound DEF GatesAsSet
  <2> QED  BY <1>t, <2>1, <2>2, <2>3, <2>4
              DEF GatesAsSet, PresenceTypeOK, session, windowed, Clocks, Observations
<1>2. CASE Hide
  <2>1. /\ ~down /\ shown' = FALSE /\ clock' = [clock EXCEPT !.visible = FALSE]
        /\ idleRuns' = Open(FALSE, suspended) /\ told' = Open(FALSE, suspended)
        /\ health' = Paused /\ UNCHANGED <<down, session, windowed>>
    BY <1>2 DEF Hide, UpdateIdle
  <2>2. clock' \in Clocks /\ ~clock'.visible /\ clock'.suspended = clock.suspended
    BY <1>t, <2>1 DEF Clocks
  <2>3. Open(FALSE, suspended) = FALSE  BY DEF Open
  <2>4. health' \in Observations /\ ~health'.timer
    BY <1>t, <2>1, PausedSound
  <2> QED  BY <1>t, <2>1, <2>2, <2>3, <2>4
              DEF GatesAsSet, PresenceTypeOK, session, windowed, Clocks, Observations
<1>3. CASE FirstPaint
  <2> DEFINE h == [health EXCEPT !.painted = TRUE]
  <2>1. /\ shown /\ ~down /\ health' = IF Open(shown, suspended)
                      THEN [h EXCEPT !.timer = TRUE] ELSE h
        /\ UNCHANGED <<shown, down, session, windowed, clock, idleRuns, told>>
    BY <1>3 DEF FirstPaint
  <2>2. h \in Observations /\ h.timer = health.timer  BY <1>t DEF Observations
  <2>3. CASE Open(shown, suspended)
    <3>1. health' = [h EXCEPT !.timer = TRUE]  BY <2>1, <2>3
    <3>2. health' \in Observations  BY <2>2, <3>1 DEF Observations
    <3>3. ~suspended  BY <2>3 DEF Open
    <3> HIDE DEF h
    <3> QED  BY <1>t, <2>1, <3>2, <3>3
                DEF GatesAsSet, PresenceTypeOK, session, windowed, Clocks, Observations
  <2>4. CASE ~Open(shown, suspended)
    <3>1. health' = h  BY <2>1, <2>4
    <3> HIDE DEF h
    <3> QED  BY <1>t, <2>1, <2>2, <3>1
                DEF GatesAsSet, PresenceTypeOK, session, windowed, Clocks, Observations
  <2> QED  BY <2>3, <2>4
<1>4. CASE ObservationEnds
  <2>1. UNCHANGED <<shown, down, session, windowed, clock, idleRuns, told>>
    BY <1>4 DEF ObservationEnds
  <2>2. health' \in Observations /\ ~health'.timer
    <3>1. CASE Open(shown, suspended)
      BY <1>4, <3>1 DEF ObservationEnds, Observations
    <3>2. CASE ~Open(shown, suspended)
      BY <1>t, <1>4, <3>2, PausedSound DEF ObservationEnds
    <3> QED  BY <3>1, <3>2
  <2> QED  BY <1>t, <2>1, <2>2
              DEF GatesAsSet, PresenceTypeOK, session, windowed, Clocks, Observations
<1>5. CASE WokenByUser \/ \E c \in Causes : Leave(c) \/ Return(c)
  <2>1. PICK number \in Nat : Message(number)
    <3>1. CASE WokenByUser
      <4>1. PBT_APMRESUMESUSPEND \in Nat  BY DEF PBT_APMRESUMESUSPEND
      <4> QED  BY <3>1, <4>1 DEF WokenByUser
    <3>2. CASE \E c \in Causes : Leave(c)   BY <1>n, <3>2 DEF Leave
    <3>3. CASE \E c \in Causes : Return(c)  BY <1>n, <3>3 DEF Return
    <3> QED  BY <1>5, <3>1, <3>2, <3>3
  <2>2. UNCHANGED <<shown, down, windowed>> /\ away' \subseteq Causes /\ woken' \in BOOLEAN
    <3>1. CASE WokenByUser  BY <1>t, <3>1 DEF WokenByUser
    <3>2. CASE \E c \in Causes : Leave(c)  BY <1>t, <3>2 DEF Leave
    <3>3. CASE \E c \in Causes : Return(c)
      <4> PICK c \in Causes : Return(c)  BY <3>3
      <4>1. woken' \in {woken, TRUE}  BY DEF Return
      <4> QED  BY <1>t, <4>1 DEF Return
    <3> QED  BY <1>5, <3>1, <3>2, <3>3
  <2>3. /\ suspended' \in BOOLEAN /\ clock' \in Clocks /\ health' \in Observations
        /\ idleRuns' \in BOOLEAN /\ told' \in BOOLEAN
        /\ GatesAsSet'
    BY <2>1, <2>2, MessageSound DEF windowed
  <2> QED  BY <1>t, <2>2, <2>3 DEF PresenceTypeOK, windowed, Clocks, Observations
<1>6. CASE SetWindowFlags \/ ApplySettings
  <2>1. UNCHANGED <<shown, down, session, gates>> /\ ~down
    BY <1>6 DEF SetWindowFlags, ApplySettings
  <2>2. watching' \in BOOLEAN /\ hotkey' \in {"on", "off", "stale"}
    BY <1>t, <1>6 DEF SetWindowFlags, ApplySettings, Reattached
  <2> QED  BY <1>t, <2>1, <2>2 DEF GatesAsSet, PresenceTypeOK, session, gates
<1>7. CASE ShutdownPresence
  <2>1. /\ down' = TRUE /\ clock' = [clock EXCEPT !.visible = FALSE]
        /\ health' = [expected |-> FALSE, painted |-> FALSE, timer |-> FALSE]
        /\ hotkey' = "off" /\ UNCHANGED <<shown, session, watching, idleRuns, told>>
    BY <1>7 DEF ShutdownPresence, DetachHotkey
  <2>2. clock' \in Clocks /\ ~clock'.visible /\ clock'.suspended = clock.suspended
    BY <1>t, <2>1 DEF Clocks
  <2>3. health' \in Observations /\ ~health'.timer  BY <2>1 DEF Observations
  <2> QED  BY <1>t, <2>1, <2>2, <2>3
              DEF GatesAsSet, PresenceTypeOK, session, Clocks, Observations
<1>8. CASE UNCHANGED presenceVars
  BY <1>t, <1>8
     DEF presenceVars, session, windowed, gates, GatesAsSet, PresenceTypeOK, Clocks, Observations
<1> QED
  BY <1>1, <1>2, <1>3, <1>4, <1>5, <1>6, <1>7, <1>8 DEF PresenceNext

\* Nothing runs for a pet that cannot be seen and everything for one that can,
\* as far as the session watch knows, and a shutdown leaves no timer and no
\* hotkey: whatever messages of the system come in whatever order, and whether
\* the window's handle is replaced or not.
THEOREM PresenceHolds == PresenceSpec => []PresenceInv
  BY PresenceInitSound, PresencePreserved, PresenceImplied, PTL DEF PresenceSpec
=============================================================================
