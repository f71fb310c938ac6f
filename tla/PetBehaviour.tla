---------------------------- MODULE PetBehaviour ----------------------------
(***************************************************************************)
(* What the pet performs, and why.  Services, menus, the todo focus and    *)
(* the music player state facts (ContextStore), each under an owner; on    *)
(* every change the resolver picks one performance from the facts and the  *)
(* character's capabilities, and the bridge forces it on the executor      *)
(* (ActionController).  Clicks, the actions page and the random scheduler  *)
(* drive the executor directly.                                            *)
(*                                                                         *)
(* Everything runs on the GUI thread: a handler, with the re-resolution    *)
(* its fact changes cause, is one action, and so is the whole of the 1 Hz  *)
(* service tick (resume, schedule and random services, in that order).     *)
(* Durations are abstracted to "may have passed", except the delay before  *)
(* a rest ends, which is armed in one tick and due in a later one.         *)
(***************************************************************************)
EXTENDS Naturals

CONSTANTS
  Facts,    \* facts, named by the action that performs them
  Kinds,    \* the facts the day's reminders state
  Bodies,   \* capability tables of the characters that can be shown
  Gated,    \* actions the user disables and enables
  Offered,  \* actions asked for on the actions page
  Asked,    \* facts the menus state
  None

Precedence ==
  [meeting |-> 1, work |-> 2, eat |-> 3, exercise |-> 4, music |-> 5, rest |-> 6]
FactOrder ==
  [work |-> 1, rest |-> 2, eat |-> 3, exercise |-> 4, meeting |-> 5, music |-> 6]
AllFacts == DOMAIN Precedence

\* Everything the executor has a specification for; the random actions are one.
Acts   == AllFacts \cup {"idle", "interact", "random"}
Owners == {"user", "menu", "schedule", "rhythm", "todo", "audio"}
Ways   == {"resolve", "direct", "once"}

ASSUME BehaviourAssumption ==
  /\ Facts \subseteq AllFacts /\ {"work", "rest", "meeting"} \subseteq Facts
  /\ Kinds \subseteq Facts \cap {"eat", "exercise"}
  /\ Bodies \subseteq SUBSET Facts /\ Facts \in Bodies
  /\ Gated \subseteq Acts /\ Offered \subseteq Acts /\ Asked \subseteq Facts
  /\ None \notin Acts \cup Owners \cup Ways

VARIABLES
  pet,           \* facts, with owners; the running action; who asked for it
  caps,          \* the capabilities of the character on screen
  disabled,      \* actions whose mode is "disabled"
  manual,        \* ScheduleManager._manual_meeting
  fromSchedule,  \* ScheduleManager._meeting_from_schedule
  window,        \* the time of day lies in a meeting window
  input,         \* active, idle; unlinked: unknown, or the link is off
  resume,        \* _resume_at: none, armed, due
  emote,         \* EmoteController holds an emote
  focus          \* the focus projection the todo module published last

schedule == <<manual, fromSchedule>>
world    == <<window, input>>
vars     == <<pet, caps, disabled, schedule, world, resume, emote, focus>>

TypeOK ==
  /\ pet \in [facts : [Facts -> Owners \cup {None}], act : Acts \cup {None},
              by : Ways \cup {None}]
  /\ caps \in Bodies /\ disabled \subseteq Gated
  /\ manual \in BOOLEAN /\ fromSchedule \in BOOLEAN /\ window \in BOOLEAN
  /\ input \in {"active", "idle", "unlinked"}
  /\ resume \in {"none", "armed", "due"} /\ emote \in BOOLEAN /\ focus \in BOOLEAN

Init ==
  /\ pet = [facts |-> [f \in Facts |-> None], act |-> None, by |-> None]
  /\ caps = Facts /\ disabled = {}
  /\ manual = FALSE /\ fromSchedule = FALSE /\ window \in BOOLEAN
  /\ input = "active" /\ resume = "none"
  /\ emote = FALSE /\ focus = FALSE

-----------------------------------------------------------------------------
(* Facts and their resolution *)

Held(s) == {f \in Facts : s.facts[f] # None}

\* The first member of S in an order, or None.
FirstIn(order, S) ==
  IF S = {} THEN None ELSE CHOOSE f \in S : \A g \in S : order[f] <= order[g]

\* Mutant: the fact is resolved although the character cannot show it.
ResolveAnyway(s, c) == FirstIn(Precedence, Held(s))

\* The performance of the facts; None stands for core.idle.
Resolve(s, c) ==
  LET top == FirstIn(Precedence, Held(s)) IN IF top \in c THEN top ELSE None

Ended(s) == [s EXCEPT !.act = None, !.by = None]

\* Disabled by the user: the gate of every request, forced ones included.
Vetoed(a) == a \in disabled

\* ActionController.request, when it accepts.
Accepted(s, a, by) == [s EXCEPT !.act = a, !.by = by]

\* The bridge's forced request may be vetoed by the mode of the action.
Apply(s, c) ==
  LET a == Resolve(s, c) IN
  IF a = None \/ Vetoed(a) THEN Ended(s) ELSE Accepted(s, a, "resolve")

\* A fact has one owner: the last to state it.
SetFact(s, f, owner) ==
  IF s.facts[f] = owner THEN s
  ELSE Apply([s EXCEPT !.facts[f] = owner], caps)

\* A clear that names an owner leaves the facts of others alone.
ClearOwned(s, f, owner) ==
  IF s.facts[f] # owner THEN s ELSE Apply([s EXCEPT !.facts[f] = None], caps)

\* The port of the services clears whoever stated the fact.
ClearFact(s, f) == ClearOwned(s, f, s.facts[f])

\* What the services take for the current action.
CurrentAction(s) == FirstIn(FactOrder, Held(s))

-----------------------------------------------------------------------------
(* Menus, pages and modules *)

MenuRequest(f) ==
  /\ pet' = SetFact(pet, f, "user")
  /\ UNCHANGED <<caps, disabled, schedule, world, resume, emote, focus>>

\* Stand by: the user's own facts go, those of services stay.
Standby ==
  /\ pet' = Apply([pet EXCEPT !.facts =
                     [f \in Facts |-> IF @[f] = "user" THEN None ELSE @[f]]], caps)
  /\ UNCHANGED <<caps, disabled, schedule, world, resume, emote, focus>>

ManualMeetingOn ==
  /\ manual' = TRUE
  /\ pet' = SetFact(pet, "meeting", "menu")
  /\ UNCHANGED <<caps, disabled, fromSchedule, world, resume, emote, focus>>

\* Only a meeting that the services see as the current action is ended.
ManualMeetingOff ==
  /\ manual /\ manual' = FALSE
  /\ pet' = IF CurrentAction(pet) = "meeting" THEN ClearFact(pet, "meeting") ELSE pet
  /\ UNCHANGED <<caps, disabled, fromSchedule, world, resume, emote, focus>>

MarkStarted(k) ==
  /\ pet' = SetFact(pet, k, "menu")
  /\ UNCHANGED <<caps, disabled, schedule, world, resume, emote, focus>>

\* The player starts, or it stops, pauses or fails.
PlaybackChanged(playing) ==
  /\ "music" \in Facts
  /\ pet' = IF playing THEN SetFact(pet, "music", "audio") ELSE ClearFact(pet, "music")
  /\ UNCHANGED <<caps, disabled, schedule, world, resume, emote, focus>>

\* Mutant: the end of the focus is not passed on.
SyncFocusOnly(focusing) ==
  /\ focus' = focusing
  /\ pet' = IF focusing THEN SetFact(pet, "work", "todo") ELSE pet
  /\ UNCHANGED <<caps, disabled, schedule, world, resume, emote>>

\* A todo event: the projection crosses the bridge.
SyncFocus(focusing) ==
  /\ focus' = focusing
  /\ pet' = IF focusing THEN SetFact(pet, "work", "todo")
            ELSE ClearOwned(pet, "work", "todo")
  /\ UNCHANGED <<caps, disabled, schedule, world, resume, emote>>

\* EmoteController.request: refused in a meeting and while another emote is
\* held; nothing reads the emote again, so nothing finds it expired.
EmoteAccepted == ~emote /\ pet.facts["meeting"] = None

Click ==
  /\ EmoteAccepted /\ emote' = TRUE
  /\ pet' = IF Vetoed("interact") THEN pet ELSE Accepted(pet, "interact", "direct")
  /\ UNCHANGED <<caps, disabled, schedule, world, resume, focus>>

\* Mutant: in a meeting the request of the actions page is not filtered.
AnyTime(a) == a # pet.act /\ ~Vetoed(a)

\* The gates of the actions page; a cooldown may have passed.
MayPerform(a) ==
  /\ a # pet.act /\ ~Vetoed(a)
  /\ pet.facts["meeting"] # None => a = "music"

\* Played to its end, or, with the loop switched off, once.
Perform(a) ==
  /\ MayPerform(a)
  /\ \E by \in {"direct", "once"} : pet' = Accepted(pet, a, by)
  /\ UNCHANGED <<caps, disabled, schedule, world, resume, emote, focus>>

\* Mutant: a running action that is disabled goes on.
DisableOnly(a) == pet

DisableRunning(a) == IF pet.act = a THEN Ended(pet) ELSE pet

SetMode(a) ==
  /\ \/ disabled' = disabled \ {a} /\ pet' = pet
     \/ disabled' = disabled \cup {a} /\ pet' = DisableRunning(a)
  /\ UNCHANGED <<caps, schedule, world, resume, emote, focus>>

\* Another character is on screen: the facts are resolved for it.
SyncCapabilities(c) ==
  /\ caps' = c
  /\ pet' = Apply(pet, c)
  /\ UNCHANGED <<disabled, schedule, world, resume, emote, focus>>

-----------------------------------------------------------------------------
(* The visual clock and the service clock *)

\* Finite actions, and those asked to play once, end by themselves.
FrameTick ==
  /\ pet.act \in {"eat", "exercise", "interact", "random"} \/ pet.by = "once"
  /\ pet' = Ended(pet)
  /\ UNCHANGED <<caps, disabled, schedule, world, resume, emote, focus>>

\* Mutant: work begins beside other facts.
WorkBeside(s, current, long) ==
  IF current # "work" /\ long THEN SetFact(s, "work", "rhythm") ELSE s

\* Sustained activity starts work when no fact holds; long says that the
\* activity and the last switch are old enough.
BeginWork(s, current, long) ==
  IF current = None /\ long THEN SetFact(s, "work", "rhythm") ELSE s

\* Mutant: the delay before the rest ends is never armed.
NeverArmed(long) ==
  LET current == CurrentAction(pet)
      rested  == IF current = "rest" /\ resume = "due" THEN ClearFact(pet, "rest") ELSE pet
  IN [pet    |-> BeginWork(rested, current, long),
      resume |-> IF current # "rest" THEN "none" ELSE resume]

\* RhythmController._on_active; current is read before the rest is ended.
OnActive(long) ==
  LET current == CurrentAction(pet)
      rested  == IF current = "rest" /\ resume = "due" THEN ClearFact(pet, "rest") ELSE pet
  IN [pet    |-> BeginWork(rested, current, long),
      resume |-> IF current # "rest" THEN "none"
                 ELSE IF resume = "none" THEN "armed" ELSE resume]

\* RhythmController._on_idle: a long idle time ends work and starts a rest.
OnIdle(long) ==
  LET current == CurrentAction(pet)
      freed   == IF current = "work" THEN ClearFact(pet, "work") ELSE pet
  IN [pet    |-> IF long /\ current \in {None, "work"}
                 THEN SetFact(freed, "rest", "rhythm") ELSE pet,
      resume |-> resume]

RhythmTick(long) ==
  CASE input = "active"   -> OnActive(long)
    [] input = "idle"     -> OnIdle(long)
    [] input = "unlinked" -> [pet |-> pet, resume |-> resume]

\* Mutant: the schedule does not note that the meeting is its own.
ForgetfulMeetings(s) ==
  IF manual THEN [pet |-> s, own |-> fromSchedule]
  ELSE IF window /\ CurrentAction(s) # "meeting"
       THEN [pet |-> SetFact(s, "meeting", "schedule"), own |-> fromSchedule]
  ELSE IF ~window /\ CurrentAction(s) = "meeting" /\ fromSchedule
       THEN [pet |-> ClearFact(s, "meeting"), own |-> FALSE]
  ELSE [pet |-> s, own |-> fromSchedule]

\* ScheduleManager._check_meeting_windows
CheckMeetingWindows(s) ==
  IF manual THEN [pet |-> s, own |-> fromSchedule]
  ELSE IF window /\ CurrentAction(s) # "meeting"
       THEN [pet |-> SetFact(s, "meeting", "schedule"),
             own |-> fromSchedule \/ s.facts["meeting"] # "schedule"]
  ELSE IF ~window /\ CurrentAction(s) = "meeting" /\ fromSchedule
       THEN [pet |-> ClearFact(s, "meeting"), own |-> FALSE]
  ELSE [pet |-> s, own |-> fromSchedule]

\* The reminders that are due state their facts.
Remind(s, due) ==
  LET eaten == IF "eat" \in due THEN SetFact(s, "eat", "schedule") ELSE s
  IN IF "exercise" \in due THEN SetFact(eaten, "exercise", "schedule") ELSE eaten

\* A random action only replaces nothing or an idle; it is off in meetings.
TryFire(s, fires) ==
  IF fires /\ ~manual /\ ~window /\ s.act \in {None, "idle"} /\ ~Vetoed("random")
  THEN Accepted(s, "random", "direct") ELSE s

SlowTick ==
  /\ UNCHANGED <<caps, disabled, manual, world, emote, focus>>
  /\ \E long \in BOOLEAN : \E r \in {RhythmTick(long)} :
       /\ resume' = r.resume
       /\ \E m \in {CheckMeetingWindows(r.pet)} :
            /\ fromSchedule' = m.own
            /\ \E due \in SUBSET Kinds, fires \in BOOLEAN :
                 pet' = TryFire(Remind(m.pet, due), fires)

\* The delay before a rest ends passes.
DelayPasses ==
  /\ resume = "armed" /\ resume' = "due"
  /\ UNCHANGED <<pet, caps, disabled, schedule, world, emote, focus>>

\* The day goes on; the user comes and goes, or switches the link off.
TimePasses ==
  /\ \/ window' = ~window /\ input' = input
     \/ window' = window /\ input' \in {"active", "idle", "unlinked"} \ {input}
  /\ UNCHANGED <<pet, caps, disabled, schedule, resume, emote, focus>>

-----------------------------------------------------------------------------
UserStep ==
  \/ \E f \in Asked : MenuRequest(f)
  \/ Standby \/ ManualMeetingOn \/ ManualMeetingOff \/ Click
  \/ \E k \in Kinds : MarkStarted(k)
  \/ \E b \in BOOLEAN : PlaybackChanged(b) \/ SyncFocus(b)
  \/ \E a \in Offered : Perform(a)
  \/ \E a \in Gated : SetMode(a)
  \/ \E c \in Bodies : SyncCapabilities(c)

Next == UserStep \/ FrameTick \/ SlowTick \/ DelayPasses \/ TimePasses

Spec == Init /\ [][Next]_vars

\* The service clock goes on ticking and time passes.  Only the ticks during a
\* rest are waited for by a property, so the fairness of the others, which the
\* clock has as well, is not stated.
TickInRest == pet.facts["rest"] = "rhythm" /\ input = "active" /\ SlowTick

Fairness == WF_vars(TickInRest) /\ WF_vars(DelayPasses)

FairSpec == Spec /\ Fairness

-----------------------------------------------------------------------------
(* Properties *)

\* What the resolver put on the executor is what the facts call for now: it
\* outlives neither its fact nor the character that can show it, and no fact
\* of a higher precedence is passed over.
ResolvedIsCurrent ==
  pet.by = "resolve" =>
    /\ pet.act \in Held(pet) \cap caps
    /\ \A f \in Held(pet) : Precedence[pet.act] <= Precedence[f]

\* A disabled action is never performed, whoever asks.
DisabledNeverPlayed == pet.act \notin disabled

\* A meeting the schedule stated is one it remembers to end.
ScheduleRemembers == pet.facts["meeting"] = "schedule" => fromSchedule

\* The two facts of the rhythm exclude each other.
RhythmExcludes == ~(pet.facts["work"] = "rhythm" /\ pet.facts["rest"] = "rhythm")

\* A working fact of the todo module means that a task is in focus.
FocusIsReal == pet.facts["work"] = "todo" => focus

Inv ==
  /\ TypeOK
  /\ ResolvedIsCurrent
  /\ DisabledNeverPlayed
  /\ ScheduleRemembers
  /\ RhythmExcludes
  /\ FocusIsReal

\* While a meeting goes on, nothing starts but the meeting and muted music,
\* by whatever path it is asked for (the discipline matrix).
Discipline ==
  [][(/\ pet.facts["meeting"] # None /\ pet'.facts["meeting"] # None
      /\ manual \/ window
      /\ pet'.act # pet.act)
     => pet'.act \in {"meeting", "music", None}]_vars

\* A rest the rhythm began ends once the user is back, unless work hides it.
RestEnds ==
  <>[](input = "active" /\ pet.facts["work"] = None)
    => <>[](pet.facts["rest"] # "rhythm")
=============================================================================
