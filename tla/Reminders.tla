------------------------------ MODULE Reminders ------------------------------
(***************************************************************************)
(* The reminders of ScheduleManager and the file that remembers them.  A   *)
(* tick of the service clock reminds of the times in the settings; the     *)
(* menu starts, snoozes or skips one.  What was done today is kept per     *)
(* slot in state.json, where a slot is the POSITION of a time in the list  *)
(* of the settings, so that a restart does not remind again; nobody looks  *)
(* at whether that file could be written.                                  *)
(*                                                                         *)
(* One kind of reminder and one day at a time: midnight begins with an     *)
(* empty entry, whatever is left in those of earlier days.                 *)
(***************************************************************************)
EXTENDS UserFiles, Sequences

CONSTANTS
  LastHour,      \* bound: the day has the hours 0 .. LastHour
  Window,        \* how long after its time a slot may still be reminded of
  Delay,         \* of a snooze
  SnoozeLimit,
  MaxMidnights,  \* bound: days that follow the first
  Budget         \* bound: operations on the settings and hours of the day together

ASSUME RemindersAssumption ==
  /\ {LastHour, Window, Delay, SnoozeLimit, MaxMidnights, Budget} \subseteq Nat
  /\ \A ts \in TimeLists : ts \in Seq(0 .. LastHour)

VARIABLES
  now,       \* the hour of the day
  slots,     \* the entry of today in StateStore._data
  saved,     \* the entry of today in state.json
  fired,     \* history: reminders shown today for each slot, while nothing was lost
  lost,      \* history: today's entry was lost, by a save that failed or a crash
  midnights

day  == <<now, midnights>>
book == <<slots, saved, fired, lost>>
all  == <<settings, up, day, book>>

Slots == 1 .. 2
Fresh == [reminded |-> FALSE, completed |-> FALSE, snoozes |-> 0, at |-> Absent]
Entry == [i \in Slots |-> Fresh]

RemindersInit ==
  /\ Init
  /\ now = 0 /\ midnights = 0
  /\ slots = Entry /\ saved = Entry
  /\ fired = [i \in Slots |-> 0]
  /\ lost = FALSE

-----------------------------------------------------------------------------
Remember(new) ==
  /\ slots' = new
  /\ saved' \in {new, saved}

OpensAgain(i) == mem.times[i] <= now /\ now <= mem.times[i] + Window

\* A slot whose window is open is reminded of once.
Opens(i) ==
  /\ ~slots[i].reminded
  /\ mem.times[i] <= now /\ now <= mem.times[i] + Window

\* A snooze is over; whether it reminds depends on how many there were.
Due(i) ==
  /\ slots[i].at # Absent /\ ~slots[i].completed
  /\ slots[i].at <= now

Reminds(i) ==
  (IF Opens(i) THEN 1 ELSE 0)
    + (IF Due(i) /\ slots[i].snoozes < SnoozeLimit THEN 1 ELSE 0)

AfterTick(i) ==
  [slots[i] EXCEPT
     !.reminded = @ \/ Opens(i),
     !.snoozes  = IF Due(i) /\ @ < SnoozeLimit THEN @ + 1 ELSE @,
     !.at       = IF Due(i) THEN Absent ELSE @]

\* tick, of the reminders: every configured time in its turn.
Tick ==
  /\ up
  /\ LET there == DOMAIN mem.times IN
       /\ \E i \in there : Opens(i) \/ Due(i)
       /\ Remember([i \in Slots |-> IF i \in there THEN AfterTick(i) ELSE slots[i]])
       /\ fired' = [i \in Slots |-> IF i \in there /\ ~lost
                                   THEN fired[i] + Reminds(i) ELSE fired[i]]
  /\ UNCHANGED <<settings, up, day, lost>>

-----------------------------------------------------------------------------
First(set) == CHOOSE i \in set : \A j \in set : i <= j

Unanswered == {i \in DOMAIN mem.times : slots[i].reminded /\ ~slots[i].completed}
Begun      == {i \in DOMAIN mem.times : mem.times[i] <= now}

\* _pending_slot: the first reminder without an answer, or the first time begun.
Pending ==
  IF Unanswered # {} THEN {First(Unanswered)}
  ELSE IF Begun # {} THEN {First(Begun)} ELSE {}

Answer(i, slot) ==
  /\ Remember([slots EXCEPT ![i] = slot])
  /\ UNCHANGED <<settings, up, day, fired, lost>>

StillOpen(i) == [slots[i] EXCEPT !.completed = TRUE]
Closed(i)    == [slots[i] EXCEPT !.reminded = TRUE, !.completed = TRUE, !.at = Absent]

\* mark_started and skip_today.
StartOrSkip == up /\ \E i \in Pending : Answer(i, Closed(i))

Snooze ==
  /\ up
  /\ \E i \in Pending :
       /\ slots[i].snoozes < SnoozeLimit
       /\ Answer(i, [slots[i] EXCEPT !.reminded = TRUE, !.at = now + Delay])

\* Moving the pet saves state.json too, with what an earlier save left out.
SavePosition ==
  /\ up /\ saved # slots
  /\ saved' = slots
  /\ UNCHANGED <<settings, up, day, slots, fired, lost>>

-----------------------------------------------------------------------------
Within == now + changes < Budget

Pass ==
  /\ Within
  /\ now < LastHour /\ now' = now + 1
  /\ UNCHANGED <<settings, up, midnights, book>>

Midnight ==
  /\ now = LastHour /\ midnights < MaxMidnights
  /\ now' = 0 /\ midnights' = midnights + 1
  /\ slots' = Entry /\ saved' = Entry
  /\ fired' = [i \in Slots |-> 0] /\ lost' = FALSE
  /\ UNCHANGED <<settings, up>>

\* Both files are read at the start, and saved once more when the program ends.
StartProgram == Start /\ slots' = saved /\ UNCHANGED <<day, saved, fired, lost>>

StopProgram ==
  /\ Stop
  /\ saved' \in {slots, saved}
  /\ lost' = (lost \/ saved' # slots)
  /\ slots' = Entry
  /\ UNCHANGED <<day, fired>>

\* A state.json that cannot be read is put aside.
DamageState ==
  /\ ~up /\ saved # Entry
  /\ saved' = Entry /\ lost' = TRUE
  /\ UNCHANGED <<settings, up, day, slots, fired>>

RemindersNext ==
  \/ Within /\ User /\ UNCHANGED <<day, book>>
  \/ Damage /\ UNCHANGED <<day, book>>
  \/ StartProgram \/ StopProgram \/ DamageState
  \/ Tick \/ StartOrSkip \/ Snooze \/ SavePosition
  \/ Pass \/ Midnight

RemindersSpec == RemindersInit /\ [][RemindersNext]_all

-----------------------------------------------------------------------------
(***************************************************************************)
(* Properties.                                                             *)
(***************************************************************************)
Slot == [reminded : BOOLEAN, completed : BOOLEAN, snoozes : 0 .. SnoozeLimit,
         at : 0 .. (LastHour + Delay) \cup {Absent}]

RemindersTypeOK ==
  /\ now \in 0 .. LastHour /\ midnights \in 0 .. MaxMidnights
  /\ slots \in [Slots -> Slot] /\ saved \in [Slots -> Slot]
  /\ fired \in [Slots -> 0 .. SnoozeLimit + 1]
  /\ lost \in BOOLEAN

\* A slot is reminded of once a day, and once more for each snooze, whatever is
\* restarted or edited: unless the file that remembers could not be written.
OncePerSlot ==
  ~lost => \A i \in Slots :
             fired[i] <= 1 + (IF up THEN slots[i].snoozes ELSE saved[i].snoozes)

RemindersInv == RemindersTypeOK /\ OncePerSlot

\* What was started or skipped is not reminded of again that day, not even when it
\* was snoozed before, or is snoozed after (which is answered, and never happens).
DoneIsQuiet ==
  [][\A i \in Slots : slots[i].completed => fired'[i] <= fired[i]]_all
=============================================================================
