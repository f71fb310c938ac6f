------------------------------ MODULE Presence ------------------------------
(***************************************************************************)
(* Whether the pet is there to be seen, and what runs only then: the frame *)
(* clock (VisualClock), the idle animation (IdleTimeline), and the         *)
(* observation that makes a restored character the last known good one.    *)
(* Two things close the gate: the window is hidden, and the session is     *)
(* locked, asleep or disconnected.  The second is learned from native      *)
(* messages to the pet's window (SessionWatchFilter), whose handle Qt may  *)
(* replace when a window flag changes; the global hotkey is bound to the   *)
(* same handle.  The bridge to the system's players (MediaBridge) is told   *)
(* by the same handlers.  Each runs on the GUI thread and is one action.   *)
(***************************************************************************)
EXTENDS Naturals

CONSTANT Causes  \* reasons of the session to be away that can occur

AllCauses == {"lock", "sleep", "remote"}

ASSUME PresenceAssumption == Causes \subseteq AllCauses

\* The numbers of the native events; PBT_ of WM_POWERBROADCAST, WTS_ of
\* WM_WTSSESSION_CHANGE.
LeaveEvent  == [lock |-> 7, sleep |-> 4, remote |-> 4]
ReturnEvent == [lock |-> 8, sleep |-> 18, remote |-> 3]
PBT_APMRESUMESUSPEND == 7

SuspendEvents == {4, 7}
ResumeEvents  == {18, 3, 8}

VARIABLES
  shown,      \* the window is visible
  down,       \* _shutdown_complete
  away,       \* why the session is away, truly
  woken,      \* the message that the user woke the machine is on its way
  watching,   \* the handle the session watch knows is the window's
  suspended,  \* the flag of the watch and of the application
  hotkey,     \* registered for the window, for a handle that is gone, or not
  clock,      \* _visible and _suspended of the frame clock
  idleRuns,   \* the idle timeline is not frozen
  told,       \* what the media bridge was told last (set_app_active)
  health      \* expected, painted, timer: the observation of the character

session      == <<away, woken, suspended>>
windowed     == <<watching, hotkey>>
gates        == <<clock, idleRuns, told, health>>
presenceVars == <<shown, down, session, windowed, gates>>

PresenceTypeOK ==
  /\ shown \in BOOLEAN /\ down \in BOOLEAN
  /\ away \subseteq Causes /\ woken \in BOOLEAN
  /\ watching \in BOOLEAN /\ suspended \in BOOLEAN
  /\ hotkey \in {"on", "off", "stale"}
  /\ clock \in [visible : BOOLEAN, suspended : BOOLEAN] /\ idleRuns \in BOOLEAN /\ told \in BOOLEAN
  /\ health \in [expected : BOOLEAN, painted : BOOLEAN, timer : BOOLEAN]

PresenceInit ==
  /\ shown = FALSE /\ down = FALSE
  /\ away = {} /\ woken = FALSE /\ watching = TRUE /\ suspended = FALSE
  /\ hotkey \in {"on", "off"}
  /\ clock = [visible |-> FALSE, suspended |-> FALSE] /\ idleRuns = TRUE
  /\ told = TRUE
  /\ \E restored \in BOOLEAN :
       health = [expected |-> restored, painted |-> FALSE, timer |-> FALSE]

-----------------------------------------------------------------------------
\* Frames are composed.
ClockRuns == clock.visible /\ ~clock.suspended

\* Mutant: what is visible runs, locked or not.
OpenIfVisible(visible, susp) == visible

\* Both reasons to pause have to be gone.
Open(visible, susp) == visible /\ ~susp

\* _update_idle_timeline_running
UpdateIdle(visible, susp) == idleRuns' = Open(visible, susp) /\ told' = Open(visible, susp)

\* Mutant: an observation that was paused stays so.
NotResumed(visible, susp) == health

\* _resume_active_health_observation: a fresh interval, or none.
Resumed(visible, susp) ==
  IF health.expected /\ health.painted /\ Open(visible, susp) /\ ~down
  THEN [health EXCEPT !.timer = TRUE] ELSE health

Paused == [health EXCEPT !.timer = FALSE]

\* _show_window, from the tray, a second instance or the startup timer.
Show ==
  /\ ~down
  /\ shown' = TRUE
  /\ clock' = [clock EXCEPT !.visible = TRUE]
  /\ UpdateIdle(TRUE, suspended)
  /\ health' = Resumed(TRUE, suspended)
  /\ UNCHANGED <<down, session, windowed>>

Hide ==
  /\ shown /\ ~down
  /\ shown' = FALSE
  /\ clock' = [clock EXCEPT !.visible = FALSE]
  /\ UpdateIdle(FALSE, suspended)
  /\ health' = Paused
  /\ UNCHANGED <<down, session, windowed>>

\* Only the first frame that is painted is reported.
FirstPaint ==
  /\ shown /\ ~down /\ health.expected /\ ~health.painted
  /\ LET h == [health EXCEPT !.painted = TRUE] IN
     health' = IF Open(shown, suspended) THEN [h EXCEPT !.timer = TRUE] ELSE h
  /\ UNCHANGED <<shown, down, session, windowed, clock, idleRuns, told>>

\* The interval is over: _complete_active_health_observation.
ObservationEnds ==
  /\ health.timer /\ ~down
  /\ health' = IF Open(shown, suspended)
               THEN [expected |-> FALSE, painted |-> FALSE, timer |-> FALSE] ELSE Paused
  /\ UNCHANGED <<shown, down, session, windowed, clock, idleRuns, told>>

-----------------------------------------------------------------------------
(* The session *)

\* _on_session_suspended
SetSuspended(s) ==
  /\ suspended' = s
  /\ clock' = [clock EXCEPT !.suspended = s]
  /\ UpdateIdle(shown, s)
  /\ health' = IF s THEN Paused ELSE Resumed(shown, s)

\* What the watch makes of an event number, whatever message it came with.
Heard(number) ==
  IF number \in SuspendEvents THEN TRUE
  ELSE IF number \in ResumeEvents THEN FALSE ELSE suspended

\* Messages to another handle are ignored, and so is a state known already.
Notices(number) == watching /\ ~down /\ Heard(number) # suspended

Message(number) ==
  IF Notices(number) THEN SetSuspended(Heard(number)) ELSE UNCHANGED <<suspended, gates>>

Leave(c) ==
  /\ c \notin away /\ away' = away \cup {c}
  /\ Message(LeaveEvent[c])
  /\ UNCHANGED <<shown, down, woken, windowed>>

\* A machine the user wakes sends a second message after the first.
Return(c) ==
  /\ c \in away /\ away' = away \ {c}
  /\ Message(ReturnEvent[c])
  /\ woken' \in IF c = "sleep" THEN {woken, TRUE} ELSE {woken}
  /\ UNCHANGED <<shown, down, windowed>>

WokenByUser ==
  /\ woken /\ woken' = FALSE
  /\ Message(PBT_APMRESUMESUSPEND)
  /\ UNCHANGED <<shown, down, away, windowed>>

-----------------------------------------------------------------------------
(* The native window *)

\* TodoHotkeyFilter.attach; another program may own the combination.
Reattached(recreated) ==
  IF hotkey = "on" /\ ~recreated THEN hotkey' = hotkey ELSE hotkey' \in {"on", "off"}

\* _set_click_through, _set_always_on_top; a visible window is shown again.
SetWindowFlags ==
  /\ ~down
  /\ \E recreated \in BOOLEAN : watching' = (watching /\ ~recreated) /\ Reattached(recreated)
  /\ UNCHANGED <<shown, down, session, gates>>

\* The settings dialog sets the same flag and forgets the hotkey.
ApplySettings ==
  /\ ~down
  /\ \E recreated \in BOOLEAN : /\ watching' = (watching /\ ~recreated)
                                /\ hotkey' = IF recreated /\ hotkey = "on" THEN "stale" ELSE hotkey
  /\ UNCHANGED <<shown, down, session, gates>>

\* Mutant: the hotkey is not given back.
KeepHotkey == UNCHANGED hotkey

\* _detach_qt_lifecycle: a registration is released, if it is still owned.
DetachHotkey == hotkey' = "off"

ShutdownPresence ==
  /\ ~down /\ down' = TRUE
  /\ clock' = [clock EXCEPT !.visible = FALSE]
  /\ health' = [expected |-> FALSE, painted |-> FALSE, timer |-> FALSE]
  /\ DetachHotkey
  /\ UNCHANGED <<shown, session, watching, idleRuns, told>>

-----------------------------------------------------------------------------
PresenceNext ==
  \/ Show \/ Hide \/ FirstPaint \/ ObservationEnds
  \/ WokenByUser \/ \E c \in Causes : Leave(c) \/ Return(c)
  \/ SetWindowFlags \/ ApplySettings \/ ShutdownPresence

PresenceSpec == PresenceInit /\ [][PresenceNext]_presenceVars

\* A visible window is painted, and the timer of the observation runs out.
PresenceFairness == WF_presenceVars(FirstPaint) /\ WF_presenceVars(ObservationEnds)

PresenceFairSpec == PresenceSpec /\ PresenceFairness

-----------------------------------------------------------------------------
(* Properties *)

\* Nothing runs for a pet that cannot be seen, as far as the watch knows, and
\* everything runs for one that can: clearing one reason to pause never
\* clears the other's.
GatesAgree ==
  /\ ClockRuns => shown /\ ~suspended
  /\ health.timer => ClockRuns
  /\ shown /\ ~down => /\ ClockRuns <=> ~suspended
                       /\ idleRuns <=> ~suspended
                       /\ told <=> ~suspended

\* After the shutdown no timer runs and the hotkey is free for others.
NothingLeft == down => ~ClockRuns /\ ~health.timer /\ hotkey = "off"

PresenceInv == PresenceTypeOK /\ GatesAgree /\ NothingLeft

\* A restored character that stays in sight is found healthy.
ObservationCompletes ==
  <>[](shown /\ ~suspended /\ ~down) => <>[](~health.expected)
=============================================================================
