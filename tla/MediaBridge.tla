----------------------------- MODULE MediaBridge -----------------------------
(***************************************************************************)
(* Music: the pet's own player (AudioManager) and the bridge to the        *)
(* players of the system (SystemMediaBridge over _SmtcWorker).  Both state *)
(* the MUSIC fact, each under its own name.                                *)
(*                                                                         *)
(* The worker lives on a thread of its own.  An event of the system asks   *)
(* for a rescan after a short delay; a rescan lists the sessions, awaits   *)
(* each of them, publishes what it read and posts a provider event.  The   *)
(* flag that merges requests is reset when a rescan starts, so rescans     *)
(* overlap.  The bridge, the player and the handlers of the application    *)
(* run on the GUI thread and are one action each.  A command to a player   *)
(* of the system changes what it does, now or after the caller gave up: it *)
(* is one of the changes of the system.                                    *)
(***************************************************************************)
EXTENDS Naturals, Sequences, FiniteSets

CONSTANTS
  Apps,        \* applications that may have a media session
  MaxRescans,  \* bound: rescans in flight at once
  Nobody

ASSUME MediaAssumption ==
  /\ IsFiniteSet(Apps) /\ Apps # {}
  /\ Nobody \notin Apps \cup {"audio", "media_bridge"}
  /\ MaxRescans \in Nat \ {0}

VARIABLES
  os,         \* what the sessions of the system do, and which is current
  tokens,     \* applications the worker holds a subscription for (_session_tokens)
  heard,      \* those whose session is still the one subscribed to
  published,  \* _summaries and _active_id
  scheduled,  \* _rescan_scheduled
  rescans,    \* rescans in flight, the oldest first
  queued,     \* a provider event waits in the GUI thread's queue
  bridge,     \* _enabled, _local_playback, _app_active
  snapshot,   \* the bridge's cached snapshot
  player,     \* the local player; idle when made and not playing
  music,      \* the owner of the MUSIC fact
  clean       \* history: the newest rescan was the last to publish, and nothing made
              \* its listing Outdated

worker     == <<tokens, heard, published, scheduled, rescans, clean>>
bridgeVars == <<os, worker, queued, bridge, snapshot, player, music>>

Statuses == {"absent", "quiet", "playing"}
Reading  == [st : [Apps -> Statuses], active : Apps \cup {Nobody}]
Nothing  == [st |-> [a \in Apps |-> "absent"], active |-> Nobody]

\* A session that is found and not yet read has status "await".
Rescans == [st : [Apps -> Statuses \cup {"await"}], active : Apps \cup {Nobody},
            latest : BOOLEAN]

BridgeTypeOK ==
  /\ os \in Reading /\ heard \subseteq tokens /\ tokens \subseteq Apps /\ published \in Reading
  /\ scheduled \in BOOLEAN /\ rescans \in Seq(Rescans) /\ Len(rescans) <= MaxRescans
  /\ queued \in BOOLEAN /\ snapshot \in Reading /\ clean \in BOOLEAN
  /\ bridge \in [enabled : BOOLEAN, local : BOOLEAN, appActive : BOOLEAN]
  /\ player \in {"none", "idle", "playing", "failed"}
  /\ music \in {Nobody, "audio", "media_bridge"}

BridgeInit ==
  /\ os = Nothing /\ tokens = {} /\ heard = {} /\ published = Nothing
  /\ scheduled = FALSE /\ rescans = <<>> /\ queued = FALSE /\ snapshot = Nothing
  /\ bridge = [enabled |-> FALSE, local |-> FALSE, appActive |-> TRUE]
  /\ player = "none" /\ music = Nobody /\ clean = TRUE

-----------------------------------------------------------------------------
(* The system's sessions, and the worker that follows them *)

Sessions(r) == {a \in Apps : r.st[a] # "absent"}

\* Mutant: an event is left to the rescan in flight.
ScheduleUnlessBusy(event) ==
  scheduled' = (scheduled \/ (event /\ bridge.enabled /\ rescans = <<>>))

\* _schedule_rescan, when the change is an event the worker hears.
Schedule(event) == scheduled' = (scheduled \/ (event /\ bridge.enabled))

\* A rescan that has still to read a session that ends reads it as unknown.
UnreadOf(a) ==
  [i \in DOMAIN rescans |-> [rescans[i] EXCEPT !.st[a] = IF @ = "await" THEN "quiet" ELSE @]]

\* Rescans in flight whose listing is not the last word
Outdated(flight) == [i \in DOMAIN flight |-> [flight[i] EXCEPT !.latest = FALSE]]

\* A session begins or ends.  Its application keeps its subscription until a
\* rescan misses it, and a later session of it is another one.
SessionsChanged ==
  /\ \E a \in Apps, s \in Statuses, c \in Apps \cup {Nobody} :
       /\ (s = "absent") # (os.st[a] = "absent")
       /\ os' = [st |-> [os.st EXCEPT ![a] = s], active |-> c]
       /\ c # Nobody => c \in Sessions(os')
       /\ heard' = heard \ {a} /\ rescans' = UnreadOf(a)
  /\ Schedule(TRUE)
  /\ UNCHANGED <<tokens, published, clean, queued, bridge, snapshot, player, music>>

\* A change that raises no event the worker could hear
Unheard == rescans' = Outdated(rescans) /\ clean' = (clean /\ ~bridge.enabled)

\* The system makes another session the current one, or none; no handler is
\* registered for that.
CurrentChanged(c) ==
  /\ c \in Sessions(os) \cup {Nobody} /\ c # os.active
  /\ os' = [os EXCEPT !.active = c]
  /\ Unheard
  /\ UNCHANGED <<tokens, heard, published, scheduled, queued, bridge, snapshot, player, music>>

\* A player starts or stops; only the session subscribed to is heard.
PlaybackInfoChanged(a) ==
  /\ os.st[a] # "absent"
  /\ os' = [os EXCEPT !.st[a] = IF @ = "playing" THEN "quiet" ELSE "playing"]
  /\ Schedule(a \in heard)
  /\ IF a \in tokens \ heard THEN Unheard ELSE UNCHANGED <<rescans, clean>>
  /\ UNCHANGED <<tokens, heard, published, queued, bridge, snapshot, player, music>>

\* The applications of os that are not in _session_tokens
Unsubscribed == Sessions(os) \ tokens

\* Mutant: sessions are listed and none is subscribed to.
ListedOnly(apps) == UNCHANGED <<tokens, heard>>

\* _subscribe, for each of them: a session of a known application is not new
Subscribe(apps) == tokens' = tokens \cup apps /\ heard' = heard \cup apps

\* _run_rescan, and _rescan before its first await.
RunRescan ==
  /\ scheduled /\ Len(rescans) < MaxRescans
  /\ scheduled' = FALSE
  /\ rescans' = Append(Outdated(rescans),
       [st |-> [a \in Apps |-> IF a \in Sessions(os) THEN "await" ELSE "absent"],
        active |-> os.active, latest |-> TRUE])
  /\ Subscribe(Unsubscribed)
  /\ UNCHANGED <<os, published, clean, queued, bridge, snapshot, player, music>>

\* A rescan that raises while it lists the sessions and subscribes to them.
ListingFails ==
  /\ scheduled /\ Len(rescans) < MaxRescans
  /\ scheduled' = FALSE /\ rescans' = Outdated(rescans) /\ clean' = FALSE
  /\ \E apps \in SUBSET Unsubscribed : Subscribe(apps)
  /\ UNCHANGED <<os, published, queued, bridge, snapshot, player, music>>

\* The await of one session returns.
Summarize(i, a) ==
  /\ rescans[i].st[a] = "await"
  /\ rescans' = [rescans EXCEPT ![i].st[a] =
                   IF os.st[a] = "playing" THEN "playing" ELSE "quiet"]
  /\ UNCHANGED <<os, tokens, heard, published, scheduled, clean, queued, bridge, snapshot,
                 player, music>>

Without(i) == SubSeq(rescans, 1, i - 1) \o SubSeq(rescans, i + 1, Len(rescans))

\* An overtaken rescan drops the subscription of a session it did not find.
DropsPresent(i) == ~rescans[i].latest /\ (tokens \ Sessions(rescans[i])) \cap Sessions(os) # {}

\* The end of _rescan: applications it did not find are unsubscribed, the
\* summaries published and the provider event posted.
Publish(i) ==
  /\ \A a \in Apps : rescans[i].st[a] # "await"
  /\ clean' = rescans[i].latest
  /\ rescans' = IF DropsPresent(i) THEN Outdated(Without(i)) ELSE Without(i)
  /\ tokens' = tokens \cap Sessions(rescans[i]) /\ heard' = heard \cap Sessions(rescans[i])
  /\ published' = [st |-> rescans[i].st,
                   active |-> IF rescans[i].active \in Sessions(rescans[i])
                              THEN rescans[i].active ELSE Nobody]
  /\ queued' = TRUE
  /\ UNCHANGED <<os, scheduled, bridge, snapshot, player, music>>

\* A rescan that raises publishes nothing, and nothing asks for another one.
RescanFails(i) ==
  /\ rescans' = Without(i) /\ clean' = (clean /\ ~rescans[i].latest)
  /\ UNCHANGED <<os, tokens, heard, published, scheduled, queued, bridge, snapshot, player,
                 music>>

-----------------------------------------------------------------------------
(* The bridge: its snapshot and the fact it projects *)

\* _refresh
Refreshed(b) == IF b.enabled THEN published ELSE Nothing

Playing(b, s) == /\ b.enabled /\ ~b.local
                 /\ s.active # Nobody /\ s.st[s.active] = "playing"

\* The bridge clears its own fact and no other.
Cleared(m) == IF m = "media_bridge" THEN Nobody ELSE m

\* Mutant: a fact that no longer holds is left behind.
OnlySet(b, s, m) == IF Playing(b, s) THEN "media_bridge" ELSE m

\* _project
Project(b, s, m) == IF Playing(b, s) THEN "media_bridge" ELSE Cleared(m)

RefreshAndProject(b, m) ==
  /\ bridge' = b /\ snapshot' = Refreshed(b)
  /\ music' = Project(b, Refreshed(b), m)

\* The first rescan of the worker, which may raise at any point of it
FirstRescan ==
  \/ tokens' = Sessions(os) /\ published' = os /\ queued' = TRUE /\ clean' = TRUE
  \/ tokens' \in SUBSET Sessions(os) /\ clean' = FALSE /\ UNCHANGED <<published, queued>>

\* set_enabled(True): the system refuses, or the worker runs, whatever became
\* of its first rescan; nothing is projected until its event arrives.
Enable ==
  /\ ~bridge.enabled
  /\ \/ /\ bridge' = [bridge EXCEPT !.enabled = TRUE]
        /\ FirstRescan /\ heard' = tokens' /\ snapshot' = published'
     \/ snapshot' = Nothing /\ UNCHANGED <<bridge, tokens, heard, published, queued, clean>>
  /\ UNCHANGED <<os, scheduled, rescans, player, music>>

\* set_enabled(False): the worker's loop ends with whatever it had begun.
Disable ==
  /\ bridge.enabled
  /\ bridge' = [bridge EXCEPT !.enabled = FALSE]
  /\ tokens' = {} /\ heard' = {} /\ published' = Nothing /\ scheduled' = FALSE
  /\ rescans' = <<>> /\ clean' = TRUE
  /\ snapshot' = Nothing /\ music' = Cleared(music)
  /\ UNCHANGED <<os, queued, player>>

\* _on_provider_event: ignored while disabled, hidden or suspended.
ProviderEvent ==
  /\ queued /\ queued' = FALSE
  /\ IF bridge.enabled /\ bridge.appActive THEN RefreshAndProject(bridge, music)
     ELSE UNCHANGED <<bridge, snapshot, music>>
  /\ UNCHANGED <<os, worker, player>>

\* Mutant: nothing is read again when the pet comes back.
ActivateOnly(active) ==
  /\ bridge' = [bridge EXCEPT !.appActive = active]
  /\ UNCHANGED <<snapshot, music>>
  /\ UNCHANGED <<os, worker, queued, player>>

\* set_app_active; the provider of the product offers no way to pause it.
SetAppActive(active) ==
  /\ IF active THEN RefreshAndProject([bridge EXCEPT !.appActive = TRUE], music)
     ELSE bridge' = [bridge EXCEPT !.appActive = FALSE] /\ UNCHANGED <<snapshot, music>>
  /\ UNCHANGED <<os, worker, queued, player>>

-----------------------------------------------------------------------------
(* The local player *)

\* Mutant: the end of local playback is not passed on to the bridge.
FactOnly(playing) ==
  /\ music' = IF playing THEN "audio" ELSE Nobody
  /\ bridge' = [bridge EXCEPT !.local = @ \/ playing] /\ UNCHANGED snapshot

\* playback_changed: the fact is stated or, whoever stated it, cleared; then
\* set_local_playback_active, which does nothing when nothing changed.
PlayerChanged(playing) ==
  LET stated == IF playing THEN "audio" ELSE Nobody IN
  IF playing = bridge.local THEN music' = stated /\ UNCHANGED <<bridge, snapshot>>
  ELSE RefreshAndProject([bridge EXCEPT !.local = playing], stated)

Silently == UNCHANGED <<bridge, snapshot, music>>

\* play(): refused when there is no sound, track or backend; a start that
\* fails leaves the player stopped, or the backend in quarantine.
Play ==
  /\ \/ player # "failed" /\ player' = "playing" /\ PlayerChanged(TRUE)
     \/ player # "failed" /\ player' \in {"idle", "failed"} /\ PlayerChanged(FALSE)
     \/ player = "none" /\ player' = "failed" /\ Silently
  /\ UNCHANGED <<os, worker, queued>>

\* pause(), and stop() when the sound is switched off.
PauseOrStop ==
  /\ player = "playing" /\ player' \in {"idle", "failed"} /\ PlayerChanged(FALSE)
  /\ UNCHANGED <<os, worker, queued>>

\* The backend reports an error, whether or not it plays.
PlayerError ==
  /\ player \in {"idle", "playing"}
  /\ player' \in {"idle", "failed"} /\ PlayerChanged(FALSE)
  /\ UNCHANGED <<os, worker, queued>>

\* A backend that fails a query or a volume change is dropped, and the track
\* of a playlist emptied meanwhile ends, without a word.
EndsSilently ==
  /\ \/ player \in {"idle", "playing"} /\ player' = "failed"
     \/ player = "playing" /\ player' = "idle"
  /\ Silently
  /\ UNCHANGED <<os, worker, queued>>

-----------------------------------------------------------------------------
WorkerStep ==
  \/ RunRescan \/ ListingFails
  \/ \E i \in DOMAIN rescans :
       \/ Publish(i) \/ RescanFails(i)
       \/ \E a \in Apps : Summarize(i, a)

BridgeNext ==
  \/ SessionsChanged \/ \E c \in Apps \cup {Nobody} : CurrentChanged(c)
  \/ \E a \in Apps : PlaybackInfoChanged(a)
  \/ WorkerStep
  \/ Enable \/ Disable \/ ProviderEvent \/ \E b \in BOOLEAN : SetAppActive(b)
  \/ Play \/ PauseOrStop \/ PlayerError \/ EndsSilently

BridgeSpec == BridgeInit /\ [][BridgeNext]_bridgeVars

\* The worker's loop and the queue of the GUI thread go on.
BridgeFairness == WF_bridgeVars(WorkerStep) /\ WF_bridgeVars(ProviderEvent)

BridgeFairSpec == BridgeSpec /\ BridgeFairness

-----------------------------------------------------------------------------
(* Properties *)

\* The bridge's fact is about another player that plays, never beside the
\* local one, and the player's fact lasts as long as the bridge defers to it.
MusicHasASource ==
  /\ music = "media_bridge" => Playing(bridge, snapshot)
  /\ music = "audio" <=> bridge.local

\* What is disabled has released everything.
DisabledIsReleased ==
  ~bridge.enabled => tokens = {} /\ rescans = <<>> /\ ~scheduled /\ snapshot = Nothing

BridgeInv == BridgeTypeOK /\ MusicHasASource /\ DisabledIsReleased

\* Once the system's players are left alone, the open bridge comes to show
\* what they do: every session found is heard, and no event is lost to a
\* rescan, a snapshot or the return of the pet.  It needs the newest rescan to
\* be the last to publish, and after its listing no change of the current
\* session alone, none of a session that replaced the one subscribed to, and
\* no subscription dropped by a rescan it overtook.
BridgeSettles ==
  (<>[][FALSE]_os /\ <>[](bridge.enabled /\ bridge.appActive /\ clean))
    => <>[](snapshot = os)
=============================================================================
