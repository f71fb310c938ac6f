----------------------------- MODULE LocalImport -----------------------------
(***************************************************************************)
(* Importing a character pack from a file.  A child process takes a        *)
(* snapshot of the file, inspects it (PackAdmission) and sends what it     *)
(* found: one frame of metadata, then the bytes in chunks.  The parent is  *)
(* the characters page, which polls the pipe from a timer                  *)
(* (_LocalImportWorker), asks the user and installs what the child sent;   *)
(* or a command that waits for the child (preflight_local_pack).           *)
(*                                                                         *)
(* The child may die, hang or fail at any step, the file may be replaced   *)
(* at any time, and the page may be closed or the program left while a     *)
(* dialog runs its own event loop.  The first-run choice between the       *)
(* official character and a bundled pack uses the same way in.             *)
(*                                                                         *)
(* A message is in the pipe whole or not at all, and a process that is     *)
(* killed ends: so do the pipes and processes of the platform.             *)
(***************************************************************************)
EXTENDS PackAdmission, SequencesExt

CONSTANTS
  Packs,       \* every pack that is looked at
  Manifest,    \* what is in each of them
  Files,       \* those the file is, or is replaced by
  Bundled,     \* the pack that comes with the program
  Torn         \* a snapshot taken while the file was replaced

ASSUME ImportAssumption ==
  /\ Bundled \in Files /\ Files \subseteq Packs /\ Torn \notin Packs
  /\ None \notin Packs /\ None # Torn
  /\ None \notin {"command", "manual", "onboarding", "file", "confirm", "refused",
                  "invalid", "kept", "asked again", "recorded later"}

\* A manifest is a document of the format's shape, whatever is in it.
ASSUME PacksAssumption == \A p \in Packs : PackTyped(Manifest[p])

VARIABLES
  file,      \* what the path holds now
  child,     \* the inspector: where it is, its snapshot, its exit code
  pipe,      \* frames sent and not yet received
  parent,    \* _LocalImportWorker, or the command that waits
  panel,     \* is the characters page open, and the dialog on top of it
  offered,   \* the preview handed to the page, None without one
  library,   \* local packs installed
  active,    \* the active local pack, None for the official character
  marker,    \* the first-run choice: in memory, on disk, made this session
  consent,   \* history: packs the user agreed to after the inspection
  told       \* history: what the user was told of the first-run choice

process    == <<child, pipe, parent>>
choice     == <<marker, told>>
shelf      == <<library, active, consent>>
importVars == <<file, child, pipe, parent, panel, offered, library, active, marker,
                consent, told>>

-----------------------------------------------------------------------------
(* A payload of one whole chunk and a shorter one; an error frame is short. *)
ChunkSizes == <<2, 1>>
PayloadSize == 3

Meta(p)     == [kind |-> "meta", pack |-> p, size |-> 1]
Chunk(p, i) == [kind |-> "chunk", pack |-> p, size |-> ChunkSizes[i]]
ErrorFrame  == [kind |-> "error", pack |-> None, size |-> 1]
Payload(p)  == [i \in 1 .. Len(ChunkSizes) |-> Chunk(p, i)]
SizeOf(frames) == FoldLeft(LAMBDA n, f : n + f.size, 0, frames)

NoChild    == [pc |-> "none", snap |-> None, sent |-> 0, code |-> None]
FreshChild == [NoChild EXCEPT !.pc = "inspect"]
Alive      == child.pc \in {"inspect", "send", "close"}
Dead(code) == [child EXCEPT !.pc = "dead", !.code = code]

Idle == [st |-> "idle", mode |-> None, env |-> None, got |-> <<>>,
         pending |-> None, late |-> FALSE]
Started(mode) == [Idle EXCEPT !.st = "running", !.mode = mode]

Closed == [open |-> FALSE, dialog |-> None]

\* A program that shows the desktop, or one started for the command alone.
ImportInit ==
  /\ file \in Files
  /\ child = NoChild /\ pipe = <<>> /\ parent = Idle
  /\ panel \in {Closed, [open |-> FALSE, dialog |-> "command"]}
  /\ offered = None
  /\ library = {} /\ active = None /\ consent = {}
  /\ marker = [mem |-> FALSE, disk |-> FALSE, handled |-> FALSE]
  /\ told = None

Desktop == panel.dialog # "command"

-----------------------------------------------------------------------------
(***************************************************************************)
(* The child.                                                              *)
(***************************************************************************)
ChildStep(next, frames) ==
  /\ child' = next
  /\ pipe' = pipe \o frames
  /\ UNCHANGED <<file, parent, panel, offered, shelf, choice>>

Acceptable == {p \in Packs : Inspected(Manifest[p])}
Accepts(snap) == snap \in Acceptable

\* The snapshot is taken once; everything after it looks at the snapshot.
Inspect ==
  /\ child.pc = "inspect"
  /\ \E snap \in {file, Torn} :
       IF Accepts(snap)
       THEN ChildStep([child EXCEPT !.pc = "send", !.snap = snap], <<Meta(snap)>>)
       ELSE ChildStep([child EXCEPT !.pc = "close", !.snap = snap], <<ErrorFrame>>)

Send ==
  /\ child.pc = "send"
  /\ LET i == child.sent + 1 IN
       ChildStep([child EXCEPT !.sent = i,
                               !.pc = IF i = Len(ChunkSizes) THEN "close" ELSE "send"],
                 <<Chunk(child.snap, i)>>)

\* An exception between two chunks is reported as an error frame too.
SendFails ==
  /\ child.pc = "send"
  /\ ChildStep([child EXCEPT !.pc = "close"], <<ErrorFrame>>)

Exit == child.pc = "close" /\ ChildStep(Dead(0), <<>>)
Dies == Alive /\ ChildStep(Dead(1), <<>>)

Child == Inspect \/ Send \/ SendFails \/ Exit \/ Dies

-----------------------------------------------------------------------------
(***************************************************************************)
(* The parent.  recv is what it has received: the envelope and the chunks, *)
(* or the reason to stop.                                                  *)
(***************************************************************************)
\* One frame: the first is metadata, or the refusal; the rest are the bytes.
Receive(recv, frame) ==
  CASE recv.stop # None -> recv
    [] recv.stop = None /\ recv.env = None ->
         IF frame.kind = "meta" THEN [recv EXCEPT !.env = frame.pack]
                                ELSE [recv EXCEPT !.stop = "refused"]
    [] recv.stop = None /\ recv.env # None ->
         IF SizeOf(recv.got) + frame.size > PayloadSize
         THEN [recv EXCEPT !.stop = "invalid"]
         ELSE [recv EXCEPT !.got = Append(@, frame)]

SameSize(recv) == SizeOf(recv.got) = PayloadSize

\* preview_from_isolated_transfer: the bytes are those the metadata names.
Bound(recv) == recv.got = Payload(recv.env)

\* The pack these bytes are.
Content(recv) == IF recv.got = Payload(recv.env) THEN recv.env ELSE Torn

Whole(recv) == recv.env # None /\ SizeOf(recv.got) = PayloadSize

EndedAnyhow(code) == code \in {0, 1}
EndedWell(code)   == code = 0

Received == [env |-> parent.env, got |-> parent.got, stop |-> None]

\* _drain_available_messages: an event-loop turn takes what is in the pipe.
Drained == FoldLeft(Receive, Received, pipe)

\* _finish stops the child before anything is said to the page.
StopChild == child' = IF Alive THEN Dead(1) ELSE child
Over      == parent' = Idle /\ child' = NoChild

\* _import_preflighted_character_pack; a failure may leave the pack installed.
Install(p, ok) ==
  /\ library' \in {library, library \cup {p}}
  /\ ok => p \in library'

CompleteWithoutRollback(success, failure) ==
  \E saved \in BOOLEAN :
    /\ marker' = [mem |-> TRUE, disk |-> saved \/ marker.disk, handled |-> TRUE]
    /\ told' = IF saved THEN success ELSE failure

\* _complete_character_onboarding, and what the caller tells the user.
Complete(success, failure) ==
  \E saved \in BOOLEAN :
    /\ marker' = IF saved THEN [mem |-> TRUE, disk |-> TRUE, handled |-> TRUE]
                          ELSE [marker EXCEPT !.handled = TRUE]
    /\ told' = IF saved THEN success ELSE failure

AnyPreview(p) == Accepts(p)
IsExpected(p) == p = Bundled

\* _activate_bundled_character_preview: install, switch, remember the choice.
ActivateBundled(p) ==
  IF IsExpected(p)
  THEN \E installed, switched \in BOOLEAN :
         /\ Install(p, installed)
         /\ IF installed /\ switched
            THEN active' = p /\ Complete("kept", "recorded later")
            ELSE UNCHANGED <<active, choice>>
  ELSE UNCHANGED <<library, active, choice>>

\* The page hears of the result in the call that ends the worker.
Finish(result) ==
  /\ pipe' = <<>>
  /\ CASE parent.mode = "manual" /\ result # None ->
            /\ parent' = [parent EXCEPT !.st = "finished"]
            /\ StopChild
            /\ offered' = result
            /\ panel' = [panel EXCEPT !.dialog = "confirm"]
            /\ UNCHANGED <<library, active, choice>>
       [] parent.mode = "onboarding" /\ result # None ->
            Over /\ ActivateBundled(result) /\ UNCHANGED <<panel, offered>>
       [] result = None ->
            Over /\ UNCHANGED <<panel, offered, library, active, choice>>

Keep(recv, pending) ==
  /\ parent' = [parent EXCEPT !.env = recv.env, !.got = recv.got, !.pending = pending]
  /\ pipe' = <<>>
  /\ UNCHANGED <<child, panel, offered, library, active, choice>>

\* A whole payload is checked, and accepted once the child has ended well.
Drain ==
  \E recv \in {Drained} :
    CASE recv.stop # None \/ (Whole(recv) /\ ~Bound(recv)) -> Finish(None)
      [] recv.stop = None /\ Whole(recv) /\ Bound(recv) ->
           IF Alive THEN Keep(recv, Content(recv))
                    ELSE Finish(IF EndedWell(child.code) THEN Content(recv) ELSE None)
      [] recv.stop = None /\ ~Whole(recv) ->
           IF Alive THEN Keep(recv, None) ELSE Finish(None)

PollWithoutDeadline ==
  /\ parent.st = "running" /\ parent.mode # "command"
  /\ UNCHANGED <<file, consent>>
  /\ \/ /\ parent.pending # None /\ ~Alive
        /\ Finish(IF EndedWell(child.code) /\ pipe = <<>> THEN parent.pending ELSE None)
     \/ parent.pending = None /\ (pipe # <<>> \/ ~Alive) /\ Drain

\* One firing of the poll timer.
Poll ==
  /\ parent.st = "running" /\ parent.mode # "command"
  /\ UNCHANGED <<file, consent>>
  /\ \/ parent.late /\ Finish(None)
     \/ /\ ~parent.late /\ parent.pending # None /\ ~Alive
        /\ Finish(IF EndedWell(child.code) /\ pipe = <<>> THEN parent.pending ELSE None)
     \/ /\ ~parent.late /\ parent.pending = None
        /\ pipe # <<>> \/ ~Alive
        /\ Drain

\* preflight_local_pack raises, or returns the preview, when the child is stopped.
Return(result) ==
  /\ parent' = [parent EXCEPT !.st = "finished"]
  /\ offered' = result
  /\ StopChild
  /\ pipe' = <<>>

\* Its deadline is tested before each frame and while the child ends.
Wait ==
  /\ parent.st = "running" /\ parent.mode = "command"
  /\ \/ parent.late /\ (Alive \/ ~Whole(Received)) /\ Return(None)
     \/ /\ ~parent.late /\ pipe # <<>> /\ ~Whole(Received)
        /\ \E recv \in {Receive(Received, Head(pipe))} :
             IF recv.stop # None
             THEN Return(None)
             ELSE /\ parent' = [parent EXCEPT !.env = recv.env, !.got = recv.got]
                  /\ pipe' = Tail(pipe)
                  /\ UNCHANGED <<child, offered>>
     \/ ~parent.late /\ pipe = <<>> /\ ~Alive /\ ~Whole(Received) /\ Return(None)
     \/ /\ Whole(Received) /\ ~Alive
        /\ Return(IF EndedWell(child.code) /\ pipe = <<>> /\ Bound(Received)
                  THEN Content(Received) ELSE None)
  /\ UNCHANGED <<file, panel, shelf, choice>>

DeadlinePasses ==
  /\ parent.st = "running" /\ ~parent.late
  /\ parent' = [parent EXCEPT !.late = TRUE]
  /\ UNCHANGED <<file, child, pipe, panel, offered, shelf, choice>>

\* The command prints its verdict; nothing is installed.
Command ==
  /\ ~Desktop
  /\ parent.st \in {"idle", "finished"}
  /\ IF parent.st = "idle" THEN parent' = Started("command") /\ child' = FreshChild
                           ELSE Over
  /\ offered' = None
  /\ UNCHANGED <<file, pipe, panel, shelf, choice>>

-----------------------------------------------------------------------------
(***************************************************************************)
(* The characters page.                                                    *)
(***************************************************************************)
Start(mode) ==
  /\ parent' = Started(mode)
  /\ child' = FreshChild
  /\ pipe' = <<>>

\* The import button opens the file dialog; its answer may come after the page.
ChooseFile ==
  /\ panel.open /\ panel.dialog = None /\ parent.st = "idle"
  /\ panel' = [panel EXCEPT !.dialog = "file"]
  /\ UNCHANGED <<file, process, offered, shelf, choice>>

FileChosen ==
  /\ panel.dialog = "file"
  /\ panel' = [panel EXCEPT !.dialog = None]
  /\ \/ UNCHANGED process
     \/ panel.open /\ parent.st = "idle" /\ Start("manual")
  /\ UNCHANGED <<file, offered, shelf, choice>>

Pending == ~marker.handled /\ ~marker.mem /\ active = None

\* The button says what it agrees to: the pack whose identity is pinned.
EnablePreview ==
  /\ panel.open /\ panel.dialog = None /\ parent.st = "idle" /\ Pending
  /\ Start("onboarding")
  /\ consent' = consent \cup {Bundled}
  /\ UNCHANGED <<file, panel, offered, library, active, choice>>

KeepOfficial ==
  /\ panel.open /\ panel.dialog = None /\ parent.st = "idle" /\ Pending
  /\ Complete("kept", "asked again")
  /\ UNCHANGED <<file, process, panel, offered, shelf>>

ConfirmedAnyway ==
  /\ panel.dialog = "confirm"
  /\ panel' = [panel EXCEPT !.dialog = None]
  /\ Over /\ offered' = None
  /\ \/ /\ consent' = consent \cup {offered}
        /\ \E ok \in BOOLEAN : Install(offered, ok)
     \/ UNCHANGED <<library, consent>>
  /\ UNCHANGED <<file, pipe, active, choice>>

\* The user answers the confirmation; the page may be gone by now.
Confirmed ==
  /\ panel.dialog = "confirm"
  /\ panel' = [panel EXCEPT !.dialog = None]
  /\ Over /\ offered' = None
  /\ \/ /\ panel.open
        /\ consent' = consent \cup {offered}
        /\ \E ok \in BOOLEAN : Install(offered, ok)
     \/ UNCHANGED <<library, consent>>
  /\ UNCHANGED <<file, pipe, active, choice>>

\* A switch on the page, to an installed character or back to the official one.
SwitchTo ==
  /\ panel.open /\ panel.dialog = None
  /\ \E p \in library \cup {None} : p # active /\ active' = p
  /\ UNCHANGED <<file, process, panel, offered, library, consent, choice>>

OpenPanel ==
  /\ Desktop /\ ~panel.open /\ panel.dialog = None
  /\ panel' = [panel EXCEPT !.open = TRUE]
  /\ UNCHANGED <<file, process, offered, shelf, choice>>

\* _maybe_open_character_onboarding, on a manual start or a second launch.
Offer ==
  /\ Desktop /\ panel.dialog = None /\ ~marker.mem
  /\ IF active # None
     THEN Complete(None, None) /\ UNCHANGED panel
     ELSE /\ ~marker.handled
          /\ panel' = [panel EXCEPT !.open = TRUE]
          /\ UNCHANGED choice
  /\ UNCHANGED <<file, process, offered, shelf>>

\* dispose: the worker is cancelled, also under a dialog of the page.
DisposePage ==
  /\ panel.open
  /\ panel' = [panel EXCEPT !.open = FALSE]
  /\ IF parent.st = "running" THEN Over /\ pipe' = <<>> ELSE UNCHANGED process
  /\ UNCHANGED <<file, offered, shelf, choice>>

\* Leaving the program saves the settings once more; the next start reads them.
Restart ==
  /\ Desktop /\ ~panel.open /\ panel.dialog = None
  /\ \E saved \in BOOLEAN :
       LET disk == IF saved THEN marker.mem ELSE marker.disk IN
         marker' = [mem |-> disk, disk |-> disk, handled |-> FALSE]
  /\ UNCHANGED <<file, process, panel, offered, shelf, told>>

\* Somebody writes another file to the path.
Replace ==
  /\ \E p \in Files : p # file /\ file' = p
  /\ UNCHANGED <<process, panel, offered, shelf, choice>>

Page == \/ ChooseFile \/ FileChosen \/ EnablePreview \/ KeepOfficial \/ Confirmed
        \/ SwitchTo \/ OpenPanel \/ Offer \/ DisposePage

ImportNext == Child \/ Poll \/ Wait \/ DeadlinePasses \/ Command \/ Page \/ Restart \/ Replace

ImportFairness == WF_importVars(Poll \/ Wait) /\ WF_importVars(DeadlinePasses)

ImportSpec     == ImportInit /\ [][ImportNext]_importVars
ImportFairSpec == ImportSpec /\ ImportFairness

-----------------------------------------------------------------------------
(***************************************************************************)
(* Properties.                                                             *)
(***************************************************************************)
ImportTypeOK ==
  /\ file \in Packs
  /\ child.pc \in {"none", "inspect", "send", "close", "dead"}
  /\ child.snap \in Packs \cup {Torn, None}
  /\ parent.st \in {"idle", "running", "finished"}
  /\ parent.mode \in {None, "manual", "onboarding", "command"}
  /\ panel.dialog \in {None, "file", "confirm", "command"}
  /\ offered \in Packs \cup {None}
  /\ library \subseteq Packs /\ consent \subseteq Packs
  /\ active \in library \cup {None}
  /\ told \in {None, "kept", "asked again", "recorded later"}

\* What is offered to the user, or reported by the command, is the snapshot the
\* child inspected and found good, received whole from a child that ended well.
OnlyInspected ==
  offered # None =>
    /\ Accepts(offered) /\ offered = child.snap
    /\ child.pc = "dead" /\ child.code = 0

\* No inspector runs unattended: not after a verdict, a closed page or a timeout.
NoChildLeft ==
  Alive => parent.st = "running" /\ (panel.open \/ parent.mode = "command")

\* What is installed was inspected, and is what the user agreed to, whatever
\* the file has become in the meantime.
InstalledByConsent == \A p \in library : Accepts(p) /\ p \in consent

CanBeShown(p) ==
  \A c \in DOMAIN p.characters :
    /\ FirstFrame(p, c, "core.idle") = VerifiedFrame(p, c)
    /\ \A s \in KnownCoreSemantics : p.assets[FirstFrame(p, c, s)].decodes
    /\ Fits(p, {Profile(p, c, "core.idle")}) => Prepared(p, c)
    /\ "ACT_W002" \notin Warnings(p)
    /\ Untolerated(p.characters[c].geometry) => Placed(p.characters[c].geometry)

Showable == {p \in Packs : Accepts(p) /\ CanBeShown(Manifest[p])}

\* The three readers of a manifest agree on every pack an import may install: the
\* frame the inspector decoded is the one the runtime draws first, every action it
\* draws decodes, no action is one that cannot be drawn, a character whose idle is
\* within the budget of the runtime can be activated, and one whose geometry needs
\* no tolerance is placed by it, with its motion in the window.
InstalledCanBeShown == Acceptable \subseteq Showable

\* What the user was told of the first-run choice is what the next start finds.
MarkerAsTold ==
  /\ told = "kept" => marker.disk
  /\ told = "asked again" => ~marker.disk

ImportInv ==
  /\ ImportTypeOK
  /\ OnlyInspected
  /\ NoChildLeft
  /\ InstalledByConsent
  /\ InstalledCanBeShown
  /\ MarkerAsTold

\* Once the page is closed, an import that was under way changes neither the
\* library nor the active character, even from under a dialog.
QuietAfterClose == [][~panel.open => UNCHANGED <<library, active>>]_importVars

\* Every import ends, also one whose child hangs at any of its steps.
ImportEnds == parent.st = "running" ~> parent.st # "running"
=============================================================================
