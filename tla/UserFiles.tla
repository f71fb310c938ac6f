------------------------------ MODULE UserFiles ------------------------------
(***************************************************************************)
(* settings.json and what is built on it.  SettingsStore keeps the file in *)
(* memory and writes all of it at every save; UiConfigService keeps the    *)
(* overrides of the user in the layers of a resolver; the settings dialog, *)
(* the text, display and actions pages and the menu change them, each with *)
(* its own way back from a save that fails.  The file is not trusted: it   *)
(* may be broken, or hold values no version of the program would write.    *)
(*                                                                         *)
(* A save is the replacement of the file: it happens or it does not, and   *)
(* a program that dies loses what is only in memory.                       *)
(***************************************************************************)
EXTENDS Naturals, FiniteSets

CONSTANTS
  Layouts, Policies,                \* what the display page offers
  Allowed,                          \* the layouts and policies that combine
  DefaultLayout, DefaultPolicy,     \* of the engine
  Texts,                            \* templates that pass check_plain_text
  Modes,                            \* of one action
  TimeLists,                        \* reminder times the dialog can collect
  DefaultTimes,
  Absent,                           \* no such key
  Junk,                             \* a value its validator refuses
  Unreadable,                       \* a file that is not JSON
  Found,                            \* files the first start may find
  MaxChanges                        \* bound: operations of the user

ASSUME UserFilesAssumption ==
  /\ Allowed \subseteq Layouts \X Policies
  /\ <<DefaultLayout, DefaultPolicy>> \in Allowed
  /\ DefaultTimes \in TimeLists
  /\ Absent \notin Layouts \cup Policies \cup Texts \cup Modes
  /\ Junk \notin Layouts \cup Policies \cup Texts \cup {Absent}
  /\ MaxChanges \in Nat

VARIABLES
  disk,      \* the settings file
  mem,       \* SettingsStore._data
  layer,     \* the override layers of the resolver
  onTop,     \* the flag of the pet window
  up,        \* is the program running
  told,      \* history: what the user was last told of each key
  changes

settings == <<disk, mem, layer, onTop, told, changes>>

Keys == {"display", "text", "character", "mode", "times"}

\* A settings file, or the same in memory.
Files ==
  [display   : (Layouts \cup {Absent}) \X (Policies \cup {Absent}),
   text      : Texts \cup {Absent, Junk},
   character : Texts \cup {Absent, Junk},
   mode      : Modes \cup {Absent},
   times     : TimeLists,
   top       : BOOLEAN]

ASSUME FoundAssumption ==
  Found \subseteq Files \cup {Unreadable} /\ Unreadable \notin Files

\* What the user was told of a key: nothing, or that a value is saved or is not.
Told(k) == [saved : BOOLEAN, value : {file[k] : file \in Files}] \cup {Absent}

Defaults ==
  [display |-> <<Absent, Absent>>, text |-> Absent, character |-> Absent,
   mode |-> Absent, times |-> DefaultTimes, top |-> TRUE]

-----------------------------------------------------------------------------
(***************************************************************************)
(* The resolver.                                                           *)
(***************************************************************************)
\* The layout and policy that a pair of overrides resolves to.
Layout(pair) == IF pair[1] = Absent THEN DefaultLayout ELSE pair[1]
Policy(pair) == IF pair[2] = Absent THEN DefaultPolicy ELSE pair[2]
Shown(pair)  == <<Layout(pair), Policy(pair)>>

\* What survives of a pair and of a template when they are read.
OnlyValid(pair) == pair
Sanitized(pair) ==
  IF Absent \notin {pair[1], pair[2]} /\ pair \notin Allowed
  THEN <<Absent, Absent>> ELSE pair
Clean(text) == IF text = Junk THEN Absent ELSE text

\* reload: the layers, from the settings in memory.
Layers(file) ==
  [display   |-> Sanitized(file.display),
   text      |-> Clean(file.text),
   character |-> Clean(file.character)]

\* The view model of the pet window: a pair outside the matrix is the default.
ViewModel(pair) ==
  IF Shown(pair) \in Allowed THEN Shown(pair) ELSE <<DefaultLayout, DefaultPolicy>>

-----------------------------------------------------------------------------
Init ==
  /\ disk \in Found
  /\ mem = Defaults /\ layer = Layers(Defaults)
  /\ onTop = TRUE
  /\ up = FALSE
  /\ told = [k \in Keys |-> Absent]
  /\ changes = 0

\* SettingsStore.load, then UiConfigService: a broken file is put aside.
Load ==
  \E file \in {IF disk = Unreadable THEN Defaults ELSE disk} :
    /\ mem' = file
    /\ layer' = Layers(file)
    /\ onTop' = file.top

\* SettingsStore.save of what is in memory now.
Save(file, ok) == disk' = IF ok THEN file ELSE disk

Say(k, value, saved) ==
  told' = [told EXCEPT ![k] =
             IF saved \/ mem[k] # value THEN [saved |-> saved, value |-> value]
                                        ELSE Absent]

Operation == up /\ changes < MaxChanges /\ changes' = changes + 1 /\ UNCHANGED up

-----------------------------------------------------------------------------
(***************************************************************************)
(* UiConfigService.                                                        *)
(***************************************************************************)
\* The settings keys as the layers hold them: what was refused is not written.
Written(new) ==
  [mem EXCEPT !.display = new.display, !.text = new.text, !.character = new.character]

PersistAndKeep(new, ok) ==
  /\ Save(Written(new), ok)
  /\ mem' = Written(new)
  /\ layer' = IF ok THEN new ELSE Layers(mem)

\* _persist, and the rollback of its callers.
Persist(new, ok) ==
  /\ Save(Written(new), ok)
  /\ IF ok THEN mem' = Written(new) /\ layer' = new
           ELSE mem' = mem /\ layer' = Layers(mem)

\* The display page: the pair is checked as a whole and saved at once.
SetDisplay ==
  /\ Operation
  /\ \E pair \in Layouts \X Policies, ok \in BOOLEAN :
       /\ pair \in Allowed
       /\ Persist([layer EXCEPT !.display = pair], ok)
       /\ Say("display", pair, ok)
  /\ UNCHANGED onTop

ResetDisplay ==
  /\ Operation
  /\ layer.display # <<Absent, Absent>>
  /\ \E ok \in BOOLEAN :
       /\ Persist([layer EXCEPT !.display = <<Absent, Absent>>], ok)
       /\ Say("display", <<Absent, Absent>>, ok)
  /\ UNCHANGED onTop

\* The text page, for everybody or for the character on show.
SetText ==
  /\ Operation
  /\ \E k \in {"text", "character"}, t \in Texts, ok \in BOOLEAN :
       /\ Persist([layer EXCEPT ![k] = t], ok)
       /\ Say(k, t, ok)
  /\ UNCHANGED onTop

\* A reset that could not be saved is reported as one with nothing to reset.
ResetText ==
  /\ Operation
  /\ \E k \in {"text", "character"}, ok \in BOOLEAN :
       /\ layer[k] # Absent
       /\ Persist([layer EXCEPT ![k] = Absent], ok)
       /\ IF ok THEN Say(k, Absent, TRUE) ELSE UNCHANGED told
  /\ UNCHANGED onTop

-----------------------------------------------------------------------------
(***************************************************************************)
(* The application.                                                        *)
(***************************************************************************)
\* _set_action_setting: the mode of an action, from the actions page.
SetMode ==
  /\ Operation
  /\ \E m \in Modes, ok \in BOOLEAN :
       /\ Save([mem EXCEPT !.mode = m], ok)
       /\ mem' = IF ok THEN [mem EXCEPT !.mode = m] ELSE mem
       /\ Say("mode", m, ok)
  /\ UNCHANGED <<layer, onTop>>

ApplyAtOnce(new, ok) ==
  /\ Save(new, ok)
  /\ mem' = new
  /\ onTop' = IF ok THEN new.top ELSE onTop

\* _apply_settings: the file first, then memory and window, or neither.
Apply(new, ok) ==
  /\ Save(new, ok)
  /\ IF ok THEN mem' = new /\ onTop' = new.top
           ELSE UNCHANGED <<mem, onTop>>

\* The settings dialog sends every value it shows.
ApplySettings ==
  /\ Operation
  /\ \E ts \in TimeLists, top, ok \in BOOLEAN :
       /\ Apply([mem EXCEPT !.times = ts, !.top = top], ok)
       /\ Say("times", ts, ok)
  /\ UNCHANGED layer

\* A toggle of the menu takes effect at once; its save is not looked at.
Toggle ==
  /\ Operation
  /\ \E ok \in BOOLEAN :
       /\ mem' = [mem EXCEPT !.top = ~@]
       /\ Save(mem', ok)
       /\ onTop' = mem'.top
  /\ UNCHANGED <<layer, told>>

User == \/ SetDisplay \/ ResetDisplay \/ SetText \/ ResetText
        \/ SetMode \/ ApplySettings \/ Toggle

Start ==
  /\ ~up /\ up' = TRUE
  /\ Load
  /\ UNCHANGED <<disk, told, changes>>

\* Leaving the program saves the settings once more; a crash does not.
Stop ==
  /\ up /\ up' = FALSE
  /\ \E ok \in BOOLEAN : Save(mem, ok)
  /\ mem' = Defaults /\ layer' = Layers(Defaults) /\ onTop' = TRUE
  /\ UNCHANGED <<told, changes>>

\* While the program is down the file is damaged from outside.
Damage ==
  /\ ~up /\ disk # Unreadable
  /\ disk' = Unreadable
  /\ told' = [k \in Keys |-> Absent]
  /\ UNCHANGED <<mem, layer, onTop, up, changes>>

SettingsNext == User \/ Start \/ Stop \/ Damage

SettingsSpec == Init /\ [][SettingsNext]_<<settings, up>>

-----------------------------------------------------------------------------
(***************************************************************************)
(* Properties.                                                             *)
(***************************************************************************)
TypeOK ==
  /\ disk \in Files \cup {Unreadable}
  /\ mem \in Files
  /\ layer \in [display : (Layouts \cup {Absent}) \X (Policies \cup {Absent}),
                text : Texts \cup {Absent}, character : Texts \cup {Absent}]
  /\ onTop \in BOOLEAN /\ up \in BOOLEAN
  /\ \A k \in Keys : told[k] \in Told(k)
  /\ changes \in 0 .. MaxChanges

\* The three copies of a setting agree: the layers are what a start would make
\* of the memory, and the window has the flag the memory says.
CopiesAgree == up => layer = Layers(mem) /\ onTop = mem.top

\* The window does what the pages show: layout and policy in effect are a pair of
\* the matrix.  Only half a pair, which a file edited by hand may hold, is shown
\* by the pages while the window falls back.
Half(pair)  == Cardinality({i \in 1 .. 2 : pair[i] = Absent}) = 1
PairAllowed == ViewModel(layer.display) = Shown(layer.display) \/ Half(layer.display)

\* A value the user was told is saved is on the disk, and one that was refused
\* is neither there nor in effect, nor brought there by a later save of others.
ToldIsTrue ==
  \A k \in Keys :
    told[k] # Absent =>
      IF told[k].saved
      THEN disk # Unreadable /\ disk[k] = told[k].value
      ELSE /\ disk # Unreadable => disk[k] # told[k].value
           /\ up => mem[k] # told[k].value

SettingsInv == TypeOK /\ CopiesAgree /\ PairAllowed /\ ToldIsTrue
=============================================================================
