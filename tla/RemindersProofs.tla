--------------------------- MODULE RemindersProofs ---------------------------
(***************************************************************************)
(* Theorems about both files of the user, for any layouts, policies,       *)
(* templates and modes, any matrix, any lists of times, windows, delays    *)
(* and limits, and any files a start may find.                             *)
(*                                                                         *)
(* What the user is told of a setting is true.  SettingsInv is not         *)
(* inductive: it does not say why a save of one key cannot bring a refused *)
(* value of another to the disk.  Same does: while the program runs, the   *)
(* memory differs from the file only in the flag of the window, which no   *)
(* answer is about; and Steady: what was refused is not even what a reader *)
(* would make of the file.                                                 *)
(*                                                                         *)
(* A slot is reminded of once a day and once more for each snooze, and one *)
(* that was started or skipped stays quiet.  OncePerSlot allows one        *)
(* reminder to a slot that has none yet.  What is inductive counts it only *)
(* once the slot is marked (Counted), and says that a slot that is done is *)
(* marked (Marked): it cannot open again.                                  *)
(***************************************************************************)
EXTENDS Reminders, FiniteSetTheorems, TLAPS

-----------------------------------------------------------------------------
(* The settings *)

\* The file as a start would read it.
Filed(d) == IF d = Unreadable THEN Defaults ELSE d

\* What a reader makes of the value of a key.
Read(k, v) ==
  IF k = "display" THEN Sanitized(v)
  ELSE IF k \in {"text", "character"} THEN Clean(v) ELSE v

LayerSet ==
  [display : (Layouts \cup {Absent}) \X (Policies \cup {Absent}),
   text : Texts \cup {Absent}, character : Texts \cup {Absent}]

\* A reader changes nothing in them.
Clear(new) ==
  /\ Sanitized(new.display) = new.display
  /\ Clean(new.text) = new.text
  /\ Clean(new.character) = new.character

Typed ==
  /\ disk \in Files \cup {Unreadable} /\ mem \in Files
  /\ layer \in LayerSet
  /\ onTop \in BOOLEAN /\ up \in BOOLEAN
  /\ changes \in 0 .. MaxChanges

Same == up => \A k \in Keys : mem[k] = Filed(disk)[k]

\* An answer about a key that file d still bears out.
Bears(d, k, t) ==
  t # Absent =>
    /\ t \in Told(k) \ {Absent}
    /\ IF t.saved
       THEN d # Unreadable /\ d[k] = t.value /\ Read(k, t.value) = t.value
       ELSE Filed(d)[k] # t.value /\ Read(k, Filed(d)[k]) # t.value

Steady == told = [k \in Keys |-> told[k]] /\ \A k \in Keys : Bears(disk, k, told[k])

\* The layers, of a program that is down too.
Layered == layer = Layers(mem)

IInv == Typed /\ CopiesAgree /\ Layered /\ Same /\ Steady

-----------------------------------------------------------------------------
\* The defaults are a file.
LEMMA DefaultsFile == Defaults \in Files
  BY UserFilesAssumption DEF Defaults, Files

\* What is made of a damaged file is a file.
LEMMA FiledFile == ASSUME NEW d \in Files \cup {Unreadable} PROVE Filed(d) \in Files
  BY DefaultsFile DEF Filed

\* The layers of a file are clear of each other.
LEMMA LayersClear ==
  ASSUME NEW file \in Files
  PROVE  Layers(file) \in LayerSet /\ Clear(Layers(file))
  BY UserFilesAssumption DEF Layers, LayerSet, Clear, Files, Sanitized, Clean

\* What a reader has made of a value it reads as it is.
LEMMA ReadTwice ==
  ASSUME NEW file \in Files, NEW k \in Keys
  PROVE  Read(k, Read(k, file[k])) = Read(k, file[k])
<1>1. CASE k = "display"
  BY <1>1, UserFilesAssumption DEF Read, Sanitized, Files
<1>2. CASE k \in {"text", "character"}
  BY <1>2, UserFilesAssumption DEF Read, Clean
<1>3. CASE k \in {"mode", "times"}
  BY <1>3 DEF Read
<1> QED  BY <1>1, <1>2, <1>3 DEF Keys

\* A save that leaves a key alone, or as a reader sees it, leaves its answer true.
LEMMA BearsKept ==
  ASSUME NEW d \in Files \cup {Unreadable}, NEW m \in Files, NEW k \in Keys, NEW t,
         m[k] = Filed(d)[k], Bears(d, k, t),
         NEW file \in Files, file[k] = m[k] \/ file[k] = Read(k, m[k]),
         NEW e, e = file \/ e = d
  PROVE  Bears(e, k, t)
<1>1. file # Unreadable /\ Filed(file) = file
  BY FoundAssumption DEF Filed
<1>2. Read(k, Read(k, m[k])) = Read(k, m[k])
  BY ReadTwice
<1>3. CASE e = file /\ t # Absent /\ t.saved
  <2>1. d # Unreadable /\ Filed(d) = d /\ d[k] = t.value /\ Read(k, t.value) = t.value
    BY <1>3 DEF Bears, Filed
  <2> QED  BY <2>1, <1>1, <1>3 DEF Bears
<1>4. CASE e = file /\ t # Absent /\ ~t.saved
  <2>1. m[k] # t.value /\ Read(k, m[k]) # t.value
    BY <1>4 DEF Bears
  <2> QED  BY <2>1, <1>1, <1>2, <1>4 DEF Bears
<1> QED  BY <1>3, <1>4 DEF Bears

\* What the user is told of a save is true of the file.
LEMMA BearsNew ==
  ASSUME NEW d \in Files \cup {Unreadable}, NEW m \in Files, NEW k \in Keys,
         m[k] = Filed(d)[k],
         NEW file \in Files, Read(k, file[k]) = file[k],
         m[k] # file[k] => Read(k, m[k]) # file[k],
         NEW ok \in BOOLEAN, NEW e, e = IF ok THEN file ELSE d,
         NEW t, t = IF ok \/ m[k] # file[k] THEN [saved |-> ok, value |-> file[k]]
                                           ELSE Absent
  PROVE  Bears(e, k, t)
<1> DEFINE v == file[k]
<1>1. [saved |-> ok, value |-> v] \in Told(k)
  BY DEF Told
<1>2. file # Unreadable /\ Filed(file) = file
  BY FoundAssumption DEF Filed
<1>3. CASE t = [saved |-> ok, value |-> v] /\ (ok \/ m[k] # v)
  <2>1. t.saved = ok /\ t.value = v
    BY <1>3
  <2>2. CASE ok
    BY <1>1, <1>2, <1>3, <2>1, <2>2 DEF Bears
  <2>3. CASE ~ok
    BY <1>1, <1>3, <2>1, <2>3 DEF Bears
  <2> QED  BY <2>2, <2>3
<1>4. CASE t = Absent
  BY <1>4 DEF Bears
<1> QED  BY <1>3, <1>4

-----------------------------------------------------------------------------
(***************************************************************************)
(* The operations.                                                         *)
(***************************************************************************)
\* A save that sets one key, and what the user is told of it.
LEMMA SaveSteady ==
  ASSUME Typed, Same, Steady, up,
         NEW k \in Keys, NEW file \in Files, NEW ok \in BOOLEAN,
         Save(file, ok), Say(k, file[k], ok),
         Read(k, file[k]) = file[k],
         mem[k] # file[k] => Read(k, mem[k]) # file[k],
         \A j \in Keys \ {k} : file[j] = mem[j] \/ file[j] = Read(j, mem[j])
  PROVE  Steady'
<1> USE DEF Typed
<1>1. disk' = IF ok THEN file ELSE disk
  BY DEF Save
<1>2. told' = [told EXCEPT ![k] = IF ok \/ mem[k] # file[k]
                                  THEN [saved |-> ok, value |-> file[k]] ELSE Absent]
  BY DEF Say
<1>3. told' = [j \in Keys |-> told'[j]]
  BY <1>2 DEF Steady
<1>4. ASSUME NEW j \in Keys PROVE Bears(disk', j, told'[j])
  <2>1. mem[j] = Filed(disk)[j] /\ Bears(disk, j, told[j])
    BY DEF Same, Steady
  <2>2. CASE j = k
    <3>1. told'[k] = IF ok \/ mem[k] # file[k]
                     THEN [saved |-> ok, value |-> file[k]] ELSE Absent
      BY <1>2 DEF Steady
    <3> QED  BY <2>1, <2>2, <3>1, <1>1, BearsNew
  <2>3. CASE j # k
    <3>1. told'[j] = told[j]
      BY <1>2, <2>3 DEF Steady
    <3> QED  BY <2>1, <2>3, <3>1, <1>1, BearsKept
  <2> QED  BY <2>2, <2>3
<1> QED  BY <1>3, <1>4 DEF Steady

\* The layers and the file after a change that went through UiConfigService.
LEMMA Persisted ==
  ASSUME IInv, Operation, UNCHANGED onTop,
         NEW new \in LayerSet, Clear(new), NEW ok \in BOOLEAN, Persist(new, ok)
  PROVE  /\ Typed' /\ CopiesAgree' /\ Layered' /\ Same'
         /\ Written(new) \in Files /\ Save(Written(new), ok)
<1>1. Written(new) \in Files
  BY DEF Written, Files, LayerSet, IInv, Typed
<1>2. Layers(Written(new)) = new /\ Written(new).top = mem.top
  BY DEF Written, Layers, Clear, LayerSet, IInv, Typed, Files
<1>3. Save(Written(new), ok) /\ disk' = IF ok THEN Written(new) ELSE disk
  BY DEF Persist, Save
<1>4. up /\ up' = up /\ changes' \in 0 .. MaxChanges
  BY UserFilesAssumption DEF Operation, IInv, Typed
<1>5. CASE ok
  <2>1. mem' = Written(new) /\ layer' = new /\ disk' = Written(new)
    BY <1>5, <1>3 DEF Persist
  <2>2. Typed'
    BY <1>1, <1>4, <2>1 DEF IInv, Typed
  <2>3. CopiesAgree' /\ Layered'
    BY <1>2, <1>4, <2>1 DEF IInv, CopiesAgree, Layered
  <2>4. Same'
    BY <1>1, <2>1, FoundAssumption DEF Same, Filed
  <2> QED  BY <1>1, <1>3, <2>2, <2>3, <2>4
<1>6. CASE ~ok
  <2>1. mem' = mem /\ layer' = Layers(mem) /\ disk' = disk
    BY <1>6, <1>3 DEF Persist
  <2>2. layer' = layer
    BY <2>1 DEF IInv, Layered
  <2>3. Typed'
    BY <1>4, <2>1, <2>2 DEF IInv, Typed
  <2>4. CopiesAgree' /\ Layered' /\ Same'
    BY <1>4, <2>1, <2>2 DEF IInv, CopiesAgree, Layered, Same
  <2> QED  BY <1>1, <1>3, <2>3, <2>4
<1> QED  BY <1>5, <1>6

\* ... and what the user is told of it.
LEMMA PersistedSteady ==
  ASSUME IInv, Operation, UNCHANGED onTop,
         NEW k \in {"display", "text", "character"}, NEW v, NEW ok \in BOOLEAN,
         [layer EXCEPT ![k] = v] \in LayerSet, Clear([layer EXCEPT ![k] = v]),
         Persist([layer EXCEPT ![k] = v], ok), Say(k, v, ok),
         mem[k] # v => Read(k, mem[k]) # v
  PROVE  IInv'
<1> DEFINE new == [layer EXCEPT ![k] = v]
           file == Written(new)
<1>1. /\ Typed' /\ CopiesAgree' /\ Layered' /\ Same'
      /\ file \in Files /\ Save(file, ok)
  BY Persisted
<1>2. /\ file.display = new.display /\ file.text = new.text
      /\ file.character = new.character
      /\ file.mode = mem.mode /\ file.times = mem.times
  BY DEF Written, IInv, Typed, Files
<1>3. file[k] = v /\ Read(k, v) = v
  BY <1>2 DEF IInv, Typed, LayerSet, Clear, Read
<1>4. layer.display = Read("display", mem.display) /\ layer.text = Read("text", mem.text)
      /\ layer.character = Read("character", mem.character)
  BY DEF IInv, Layered, Layers, Read
<1>5. ASSUME NEW j \in Keys \ {k} PROVE file[j] = mem[j] \/ file[j] = Read(j, mem[j])
  <2>1. CASE j = "display"  BY <2>1, <1>2, <1>4 DEF IInv, Typed, LayerSet
  <2>2. CASE j = "text"  BY <2>2, <1>2, <1>4 DEF IInv, Typed, LayerSet
  <2>3. CASE j = "character"  BY <2>3, <1>2, <1>4 DEF IInv, Typed, LayerSet
  <2>4. CASE j \in {"mode", "times"}  BY <2>4, <1>2
  <2> QED  BY <2>1, <2>2, <2>3, <2>4 DEF Keys
<1>6. k \in Keys /\ up /\ Typed /\ Same /\ Steady
  BY DEF Keys, Operation, IInv
<1>7. Say(k, file[k], ok) /\ Read(k, file[k]) = file[k]
      /\ (mem[k] # file[k] => Read(k, mem[k]) # file[k])
  BY <1>3
<1> HIDE DEF file
<1>8. Steady'
  BY <1>1, <1>5, <1>6, <1>7, SaveSteady
<1> QED  BY <1>1, <1>8 DEF IInv

\* A save of a key that is not of the layers.
LEMMA OtherSteady ==
  ASSUME IInv, Operation, NEW k \in {"mode", "times"}, NEW file \in Files,
         NEW ok \in BOOLEAN,
         \A j \in Keys \ {k} : file[j] = mem[j],
         Save(file, ok), Say(k, file[k], ok)
  PROVE  Steady'
<1>1. k \in Keys /\ up /\ Typed /\ Same /\ Steady
  BY DEF Keys, Operation, IInv
<1>2. Read(k, file[k]) = file[k] /\ (mem[k] # file[k] => Read(k, mem[k]) # file[k])
  BY DEF Read
<1> QED  BY <1>1, <1>2, SaveSteady

\* Every change by the user keeps the invariant.
LEMMA UserStep == ASSUME IInv, User PROVE IInv'
<1> USE UserFilesAssumption DEF IInv, Typed
<1>1. CASE SetDisplay
  <2>1. PICK pair \in Layouts \X Policies, ok \in BOOLEAN :
          /\ pair \in Allowed
          /\ Persist([layer EXCEPT !.display = pair], ok)
          /\ Say("display", pair, ok)
    BY <1>1 DEF SetDisplay
  <2>2. [layer EXCEPT !.display = pair] \in LayerSet /\ Clear([layer EXCEPT !.display = pair])
    <3>1. Clear(layer)
      BY LayersClear DEF Layered
    <3> QED  BY <2>1, <3>1 DEF LayerSet, Clear, Sanitized
  <2>3. mem.display # pair => Read("display", mem.display) # pair
    BY DEF Read, Sanitized, Files
  <2> QED  BY <1>1, <2>1, <2>2, <2>3, PersistedSteady DEF SetDisplay
<1>2. CASE ResetDisplay
  <2> DEFINE none == <<Absent, Absent>>
  <2>1. PICK ok \in BOOLEAN :
          /\ Persist([layer EXCEPT !.display = none], ok)
          /\ Say("display", none, ok)
    BY <1>2 DEF ResetDisplay
  <2>2. [layer EXCEPT !.display = none] \in LayerSet /\ Clear([layer EXCEPT !.display = none])
    <3>1. Clear(layer)
      BY LayersClear DEF Layered
    <3> QED  BY <3>1 DEF LayerSet, Clear, Sanitized
  <2>3. Read("display", mem.display) # none
    BY <1>2 DEF ResetDisplay, Read, Layered, Layers
  <2> QED  BY <1>2, <2>1, <2>2, <2>3, PersistedSteady DEF ResetDisplay
<1>3. CASE SetText
  <2>1. PICK k \in {"text", "character"}, t \in Texts, ok \in BOOLEAN :
          Persist([layer EXCEPT ![k] = t], ok) /\ Say(k, t, ok)
    BY <1>3 DEF SetText
  <2>2. [layer EXCEPT ![k] = t] \in LayerSet /\ Clear([layer EXCEPT ![k] = t])
    <3>1. Clear(layer)
      BY LayersClear DEF Layered
    <3> QED  BY <3>1 DEF LayerSet, Clear, Clean
  <2>3. mem[k] # t => Read(k, mem[k]) # t
    BY DEF Read, Clean, Files
  <2> QED  BY <1>3, <2>1, <2>2, <2>3, PersistedSteady DEF SetText
<1>4. CASE ResetText
  <2>1. PICK k \in {"text", "character"}, ok \in BOOLEAN :
          /\ layer[k] # Absent
          /\ Persist([layer EXCEPT ![k] = Absent], ok)
          /\ IF ok THEN Say(k, Absent, TRUE) ELSE UNCHANGED told
    BY <1>4 DEF ResetText
  <2> DEFINE new == [layer EXCEPT ![k] = Absent]
  <2>2. new \in LayerSet /\ Clear(new)
    <3>1. Clear(layer)
      BY LayersClear DEF Layered
    <3> QED  BY <3>1 DEF LayerSet, Clear, Clean
  <2>3. Read(k, mem[k]) # Absent
    BY <2>1 DEF Read, Layered, Layers
  <2>4. CASE ok
    BY <1>4, <2>1, <2>2, <2>3, <2>4, PersistedSteady DEF ResetText
  <2>5. CASE ~ok
    <3>1. Typed' /\ CopiesAgree' /\ Layered' /\ Same'
      BY <1>4, <2>1, <2>2, Persisted DEF ResetText
    <3>2. disk' = disk /\ told' = told
      BY <2>1, <2>5 DEF Persist, Save
    <3>3. Steady'
      BY <3>2 DEF Steady
    <3> QED  BY <3>1, <3>3
  <2> QED  BY <2>4, <2>5
<1>5. CASE SetMode
  <2>1. PICK m \in Modes, ok \in BOOLEAN :
          /\ Save([mem EXCEPT !.mode = m], ok)
          /\ mem' = IF ok THEN [mem EXCEPT !.mode = m] ELSE mem
          /\ Say("mode", m, ok)
    BY <1>5 DEF SetMode
  <2> DEFINE file == [mem EXCEPT !.mode = m]
  <2>2. file \in Files /\ file["mode"] = m /\ file.top = mem.top
        /\ Layers(file) = Layers(mem) /\ \A j \in Keys \ {"mode"} : file[j] = mem[j]
    BY DEF Files, Keys, Layers
  <2>3. Operation /\ UNCHANGED <<layer, onTop>>
    BY <1>5 DEF SetMode
  <2> HIDE DEF file
  <2>4. Steady'
    BY <2>1, <2>2, <2>3, OtherSteady DEF file
  <2>5. /\ up /\ up' /\ changes' \in 0 .. MaxChanges
        /\ disk' = IF ok THEN file ELSE disk
        /\ mem' = IF ok THEN file ELSE mem
    BY <2>1, <2>3 DEF Operation, Save, file
  <2>6. Typed' /\ CopiesAgree' /\ Layered'
    BY <2>2, <2>3, <2>5 DEF CopiesAgree, Layered
  <2>7. Same'
    BY <2>2, <2>5, FoundAssumption DEF Same, Filed
  <2> QED  BY <2>4, <2>6, <2>7
<1>6. CASE ApplySettings
  <2>1. PICK ts \in TimeLists, top \in BOOLEAN, ok \in BOOLEAN :
          /\ Apply([mem EXCEPT !.times = ts, !.top = top], ok)
          /\ Say("times", ts, ok)
    BY <1>6 DEF ApplySettings
  <2> DEFINE file == [mem EXCEPT !.times = ts, !.top = top]
  <2>2. file \in Files /\ file["times"] = ts
        /\ Layers(file) = Layers(mem) /\ \A j \in Keys \ {"times"} : file[j] = mem[j]
    BY DEF Files, Keys, Layers
  <2>3. Operation /\ UNCHANGED layer
    BY <1>6 DEF ApplySettings
  <2> HIDE DEF file
  <2>4. /\ Save(file, ok)
        /\ disk' = IF ok THEN file ELSE disk
        /\ mem' = IF ok THEN file ELSE mem
        /\ onTop' = IF ok THEN file.top ELSE onTop
    BY <2>1 DEF Apply, Save, file
  <2>5. Steady'
    BY <2>1, <2>2, <2>3, <2>4, OtherSteady
  <2>6. up /\ up' /\ changes' \in 0 .. MaxChanges /\ file.top \in BOOLEAN
    BY <2>2, <2>3 DEF Operation, Files
  <2>7. Typed' /\ CopiesAgree' /\ Layered'
    BY <2>2, <2>3, <2>4, <2>6 DEF CopiesAgree, Layered
  <2>8. Same'
    BY <2>2, <2>4, <2>6, FoundAssumption DEF Same, Filed
  <2> QED  BY <2>5, <2>7, <2>8
<1>7. CASE Toggle
  <2> DEFINE file == [mem EXCEPT !.top = ~@]
  <2>1. PICK ok \in BOOLEAN : mem' = file /\ Save(mem', ok) /\ onTop' = mem'.top
    BY <1>7 DEF Toggle
  <2>2. file \in Files /\ Layers(file) = Layers(mem) /\ \A j \in Keys : file[j] = mem[j]
    BY DEF Files, Keys, Layers
  <2>3. Operation /\ UNCHANGED <<layer, told>>
    BY <1>7 DEF Toggle
  <2> HIDE DEF file
  <2>4. disk' = file \/ disk' = disk
    BY <2>1 DEF Save
  <2>5. up /\ up' /\ changes' \in 0 .. MaxChanges /\ file.top \in BOOLEAN
    BY <2>2, <2>3 DEF Operation, Files
  <2>6. Typed' /\ CopiesAgree' /\ Layered'
    BY <2>1, <2>2, <2>3, <2>4, <2>5 DEF CopiesAgree, Layered
  <2>7. Same'
    BY <2>1, <2>2, <2>4, <2>5, FoundAssumption DEF Same, Filed
  <2>8. ASSUME NEW k \in Keys PROVE Bears(disk', k, told[k])
    BY <2>2, <2>4, <2>5, BearsKept DEF Same, Steady
  <2>9. Steady'
    BY <2>3, <2>8 DEF Steady
  <2> QED  BY <2>6, <2>7, <2>9
<1> QED  BY <1>1, <1>2, <1>3, <1>4, <1>5, <1>6, <1>7 DEF User

\* So does every step of the settings.
LEMMA SettingsStep == ASSUME IInv, SettingsNext PROVE IInv'
<1> USE UserFilesAssumption DEF IInv, Typed
<1>1. CASE User
  BY <1>1, UserStep
<1>2. CASE Start
  <2>1. ~up /\ up' = TRUE /\ UNCHANGED <<disk, told, changes>>
    BY <1>2 DEF Start
  <2>2. mem' = Filed(disk) /\ layer' = Layers(Filed(disk)) /\ onTop' = Filed(disk).top
    BY <1>2 DEF Start, Load, Filed
  <2>3. Filed(disk) \in Files /\ Layers(Filed(disk)) \in LayerSet /\ Filed(disk).top \in BOOLEAN
    BY FiledFile, LayersClear DEF Files
  <2>4. Typed' /\ CopiesAgree' /\ Layered' /\ Same' /\ Steady'
    BY <2>1, <2>2, <2>3 DEF CopiesAgree, Layered, Same, Steady
  <2> QED  BY <2>4
<1>3. CASE Stop
  <2>1. PICK ok \in BOOLEAN : Save(mem, ok)
    BY <1>3 DEF Stop
  <2>2. up /\ up' = FALSE /\ mem' = Defaults /\ layer' = Layers(Defaults) /\ onTop' = TRUE
        /\ UNCHANGED <<told, changes>>
    BY <1>3 DEF Stop
  <2>3. disk' = mem \/ disk' = disk
    BY <2>1 DEF Save
  <2>4. ASSUME NEW k \in Keys PROVE Bears(disk', k, told[k])
    BY <2>2, <2>3, BearsKept DEF Same, Steady
  <2>5. Steady'
    BY <2>2, <2>4 DEF Steady
  <2>6. Typed' /\ CopiesAgree' /\ Layered' /\ Same'
    BY <2>2, <2>3, DefaultsFile, LayersClear DEF CopiesAgree, Layered, Same
  <2> QED  BY <2>5, <2>6
<1>4. CASE Damage
  <2>1. Steady'
    BY <1>4 DEF Damage, Steady, Bears
  <2>2. Typed' /\ CopiesAgree' /\ Layered' /\ Same'
    BY <1>4 DEF Damage, CopiesAgree, Layered, Same
  <2> QED  BY <2>1, <2>2
<1> QED  BY <1>1, <1>2, <1>3, <1>4 DEF SettingsNext

-----------------------------------------------------------------------------
(***************************************************************************)
(* The theorem.                                                            *)
(***************************************************************************)
\* The pages show a pair of the matrix, or half a pair.
LEMMA SanitizedAllowed ==
  ASSUME NEW pair \in (Layouts \cup {Absent}) \X (Policies \cup {Absent})
  PROVE  ViewModel(Sanitized(pair)) = Shown(Sanitized(pair)) \/ Half(Sanitized(pair))
<1>1. CASE Sanitized(pair) = <<Absent, Absent>>
  BY <1>1, UserFilesAssumption DEF ViewModel, Shown, Layout, Policy
<1>2. CASE Sanitized(pair) # <<Absent, Absent>> /\ Absent \notin {pair[1], pair[2]}
  BY <1>2, UserFilesAssumption DEF Sanitized, ViewModel, Shown, Layout, Policy
<1>3. CASE pair # <<Absent, Absent>> /\ Absent \in {pair[1], pair[2]}
  <2>1. Sanitized(pair) = pair
    BY <1>3 DEF Sanitized
  <2>2. \E n \in 1 .. 2 : {i \in 1 .. 2 : pair[i] = Absent} = {n}
    <3>1. CASE pair[1] = Absent
      <4>1. pair[2] # Absent
        BY <1>3, <3>1
      <4> QED  BY <3>1, <4>1
    <3>2. CASE pair[1] # Absent
      BY <1>3, <3>2
    <3> QED  BY <3>1, <3>2
  <2>3. Half(pair)
    BY <2>2, FS_Singleton DEF Half
  <2> QED  BY <2>1, <2>3
<1> QED  BY <1>1, <1>2, <1>3 DEF Sanitized

\* The inductive invariant gives the checked one.
LEMMA IInvGivesSettingsInv == IInv => SettingsInv
<1> SUFFICES ASSUME IInv PROVE SettingsInv
  OBVIOUS
<1> USE DEF IInv
<1>1. TypeOK
  BY DEF TypeOK, Typed, LayerSet, Steady, Bears, Told
<1>2. PairAllowed
  BY SanitizedAllowed DEF PairAllowed, Layered, Layers, Typed, Files
<1>3. ToldIsTrue
  <2> SUFFICES ASSUME NEW k \in Keys, told[k] # Absent
               PROVE  IF told[k].saved
                      THEN disk # Unreadable /\ disk[k] = told[k].value
                      ELSE /\ disk # Unreadable => disk[k] # told[k].value
                           /\ up => mem[k] # told[k].value
    BY DEF ToldIsTrue
  <2>1. IF told[k].saved
        THEN disk # Unreadable /\ disk[k] = told[k].value
        ELSE Filed(disk)[k] # told[k].value
    BY DEF Steady, Bears
  <2>2. disk # Unreadable => Filed(disk) = disk
    BY DEF Filed
  <2> QED  BY <2>1, <2>2 DEF Same
<1> QED  BY <1>1, <1>2, <1>3 DEF SettingsInv

\* The first start satisfies it.
LEMMA IInvInitially == RemindersInit => IInv
<1> SUFFICES ASSUME RemindersInit PROVE IInv
  OBVIOUS
<1>1. Typed
  <2>1. disk \in Files \cup {Unreadable} /\ mem \in Files /\ layer \in LayerSet
    BY FoundAssumption, DefaultsFile, LayersClear DEF RemindersInit, Init
  <2>2. onTop \in BOOLEAN /\ up \in BOOLEAN
    BY DEF RemindersInit, Init
  <2>3. changes \in 0 .. MaxChanges
    BY UserFilesAssumption DEF RemindersInit, Init
  <2> QED  BY <2>1, <2>2, <2>3 DEF Typed
<1>2. CopiesAgree /\ Layered /\ Same
  BY DEF RemindersInit, Init, CopiesAgree, Layered, Same
<1>3. Steady
  BY DEF RemindersInit, Init, Steady, Bears
<1> QED  BY <1>1, <1>2, <1>3 DEF IInv

\* So does every step of the reminders.
LEMMA FilesStep == ASSUME IInv, [RemindersNext]_all PROVE IInv'
<1>1. CASE UNCHANGED <<settings, up>>
  BY <1>1 DEF IInv, Typed, CopiesAgree, Layered, Same, Steady, settings
<1>2. CASE SettingsNext
  BY <1>2, SettingsStep
<1> QED
  BY <1>1, <1>2 DEF RemindersNext, SettingsNext, all, StartProgram, StopProgram,
     DamageState, Tick, StartOrSkip, Snooze, Answer, SavePosition, Pass, Midnight

\* Whatever is saved, refused, restarted or damaged: the copies of a setting agree,
\* the window shows what the pages show, and what the user was last told of a key
\* is true of the file.
THEOREM SettingsAreTrue == RemindersSpec => []SettingsInv
<1>1. IInv /\ [RemindersNext]_all => IInv'
  BY FilesStep
<1> QED  BY IInvInitially, <1>1, IInvGivesSettingsInv, PTL DEF RemindersSpec

-----------------------------------------------------------------------------
(* The reminders *)

\* The reminders that the entry of a slot accounts for.
Count(slot) == slot.snoozes + (IF slot.reminded THEN 1 ELSE 0)

Marked ==
  \A i \in Slots : /\ slots[i].completed => slots[i].reminded
                   /\ saved[i].completed => saved[i].reminded

Counted ==
  ~lost => \A i \in Slots : fired[i] <= Count(IF up THEN slots[i] ELSE saved[i])

RInv == RemindersTypeOK /\ Marked /\ Counted

-----------------------------------------------------------------------------
\* What a tick makes of a slot accounts for what it reminds of.
LEMMA TickCounts ==
  ASSUME NEW i \in Slots, slots[i] \in Slot, now \in 0 .. LastHour,
         slots[i].completed => slots[i].reminded
  PROVE  /\ AfterTick(i) \in Slot
         /\ AfterTick(i).completed => AfterTick(i).reminded
         /\ Count(AfterTick(i)) = Count(slots[i]) + Reminds(i)
         /\ Reminds(i) \in Nat
         /\ slots[i].completed => Reminds(i) = 0
<1> DEFINE s == slots[i]
<1>1. s.snoozes \in 0 .. SnoozeLimit /\ s.reminded \in BOOLEAN /\ s.completed \in BOOLEAN
      /\ s.at \in 0 .. (LastHour + Delay) \cup {Absent} /\ SnoozeLimit \in Nat
  BY RemindersAssumption DEF Slot
<1>2. Opens(i) \in BOOLEAN /\ Due(i) \in BOOLEAN /\ (Opens(i) => ~s.reminded)
      /\ (Due(i) => ~s.completed)
  BY <1>1 DEF Opens, Due
<1> DEFINE r == s.reminded \/ Opens(i)
           n == IF Due(i) /\ s.snoozes < SnoozeLimit THEN s.snoozes + 1 ELSE s.snoozes
           a == IF Due(i) THEN Absent ELSE s.at
<1>3. AfterTick(i) = [s EXCEPT !.reminded = r, !.snoozes = n, !.at = a]
  BY DEF AfterTick
<1>4. r \in BOOLEAN /\ n \in 0 .. SnoozeLimit
      /\ a \in 0 .. (LastHour + Delay) \cup {Absent}
  <2>1. r \in BOOLEAN
    BY <1>1, <1>2
  <2> QED  BY <2>1, <1>1, <1>2
<1>5. /\ r = (s.reminded \/ Opens(i))
      /\ n = IF Due(i) /\ s.snoozes < SnoozeLimit THEN s.snoozes + 1 ELSE s.snoozes
  OBVIOUS
<1> HIDE DEF r, n, a
<1>6. AfterTick(i).reminded = r /\ AfterTick(i).completed = s.completed
      /\ AfterTick(i).snoozes = n
  BY <1>3 DEF Slot
<1>7. AfterTick(i) \in Slot
  BY <1>3, <1>4 DEF Slot
<1>8. AfterTick(i).completed => AfterTick(i).reminded
  BY <1>1, <1>2, <1>5, <1>6
<1>9. Count(AfterTick(i)) = Count(s) + Reminds(i) /\ Reminds(i) \in Nat
      /\ (s.completed => Reminds(i) = 0)
  <2>1. Reminds(i) \in Nat /\ (s.completed => Reminds(i) = 0)
    BY <1>1, <1>2 DEF Reminds
  <2>2. CASE Opens(i)
    <3>1. r /\ ~s.reminded
      BY <1>2, <1>5, <2>2
    <3>2. Count(AfterTick(i)) = n + 1 /\ Count(s) = s.snoozes
      BY <1>1, <1>6, <3>1 DEF Count
    <3>3. Reminds(i) = 1 + (n - s.snoozes)
      BY <1>1, <1>5, <2>2 DEF Reminds
    <3>4. Count(AfterTick(i)) = Count(s) + Reminds(i)
      BY <1>1, <1>4, <3>2, <3>3
    <3> QED  BY <2>1, <3>4
  <2>3. CASE ~Opens(i)
    BY <1>1, <1>2, <1>5, <1>6, <2>3 DEF Count, Reminds
  <2> QED  BY <2>1, <2>2, <2>3
<1> QED  BY <1>7, <1>8, <1>9

\* A tick of the clock reminds of a slot that is due and not done.
LEMMA TickStep == ASSUME RInv, Tick PROVE RInv'
<1> USE DEF RInv, RemindersTypeOK
<1> DEFINE there == DOMAIN mem.times
           new == [i \in Slots |-> IF i \in there THEN AfterTick(i) ELSE slots[i]]
<1>1. /\ slots' = new /\ (saved' = new \/ saved' = saved)
      /\ fired' = [i \in Slots |-> IF i \in there /\ ~lost
                                  THEN fired[i] + Reminds(i) ELSE fired[i]]
      /\ up /\ up' = up /\ now' = now /\ midnights' = midnights /\ lost' = lost
  BY DEF Tick, Remember, day
<1>2. ASSUME NEW i \in Slots
      PROVE  /\ new[i] \in Slot /\ (new[i].completed => new[i].reminded)
             /\ Count(new[i]) = Count(slots[i]) + (IF i \in there THEN Reminds(i) ELSE 0)
             /\ Reminds(i) \in Nat
  <2>1. Count(slots[i]) \in Nat
    BY RemindersAssumption DEF Slot, Count
  <2> QED  BY <2>1, TickCounts DEF Marked
<1> HIDE DEF new
<1>3. ASSUME NEW i \in Slots, ~lost PROVE fired'[i] <= Count(slots'[i])
  <2>1. fired[i] <= Count(slots[i]) /\ fired[i] \in Nat /\ Count(slots[i]) \in Nat
    BY <1>1, <1>3, RemindersAssumption DEF Counted, Count, Slot
  <2>2. fired'[i] = fired[i] + (IF i \in there THEN Reminds(i) ELSE 0)
    BY <1>1, <1>3, <2>1
  <2> QED  BY <1>1, <1>2, <2>1, <2>2
<1>4. slots' \in [Slots -> Slot] /\ saved' \in [Slots -> Slot]
  BY <1>1, <1>2 DEF new
<1>5. fired' \in [Slots -> 0 .. SnoozeLimit + 1]
  <2>1. CASE lost
    BY <1>1, <2>1
  <2>2. CASE ~lost
    <3>1. ASSUME NEW i \in Slots PROVE fired'[i] \in 0 .. SnoozeLimit + 1
      <4>1. Count(slots'[i]) <= SnoozeLimit + 1 /\ Count(slots'[i]) \in Nat
        BY <1>4, RemindersAssumption DEF Count, Slot
      <4>2. fired'[i] \in Nat
        BY <1>1, <1>2
      <4> QED  BY <1>3, <2>2, <4>1, <4>2, RemindersAssumption
    <3> QED  BY <1>1, <3>1
  <2> QED  BY <2>1, <2>2
<1>6. RemindersTypeOK'
  BY <1>1, <1>4, <1>5
<1>7. Marked'
  BY <1>1, <1>2 DEF Marked
<1>8. Counted'
  BY <1>1, <1>3 DEF Counted
<1> QED  BY <1>6, <1>7, <1>8

\* An answer takes nothing from what a slot accounts for.
LEMMA AnswerStep ==
  ASSUME RInv, up, NEW i, NEW slot,
         i \in Slots => /\ slot \in Slot /\ slot.reminded
                        /\ slot.snoozes = slots[i].snoozes,
         Answer(i, slot)
  PROVE  RInv'
<1> USE DEF RInv, RemindersTypeOK
<1> DEFINE new == [slots EXCEPT ![i] = slot]
<1>1. /\ slots' = new /\ (saved' = new \/ saved' = saved)
      /\ up' = up /\ now' = now /\ midnights' = midnights /\ lost' = lost /\ fired' = fired
  BY DEF Answer, Remember, day
<1>2. ASSUME NEW j \in Slots
      PROVE  /\ new[j] \in Slot /\ (new[j].completed => new[j].reminded)
             /\ Count(slots[j]) <= Count(new[j])
             /\ Count(slots[j]) \in Nat /\ Count(new[j]) \in Nat
  <2>1. slots[j] \in Slot
    OBVIOUS
  <2>2. new[j] = IF j = i THEN slot ELSE slots[j]
    OBVIOUS
  <2> HIDE DEF new
  <2>3. Count(slots[j]) \in Nat
    BY <2>1, RemindersAssumption DEF Count, Slot
  <2>4. CASE j = i
    <3>1. new[j] = slot /\ slot \in Slot /\ slot.reminded /\ slot.snoozes = slots[j].snoozes
      BY <2>2, <2>4
    <3>2. slot.snoozes \in Nat /\ slots[j].reminded \in BOOLEAN
      BY <2>1, <3>1, RemindersAssumption DEF Slot
    <3> QED  BY <2>3, <3>1, <3>2 DEF Count
  <2>5. CASE j # i
    BY <2>1, <2>2, <2>3, <2>5 DEF Marked
  <2> QED  BY <2>4, <2>5
<1>3. new \in [Slots -> Slot]
  BY <1>2
<1> HIDE DEF new
<1>4. RemindersTypeOK'
  BY <1>1, <1>3
<1>5. Marked'
  BY <1>1, <1>2 DEF Marked
<1>6. Counted'
  <2> SUFFICES ASSUME ~lost, NEW j \in Slots PROVE fired[j] <= Count(new[j])
    BY <1>1 DEF Counted
  <2>1. fired[j] <= Count(slots[j]) /\ fired[j] \in Nat
    BY RemindersAssumption DEF Counted
  <2> QED  BY <1>2, <2>1
<1> QED  BY <1>4, <1>5, <1>6

-----------------------------------------------------------------------------
\* An empty entry: midnight, and a program that is down.
LEMMA EntrySlots ==
  /\ Entry \in [Slots -> Slot]
  /\ \A i \in Slots : ~Entry[i].completed /\ Count(Entry[i]) = 0
  BY RemindersAssumption DEF Entry, Fresh, Slot, Count

\* The first start has reminded of nothing.
LEMMA RInvInitially == RemindersInit => RInv
<1> SUFFICES ASSUME RemindersInit PROVE RInv
  OBVIOUS
<1>1. RemindersTypeOK
  <2>1. lost \in BOOLEAN
    BY DEF RemindersInit
  <2>2. fired \in [Slots -> 0 .. SnoozeLimit + 1]
    BY RemindersAssumption DEF RemindersInit
  <2> QED  BY <2>1, <2>2, EntrySlots, RemindersAssumption DEF RemindersInit, RemindersTypeOK
<1>2. Marked
  BY EntrySlots DEF RemindersInit, Marked
<1>3. Counted
  BY EntrySlots DEF RemindersInit, Counted
<1> QED  BY <1>1, <1>2, <1>3 DEF RInv

\* Every step of the reminders keeps their invariant.
LEMMA RemindersStep == ASSUME RInv, [RemindersNext]_all PROVE RInv'
<1> USE DEF RInv, RemindersTypeOK
<1>1. CASE UNCHANGED <<up, day, book>>
  BY <1>1 DEF day, book, Marked, Counted
<1>2. CASE StartProgram
  <2>1. /\ ~up /\ up' /\ slots' = saved /\ now' = now /\ midnights' = midnights
        /\ saved' = saved /\ fired' = fired /\ lost' = lost
    BY <1>2 DEF StartProgram, Start, day
  <2> QED  BY <2>1 DEF Marked, Counted
<1>3. CASE StopProgram
  <2>1. /\ up /\ ~up' /\ (saved' = slots \/ saved' = saved) /\ slots' = Entry
        /\ now' = now /\ midnights' = midnights /\ fired' = fired
    BY <1>3 DEF StopProgram, Stop, day
  <2>2. lost' \in BOOLEAN /\ (~lost' => ~lost /\ saved' = slots)
    BY <1>3 DEF StopProgram
  <2>3. RemindersTypeOK'
    BY <2>1, <2>2, EntrySlots
  <2>4. Marked'
    BY <2>1, EntrySlots DEF Marked
  <2>5. Counted'
    BY <2>1, <2>2 DEF Counted
  <2> QED  BY <2>3, <2>4, <2>5
<1>4. CASE DamageState
  <2>1. saved' = Entry /\ lost' = TRUE /\ slots' = slots /\ fired' = fired
        /\ now' = now /\ midnights' = midnights
    BY <1>4 DEF DamageState, day
  <2>2. Marked'
    BY <2>1, EntrySlots DEF Marked
  <2>3. Counted'
    BY <2>1 DEF Counted
  <2>4. lost' \in BOOLEAN
    BY <2>1
  <2> QED  BY <2>1, <2>2, <2>3, <2>4, EntrySlots
<1>5. CASE Tick
  BY <1>5, TickStep
<1>6. CASE StartOrSkip
  <2>1. PICK i \in Pending : up /\ Answer(i, Closed(i))
    BY <1>6 DEF StartOrSkip
  <2>2. i \in Slots => /\ Closed(i) \in Slot /\ Closed(i).reminded
                       /\ Closed(i).snoozes = slots[i].snoozes
    BY DEF Closed, Slot
  <2> QED  BY <2>1, <2>2, AnswerStep
<1>7. CASE Snooze
  <2> DEFINE later(i) == [slots[i] EXCEPT !.reminded = TRUE, !.at = now + Delay]
  <2>1. PICK i \in Pending : up /\ Answer(i, later(i))
    BY <1>7 DEF Snooze
  <2>2. i \in Slots => /\ later(i) \in Slot /\ later(i).reminded
                       /\ later(i).snoozes = slots[i].snoozes
    <3>1. now + Delay \in 0 .. (LastHour + Delay)
      BY RemindersAssumption
    <3> QED  BY <3>1 DEF Slot
  <2> QED  BY <2>1, <2>2, AnswerStep
<1>8. CASE SavePosition
  <2>1. /\ saved' = slots /\ slots' = slots /\ fired' = fired /\ lost' = lost
        /\ now' = now /\ midnights' = midnights /\ up /\ up' = up
    BY <1>8 DEF SavePosition, day
  <2> QED  BY <2>1 DEF Marked, Counted
<1>9. CASE Pass
  <2>1. /\ now < LastHour /\ now' = now + 1 /\ midnights' = midnights /\ up' = up
        /\ saved' = saved /\ slots' = slots /\ fired' = fired /\ lost' = lost
    BY <1>9 DEF Pass, book
  <2>2. now' \in 0 .. LastHour
    BY <2>1, RemindersAssumption
  <2> QED  BY <2>1, <2>2 DEF Marked, Counted
<1>10. CASE Midnight
  <2>1. /\ now' = 0 /\ midnights < MaxMidnights /\ midnights' = midnights + 1
        /\ slots' = Entry /\ saved' = Entry /\ fired' = [i \in Slots |-> 0]
        /\ lost' = FALSE
    BY <1>10 DEF Midnight
  <2>2. now' \in 0 .. LastHour /\ midnights' \in 0 .. MaxMidnights
        /\ fired' \in [Slots -> 0 .. SnoozeLimit + 1]
    BY <2>1, RemindersAssumption
  <2>3. Marked' /\ Counted'
    BY <2>1, EntrySlots DEF Marked, Counted
  <2>4. lost' \in BOOLEAN
    BY <2>1
  <2> QED  BY <2>1, <2>2, <2>3, <2>4, EntrySlots
<1>11. CASE (User \/ Damage) /\ UNCHANGED <<day, book>>
  <2>1. up' = up
    BY <1>11 DEF User, SetDisplay, ResetDisplay, SetText, ResetText, SetMode,
                 ApplySettings, Toggle, Operation, Damage
  <2> QED  BY <1>1, <1>11, <2>1
<1>12. CASE UNCHANGED all
  BY <1>1, <1>12 DEF all
<1> QED
  BY <1>2, <1>3, <1>4, <1>5, <1>6, <1>7, <1>8, <1>9, <1>10, <1>11, <1>12
  DEF RemindersNext

\* The inductive invariant gives the checked one.
LEMMA RInvGivesRemindersInv == RInv => RemindersInv
<1> SUFFICES ASSUME RInv PROVE RemindersInv
  OBVIOUS
<1>1. ASSUME ~lost, NEW i \in Slots
      PROVE  fired[i] <= 1 + (IF up THEN slots[i].snoozes ELSE saved[i].snoozes)
  <2>1. slots[i] \in Slot /\ saved[i] \in Slot /\ fired[i] \in Nat
    BY RemindersAssumption DEF RInv, RemindersTypeOK
  <2> QED  BY <1>1, <2>1, RemindersAssumption, SMTT(30) DEF RInv, Counted, Count, Slot
<1> QED  BY <1>1 DEF RInv, RemindersInv, OncePerSlot

\* A step never reminds of a slot that was done today.
LEMMA DoneStep ==
  ASSUME RInv, [RemindersNext]_all, NEW i \in Slots, slots[i].completed
  PROVE  fired'[i] <= fired[i]
<1> USE DEF RInv, RemindersTypeOK
<1>1. fired[i] \in Nat
  BY RemindersAssumption
<1>2. CASE fired' = fired
  BY <1>1, <1>2
<1>3. CASE Tick
  <2>1. Reminds(i) = 0
    BY TickCounts DEF Marked
  <2> QED  BY <1>1, <1>3, <2>1 DEF Tick
<1>4. CASE Midnight
  BY <1>1, <1>4 DEF Midnight
<1> QED
  BY <1>2, <1>3, <1>4 DEF RemindersNext, all, book, StartProgram, StopProgram,
     DamageState, StartOrSkip, Snooze, Answer, SavePosition, Pass

-----------------------------------------------------------------------------
\* A slot is reminded of once a day and once more for each snooze, whatever is
\* restarted, edited or damaged, unless the file that remembers was not written.
THEOREM RemindedOnce == RemindersSpec => []RemindersInv
<1>1. RInv /\ [RemindersNext]_all => RInv'
  BY RemindersStep
<1> QED  BY RInvInitially, <1>1, RInvGivesRemindersInv, PTL DEF RemindersSpec

\* What was started or skipped is not reminded of again that day.
THEOREM DoneStaysQuiet == RemindersSpec => DoneIsQuiet
<1>1. RInv /\ [RemindersNext]_all => RInv'
  BY RemindersStep
<1>2. RInv /\ [RemindersNext]_all
        => [\A i \in Slots : slots[i].completed => fired'[i] <= fired[i]]_all
  BY DoneStep
<1> QED  BY RInvInitially, <1>1, <1>2, PTL DEF RemindersSpec, DoneIsQuiet
=============================================================================
