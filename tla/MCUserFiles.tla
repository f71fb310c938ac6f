----------------------------- MODULE MCUserFiles -----------------------------
(***************************************************************************)
(* Two layouts and two policies of which one pair is not in the matrix, a  *)
(* day of four hours  with one or two reminders, and files a start may find*)
(* that no version of the program would write.                             *)
(***************************************************************************)
EXTENDS Reminders

MCMatrix == {<<"standard", "normal">>, <<"compact", "normal">>, <<"compact", "dnd">>}

MCTimeLists    == {<<1, 2>>, <<2>>}
MCDefaultTimes == <<1, 2>>

MCFound ==
  {Unreadable, Defaults,
   [Defaults EXCEPT !.display = <<"standard", "dnd">>, !.text = Junk],
   [Defaults EXCEPT !.display = <<Absent, "dnd">>, !.character = "t"]}
=============================================================================
