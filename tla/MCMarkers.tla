------------------------------ MODULE MCMarkers ----------------------------
(***************************************************************************)
(* Three themes and two areas: one with a zero and a missing number, one   *)
(* whose announcements partly have no theme; and a marker of four members, *)
(* the first and the last of the same theme.                               *)
(***************************************************************************)
EXTENDS Markers

CONSTANTS oost, west

MCTheme  == <<"bouwen", "milieu", "verkeer">>
MCArea   == {oost, west}
MCAmount ==
  [a \in MCArea |->
     IF a = oost THEN [bouwen |-> 4, milieu |-> 0, verkeer |-> Absent]
                 ELSE [bouwen |-> 1, milieu |-> 1, verkeer |-> 0]]
MCOther  == [a \in MCArea |-> IF a = west THEN 2 ELSE 0]

MCMembers == <<1, 2, 3, 4>>
MCCat     == <<"bouwen", "milieu", "verkeer", "bouwen">>
=============================================================================
