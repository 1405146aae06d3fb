------------------------------- MODULE MCPopup -------------------------------
(***************************************************************************)
(* Five announcements of two themes.  They make two clusters, or the first *)
(* cluster falls apart; one area.  At zoom 9 the user sees the markers at  *)
(* two of three places, at zoom 8 those at all three; at zoom 6, the area, *)
(* whose middle is also in sight at the view that a click on it gives.     *)
(***************************************************************************)
EXTENDS Popup

MCNews    == 1..5
MCTheme   == {"bouwen", "milieu"}
MCCat     == <<"bouwen", "milieu", "bouwen", "milieu", "bouwen">>
MCMarker  == {"s1", "s2", "c12", "c345", "area"}
MCMembers == [s1 |-> {1}, s2 |-> {2}, c12 |-> {1, 2}, c345 |-> {3, 4, 5}, area |-> {}]
MCFirst   == [s1 |-> 1, s2 |-> 2, c12 |-> 1, c345 |-> 3]
MCPlace   == [s1 |-> 1, s2 |-> 3, c12 |-> 1, c345 |-> 2, area |-> 4]
MCArrangements == {{"c12", "c345"}, {"s1", "s2", "c345"}}

MCView    == {"near", "beside", "wide", "far", "away"}
MCZoom    == [near |-> 9, beside |-> 9, wide |-> 8, far |-> 6, away |-> 6]
MCAreasShown  == [z \in {6, 8, 9} |-> z = 6]
MCInView      == [near |-> {1, 2, 4}, beside |-> {2, 3}, wide |-> {1, 2, 3}, far |-> {4}, away |-> {4}]
MCClusterView == [area |-> "near"]
=============================================================================
