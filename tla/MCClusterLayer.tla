--------------------------- MODULE MCClusterLayer ---------------------------
(***************************************************************************)
(* Two themes and five announcements on a line: two at the same place, two *)
(* close by, one at the far end.  Zoom 1 is out of range; at zoom 2 the    *)
(* first four make one or two clusters, depending on which of the two in   *)
(* one sort column comes first, and at zoom 3 they pair up by place.       *)
(***************************************************************************)
EXTENDS ClusterLayer

MCClass    == {"bouwen", "milieu"}
MCFeature  == 1..5
MCCat      == <<"bouwen", "milieu", "milieu", "bouwen", "bouwen">>
MCPos      == <<4, 4, 6, 7, 18>>
MCCentre   == {3, 6, 13}
MCZoom     == 1..3
MCInRange  == 2..3
MCHalf     == <<8, 4, 2>>
MCDistance == <<4, 2, 1>>
MCColumn   == <<3, 2, 1>>
=============================================================================
