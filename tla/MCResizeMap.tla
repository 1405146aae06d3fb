----------------------------- MODULE MCResizeMap ----------------------------
(***************************************************************************)
(* A window that ends before the map begins, one with room for the map but *)
(* not for the anchor, and one with room for both.                         *)
(***************************************************************************)
EXTENDS ResizeMap

MCWidths  == {-1, 5, 7}
MCHeights == {2, 6}
=============================================================================
