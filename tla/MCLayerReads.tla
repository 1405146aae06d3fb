---------------------------- MODULE MCLayerReads ----------------------------
(***************************************************************************)
(* Two layers.  Views 1 to 3 show the first: 1 and 2 lie within each       *)
(* other's bounds, 2 and 3 too, 1 and 3 do not.  View 4 shows the second.  *)
(* Three requests: one alive and two that were aborted before it.          *)
(***************************************************************************)
EXTENDS LayerReads

MCLayer  == {"gemeente", "wijk"}
MCView   == 1..4
MCShown  == <<"gemeente", "gemeente", "gemeente", "wijk">>
MCCovers == <<{1, 2}, {1, 2, 3}, {2, 3}, {4}>>
=============================================================================
