------------------------------- MODULE Markers -----------------------------
(***************************************************************************)
(* The markers of the viewer behind one legend: a layer of areas           *)
(* (ServerSideLayer) and a cluster of announcements (ClusterMarker).  The  *)
(* zoom level shows one of them, or another layer of areas; a click in the *)
(* legend goes to both, and answers come to either at any time.            *)
(***************************************************************************)
EXTENDS ServerSideLayer, ClusterMarker

vars == <<legend, serverVars, markerVars>>

Init == LegendInit /\ ServerInit /\ MarkerInit

\* Legend.handleClick goes through all layers.
Toggle(c) == HandleClick(c) /\ ServerToggle(c) /\ MarkerToggle(c)

\* The map goes to a place and zoom level that shows the areas ...
MoveToAreas == /\ \E read \in BOOLEAN, view \in SUBSET Area :
                    ServerMove(TRUE, read, view)
               /\ UNCHANGED markerVars

\* ... the announcements, in which case they are clustered again ...
MoveToMarkers == /\ ServerMove(FALSE, FALSE, {})
                 /\ \E view \in BOOLEAN : MarkerZoom(view) \/ MarkerPan(view)

\* ... or neither.
MoveElsewhere == /\ ServerMove(FALSE, FALSE, {})
                 /\ UNCHANGED markerVars

AreasAnswer  == /\ ServerMerge \/ ServerMergeNothing
                /\ UNCHANGED markerVars
MarkerAnswer == /\ MarkerMerge \/ MarkerMergeNothing
                /\ UNCHANGED serverVars

Next == \/ \E c \in Class : Toggle(c)
        \/ MoveToAreas \/ MoveToMarkers \/ MoveElsewhere
        \/ AreasAnswer \/ MarkerAnswer

Spec == Init /\ [][Next]_vars

-----------------------------------------------------------------------------
\* The type invariants of both layers.
TypeOK == ServerTypeOK /\ MarkerTypeOK
=============================================================================
