----------------------------- MODULE LayerReads -----------------------------
(***************************************************************************)
(* How the vector layers of the viewer are filled while the user moves the *)
(* map: Map.moveTo, Strategy.BBOX, the request under it and the loading    *)
(* panel that tells the user that something is still on its way.           *)
(*                                                                         *)
(* A request is opened at once, sent from a timer and answered by the      *)
(* network.  A layer that needs other data aborts its request, which may   *)
(* then be waiting for its timer or on its way; nothing calls it back.     *)
(*                                                                         *)
(* A view is a centre with a zoom level, and which views lie within the    *)
(* interval asked for at another view is given (module ClusterLayer        *)
(* computes it).  The settings show exactly one vector layer at any zoom.  *)
(***************************************************************************)
EXTENDS Integers, FiniteSets

CONSTANTS
  Layer,      \* the vector layers
  View,       \* the views of the map
  Shown,      \* Shown[v]: the layer in range at view v
  Covers,     \* Covers[v]: the views within the bounds asked for at view v
  Request,    \* XMLHttpRequest objects, used again when they are through
  MaxTiles,   \* bound: the tiles of the base layer that can be loading
  None        \* the JavaScript null

ASSUME ReadsAssumption ==
  /\ IsFiniteSet(Layer)
  /\ Shown \in [View -> Layer]
  /\ Covers \in [View -> SUBSET View]
  /\ \A v \in View : v \in Covers[v]
  /\ MaxTiles \in Nat
  /\ None \notin View
  /\ None \notin Request

VARIABLES
  view,       \* map.center and map.zoom
  dragging,   \* map.dragging
  bounds,     \* bounds[l]: BBOX.bounds, as the view it was computed at
  response,   \* response[l]: BBOX.response, the request of the last read
  request,    \* request[r]: layer, view, stage and aborted flag
  contents,   \* contents[l]: the view whose features the layer has, or None
  tiles,      \* numLoadingTiles of the base layer
  panel       \* LoadingPanel: counter and maximized

vars == <<view, dragging, bounds, response, request, contents, tiles, panel>>

Stage  == {"free", "opened", "sent"}
Record == [layer : Layer \cup {None}, view : View \cup {None},
           stage : Stage, aborted : BOOLEAN]
Unused == [layer |-> None, view |-> None, stage |-> "free", aborted |-> FALSE]
Panel  == [counter : Nat, maximized : BOOLEAN]

-----------------------------------------------------------------------------
(* LoadingPanel.increaseCounter and decreaseCounter; nothing makes the     *)
(* control invisible, so visible is always true.                           *)

Increase(p) == [counter |-> p.counter + 1, maximized |-> TRUE]

Decrease(p) ==
  LET n == IF p.counter > 0 THEN p.counter - 1 ELSE 0
  IN  [counter |-> n, maximized |-> p.maximized /\ n # 0]

\* Layer.Grid: loadstart with the first tile, loadend with the last.
TilesChange(p, before, after) ==
  CASE before = 0 /\ after # 0 -> Increase(p)
    [] before # 0 /\ after = 0 -> Decrease(p)
    [] OTHER                   -> p

\* Slip: the end of the read that is aborted is not told to the panel.
ReadStartsOnly(p, busy) == Increase(p)

\* BBOX.triggerRead: the end of the read that is aborted, then the start.
ReadStarts(p, busy) == Increase(IF busy THEN Decrease(p) ELSE p)

-----------------------------------------------------------------------------
\* Slip: a layer that has asked for something never asks again.
InvalidBoundsOnce(l, v) == bounds[l] = None

InvalidBounds(l, v) == bounds[l] = None \/ v \notin Covers[bounds[l]]

\* Slip: the new read starts and the old one goes on.
NotAborted(l) == request

\* Protocol.abort: the request that is under way will not be answered.
Aborted(l) ==
  IF response[l] = None THEN request
  ELSE [request EXCEPT ![response[l]].aborted = TRUE]

\* BBOX.triggerRead, and Request.issue up to its timer.
Read(l, v, p) ==
  \E r \in Request :
    /\ request[r].stage = "free"
    /\ request'  = [Aborted(l) EXCEPT ![r] = [layer   |-> l,
                                              view    |-> v,
                                              stage   |-> "opened",
                                              aborted |-> FALSE]]
    /\ bounds'   = [bounds EXCEPT ![l] = v]
    /\ response' = [response EXCEPT ![l] = r]
    /\ panel'    = ReadStarts(p, response[l] # None)

-----------------------------------------------------------------------------
Init ==
  /\ view     = None
  /\ dragging = FALSE
  /\ bounds   = [l \in Layer |-> None]
  /\ response = [l \in Layer |-> None]
  /\ request  = [r \in Request |-> Unused]
  /\ contents = [l \in Layer |-> None]
  /\ tiles    = 0
  /\ panel    = [counter |-> 0, maximized |-> FALSE]

\* Map.moveTo: first the base layer, then the layer that is in range.
Move(v) ==
  /\ view'     = v
  /\ dragging' = FALSE
  /\ tiles' \in 0..MaxTiles
  /\ LET p == TilesChange(panel, tiles, tiles')
     IN  IF InvalidBounds(Shown[v], v)
           THEN Read(Shown[v], v, p)
           ELSE panel' = p /\ UNCHANGED <<bounds, response, request>>
  /\ UNCHANGED contents

\* Map.moveTo while the user drags: the layers hear "move", not "moveend".
Drag(v) ==
  /\ view # None
  /\ Shown[v] = Shown[view]
  /\ view'     = v
  /\ dragging' = TRUE
  /\ tiles' \in 0..MaxTiles
  /\ panel'    = TilesChange(panel, tiles, tiles')
  /\ UNCHANGED <<bounds, response, request, contents>>

\* Request.issue: the timer sends the request, unless it was aborted.
Timer(r) ==
  /\ request[r].stage = "opened"
  /\ request' = [request EXCEPT ![r] = IF request[r].aborted
                                         THEN Unused
                                         ELSE [request[r] EXCEPT !.stage = "sent"]]
  /\ UNCHANGED <<view, dragging, bounds, response, contents, tiles, panel>>

\* The network gives an answer or an error to a request that was aborted.
Ignored(r) ==
  /\ request[r].stage = "sent"
  /\ request[r].aborted
  /\ request' = [request EXCEPT ![r] = Unused]
  /\ UNCHANGED <<view, dragging, bounds, response, contents, tiles, panel>>

\* Slips: an aborted request calls back, or a failed one does not.
AnsweredWhenAborted(r) ==
  /\ request[r].stage = "sent"
  /\ LET l == request[r].layer IN
       /\ \E c \in {request[r].view, None} :
            contents' = [contents EXCEPT ![l] = c]
       /\ response' = [response EXCEPT ![l] = None]
  /\ request' = [request EXCEPT ![r] = Unused]
  /\ panel'   = Decrease(panel)
  /\ UNCHANGED <<view, dragging, bounds, tiles>>

AnsweredOnSuccess(r) ==
  /\ request[r].stage = "sent"
  /\ ~request[r].aborted
  /\ LET l == request[r].layer IN
       \/ /\ contents' = [contents EXCEPT ![l] = request[r].view]
          /\ response' = [response EXCEPT ![l] = None]
          /\ panel'    = Decrease(panel)
       \/ UNCHANGED <<contents, response, panel>>
  /\ request' = [request EXCEPT ![r] = Unused]
  /\ UNCHANGED <<view, dragging, bounds, tiles>>

\* WFS.handleRead and BBOX.merge: all old features go, new ones may come.
Answered(r) ==
  /\ request[r].stage = "sent"
  /\ ~request[r].aborted
  /\ LET l == request[r].layer IN
       /\ \E c \in {request[r].view, None} :
            contents' = [contents EXCEPT ![l] = c]
       /\ response' = [response EXCEPT ![l] = None]
  /\ request' = [request EXCEPT ![r] = Unused]
  /\ panel'   = Decrease(panel)
  /\ UNCHANGED <<view, dragging, bounds, tiles>>

\* A tile of the base layer has loaded or was given up.
TileLoaded ==
  /\ tiles > 0
  /\ tiles' = tiles - 1
  /\ panel' = TilesChange(panel, tiles, tiles')
  /\ UNCHANGED <<view, dragging, bounds, response, request, contents>>

Network ==
  \/ \E r \in Request : Timer(r) \/ Ignored(r) \/ Answered(r)
  \/ TileLoaded

Next == (\E v \in View : Move(v) \/ Drag(v)) \/ Network

\* The browser runs its timers, and ends every request and every image with
\* an answer or an error.
Fairness ==
  /\ \A r \in Request : /\ WF_vars(Timer(r))
                        /\ WF_vars(Ignored(r))
                        /\ WF_vars(Answered(r))
  /\ WF_vars(TileLoaded)

Spec == Init /\ [][Next]_vars /\ Fairness

-----------------------------------------------------------------------------
\* The type invariant.
TypeOK ==
  /\ view     \in View \cup {None}
  /\ dragging \in BOOLEAN
  /\ bounds   \in [Layer -> View \cup {None}]
  /\ response \in [Layer -> Request \cup {None}]
  /\ request  \in [Request -> Record]
  /\ contents \in [Layer -> View \cup {None}]
  /\ tiles    \in Nat
  /\ panel    \in Panel

Busy == {l \in Layer : response[l] # None}

\* The loading panel counts exactly the layers that are still loading, also
\* when reads were aborted, restarted and failed in any order, and shows
\* itself exactly when there are any (LoadingPanel, triggerRead, merge).
PanelCountsBusyLayers ==
  /\ panel.counter = Cardinality(Busy) + (IF tiles > 0 THEN 1 ELSE 0)
  /\ panel.maximized <=> panel.counter > 0

\* When the user is not dragging, what is on screen lies within the bounds
\* the layer in range last asked for, whatever was aborted (BBOX.update).
ScreenIsAskedFor ==
  view # None /\ ~dragging =>
    LET b == bounds[Shown[view]] IN b # None /\ view \in Covers[b]

\* The request that will call the layer back is the one the layer waits
\* for, and carries the bounds the layer asked for last: at most one request
\* per layer is alive, wherever the aborted ones are.
Alive(r) == request[r].stage # "free" /\ ~request[r].aborted

OneLiveRequest ==
  /\ \A r \in Request : Alive(r) =>
       /\ response[request[r].layer] = r
       /\ request[r].view = bounds[request[r].layer]
  /\ \A l \in Layer : response[l] # None =>
       Alive(response[l]) /\ request[response[l]].layer = l

\* Layers show the answer to the last read or nothing: the design above.
Waiting == [l \in Layer |-> response[l] # None]
Reads   == INSTANCE LatestRead WITH asked   <- bounds,
                                    waiting <- Waiting,
                                    shown   <- contents

ImplementsLatestRead == Reads!Spec

\* When the user leaves the map alone, every read comes to an end and the
\* loading panel goes away for good.
LoadingEnds ==
  <>[][Network]_vars => <>[](Busy = {} /\ ~panel.maximized)
=============================================================================
