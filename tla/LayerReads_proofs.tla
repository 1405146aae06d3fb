------------------------- MODULE LayerReads_proofs --------------------------
(***************************************************************************)
(* For every number of layers, views and requests: at most one request per *)
(* layer can call back, the loading panel counts the layers that load, the *)
(* screen lies within what was asked for, and the layers implement         *)
(* LatestRead.                                                             *)
(***************************************************************************)
EXTENDS LayerReads, FiniteSetTheorems, TLAPS

\* What a request in use knows: the layer and the view it was issued for.
Known ==
  \A r \in Request : request[r].stage # "free" =>
    request[r].layer \in Layer /\ request[r].view \in View

\* The inductive invariant of the requests.
RInv ==
  /\ TypeOK
  /\ Known
  /\ OneLiveRequest

-----------------------------------------------------------------------------
(* Facts about the operators.                                              *)

\* A new read: one request more, the old one of the layer aborted.
LEMMA AbortedType ==
  ASSUME TypeOK, NEW l \in Layer
  PROVE  /\ Aborted(l) \in [Request -> Record]
         /\ \A r \in Request :
              Aborted(l)[r] = IF r = response[l]
                                THEN [request[r] EXCEPT !.aborted = TRUE]
                                ELSE request[r]
<1>1. CASE response[l] = None
  BY <1>1, ReadsAssumption DEF TypeOK, Aborted
<1>2. CASE response[l] # None
  <2>1. response[l] \in Request
    BY <1>2 DEF TypeOK
  <2>2. Aborted(l) = [request EXCEPT ![response[l]] =
                        [request[response[l]] EXCEPT !.aborted = TRUE]]
    BY <1>2, <2>1 DEF Aborted, TypeOK
  <2>3. [request[response[l]] EXCEPT !.aborted = TRUE] \in Record
    BY <2>1 DEF TypeOK, Record
  <2>4. QED
    BY <2>1, <2>2, <2>3 DEF TypeOK
<1>3. QED
  BY <1>1, <1>2

LEMMA PanelType ==
  ASSUME NEW p \in Panel
  PROVE  /\ Increase(p) \in Panel
         /\ Decrease(p) \in Panel
         /\ \A m, n : TilesChange(p, m, n) \in Panel
         /\ \A b \in BOOLEAN : ReadStarts(p, b) \in Panel
<1>1. \A q \in Panel : Increase(q) \in Panel
  BY DEF Panel, Increase
<1>2. \A q \in Panel : Decrease(q) \in Panel
  <2>1. SUFFICES ASSUME NEW q \in Panel PROVE Decrease(q) \in Panel
    OBVIOUS
  <2>2. (IF q.counter > 0 THEN q.counter - 1 ELSE 0) \in Nat
    BY DEF Panel
  <2>3. QED
    BY <2>2 DEF Panel, Decrease
<1>3. QED
  BY <1>1, <1>2 DEF TilesChange, ReadStarts

\* Every read keeps the types, and the layer's new request is the one alive.
LEMMA ReadOK ==
  ASSUME RInv, NEW l \in Layer, NEW v \in View, NEW p \in Panel, Read(l, v, p)
  PROVE  /\ bounds' \in [Layer -> View \cup {None}]
         /\ response' \in [Layer -> Request \cup {None}]
         /\ request' \in [Request -> Record]
         /\ panel' \in Panel
         /\ Known'
         /\ OneLiveRequest'
<1>1. PICK r \in Request :
        /\ request[r].stage = "free"
        /\ request'  = [Aborted(l) EXCEPT ![r] = [layer   |-> l,
                                                  view    |-> v,
                                                  stage   |-> "opened",
                                                  aborted |-> FALSE]]
        /\ bounds'   = [bounds EXCEPT ![l] = v]
        /\ response' = [response EXCEPT ![l] = r]
        /\ panel'    = ReadStarts(p, response[l] # None)
  BY DEF Read
<1>2. TypeOK /\ Known /\ OneLiveRequest
  BY DEF RInv
<1> DEFINE new == [layer |-> l, view |-> v, stage |-> "opened", aborted |-> FALSE]
<1>3. new \in Record
  BY DEF Record, Stage
<1>4. /\ request' \in [Request -> Record]
      /\ \A q \in Request :
           request'[q] = IF q = r THEN new
                         ELSE IF q = response[l]
                                THEN [request[q] EXCEPT !.aborted = TRUE]
                                ELSE request[q]
  BY <1>1, <1>2, <1>3, AbortedType
<1>5. /\ bounds' \in [Layer -> View \cup {None}]
      /\ response' \in [Layer -> Request \cup {None}]
  BY <1>1, <1>2 DEF TypeOK
<1>6. panel' \in Panel
  BY <1>1, PanelType
<1>7. \A q \in Request : request[q] \in Record
  BY <1>2 DEF TypeOK
<1>8. Known'
  <2>1. SUFFICES ASSUME NEW q \in Request, request'[q].stage # "free"
                 PROVE  request'[q].layer \in Layer /\ request'[q].view \in View
    BY DEF Known
  <2>2. CASE q = r
    BY <1>4, <2>2
  <2>3. CASE q # r
    <3>1. /\ request'[q].stage = request[q].stage
          /\ request'[q].layer = request[q].layer
          /\ request'[q].view = request[q].view
      BY <1>4, <1>7, <2>3 DEF Record
    <3>2. QED
      BY <1>2, <2>1, <3>1 DEF Known
  <2>4. QED
    BY <2>2, <2>3
<1>9. \A q \in Request : q # r /\ Alive(q)' =>
        /\ request'[q] = request[q]
        /\ Alive(q)
        /\ q # response[l]
        /\ request[q].layer # l
  <2>1. SUFFICES ASSUME NEW q \in Request, q # r, Alive(q)'
                 PROVE  /\ request'[q] = request[q]
                        /\ Alive(q)
                        /\ q # response[l]
                        /\ request[q].layer # l
    OBVIOUS
  <2>2. q # response[l]
    BY <1>4, <1>7, <2>1 DEF Alive, Record
  <2>3. request'[q] = request[q]
    BY <1>4, <2>1, <2>2
  <2>4. Alive(q)
    BY <2>1, <2>3 DEF Alive
  <2>5. QED
    BY <1>2, <2>2, <2>3, <2>4 DEF OneLiveRequest
<1>10. OneLiveRequest'
  <2>1. \A q \in Request : Alive(q)' =>
          /\ response'[request'[q].layer] = q
          /\ request'[q].view = bounds'[request'[q].layer]
    <3>1. SUFFICES ASSUME NEW q \in Request, Alive(q)'
                   PROVE  /\ response'[request'[q].layer] = q
                          /\ request'[q].view = bounds'[request'[q].layer]
      OBVIOUS
    <3>2. CASE q = r
      BY <1>1, <1>2, <1>4, <3>2 DEF TypeOK
    <3>3. CASE q # r
      <4>1. /\ request'[q] = request[q]
            /\ Alive(q)
            /\ request[q].layer # l
        BY <1>9, <3>1, <3>3
      <4>2. request[q].layer \in Layer
        BY <1>2, <4>1 DEF Known, Alive
      <4>3. QED
        BY <1>1, <1>2, <4>1, <4>2 DEF TypeOK, OneLiveRequest
    <3>4. QED
      BY <3>2, <3>3
  <2>2. \A k \in Layer : response'[k] # None =>
          Alive(response[k])' /\ request'[response'[k]].layer = k
    <3>1. SUFFICES ASSUME NEW k \in Layer, response'[k] # None
                   PROVE  Alive(response[k])' /\ request'[response'[k]].layer = k
      OBVIOUS
    <3>2. CASE k = l
      BY <1>1, <1>2, <1>4, <3>2 DEF TypeOK, Alive
    <3>3. CASE k # l
      <4>1. response'[k] = response[k] /\ response[k] \in Request
        BY <1>1, <1>2, <3>1, <3>3 DEF TypeOK
      <4>2. Alive(response[k]) /\ request[response[k]].layer = k
        BY <1>2, <3>1, <4>1 DEF OneLiveRequest
      <4>3. response[k] # r
        BY <1>1, <4>2 DEF Alive
      <4>4. response[k] # response[l]
        <5>1. CASE response[l] = None
          BY <4>1, <5>1, ReadsAssumption
        <5>2. CASE response[l] # None
          BY <1>2, <3>3, <4>2, <5>2 DEF OneLiveRequest
        <5>3. QED
          BY <5>1, <5>2
      <4>5. request'[response[k]] = request[response[k]]
        BY <1>4, <4>1, <4>3, <4>4
      <4>6. QED
        BY <4>1, <4>2, <4>5 DEF Alive
    <3>4. QED
      BY <3>2, <3>3
  <2>3. QED
    BY <2>1, <2>2 DEF OneLiveRequest
<1>11. QED
  BY <1>4, <1>5, <1>6, <1>8, <1>10

\* A request that is through: whoever waited for it waits no longer.
LEMMA ThroughOK ==
  ASSUME RInv, NEW r \in Request,
         request' = [request EXCEPT ![r] = Unused],
         bounds' = bounds,
         \/ /\ request[r].aborted
            /\ response' = response
         \/ /\ request[r].stage # "free"
            /\ ~request[r].aborted
            /\ response' = [response EXCEPT ![request[r].layer] = None]
  PROVE  /\ request' \in [Request -> Record]
         /\ response' \in [Layer -> Request \cup {None}]
         /\ Known'
         /\ OneLiveRequest'
<1>1. TypeOK /\ Known /\ OneLiveRequest
  BY DEF RInv
<1>2. Unused \in Record /\ Unused.stage = "free"
  BY DEF Unused, Record, Stage
<1>3. /\ request' \in [Request -> Record]
      /\ \A q \in Request : request'[q] = IF q = r THEN Unused ELSE request[q]
  BY <1>1, <1>2 DEF TypeOK
<1>4. Known'
  BY <1>1, <1>2, <1>3 DEF Known
<1>5. \A q \in Request : Alive(q)' => q # r /\ Alive(q) /\ request'[q] = request[q]
  BY <1>2, <1>3 DEF Alive
<1>6. CASE request[r].aborted /\ response' = response
  <2>1. \A k \in Layer : response[k] # r
    BY <1>1, <1>6, ReadsAssumption DEF OneLiveRequest, Alive
  <2>2. \A k \in Layer : response[k] # None =>
          Alive(response[k])' /\ request'[response'[k]].layer = k
    BY <1>1, <1>3, <1>6, <2>1 DEF OneLiveRequest, Alive, TypeOK
  <2>3. OneLiveRequest'
    BY <1>1, <1>5, <1>6, <2>2 DEF OneLiveRequest
  <2>4. QED
    BY <1>1, <1>3, <1>4, <1>6, <2>3 DEF TypeOK
<1>7. CASE /\ request[r].stage # "free"
           /\ ~request[r].aborted
           /\ response' = [response EXCEPT ![request[r].layer] = None]
  <2> DEFINE l == request[r].layer
  <2>1. l \in Layer /\ response[l] = r
    BY <1>1, <1>7 DEF Known, OneLiveRequest, Alive
  <2>2. /\ response' \in [Layer -> Request \cup {None}]
        /\ \A k \in Layer : response'[k] = IF k = l THEN None ELSE response[k]
    BY <1>1, <1>7, <2>1 DEF TypeOK
  <2>3. \A k \in Layer : k # l => response[k] # r
    BY <1>1, <1>7, ReadsAssumption DEF OneLiveRequest
  <2>4. \A q \in Request : Alive(q)' =>
          /\ response'[request'[q].layer] = q
          /\ request'[q].view = bounds'[request'[q].layer]
    <3>1. SUFFICES ASSUME NEW q \in Request, Alive(q)'
                   PROVE  /\ response'[request'[q].layer] = q
                          /\ request'[q].view = bounds'[request'[q].layer]
      OBVIOUS
    <3>2. q # r /\ Alive(q) /\ request'[q] = request[q]
      BY <1>5, <3>1
    <3>3. /\ response[request[q].layer] = q
          /\ request[q].view = bounds[request[q].layer]
          /\ request[q].layer \in Layer
      BY <1>1, <3>2 DEF OneLiveRequest, Known, Alive
    <3>4. QED
      BY <2>1, <2>2, <3>2, <3>3
  <2>5. \A k \in Layer : response'[k] # None =>
          Alive(response[k])' /\ request'[response'[k]].layer = k
    <3>1. SUFFICES ASSUME NEW k \in Layer, response'[k] # None
                   PROVE  Alive(response[k])' /\ request'[response'[k]].layer = k
      OBVIOUS
    <3>2. k # l /\ response'[k] = response[k]
      BY <2>2, <3>1
    <3>3. response[k] # r /\ response[k] \in Request
      BY <1>1, <2>3, <3>1, <3>2 DEF TypeOK
    <3>4. Alive(response[k]) /\ request[response[k]].layer = k
      BY <1>1, <3>1, <3>2 DEF OneLiveRequest
    <3>5. QED
      BY <1>3, <3>2, <3>3, <3>4 DEF Alive
  <2>6. QED
    BY <1>3, <1>4, <2>2, <2>4, <2>5 DEF OneLiveRequest
<1>8. QED
  BY <1>6, <1>7

\* A request that is sent stays what it was for its layer.
LEMMA SentOK ==
  ASSUME RInv, NEW r \in Request, request[r].stage # "free",
         request' = [request EXCEPT ![r] = [request[r] EXCEPT !.stage = "sent"]],
         UNCHANGED <<bounds, response>>
  PROVE  /\ request' \in [Request -> Record]
         /\ Known'
         /\ OneLiveRequest'
<1>1. TypeOK /\ Known /\ OneLiveRequest
  BY DEF RInv
<1>2. /\ request' \in [Request -> Record]
      /\ \A q \in Request :
           /\ request'[q].layer = request[q].layer
           /\ request'[q].view = request[q].view
           /\ request'[q].aborted = request[q].aborted
           /\ (request'[q].stage = "free") = (request[q].stage = "free")
  BY <1>1 DEF TypeOK, Record, Stage
<1>3. Known'
  BY <1>1, <1>2 DEF Known
<1>4. OneLiveRequest'
  BY <1>1, <1>2 DEF OneLiveRequest, Alive, TypeOK
<1>5. QED
  BY <1>2, <1>3, <1>4

-----------------------------------------------------------------------------
(* The invariant of the requests.                                          *)

LEMMA RInit ==
  ASSUME Init
  PROVE  RInv
<1>1. Unused \in Record /\ Unused.stage = "free"
  BY DEF Unused, Record, Stage
<1>2. TypeOK
  BY <1>1 DEF Init, TypeOK, Panel
<1>3. Known /\ OneLiveRequest
  BY <1>1 DEF Init, Known, OneLiveRequest, Alive
<1>4. QED
  BY <1>2, <1>3 DEF RInv

LEMMA RStep ==
  ASSUME RInv, [Next]_vars
  PROVE  RInv'
<1>1. TypeOK /\ Known /\ OneLiveRequest
  BY DEF RInv
<1>p. panel \in Panel
  BY <1>1 DEF TypeOK
<1>t. TilesChange(panel, tiles, tiles') \in Panel
  BY <1>p, PanelType
<1>n. \A n \in 0..MaxTiles : n \in Nat
  BY ReadsAssumption
<1> USE DEF RInv
<1>2. ASSUME NEW v \in View, Move(v) PROVE RInv'
  <2> DEFINE p == TilesChange(panel, tiles, tiles')
  <2>1. Shown[v] \in Layer /\ p \in Panel /\ tiles' \in Nat
    BY <1>2, <1>t, <1>n, ReadsAssumption DEF Move
  <2>2. CASE InvalidBounds(Shown[v], v)
    <3>1. Read(Shown[v], v, p)
      BY <1>2, <2>2 DEF Move
    <3>2. QED
      BY <1>1, <1>2, <2>1, <3>1, ReadOK DEF Move, TypeOK
  <2>3. CASE ~InvalidBounds(Shown[v], v)
    BY <1>1, <1>2, <2>1, <2>3 DEF Move, TypeOK, Known, OneLiveRequest, Alive
  <2>4. QED
    BY <2>2, <2>3
<1>3. ASSUME NEW v \in View, Drag(v) PROVE RInv'
  <2>1. TilesChange(panel, tiles, tiles') \in Panel /\ tiles' \in Nat
    BY <1>3, <1>t, <1>n DEF Drag
  <2>2. QED
    BY <1>1, <1>3, <2>1 DEF Drag, TypeOK, Known, OneLiveRequest, Alive
<1>4. ASSUME NEW r \in Request, Timer(r) PROVE RInv'
  <2>1. CASE request[r].aborted
    <3>1. request' = [request EXCEPT ![r] = Unused]
      BY <1>4, <2>1 DEF Timer
    <3>2. QED
      BY <1>1, <1>4, <2>1, <3>1, ThroughOK DEF Timer, TypeOK
  <2>2. CASE ~request[r].aborted
    <3>1. request' = [request EXCEPT ![r] = [request[r] EXCEPT !.stage = "sent"]]
      BY <1>4, <2>2 DEF Timer
    <3>2. QED
      BY <1>1, <1>4, <3>1, SentOK DEF Timer, TypeOK
  <2>3. QED
    BY <2>1, <2>2
<1>5. ASSUME NEW r \in Request, Ignored(r) PROVE RInv'
  BY <1>1, <1>5, ThroughOK DEF Ignored, TypeOK
<1>6. ASSUME NEW r \in Request, Answered(r) PROVE RInv'
  <2>1. request[r].layer \in Layer /\ request[r].view \in View
    BY <1>1, <1>6 DEF Answered, Known
  <2>2. /\ request' \in [Request -> Record]
        /\ response' \in [Layer -> Request \cup {None}]
        /\ Known'
        /\ OneLiveRequest'
    BY <1>6, ThroughOK DEF Answered
  <2>3. contents' \in [Layer -> View \cup {None}]
    BY <1>1, <1>6, <2>1 DEF Answered, TypeOK
  <2>4. panel' \in Panel
    BY <1>1, <1>6, PanelType DEF Answered, TypeOK
  <2>5. QED
    BY <1>1, <1>6, <2>2, <2>3, <2>4 DEF Answered, TypeOK
<1>7. CASE TileLoaded
  <2>1. panel' \in Panel /\ tiles' \in Nat
    BY <1>1, <1>7, <1>t DEF TileLoaded, TypeOK
  <2>2. QED
    BY <1>1, <1>7, <2>1 DEF TileLoaded, TypeOK, Known, OneLiveRequest, Alive
<1>8. CASE UNCHANGED vars
  BY <1>1, <1>8 DEF vars, TypeOK, Known, OneLiveRequest, Alive
<1>9. QED
  BY <1>2, <1>3, <1>4, <1>5, <1>6, <1>7, <1>8 DEF Next, Network

\* In every reachable state the variables have their types, and the request
\* that will call a layer back is the one the layer waits for, with the
\* bounds the layer asked for last.
THEOREM Requests == Spec => []RInv
<1>1. Init => RInv
  BY RInit
<1>2. RInv /\ [Next]_vars => RInv'
  BY RStep
<1>3. QED
  BY <1>1, <1>2, PTL DEF Spec

\* Type correctness (the state of BBOX, the requests and the panel).
THEOREM TypeCorrect == Spec => []TypeOK
<1>1. RInv => TypeOK
  BY DEF RInv
<1>2. QED
  BY <1>1, Requests, PTL

\* At most one request per layer can call back, and it asks for the bounds
\* the layer computed last (BBOX.triggerRead and Protocol.abort).
THEOREM OneRequestAlive == Spec => []OneLiveRequest
<1>1. RInv => OneLiveRequest
  BY DEF RInv
<1>2. QED
  BY <1>1, Requests, PTL

-----------------------------------------------------------------------------
(* The loading panel.                                                      *)

\* Panel p counts n layers that load, and shows itself if there are any.
PanelSays(p, n) == p.counter = n /\ (p.maximized <=> n > 0)

One(n) == IF n > 0 THEN 1 ELSE 0

LEMMA PanelArithmetic ==
  ASSUME NEW p \in Panel, NEW n \in Nat, PanelSays(p, n)
  PROVE  /\ PanelSays(Increase(p), n + 1)
         /\ n > 0 => PanelSays(Decrease(p), n - 1)
<1>1. /\ Increase(p).counter = n + 1
      /\ Increase(p).maximized = TRUE
  BY DEF Panel, PanelSays, Increase
<1>2. PanelSays(Increase(p), n + 1)
  BY <1>1 DEF PanelSays
<1>3. ASSUME n > 0 PROVE PanelSays(Decrease(p), n - 1)
  <2>1. p.counter = n /\ p.maximized
    BY <1>3 DEF PanelSays
  <2>2. /\ Decrease(p).counter = n - 1
        /\ Decrease(p).maximized = (p.maximized /\ n - 1 # 0)
    BY <1>3, <2>1 DEF Panel, Decrease
  <2>3. (n - 1 # 0) <=> (n - 1 > 0)
    BY <1>3
  <2>4. QED
    BY <2>1, <2>2, <2>3, Zenon DEF PanelSays
<1>4. QED
  BY <1>2, <1>3

LEMMA TilesArithmetic ==
  ASSUME NEW p \in Panel, NEW b \in Nat, NEW m \in Nat, NEW n \in Nat,
         PanelSays(p, b + One(m))
  PROVE  PanelSays(TilesChange(p, m, n), b + One(n))
<1>1. CASE m = 0 /\ n # 0
  <2>1. PanelSays(p, b) /\ TilesChange(p, m, n) = Increase(p)
    BY <1>1 DEF TilesChange, One
  <2>2. PanelSays(Increase(p), b + 1)
    BY <2>1, PanelArithmetic
  <2>3. QED
    BY <1>1, <2>1, <2>2 DEF One
<1>2. CASE m # 0 /\ n = 0
  <2>1. PanelSays(p, b + 1) /\ TilesChange(p, m, n) = Decrease(p)
    BY <1>2 DEF TilesChange, One
  <2>2. PanelSays(Decrease(p), (b + 1) - 1)
    BY <2>1, PanelArithmetic
  <2>3. QED
    BY <1>2, <2>1, <2>2 DEF One
<1>3. CASE (m = 0) = (n = 0)
  BY <1>3 DEF TilesChange, One
<1>4. QED
  BY <1>1, <1>2, <1>3

LEMMA BusyFinite ==
  IsFiniteSet(Busy) /\ Cardinality(Busy) \in Nat
<1>1. Busy \subseteq Layer
  BY DEF Busy
<1>2. QED
  BY <1>1, ReadsAssumption, FS_Subset, FS_CardinalityType

PanelOK == PanelSays(panel, Cardinality(Busy) + One(tiles))

LEMMA PanelStep ==
  ASSUME RInv, PanelOK, [Next]_vars
  PROVE  PanelOK'
<1>1. TypeOK /\ Known /\ OneLiveRequest
  BY DEF RInv
<1>2. panel \in Panel /\ tiles \in Nat
  BY <1>1 DEF TypeOK
<1>3. Cardinality(Busy) \in Nat /\ IsFiniteSet(Busy)
  BY BusyFinite
<1>4. \A n \in 0..MaxTiles : n \in Nat
  BY ReadsAssumption
<1> DEFINE p == TilesChange(panel, tiles, tiles')
<1>5. ASSUME tiles' \in Nat
      PROVE  p \in Panel /\ PanelSays(p, Cardinality(Busy) + One(tiles'))
  BY <1>2, <1>3, <1>5, PanelType, TilesArithmetic DEF PanelOK
<1>6. ASSUME UNCHANGED response, tiles' \in Nat, panel' = p
      PROVE  PanelOK'
  BY <1>5, <1>6 DEF PanelOK, Busy
<1>7. ASSUME NEW v \in View, Move(v) PROVE PanelOK'
  <2>1. tiles' \in Nat
    BY <1>4, <1>7 DEF Move
  <2> DEFINE l == Shown[v]
  <2>2. l \in Layer
    BY ReadsAssumption
  <2>3. CASE ~InvalidBounds(l, v)
    BY <1>6, <1>7, <2>1, <2>3 DEF Move
  <2>4. CASE InvalidBounds(l, v)
    <3>1. Read(l, v, p)
      BY <1>7, <2>4 DEF Move
    <3>2. PICK r \in Request : /\ response' = [response EXCEPT ![l] = r]
                               /\ panel' = ReadStarts(p, response[l] # None)
      BY <3>1 DEF Read
    <3>3. Busy' = Busy \cup {l}
      BY <1>1, <2>2, <3>2, ReadsAssumption DEF Busy, TypeOK
    <3>4. One(tiles') \in Nat
      BY <2>1 DEF One
    <3>5. p \in Panel /\ PanelSays(p, Cardinality(Busy) + One(tiles'))
      BY <1>5, <2>1
    <3>6. CASE response[l] = None
      <4>1. Cardinality(Busy') = Cardinality(Busy) + 1
        BY <1>3, <3>3, <3>6, FS_AddElement DEF Busy
      <4>2. panel' = Increase(p)
        BY <3>2, <3>6 DEF ReadStarts
      <4>3. PanelSays(Increase(p), (Cardinality(Busy) + One(tiles')) + 1)
        BY <1>3, <3>4, <3>5, PanelArithmetic
      <4>4. Cardinality(Busy') + One(tiles')
              = (Cardinality(Busy) + One(tiles')) + 1
        BY <1>3, <3>4, <4>1
      <4>5. QED
        BY <4>2, <4>3, <4>4 DEF PanelOK
    <3>7. CASE response[l] # None
      <4>1. Busy' = Busy /\ l \in Busy
        BY <2>2, <3>3, <3>7 DEF Busy
      <4>2. Cardinality(Busy) > 0
        BY <1>3, <4>1, FS_EmptySet
      <4> DEFINE n == Cardinality(Busy) + One(tiles')
      <4>3. n \in Nat /\ n > 0 /\ n - 1 \in Nat /\ (n - 1) + 1 = n
        BY <1>3, <3>4, <4>2
      <4>4. panel' = Increase(Decrease(p))
        BY <3>2, <3>7 DEF ReadStarts
      <4>5. PanelSays(p, n) /\ Decrease(p) \in Panel
        BY <3>5, PanelType
      <4> HIDE DEF n
      <4>6. PanelSays(Decrease(p), n - 1)
        BY <3>5, <4>3, <4>5, PanelArithmetic
      <4>7. PanelSays(Increase(Decrease(p)), (n - 1) + 1)
        BY <4>3, <4>5, <4>6, PanelArithmetic
      <4>8. QED
        BY <4>1, <4>3, <4>4, <4>7 DEF n, PanelOK
    <3>8. QED
      BY <3>6, <3>7
  <2>5. QED
    BY <2>3, <2>4
<1>8. ASSUME NEW v \in View, Drag(v) PROVE PanelOK'
  <2>1. tiles' \in Nat
    BY <1>4, <1>8 DEF Drag
  <2>2. QED
    BY <1>6, <1>8, <2>1 DEF Drag
<1>9. ASSUME NEW r \in Request, Timer(r) \/ Ignored(r) PROVE PanelOK'
  BY <1>9 DEF Timer, Ignored, PanelOK, Busy
<1>10. ASSUME NEW r \in Request, Answered(r) PROVE PanelOK'
  <2> DEFINE l == request[r].layer
             n == Cardinality(Busy) + One(tiles)
  <2>1. l \in Layer /\ response[l] = r
    BY <1>1, <1>10 DEF Answered, Known, OneLiveRequest, Alive
  <2>2. Busy' = Busy \ {l} /\ l \in Busy
    BY <1>1, <1>10, <2>1, ReadsAssumption DEF Answered, Busy, TypeOK
  <2>3. Cardinality(Busy') = Cardinality(Busy) - 1 /\ Cardinality(Busy) > 0
    <3>1. Cardinality(Busy \ {l}) = Cardinality(Busy) - 1
      BY <1>3, <2>2, FS_RemoveElement
    <3>2. Cardinality(Busy) # 0
      BY <1>3, <2>2, FS_EmptySet
    <3>3. QED
      BY <1>3, <2>2, <3>1, <3>2
  <2>4. One(tiles) \in Nat /\ tiles' = tiles
    BY <1>2, <1>10 DEF One, Answered
  <2>5. PanelSays(Decrease(panel), n - 1)
    BY <1>2, <1>3, <2>3, <2>4, PanelArithmetic DEF PanelOK
  <2>6. n - 1 = Cardinality(Busy') + One(tiles')
    BY <1>3, <2>3, <2>4
  <2>7. panel' = Decrease(panel)
    BY <1>10 DEF Answered
  <2>8. QED
    BY <2>5, <2>6, <2>7 DEF PanelOK
<1>11. CASE TileLoaded
  <2>1. tiles' \in Nat
    BY <1>2, <1>11 DEF TileLoaded
  <2>2. QED
    BY <1>6, <1>11, <2>1 DEF TileLoaded
<1>12. CASE UNCHANGED vars
  BY <1>12 DEF vars, PanelOK, Busy
<1>13. QED
  BY <1>7, <1>8, <1>9, <1>10, <1>11, <1>12 DEF Next, Network

\* The loading panel counts the layers that are loading and shows itself
\* exactly when there are any: no abort, restart or failure makes it miss
\* one or leaves it on screen (LoadingPanel and the events it listens to).
THEOREM PanelIsRight == Spec => []PanelCountsBusyLayers
<1>1. Init => PanelOK
  <2>1. SUFFICES ASSUME Init PROVE PanelOK
    OBVIOUS
  <2>2. Busy = {} /\ Cardinality({}) = 0
    BY <2>1, FS_EmptySet DEF Init, Busy
  <2>3. QED
    BY <2>1, <2>2 DEF Init, PanelOK, PanelSays, One
<1>2. RInv /\ PanelOK /\ [Next]_vars => PanelOK'
  BY PanelStep
<1>3. PanelOK => PanelCountsBusyLayers
  <2>1. ASSUME PanelOK PROVE PanelCountsBusyLayers
    <3>1. /\ panel.counter = Cardinality(Busy) + (IF tiles > 0 THEN 1 ELSE 0)
          /\ panel.maximized <=> Cardinality(Busy) + One(tiles) > 0
      BY <2>1 DEF PanelOK, PanelSays, One
    <3>2. panel.counter = Cardinality(Busy) + One(tiles)
      BY <2>1 DEF PanelOK, PanelSays
    <3>3. QED
      BY <3>1, <3>2, Zenon DEF PanelCountsBusyLayers
  <2>2. QED
    BY <2>1
<1>4. QED
  BY <1>1, <1>2, <1>3, Requests, PTL DEF Spec

-----------------------------------------------------------------------------
(* What is on screen was asked for.                                        *)

\* When the user is not dragging, the view lies within the bounds the layer
\* in range asked for last (BBOX.update and invalidBounds).
THEOREM ScreenAsked == Spec => []ScreenIsAskedFor
<1>1. Init => ScreenIsAskedFor
  BY DEF Init, ScreenIsAskedFor
<1>2. RInv /\ ScreenIsAskedFor /\ [Next]_vars => ScreenIsAskedFor'
  <2> SUFFICES ASSUME RInv, ScreenIsAskedFor, [Next]_vars
               PROVE  ScreenIsAskedFor'
    OBVIOUS
  <2>1. ASSUME NEW v \in View, Move(v) PROVE ScreenIsAskedFor'
    <3> DEFINE l == Shown[v]
    <3>1. l \in Layer /\ v \in Covers[v] /\ v # None
      BY ReadsAssumption
    <3>2. CASE InvalidBounds(l, v)
      <4>1. bounds' = [bounds EXCEPT ![l] = v]
        BY <2>1, <3>2 DEF Move, Read
      <4>2. bounds'[l] = v
        BY <3>1, <4>1 DEF RInv, TypeOK
      <4>3. QED
        BY <2>1, <3>1, <4>2 DEF Move, ScreenIsAskedFor
    <3>3. CASE ~InvalidBounds(l, v)
      BY <2>1, <3>3 DEF Move, InvalidBounds, ScreenIsAskedFor
    <3>4. QED
      BY <3>2, <3>3
  <2>2. ASSUME NEW v \in View, Drag(v) PROVE ScreenIsAskedFor'
    BY <2>2 DEF Drag, ScreenIsAskedFor
  <2>3. CASE Network
    BY <2>3 DEF Network, Timer, Ignored, Answered, TileLoaded, ScreenIsAskedFor
  <2>4. CASE UNCHANGED vars
    BY <2>4 DEF vars, ScreenIsAskedFor
  <2>5. QED
    BY <2>1, <2>2, <2>3, <2>4 DEF Next
<1>3. QED
  BY <1>1, <1>2, Requests, PTL DEF Spec

-----------------------------------------------------------------------------
(* The layers implement LatestRead.                                        *)

LEMMA ReadsStep ==
  ASSUME RInv, [Next]_vars
  PROVE  [Reads!Next]_(Reads!vars)
<1>1. TypeOK /\ Known /\ OneLiveRequest
  BY DEF RInv
<1>2. UNCHANGED <<bounds, response, contents>> => UNCHANGED Reads!vars
  BY DEF Reads!vars, Waiting
<1>3. ASSUME NEW v \in View, Move(v) PROVE [Reads!Next]_(Reads!vars)
  <2> DEFINE l == Shown[v]
             p == TilesChange(panel, tiles, tiles')
  <2>1. l \in Layer
    BY ReadsAssumption
  <2>2. CASE ~InvalidBounds(l, v)
    BY <1>2, <1>3, <2>2 DEF Move
  <2>3. CASE InvalidBounds(l, v)
    <3>1. Read(l, v, p) /\ contents' = contents
      BY <1>3, <2>3 DEF Move
    <3>2. PICK r \in Request : /\ bounds' = [bounds EXCEPT ![l] = v]
                               /\ response' = [response EXCEPT ![l] = r]
      BY <3>1 DEF Read
    <3>3. Waiting' = [Waiting EXCEPT ![l] = TRUE]
      BY <1>1, <2>1, <3>2, ReadsAssumption DEF Waiting, TypeOK
    <3>4. Reads!Ask(l, v)
      BY <3>1, <3>2, <3>3 DEF Reads!Ask
    <3>5. QED
      BY <2>1, <3>4 DEF Reads!Next
  <2>4. QED
    BY <2>2, <2>3
<1>4. ASSUME NEW v \in View, Drag(v) PROVE [Reads!Next]_(Reads!vars)
  BY <1>2, <1>4 DEF Drag
<1>5. ASSUME NEW r \in Request, Timer(r) \/ Ignored(r)
      PROVE  [Reads!Next]_(Reads!vars)
  BY <1>2, <1>5 DEF Timer, Ignored
<1>6. ASSUME NEW r \in Request, Answered(r) PROVE [Reads!Next]_(Reads!vars)
  <2> DEFINE l == request[r].layer
  <2>1. l \in Layer /\ response[l] = r /\ request[r].view = bounds[l]
    BY <1>1, <1>6 DEF Answered, Known, OneLiveRequest, Alive
  <2>2. Waiting[l]
    BY <2>1, ReadsAssumption DEF Waiting
  <2>3. Waiting' = [Waiting EXCEPT ![l] = FALSE]
    BY <1>1, <1>6, <2>1 DEF Answered, Waiting, TypeOK
  <2>4. \E c \in {bounds[l], None} : contents' = [contents EXCEPT ![l] = c]
    BY <1>6, <2>1 DEF Answered
  <2>5. bounds' = bounds
    BY <1>6 DEF Answered
  <2>6. Reads!Answer(l)
    BY <2>2, <2>3, <2>4, <2>5 DEF Reads!Answer
  <2>7. QED
    BY <2>1, <2>6 DEF Reads!Next
<1>7. CASE TileLoaded
  BY <1>2, <1>7 DEF TileLoaded
<1>8. CASE UNCHANGED vars
  BY <1>2, <1>8 DEF vars
<1>9. QED
  BY <1>3, <1>4, <1>5, <1>6, <1>7, <1>8 DEF Next, Network

\* Whatever a layer shows is the answer to what it asked for last, or
\* nothing: no answer that was overtaken ever shows.
THEOREM LayersImplementLatestRead == Spec => ImplementsLatestRead
<1>1. Init => Reads!Init
  BY DEF Init, Reads!Init, Waiting
<1>2. RInv /\ [Next]_vars => [Reads!Next]_(Reads!vars)
  BY ReadsStep
<1>3. QED
  BY <1>1, <1>2, Requests, PTL DEF Spec, ImplementsLatestRead, Reads!Spec
=============================================================================
