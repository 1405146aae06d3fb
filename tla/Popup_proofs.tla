------------------------------ MODULE Popup_proofs ------------------------------
(***************************************************************************)
(* Proofs about module Popup, for every set of markers, themes and views.  *)
(*                                                                         *)
(* All methods of the popup are functions of its state, so the proof first *)
(* shows what each of them keeps (Sound: what holds of the popup wherever  *)
(* the map is) and what a move brings about (Near: where it may be drawn). *)
(* The inductive invariant is these two at the current view.               *)
(***************************************************************************)
EXTENDS Popup, FiniteSetTheorems, TLAPS

Spot == {Place[m] : m \in Marker}

PopupRecord ==
  [popupped : Ref \cup {None}, popover : Ref \cup {None}, active : SUBSET Ref,
   layer : Layer \cup {None}, at : Spot \cup {None}, page : PageRecord,
   itemLength : Nat, itemCurrent : Nat \ {0}]

ContentsOK(p) ==
  /\ p.popupped = None => p.page = Blank
  /\ p.popupped # None =>
       p.page.of = p.popupped.marker \/ p.popupped.marker \in Areas

ItemsOK(p) ==
  p.page.items > 0 => /\ p.page.item \in 1..p.page.items
                      /\ p.itemLength = p.page.items

\* What a reference that looks active but has no popup can be.
Copy(r) == r.marker \notin Singles \cup Areas /\ r.stage = "on"

ActiveOK(p) == \A r \in p.active : r # p.popupped => Copy(r)

HeldOK(p) ==
  /\ p.popupped # None => p.layer \in Layer
  /\ p.at # None => p.popupped # None /\ p.page # Blank

Sound(p) ==
  p \in PopupRecord /\ ContentsOK(p) /\ ItemsOK(p) /\ ActiveOK(p) /\ HeldOK(p)

Near(p, v) ==
  p.at # None => /\ p.popupped # None
                 /\ p.at = Place[p.popupped.marker]
                 /\ p.at \in InView[v]
                 /\ LayerOf(p.popupped.marker) = LayerAt(v)

OnOK(o) == o \in [Layer -> SUBSET Marker]

\* What a method that may ask for a jump returns.
ResultOK(r) == Sound(r.popup) /\ r.jump \in View \cup {None}

-----------------------------------------------------------------------------
(* Records and references.                                                 *)

LEMMA RefFacts ==
  /\ \A r \in Ref : r # None /\ r.marker \in Marker /\ r.stage \in Stage
  /\ \A m \in Marker : On(m) \in Ref /\ On(m).marker = m /\ On(m).stage = "on"
BY PopupAssumption DEF Ref, Stage, On

LEMMA LayerFacts ==
  /\ \A m \in Marker : LayerOf(m) \in Layer
  /\ \A v : LayerAt(v) \in Layer
BY DEF LayerOf, LayerAt, Layer

LEMMA BlankFacts == Blank \in PageRecord /\ Blank.items = 0 /\ Blank.of = None
BY DEF Blank, PageRecord

LEMMA VisibleFinite ==
  ASSUME NEW m \in Marker
  PROVE  Cardinality(Visible(m)) \in Nat
<1>1. IsFiniteSet(Members[m])
  BY PopupAssumption
<1>2. Visible(m) \subseteq Members[m]
  BY DEF Visible
<1>. QED  BY <1>1, <1>2, FS_Subset, FS_CardinalityType

-----------------------------------------------------------------------------
(* The methods that hide.                                                  *)

LEMMA HidePopoverSound ==
  ASSUME NEW p, Sound(p)
  PROVE  /\ Sound(HidePopover(p))
         /\ HidePopover(p).at = p.at /\ HidePopover(p).popupped = p.popupped
         /\ HidePopover(p).page = p.page /\ HidePopover(p).layer = p.layer
BY DEF Sound, PopupRecord, ContentsOK, ItemsOK, ActiveOK, HeldOK, HidePopover

LEMMA RemoveActiveStateSound ==
  ASSUME NEW p, Sound(p)
  PROVE  /\ Sound(RemoveActiveState(p))
         /\ \A r \in RemoveActiveState(p).active : Copy(r)
         /\ RemoveActiveState(p).at = p.at
         /\ RemoveActiveState(p).popupped = p.popupped
         /\ RemoveActiveState(p).page = p.page
BY DEF Sound, PopupRecord, ContentsOK, ItemsOK, ActiveOK, HeldOK, RemoveActiveState

LEMMA HideSoftSound ==
  ASSUME NEW p, Sound(p)
  PROVE  Sound(HideSoft(p)) /\ HideSoft(p).at = None
BY DEF Sound, PopupRecord, ContentsOK, ItemsOK, ActiveOK, HeldOK, HideSoft

LEMMA HidePopupSound ==
  ASSUME NEW p, Sound(p)
  PROVE  Sound(HidePopup(p)) /\ HidePopup(p).at = None
<1>. DEFINE q == RemoveActiveState(p)
<1>1. q \in PopupRecord /\ \A r \in q.active : Copy(r)
  BY RemoveActiveStateSound DEF Sound
<1>2. Blank \in PageRecord /\ Blank.items = 0
  BY BlankFacts
<1>. HIDE DEF q
<1>3. HidePopup(p) = [q EXCEPT !.popupped = None, !.at = None, !.page = Blank,
                               !.itemLength = 0, !.itemCurrent = 1]
  BY DEF HidePopup, q
<1>. DEFINE h == HidePopup(p)
<1>4. h = [popupped |-> None, popover |-> q.popover, active |-> q.active,
           layer |-> q.layer, at |-> None, page |-> Blank,
           itemLength |-> 0, itemCurrent |-> 1]
  BY <1>1, <1>3 DEF PopupRecord
<1>. HIDE DEF h
<1>5. h \in PopupRecord
  BY <1>1, <1>2, <1>4 DEF PopupRecord
<1>6. /\ h.popupped = None /\ h.at = None /\ h.page = Blank
      /\ h.active = q.active
  BY <1>4
<1>7. ContentsOK(h) /\ ItemsOK(h) /\ HeldOK(h)
  BY <1>2, <1>6 DEF ContentsOK, ItemsOK, HeldOK
<1>8. ActiveOK(h)
  BY <1>1, <1>6 DEF ActiveOK
<1>9. Sound(h)
  BY <1>5, <1>7, <1>8 DEF Sound
<1>. QED
  BY <1>6, <1>9 DEF h

-----------------------------------------------------------------------------
(* The methods that show.                                                  *)

LEMMA PositionedOK ==
  ASSUME NEW p, Sound(p), NEW v \in View, p.popupped # None
  PROVE  Sound(Positioned(p, v)) /\ Near(Positioned(p, v), v)
<1>. DEFINE m == p.popupped.marker
<1>1. m \in Marker
  BY RefFacts DEF Sound, PopupRecord
<1>2. CASE Place[m] \notin InView[v] \/ LayerOf(m) # LayerAt(v)
  <2>1. Positioned(p, v) = HideSoft(p)
    BY <1>2 DEF Positioned
  <2>2. Sound(HideSoft(p)) /\ HideSoft(p).at = None
    BY HideSoftSound
  <2>. QED  BY <2>1, <2>2 DEF Near
<1>3. CASE Place[m] \in InView[v] /\ LayerOf(m) = LayerAt(v) /\ p.page = Blank
  <2>1. Positioned(p, v) = p
    BY <1>3 DEF Positioned
  <2>2. p.at = None
    BY <1>3 DEF Sound, HeldOK
  <2>. QED  BY <2>1, <2>2 DEF Near
<1>4. CASE Place[m] \in InView[v] /\ LayerOf(m) = LayerAt(v) /\ p.page # Blank
  <2>1. Positioned(p, v) = [p EXCEPT !.at = Place[m]]
    BY <1>4 DEF Positioned
  <2>2. Place[m] \in Spot
    BY <1>1 DEF Spot
  <2>. HIDE DEF m
  <2>3. Sound([p EXCEPT !.at = Place[m]])
    BY <1>4, <2>2
    DEF Sound, PopupRecord, ContentsOK, ItemsOK, ActiveOK, HeldOK
  <2>4. Near([p EXCEPT !.at = Place[m]], v)
    BY <1>4 DEF Near, Sound, PopupRecord, m
  <2>. QED  BY <2>1, <2>3, <2>4
<1>. QED  BY <1>2, <1>3, <1>4

LEMMA AttachedFacts ==
  ASSUME NEW p, Sound(p), NEW m \in Marker
  PROVE  /\ Attached(p, m) \in PopupRecord
         /\ Attached(p, m).popupped = On(m)
         /\ Attached(p, m).layer \in Layer
         /\ Attached(p, m).at = p.at
         /\ Attached(p, m).page = p.page
         /\ Attached(p, m).itemLength = p.itemLength
         /\ ActiveOK(Attached(p, m))
<1>. DEFINE q == RemoveActiveState(p)
<1>1. /\ Sound(q) /\ \A r \in q.active : Copy(r)
      /\ q.at = p.at /\ q.page = p.page /\ q.itemLength = p.itemLength
  BY RemoveActiveStateSound DEF RemoveActiveState, Sound, PopupRecord
<1>. HIDE DEF q
<1>2. Attached(p, m) = [q EXCEPT !.popover = None, !.popupped = On(m),
                                 !.layer = LayerOf(m),
                                 !.active = @ \cup {On(m)}]
  BY <1>1 DEF Attached, HidePopover, q, Sound, PopupRecord
<1>3. On(m) \in Ref /\ LayerOf(m) \in Layer
  BY RefFacts, LayerFacts
<1>. DEFINE a == Attached(p, m)
<1>4. a = [popupped |-> On(m), popover |-> None,
           active |-> q.active \cup {On(m)}, layer |-> LayerOf(m),
           at |-> q.at, page |-> q.page, itemLength |-> q.itemLength,
           itemCurrent |-> q.itemCurrent]
  BY <1>1, <1>2 DEF Sound, PopupRecord
<1>. HIDE DEF a
<1>5. a \in PopupRecord
  BY <1>1, <1>3, <1>4 DEF Sound, PopupRecord
<1>6. /\ a.popupped = On(m) /\ a.layer = LayerOf(m)
      /\ a.at = p.at /\ a.page = p.page /\ a.itemLength = p.itemLength
      /\ a.active = q.active \cup {On(m)}
  BY <1>1, <1>4
<1>7. ActiveOK(a)
  BY <1>1, <1>6 DEF ActiveOK
<1>. QED
  BY <1>3, <1>6, <1>7, <1>5 DEF a

LEMMA PageFacts ==
  ASSUME NEW m \in Marker, NEW n \in Nat
  PROVE  /\ [of |-> m, items |-> 0, item |-> 0] \in PageRecord
         /\ [of |-> m, items |-> n, item |-> 1] \in PageRecord
BY DEF PageRecord

\* The contents of a single announcement, or of a cluster counting one.
LEMMA WrittenAlone ==
  ASSUME NEW p, NEW m \in Marker, p \in PopupRecord, p.popupped = On(m),
         p.layer \in Layer, ActiveOK(p)
  PROVE  Sound([p EXCEPT !.page = [of |-> m, items |-> 0, item |-> 0]])
<1>. DEFINE page == [of |-> m, items |-> 0, item |-> 0]
            w    == [p EXCEPT !.page = page]
<1>1. page \in PageRecord /\ page.of = m /\ page.items = 0 /\ page # Blank
  BY PageFacts, PopupAssumption DEF Blank
<1>. HIDE DEF page
<1>2. /\ w \in PopupRecord /\ w.popupped = On(m) /\ w.page = page
      /\ w.layer = p.layer /\ w.active = p.active
  BY <1>1 DEF PopupRecord
<1>3. On(m) # None /\ On(m).marker = m
  BY RefFacts
<1>. HIDE DEF w
<1>4. ContentsOK(w) /\ ItemsOK(w) /\ HeldOK(w) /\ ActiveOK(w)
  BY <1>1, <1>2, <1>3 DEF ContentsOK, ItemsOK, HeldOK, ActiveOK
<1>5. Sound(w)
  BY <1>2, <1>4 DEF Sound
<1>. QED  BY <1>5 DEF w, page

\* The contents of a cluster: a popup that pages.
LEMMA WrittenMany ==
  ASSUME NEW p, NEW m \in Marker, NEW n \in Nat, p \in PopupRecord,
         p.popupped = On(m), p.layer \in Layer, ActiveOK(p)
  PROVE  Sound([p EXCEPT !.page = [of |-> m, items |-> n, item |-> 1],
                         !.itemLength = n])
<1>. DEFINE page == [of |-> m, items |-> n, item |-> 1]
            w    == [p EXCEPT !.page = page, !.itemLength = n]
<1>1. /\ page \in PageRecord /\ page.of = m /\ page.items = n
      /\ page.item = 1 /\ page # Blank
  BY PageFacts, PopupAssumption DEF Blank
<1>. HIDE DEF page
<1>2. /\ w \in PopupRecord /\ w.popupped = On(m) /\ w.page = page
      /\ w.itemLength = n /\ w.layer = p.layer /\ w.active = p.active
  BY <1>1 DEF PopupRecord
<1>3. On(m) # None /\ On(m).marker = m
  BY RefFacts
<1>. HIDE DEF w
<1>4. ContentsOK(w) /\ ItemsOK(w) /\ HeldOK(w) /\ ActiveOK(w)
  BY <1>1, <1>2, <1>3 DEF ContentsOK, ItemsOK, HeldOK, ActiveOK
<1>5. Sound(w)
  BY <1>2, <1>4 DEF Sound
<1>. QED  BY <1>5 DEF w, page

LEMMA OpenedOK ==
  ASSUME NEW p, Sound(p), NEW m \in Marker, NEW v \in View
  PROVE  Sound(Opened(p, m, v)) /\ Near(Opened(p, m, v), v)
<1>. DEFINE a == Attached(p, m)
            w == Written(a, m)
<1>1. /\ a \in PopupRecord /\ a.popupped = On(m) /\ a.layer \in Layer
      /\ ActiveOK(a)
  BY AttachedFacts
<1>2. Cardinality(Visible(m)) \in Nat
  BY VisibleFinite
<1>. HIDE DEF a
<1>3. Sound(w)
  BY <1>1, <1>2, WrittenAlone, WrittenMany DEF Written
<1>4. w.popupped = On(m) /\ On(m) # None
  BY <1>1, RefFacts DEF Written, PopupRecord
<1>. HIDE DEF w
<1>5. Sound(Positioned(w, v)) /\ Near(Positioned(w, v), v)
  BY <1>3, <1>4, PositionedOK
<1>. QED  BY <1>5 DEF Opened, w, a

\* The contents of an area are what the popup told before.
LEMMA AttachedToArea ==
  ASSUME NEW p, Sound(p), NEW m \in Areas
  PROVE  Sound(Attached(p, m)) /\ Attached(p, m).at = p.at
<1>. DEFINE a == Attached(p, m)
<1>1. m \in Marker
  BY DEF Areas
<1>2. /\ a \in PopupRecord /\ a.popupped = On(m) /\ a.layer \in Layer
      /\ a.at = p.at /\ a.page = p.page /\ a.itemLength = p.itemLength
      /\ ActiveOK(a)
  BY <1>1, AttachedFacts
<1>3. On(m) # None /\ On(m).marker = m
  BY <1>1, RefFacts
<1>. HIDE DEF a
<1>4. ContentsOK(a) /\ ItemsOK(a) /\ HeldOK(a)
  BY <1>2, <1>3 DEF Sound, ContentsOK, ItemsOK, HeldOK
<1>5. Sound(a)
  BY <1>2, <1>4 DEF Sound
<1>. QED  BY <1>2, <1>5 DEF a

\* openPopupFor: what is not settled by a jump is near its marker.
LEMMA OpenPopupOK ==
  ASSUME NEW p, Sound(p), NEW m \in Marker, NEW v \in View
  PROVE  /\ ResultOK(OpenPopup(p, m, v))
         /\ OpenPopup(p, m, v).jump = None \/ p.at = None
              => Near(OpenPopup(p, m, v).popup, v)
<1>. DEFINE r == OpenPopup(p, m, v)
<1>1. CASE m \in Areas
  <2>1. r.popup = Attached(p, m) /\ r.jump = ClusterView[m]
    BY <1>1 DEF OpenPopup
  <2>2. r.jump \in View /\ r.jump # None
    BY <1>1, <2>1, PopupAssumption
  <2>3. Sound(Attached(p, m)) /\ Attached(p, m).at = p.at
    BY <1>1, AttachedToArea
  <2>. HIDE DEF r
  <2>4. ResultOK(r) /\ (r.jump = None \/ p.at = None => Near(r.popup, v))
    BY <2>1, <2>2, <2>3 DEF ResultOK, Near
  <2>. QED  BY <2>4 DEF r
<1>2. CASE m \notin Areas
  <2>1. r.popup = Opened(p, m, v) /\ r.jump = None
    BY <1>2 DEF OpenPopup
  <2>. HIDE DEF r
  <2>2. ResultOK(r) /\ Near(r.popup, v)
    BY <2>1, OpenedOK DEF ResultOK
  <2>. QED  BY <2>2 DEF r
<1>. QED  BY <1>1, <1>2

-----------------------------------------------------------------------------
(* Moving and paging.                                                      *)

LEMMA PopupMoveOK ==
  ASSUME NEW p, Sound(p), NEW o, OnOK(o), NEW v \in View,
         NEW r \in PopupMove(p, o, v)
  PROVE  ResultOK(r) /\ Near(r.popup, v)
<1>. DEFINE q     == HidePopover(p)
            found == {m \in o[q.layer] : Place[m] = Place[q.popupped.marker]}
<1>1. Sound(q)
  BY HidePopoverSound
<1>. HIDE DEF q
<1>2. CASE q.popupped = None
  <2>1. r = [popup |-> q, jump |-> None]
    BY <1>2 DEF PopupMove, q
  <2>2. q.at = None
    BY <1>1, <1>2 DEF Sound, HeldOK
  <2>. QED  BY <1>1, <2>1, <2>2 DEF ResultOK, Near
<1>3. CASE q.popupped # None /\ q.popupped.stage = "on"
  <2>1. r = [popup |-> Positioned(q, v), jump |-> None]
    BY <1>3 DEF PopupMove, q
  <2>. QED  BY <1>1, <1>3, <2>1, PositionedOK DEF ResultOK
<1>4. CASE q.popupped # None /\ q.popupped.stage # "on" /\ found = {}
  <2>1. r = [popup |-> HidePopup(q), jump |-> None]
    BY <1>4 DEF PopupMove, q
  <2>2. Sound(HidePopup(q)) /\ HidePopup(q).at = None
    BY <1>1, HidePopupSound
  <2>. QED  BY <2>1, <2>2 DEF ResultOK, Near
<1>5. CASE q.popupped # None /\ q.popupped.stage # "on" /\ found # {}
  <2>1. r \in {OpenPopup(HidePopup(q), m, v) : m \in found}
    BY <1>5 DEF PopupMove, q
  <2>2. PICK m \in found : r = OpenPopup(HidePopup(q), m, v)
    BY <2>1
  <2>3. m \in Marker
    <3>1. q.layer \in Layer
      BY <1>1, <1>5 DEF Sound, HeldOK
    <3>. QED  BY <3>1 DEF OnOK
  <2>4. Sound(HidePopup(q)) /\ HidePopup(q).at = None
    BY <1>1, HidePopupSound
  <2>5. ResultOK(OpenPopup(HidePopup(q), m, v))
        /\ Near(OpenPopup(HidePopup(q), m, v).popup, v)
    BY <2>3, <2>4, OpenPopupOK
  <2>. QED  BY <2>2, <2>5
<1>. QED  BY <1>2, <1>3, <1>4, <1>5

LEMMA GoSound ==
  ASSUME NEW p, Sound(p), p.page.items > 0, NEW next \in BOOLEAN
  PROVE  Sound(Go(p, next))
<1>. DEFINE to == p.itemCurrent + (IF next THEN 1 ELSE -1)
<1>1. /\ p \in PopupRecord /\ p.page \in PageRecord
      /\ p.itemCurrent \in Nat /\ p.itemLength = p.page.items
      /\ p.page.items \in Nat
  BY DEF Sound, PopupRecord, PageRecord, ItemsOK
<1>2. CASE 0 < to /\ to <= p.itemLength
  <2>. DEFINE page == [p.page EXCEPT !.item = to]
              g    == [p EXCEPT !.itemCurrent = to, !.page = page]
  <2>1. to \in Nat \ {0} /\ to \in 1..p.page.items
    BY <1>1, <1>2
  <2>. HIDE DEF to
  <2>2. /\ page \in PageRecord /\ page.of = p.page.of
        /\ page.items = p.page.items /\ page.item = to
    BY <1>1, <2>1 DEF PageRecord
  <2>3. Go(p, next) = g
    BY <1>2, <1>1 DEF Go, to, PopupRecord
  <2>. HIDE DEF page
  <2>4. /\ g \in PopupRecord /\ g.popupped = p.popupped /\ g.page = page
        /\ g.itemLength = p.itemLength /\ g.layer = p.layer
        /\ g.at = p.at /\ g.active = p.active
    BY <1>1, <2>1, <2>2 DEF PopupRecord
  <2>. HIDE DEF g
  <2>5. p.page # Blank /\ page # Blank
    BY <1>1, <2>2, BlankFacts
  <2>6. ContentsOK(g)
    BY <2>2, <2>4, <2>5 DEF Sound, ContentsOK
  <2>7. ItemsOK(g) /\ HeldOK(g) /\ ActiveOK(g)
    BY <1>1, <2>1, <2>2, <2>4, <2>5 DEF Sound, ItemsOK, HeldOK, ActiveOK
  <2>. QED  BY <2>3, <2>4, <2>6, <2>7 DEF Sound
<1>3. CASE ~(0 < to /\ to <= p.itemLength)
  <2>1. Go(p, next) = p
    BY <1>3 DEF Go
  <2>. QED  BY <2>1
<1>. QED  BY <1>2, <1>3

-----------------------------------------------------------------------------
(* What becomes of references.                                             *)

\* A function on references that knows the marker again, and leaves no
\* reference to a cluster behind that is off its layer.
Ages(a) ==
  /\ a \in [Ref -> Ref]
  /\ \A r \in Ref : a[r].marker = r.marker
  /\ \A r \in Ref : Copy(r) => a[r] = r \/ a[r].stage = "gone"

AgedBy(p, a, q) ==
  q = [p EXCEPT !.popupped = IF @ = None THEN None ELSE a[@],
                !.popover  = IF @ = None THEN None ELSE a[@],
                !.active   = {a[r] : r \in {r \in @ :
                                r = p.popupped \/ a[r].stage # "gone"}}]

LEMMA AgedSound ==
  ASSUME NEW p, Sound(p), NEW a, Ages(a), NEW q, AgedBy(p, a, q)
  PROVE  /\ Sound(q) /\ q.at = p.at
         /\ \A v \in View : Near(p, v) => Near(q, v)
<1>. DEFINE old == IF p.popupped = None THEN None ELSE a[p.popupped]
            ovr == IF p.popover = None THEN None ELSE a[p.popover]
            act == {a[r] : r \in {r \in p.active :
                                    r = p.popupped \/ a[r].stage # "gone"}}
<1>1. /\ p \in PopupRecord /\ p.active \subseteq Ref
      /\ p.popupped \in Ref \cup {None} /\ p.popover \in Ref \cup {None}
  BY DEF Sound, PopupRecord
<1>2. /\ old \in Ref \cup {None} /\ ovr \in Ref \cup {None}
      /\ act \in SUBSET Ref
  BY <1>1 DEF Ages
<1>3. /\ p.popupped = None <=> old = None
      /\ p.popupped # None => old.marker = p.popupped.marker
  BY <1>1, RefFacts DEF Ages
<1>4. \A s \in act : s # old => Copy(s)
  <2>1. SUFFICES ASSUME NEW r \in p.active, a[r] # old,
                        r = p.popupped \/ a[r].stage # "gone"
                 PROVE  Copy(a[r])
    OBVIOUS
  <2>2. r # p.popupped
    BY <1>1, <2>1, RefFacts
  <2>3. Copy(r)
    BY <2>1, <2>2 DEF Sound, ActiveOK
  <2>4. a[r] = r
    BY <1>1, <2>1, <2>2, <2>3 DEF Ages
  <2>. QED  BY <2>3, <2>4
<1>. HIDE DEF old, ovr, act
<1>5. q = [p EXCEPT !.popupped = old, !.popover = ovr, !.active = act]
  BY <1>1 DEF AgedBy, old, ovr, act, PopupRecord
<1>6. /\ q \in PopupRecord /\ q.popupped = old /\ q.active = act
      /\ q.at = p.at /\ q.page = p.page /\ q.layer = p.layer
      /\ q.itemLength = p.itemLength
  BY <1>1, <1>2, <1>5 DEF PopupRecord
<1>7. ContentsOK(q) /\ ItemsOK(q) /\ HeldOK(q)
  BY <1>3, <1>6 DEF Sound, ContentsOK, ItemsOK, HeldOK
<1>8. ActiveOK(q)
  BY <1>4, <1>6 DEF ActiveOK
<1>9. \A v \in View : Near(p, v) => Near(q, v)
  BY <1>3, <1>6 DEF Near
<1>. QED  BY <1>6, <1>7, <1>8, <1>9 DEF Sound

LEMMA RefStages ==
  ASSUME NEW r \in Ref, NEW s \in Stage
  PROVE  /\ [r EXCEPT !.stage = s] \in Ref
         /\ [r EXCEPT !.stage = s].marker = r.marker
         /\ [r EXCEPT !.stage = s].stage = s
BY DEF Ref

LEMMA CopyIsCluster ==
  ASSUME NEW r \in Ref, Copy(r)
  PROVE  /\ r.marker \notin Areas /\ r.marker \notin Singles /\ r.stage = "on"
         /\ LayerOf(r.marker) = "news"
BY DEF Copy, LayerOf

LEMMA AfterMergeOK ==
  ASSUME NEW p, Sound(p), NEW l \in Layer
  PROVE  /\ Sound(AfterMerge(p, l))
         /\ \A v \in View : Near(p, v) => Near(AfterMerge(p, l), v)
<1>. DEFINE Age(r) == IF LayerOf(r.marker) = l
                         THEN [r EXCEPT !.stage = "gone"] ELSE r
            a      == [r \in Ref |-> Age(r)]
<1>1. Ages(a)
  <2>1. \A r \in Ref : a[r] \in Ref /\ a[r].marker = r.marker
    BY RefStages DEF Stage
  <2>2. \A r \in Ref : Copy(r) => a[r] = r \/ a[r].stage = "gone"
    BY RefStages, CopyIsCluster DEF Stage
  <2>. QED  BY <2>1, <2>2 DEF Ages
<1>2. AgedBy(p, a, AfterMerge(p, l))
  <2>1. /\ p \in PopupRecord /\ p.active \subseteq Ref
        /\ p.popupped \in Ref \cup {None} /\ p.popover \in Ref \cup {None}
    BY DEF Sound, PopupRecord
  <2>2. AfterMerge(p, l) =
          [p EXCEPT !.popupped = IF @ = None THEN None ELSE Age(@),
                    !.popover  = IF @ = None THEN None ELSE Age(@),
                    !.active   = {Age(r) : r \in {r \in @ :
                            r = p.popupped \/ Age(r).stage # "gone"}}]
    BY DEF AfterMerge, Aged
  <2>3. \A r \in Ref : a[r] = Age(r)
    OBVIOUS
  <2>. HIDE DEF Age, a
  <2>4. {Age(r) : r \in {r \in p.active : r = p.popupped \/ Age(r).stage # "gone"}}
          = {a[r] : r \in {r \in p.active : r = p.popupped \/ a[r].stage # "gone"}}
    BY <2>1, <2>3
  <2>5. /\ p.popupped # None => a[p.popupped] = Age(p.popupped)
        /\ p.popover # None => a[p.popover] = Age(p.popover)
    BY <2>1, <2>3
  <2>. QED  BY <2>1, <2>2, <2>4, <2>5 DEF AgedBy, PopupRecord
<1>. HIDE DEF Age, a
<1>. QED  BY <1>1, <1>2, AgedSound

LEMMA AfterNothingOK ==
  ASSUME NEW p, Sound(p), NEW l \in Layer
  PROVE  /\ Sound(AfterNothing(p, l))
         /\ \A v \in View : Near(p, v) => Near(AfterNothing(p, l), v)
<1>. DEFINE Age(r) == 
    CASE LayerOf(r.marker) # l -> r
      [] LayerOf(r.marker) = l /\ r.marker \in Singles /\ r.stage = "on" ->
           [r EXCEPT !.stage = "cached"]
      [] OTHER -> [r EXCEPT !.stage = IF r.stage = "cached" THEN "cached"
                                                             ELSE "gone"]
            a      == [r \in Ref |-> Age(r)]
<1>1. Ages(a)
  <2>1. \A r \in Ref : a[r] \in Ref /\ a[r].marker = r.marker
    BY RefStages DEF Stage
  <2>2. \A r \in Ref : Copy(r) => a[r] = r \/ a[r].stage = "gone"
    BY RefStages, CopyIsCluster DEF Stage
  <2>. QED  BY <2>1, <2>2 DEF Ages
<1>2. AgedBy(p, a, AfterNothing(p, l))
  <2>1. /\ p \in PopupRecord /\ p.active \subseteq Ref
        /\ p.popupped \in Ref \cup {None} /\ p.popover \in Ref \cup {None}
    BY DEF Sound, PopupRecord
  <2>2. AfterNothing(p, l) =
          [p EXCEPT !.popupped = IF @ = None THEN None ELSE Age(@),
                    !.popover  = IF @ = None THEN None ELSE Age(@),
                    !.active   = {Age(r) : r \in {r \in @ :
                            r = p.popupped \/ Age(r).stage # "gone"}}]
    BY DEF AfterNothing, Aged
  <2>3. \A r \in Ref : a[r] = Age(r)
    OBVIOUS
  <2>. HIDE DEF Age, a
  <2>4. {Age(r) : r \in {r \in p.active : r = p.popupped \/ Age(r).stage # "gone"}}
          = {a[r] : r \in {r \in p.active : r = p.popupped \/ a[r].stage # "gone"}}
    BY <2>1, <2>3
  <2>5. /\ p.popupped # None => a[p.popupped] = Age(p.popupped)
        /\ p.popover # None => a[p.popover] = Age(p.popover)
    BY <2>1, <2>3
  <2>. QED  BY <2>1, <2>2, <2>4, <2>5 DEF AgedBy, PopupRecord
<1>. HIDE DEF Age, a
<1>. QED  BY <1>1, <1>2, AgedSound

LEMMA CopiesSound ==
  ASSUME NEW p, Sound(p), NEW C \in SUBSET (Marker \ (Singles \cup Areas))
  PROVE  /\ Sound([p EXCEPT !.active = @ \cup {On(m) : m \in C}])
         /\ \A v \in View :
              Near(p, v) => Near([p EXCEPT !.active = @ \cup {On(m) : m \in C}], v)
<1>. DEFINE q == [p EXCEPT !.active = @ \cup {On(m) : m \in C}]
<1>1. {On(m) : m \in C} \subseteq Ref /\ \A r \in {On(m) : m \in C} : Copy(r)
  BY RefFacts DEF Copy
<1>2. /\ q \in PopupRecord /\ q.active = p.active \cup {On(m) : m \in C}
      /\ q.popupped = p.popupped /\ q.at = p.at /\ q.page = p.page
      /\ q.layer = p.layer /\ q.itemLength = p.itemLength
  BY <1>1 DEF Sound, PopupRecord
<1>. HIDE DEF q
<1>3. ContentsOK(q) /\ ItemsOK(q) /\ HeldOK(q)
  BY <1>2 DEF Sound, ContentsOK, ItemsOK, HeldOK
<1>4. ActiveOK(q)
  BY <1>1, <1>2 DEF Sound, ActiveOK
<1>5. Sound(q)
  BY <1>2, <1>3, <1>4 DEF Sound
<1>6. \A v \in View : Near(p, v) => Near(q, v)
  BY <1>2 DEF Near
<1>. QED  BY <1>5, <1>6 DEF q

LEMMA AreaIsNoSingle == \A m \in Areas : m \notin Singles
<1>1. Cardinality({}) = 0
  BY FS_EmptySet
<1>. QED  BY <1>1 DEF Areas, Singles

LEMMA AfterClusteringOK ==
  ASSUME NEW p, Sound(p), NEW S \in Arrangements
  PROVE  /\ Sound(AfterClustering(p, S))
         /\ \A v \in View : Near(p, v) => Near(AfterClustering(p, S), v)
<1>. DEFINE Age(r) == 
             CASE r.marker \in Areas \/ r.stage = "gone" -> r
               [] r.marker \in Singles /\ r.stage # "gone" ->
                    [r EXCEPT !.stage = IF r.marker \in S THEN "on" ELSE "cached"]
               [] OTHER -> [r EXCEPT !.stage = "gone"]
            a      == [r \in Ref |-> Age(r)]
            q == [p EXCEPT !.popupped = IF @ = None THEN None ELSE Age(@),
                           !.popover  = IF @ = None THEN None ELSE Age(@),
                           !.active   = {Age(r) : r \in {r \in @ :
                                 r = p.popupped \/ Age(r).stage # "gone"}}]
<1>1. Ages(a)
  <2>1. \A r \in Ref : a[r] \in Ref /\ a[r].marker = r.marker
    BY RefStages, AreaIsNoSingle DEF Stage
  <2>2. \A r \in Ref : Copy(r) => a[r] = r \/ a[r].stage = "gone"
    BY RefStages, CopyIsCluster DEF Stage
  <2>. QED  BY <2>1, <2>2 DEF Ages
<1>2. AgedBy(p, a, q)
  <2>1. /\ p \in PopupRecord /\ p.active \subseteq Ref
        /\ p.popupped \in Ref \cup {None} /\ p.popover \in Ref \cup {None}
    BY DEF Sound, PopupRecord
  <2>2. q = [p EXCEPT !.popupped = IF @ = None THEN None ELSE Age(@),
                      !.popover  = IF @ = None THEN None ELSE Age(@),
                      !.active   = {Age(r) : r \in {r \in @ :
                              r = p.popupped \/ Age(r).stage # "gone"}}]
    OBVIOUS
  <2>3. \A r \in Ref : a[r] = Age(r)
    OBVIOUS
  <2>. HIDE DEF Age, a, q
  <2>4. {Age(r) : r \in {r \in p.active : r = p.popupped \/ Age(r).stage # "gone"}}
          = {a[r] : r \in {r \in p.active : r = p.popupped \/ a[r].stage # "gone"}}
    BY <2>1, <2>3
  <2>5. /\ p.popupped # None => a[p.popupped] = Age(p.popupped)
        /\ p.popover # None => a[p.popover] = Age(p.popover)
    BY <2>1, <2>3
  <2>. QED  BY <2>1, <2>2, <2>4, <2>5 DEF AgedBy, PopupRecord
<1>3. AfterClustering(p, S) = [q EXCEPT !.active = @ \cup {On(m) : m \in Copies(p, S)}]
  BY DEF AfterClustering, Aged
<1>. HIDE DEF Age, a, q
<1>4. Sound(q) /\ \A v \in View : Near(p, v) => Near(q, v)
  BY <1>1, <1>2, AgedSound
<1>5. Copies(p, S) \in SUBSET (Marker \ (Singles \cup Areas))
  BY PopupAssumption DEF Copies
<1>. QED  BY <1>3, <1>4, <1>5, CopiesSound

-----------------------------------------------------------------------------
(* Map.moveTo, the layers and the popup.                                   *)

LEMMA LayersOK ==
  ASSUME OnOK(on), NEW o, OnOK(o), NEW p, Sound(p), NEW z, NEW v \in View,
         NEW s \in Layers(o, p, z, v)
  PROVE  OnOK(s.on) /\ Sound(s.popup)
<1>1. CASE s = [on |-> o, popup |-> p]
  BY <1>1
<1>2. ASSUME NEW S \in Arrangements,
             s = [on |-> [o EXCEPT !["news"] = S], popup |-> AfterClustering(p, S)]
      PROVE  OnOK(s.on) /\ Sound(s.popup)
  <2>1. S \in SUBSET Marker
    BY PopupAssumption
  <2>2. OnOK([o EXCEPT !["news"] = S])
    BY <2>1 DEF OnOK
  <2>3. Sound(AfterClustering(p, S))
    BY AfterClusteringOK
  <2>. QED  BY <1>2, <2>2, <2>3
<1>. QED  BY <1>1, <1>2 DEF Layers

\* The inductive invariant.
IInv ==
  /\ legend \in [Theme -> BOOLEAN]
  /\ view \in View
  /\ OnOK(on)
  /\ cached \in BOOLEAN /\ closing \in BOOLEAN
  /\ asked \in [Layer -> BOOLEAN]
  /\ Sound(popup)
  /\ Near(popup, view)

LEMMA ReadsType ==
  ASSUME NEW ls \in SUBSET Layer, asked \in [Layer -> BOOLEAN], Reads(ls)
  PROVE  asked' \in [Layer -> BOOLEAN]
<1>1. PICK R \in SUBSET ls : asked' = [l \in Layer |-> asked[l] \/ l \in R]
  BY DEF Reads
<1>. QED  BY <1>1

\* Whatever a method leaves to do, at the end the popup is near its marker.
LEMMA SettleOK ==
  ASSUME IInv, NEW q, ResultOK(q), NEW o, OnOK(o), NEW v \in View,
         q.jump = None => Near(q.popup, v),
         NEW ls \in SUBSET Layer, Settle(q, o, v, ls)
  PROVE  /\ view' \in View /\ OnOK(on') /\ asked' \in [Layer -> BOOLEAN]
         /\ Sound(popup') /\ Near(popup', view')
<1>0. asked \in [Layer -> BOOLEAN] /\ OnOK(on)
  BY DEF IInv
<1>1. CASE q.jump = None
  <2>1. Reads(ls) /\ view' = v /\ on' = o /\ popup' = q.popup
    BY <1>1 DEF Settle
  <2>2. asked' \in [Layer -> BOOLEAN]
    BY <1>0, <2>1, ReadsType
  <2>. QED  BY <1>1, <2>1, <2>2 DEF ResultOK
<1>2. CASE q.jump # None
  <2>1. q.jump \in View
    BY <1>2 DEF ResultOK
  <2>2. PICK s \in Layers(o, q.popup, Zoom[v], q.jump) :
             \E r \in PopupMove(s.popup, s.on, q.jump) :
               /\ Reads(ls \cup {LayerAt(q.jump)})
               /\ view' = q.jump /\ on' = s.on /\ popup' = r.popup
    BY <1>2 DEF Settle
  <2>3. OnOK(s.on) /\ Sound(s.popup)
    BY <1>0, <2>1, LayersOK DEF ResultOK
  <2>4. PICK r \in PopupMove(s.popup, s.on, q.jump) :
               /\ Reads(ls \cup {LayerAt(q.jump)})
               /\ view' = q.jump /\ on' = s.on /\ popup' = r.popup
    BY <2>2
  <2>5. ResultOK(r) /\ Near(r.popup, q.jump)
    BY <2>1, <2>3, <2>4, PopupMoveOK
  <2>6. ls \cup {LayerAt(q.jump)} \in SUBSET Layer
    BY LayerFacts
  <2>7. asked' \in [Layer -> BOOLEAN]
    BY <1>0, <2>4, <2>6, ReadsType
  <2>. QED  BY <2>1, <2>3, <2>4, <2>5, <2>7 DEF ResultOK
<1>. QED  BY <1>1, <1>2

LEMMA MoveToOK ==
  ASSUME IInv, NEW v \in View, MoveTo(v)
  PROVE  IInv'
<1>1. PICK s \in Layers(on, popup, Zoom[view], v) :
        \E q \in PopupMove(s.popup, s.on, v) : Settle(q, s.on, v, {LayerAt(v)})
  BY DEF MoveTo
<1>2. OnOK(on) /\ Sound(popup)
  BY DEF IInv
<1>3. OnOK(s.on) /\ Sound(s.popup)
  BY <1>2, LayersOK
<1>4. PICK q \in PopupMove(s.popup, s.on, v) : Settle(q, s.on, v, {LayerAt(v)})
  BY <1>1
<1>5. ResultOK(q) /\ Near(q.popup, v)
  BY <1>3, PopupMoveOK
<1>6. {LayerAt(v)} \in SUBSET Layer
  BY LayerFacts
<1>7. /\ view' \in View /\ OnOK(on') /\ asked' \in [Layer -> BOOLEAN]
      /\ Sound(popup') /\ Near(popup', view')
  BY <1>3, <1>4, <1>5, <1>6, SettleOK
<1>8. UNCHANGED <<legend, cached, closing>>
  BY DEF MoveTo
<1>. QED  BY <1>7, <1>8 DEF IInv, OnOK, Sound, Near, LayerAt, LayerOf, ResultOK,
          ContentsOK, ItemsOK, ActiveOK, HeldOK

\* A method of the popup that leaves the map and the layers alone.
LEMMA PopupStep ==
  ASSUME IInv, Sound(popup'), Near(popup', view),
         UNCHANGED <<legend, view, on, cached, asked>>, closing' \in BOOLEAN
  PROVE  IInv'
BY DEF IInv, OnOK, Near

LEMMA InitOK == Init => IInv
<1>. SUFFICES ASSUME Init  PROVE IInv
  OBVIOUS
<1>1. Blank \in PageRecord /\ Blank.items = 0
  BY BlankFacts
<1>2. /\ popup \in PopupRecord /\ popup.popupped = None /\ popup.page = Blank
      /\ popup.active = {} /\ popup.at = None
  BY <1>1 DEF Init, PopupRecord
<1>3. Sound(popup)
  BY <1>1, <1>2 DEF Sound, ContentsOK, ItemsOK, ActiveOK, HeldOK
<1>. QED  BY <1>2, <1>3 DEF Init, IInv, Near, OnOK

LEMMA NextOK == IInv /\ [Next]_vars => IInv'
<1>. SUFFICES ASSUME IInv, [Next]_vars  PROVE IInv'
  OBVIOUS
<1>. USE DEF IInv
<1>0. Sound(popup) /\ Near(popup, view) /\ view \in View /\ OnOK(on)
  OBVIOUS
<1>1. CASE UNCHANGED vars
  BY <1>1, <1>0, PopupStep DEF vars
<1>2. ASSUME NEW v \in View, Pan(v) \/ ZoomTo(v)  PROVE IInv'
  BY <1>2, MoveToOK DEF Pan, ZoomTo
<1>3. ASSUME NEW c \in Theme, Toggle(c)  PROVE IInv'
  <2>1. Sound(popup') /\ popup'.at = None
    BY <1>0, <1>3, HidePopupSound DEF Toggle
  <2>2. Near(popup', view)
    BY <2>1 DEF Near
  <2>3. UNCHANGED <<view, on, cached, asked, closing>>
    BY <1>3 DEF Toggle
  <2>4. legend' \in [Theme -> BOOLEAN]
    BY <1>3 DEF Toggle
  <2>5. Near(popup', view') /\ OnOK(on')
    BY <1>0, <2>2, <2>3
  <2>. QED  BY <2>1, <2>3, <2>4, <2>5, <1>0
<1>4. ASSUME NEW l \in Layer, Merge(l)  PROVE IInv'
  <2>1. Sound(popup') /\ Near(popup', view)
    BY <1>0, <1>4, AfterMergeOK DEF Merge
  <2>2. OnOK(on')
    BY <1>0, <1>4, PopupAssumption DEF Merge, OnOK, Areas
  <2>3. cached' \in BOOLEAN
    BY <1>4 DEF Merge
  <2>4. asked' \in [Layer -> BOOLEAN]
    BY <1>4 DEF Merge
  <2>5. UNCHANGED <<legend, view, closing>>
    BY <1>4 DEF Merge
  <2>. QED  BY <2>1, <2>2, <2>3, <2>4, <2>5
<1>5. ASSUME NEW l \in Layer, MergeNothing(l)  PROVE IInv'
  <2>1. Sound(popup') /\ Near(popup', view)
    BY <1>0, <1>5, AfterNothingOK DEF MergeNothing
  <2>2. OnOK(on')
    BY <1>0, <1>5 DEF MergeNothing, OnOK
  <2>3. asked' \in [Layer -> BOOLEAN]
    BY <1>5 DEF MergeNothing
  <2>4. UNCHANGED <<legend, view, cached, closing>>
    BY <1>5 DEF MergeNothing
  <2>. QED  BY <2>1, <2>2, <2>3, <2>4
<1>6. ASSUME NEW m \in Marker, Hover(m)  PROVE IInv'
  <2>. DEFINE q == [popup EXCEPT !.popover = On(m), !.layer = LayerOf(m)]
  <2>1. On(m) \in Ref /\ LayerOf(m) \in Layer
    BY RefFacts, LayerFacts
  <2>2. Sound(q) /\ Near(q, view)
    BY <1>0, <2>1
    DEF Sound, PopupRecord, ContentsOK, ItemsOK, ActiveOK, HeldOK, Near
  <2>3. popup' = popup \/ popup' = q
    BY <1>6 DEF Hover, OpenPopover
  <2>. HIDE DEF q
  <2>4. Sound(popup') /\ Near(popup', view)
    BY <1>0, <2>2, <2>3
  <2>5. UNCHANGED <<legend, view, on, cached, asked, closing>>
    BY <1>6 DEF Hover
  <2>. QED  BY <2>4, <2>5, PopupStep
<1>7. ASSUME NEW m \in Marker, Click(m)  PROVE IInv'
  <2>1. /\ ResultOK(OpenPopup(popup, m, view))
        /\ OpenPopup(popup, m, view).jump = None
             => Near(OpenPopup(popup, m, view).popup, view)
    BY <1>0, OpenPopupOK
  <2>2. Settle(OpenPopup(popup, m, view), on, view, {})
        /\ UNCHANGED <<legend, cached, closing>>
    BY <1>7 DEF Click
  <2>3. /\ view' \in View /\ OnOK(on') /\ asked' \in [Layer -> BOOLEAN]
        /\ Sound(popup') /\ Near(popup', view')
    BY <1>0, <2>1, <2>2, SettleOK
  <2>. QED  BY <2>2, <2>3
<1>8. CASE Out
  <2>1. Sound(popup') /\ popup'.at = popup.at /\ popup'.popupped = popup.popupped
    BY <1>0, <1>8, HidePopoverSound DEF Out
  <2>2. Near(popup', view)
    BY <1>0, <2>1 DEF Near
  <2>. QED  BY <1>8, <2>1, <2>2, PopupStep DEF Out
<1>9. CASE PopoverClick
  <2>1. UNCHANGED <<legend, cached, closing>>
    BY <1>9 DEF PopoverClick
  <2>2. CASE popup.popover.stage = "on"
    <3>1. popup.popover # None /\ popup.popover \in Ref \cup {None}
      BY <1>0, <1>9 DEF PopoverClick, Sound, PopupRecord
    <3>2. PICK m \in Marker : m = popup.popover.marker
      BY <3>1, RefFacts
    <3>3. /\ ResultOK(OpenPopup(popup, m, view))
          /\ OpenPopup(popup, m, view).jump = None
               => Near(OpenPopup(popup, m, view).popup, view)
      BY <1>0, OpenPopupOK
    <3>4. Settle(OpenPopup(popup, m, view), on, view, {})
      BY <1>9, <2>2, <3>2 DEF PopoverClick
    <3>5. /\ view' \in View /\ OnOK(on') /\ asked' \in [Layer -> BOOLEAN]
          /\ Sound(popup') /\ Near(popup', view')
      BY <1>0, <3>3, <3>4, SettleOK
    <3>. QED  BY <2>1, <3>5
  <2>3. CASE popup.popover.stage # "on"
    <3>1. popup' = RemoveActiveState(popup) /\ UNCHANGED <<view, on, asked>>
      BY <1>9, <2>3 DEF PopoverClick
    <3>2. Sound(popup') /\ popup'.at = popup.at /\ popup'.popupped = popup.popupped
      BY <1>0, <3>1, RemoveActiveStateSound
    <3>3. Near(popup', view)
      BY <1>0, <3>2 DEF Near
    <3>. QED  BY <2>1, <3>1, <3>2, <3>3, PopupStep
  <2>. QED  BY <2>2, <2>3
<1>10. ASSUME NEW next \in BOOLEAN, Page(next)  PROVE IInv'
  <2>1. PICK q \in PopupMove(Go(popup, next), on, view) : Settle(q, on, view, {})
    BY <1>10 DEF Page
  <2>2. Sound(Go(popup, next))
    BY <1>0, <1>10, GoSound DEF Page
  <2>3. ResultOK(q) /\ Near(q.popup, view)
    BY <1>0, <2>2, PopupMoveOK
  <2>4. /\ view' \in View /\ OnOK(on') /\ asked' \in [Layer -> BOOLEAN]
        /\ Sound(popup') /\ Near(popup', view')
    BY <1>0, <2>1, <2>3, SettleOK
  <2>. QED  BY <1>10, <2>4 DEF Page
<1>11. CASE Close \/ Timeout
  <2>1. Sound(popup') /\ popup'.at = None
    BY <1>0, <1>11, HidePopupSound DEF Close, Timeout
  <2>2. Near(popup', view)
    BY <2>1 DEF Near
  <2>3. UNCHANGED <<legend, view, on, cached, asked>> /\ closing' \in BOOLEAN
    BY <1>11 DEF Close, Timeout
  <2>. QED  BY <2>1, <2>2, <2>3, PopupStep
<1>12. CASE MapClick
  <2>1. UNCHANGED <<legend, view, on, cached, asked, popup>> /\ closing' \in BOOLEAN
    BY <1>12 DEF MapClick
  <2>2. Sound(popup') /\ Near(popup', view)
    BY <1>0, <2>1
  <2>. QED  BY <2>1, <2>2, PopupStep
<1>. QED
  BY <1>1, <1>2, <1>3, <1>4, <1>5, <1>6, <1>7, <1>8, <1>9, <1>10, <1>11, <1>12
  DEF Next

\* Wherever the map goes, whatever answers come and whichever markers leave
\* their layer, the popup is sound and near its marker.
THEOREM PopupInvariant == Spec => []IInv
BY InitOK, NextOK, PTL DEF Spec

\* Every field keeps its type: a popup without a marker, a marker that is
\* gone and a cluster without a number are never more than null, "gone" and 0.
THEOREM TypeCorrect == Spec => []TypeOK
<1>1. IInv => TypeOK
  BY DEF IInv, TypeOK, OnOK, Sound, PopupRecord, Spot
<1>. QED  BY <1>1, PopupInvariant, PTL

\* A popup on screen stands next to its marker, in sight and on the layer in
\* range (Popup.move after every move and every jump).
THEOREM PopupAlwaysInSight == Spec => []PopupInSight
<1>1. IInv => PopupInSight
  BY DEF IInv, Near, PopupInSight
<1>. QED  BY <1>1, PopupInvariant, PTL

\* The contents are those of the marker, or of what was shown before an area
\* took over; without a marker there are none (openPopupFor, hidePopup).
THEOREM ContentsAlwaysItsOwn == Spec => []ContentsAreItsOwn
<1>1. IInv => ContentsAreItsOwn
  BY DEF IInv, Sound, ContentsOK, ContentsAreItsOwn
<1>. QED  BY <1>1, PopupInvariant, PTL

\* Paging stays among the items, for clusters of any size (Popup.go).
THEOREM ItemAlwaysVisible == Spec => []ItemVisible
<1>1. IInv => ItemVisible
  BY DEF IInv, Sound, ItemsOK, ItemVisible
<1>. QED  BY <1>1, PopupInvariant, PTL

\* Of all markers that had the popup before, none but copies in a cluster
\* keeps the active style (removeActiveState, openPopupFor, move).
THEOREM ActiveAlwaysLast == Spec => []ActiveIsLast
<1>1. IInv => ActiveIsLast
  BY DEF IInv, Sound, ActiveOK, Copy, ActiveIsLast
<1>. QED  BY <1>1, PopupInvariant, PTL
=============================================================================
