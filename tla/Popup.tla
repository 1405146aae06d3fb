--------------------------------- MODULE Popup ---------------------------------
(***************************************************************************)
(* The popup and the popover of the viewer (widgets/Popup.js): the user    *)
(* hovers over a marker or clicks it while the map is moved, themes are    *)
(* switched and the layers under the markers are filled and clustered      *)
(* again.  The popup holds on to a marker object, which may have left its  *)
(* layer since.                                                            *)
(*                                                                         *)
(* A marker is known by its shape; whether the object the popup holds is   *)
(* still on its layer is the stage of the reference.  Which announcements  *)
(* end up in which cluster is given by the set of arrangements (module     *)
(* ClusterLayer computes them), and so is the number a cluster counts.     *)
(***************************************************************************)
EXTENDS Integers, FiniteSets

CONSTANTS
  Theme,         \* the themes of the legend
  News,          \* the announcements
  Cat,           \* Cat[n]: the theme of announcement n
  Marker,        \* the markers there may be
  Members,       \* Members[m]: its announcements, none for an area
  First,         \* First[m]: the announcement a cluster was started with
  Place,         \* Place[m]: where it is drawn
  Arrangements,  \* the sets of markers a batch of announcements can make
  View,          \* the views of the map: a centre with a zoom level
  Zoom,          \* Zoom[v]: its zoom level
  AreasShown,    \* AreasShown[z]: does zoom level z show the areas?
  InView,        \* InView[v]: the places in sight
  ClusterView,   \* ClusterView[m]: the view that a click on area m gives
  None           \* the JavaScript null

Areas   == {m \in Marker : Members[m] = {}}
Singles == {m \in Marker : Cardinality(Members[m]) = 1}

ASSUME PopupAssumption ==
  /\ Cat \in [News -> Theme]
  /\ Members \in [Marker -> SUBSET News]
  /\ \A m \in Marker : IsFiniteSet(Members[m])
  /\ Arrangements \subseteq SUBSET (Marker \ Areas)
  /\ \A m \in Areas : ClusterView[m] \in View
  /\ None \notin Marker /\ None \notin View
  /\ None \notin [marker : Marker, stage : {"on", "cached", "gone"}]

VARIABLES
  legend,   \* legend[c]: is theme c switched on?
  view,     \* the map's centre and zoom level
  on,       \* on[l]: layer.features of the layer of announcements or areas
  cached,   \* has the Cluster strategy a batch to cluster again?
  asked,    \* asked[l]: is a read of layer l under way?
  closing,  \* is the timer of a click on the map running (Handler.Click)?
  popup     \* the fields of the popup component and of its two DOM nodes

vars == <<legend, view, on, cached, asked, closing, popup>>

Layer == {"news", "areas"}
LayerOf(m) == IF m \in Areas THEN "areas" ELSE "news"
LayerAt(v) == IF AreasShown[Zoom[v]] THEN "areas" ELSE "news"

\* A reference to a marker object: on its layer, off it but still among the
\* features the Cluster strategy keeps, or gone for good.
Stage == {"on", "cached", "gone"}
Ref   == [marker : Marker, stage : Stage]
On(m) == [marker |-> m, stage |-> "on"]

\* #geozetPopup: the marker it was written for, the number of items it pages
\* (none for a single announcement) and the item that is visible.
PageRecord == [of : Marker \cup {None}, items : Nat, item : Nat]
Blank == [of |-> None, items |-> 0, item |-> 0]

Visible(m) == {n \in Members[m] : legend[Cat[n]]}
Drawn(m)   == m \in Areas \/ Visible(m) # {}

-----------------------------------------------------------------------------
(* What becomes of references when layer l is filled again.                *)

Aged(p, Age(_)) ==
  [p EXCEPT !.popupped = IF @ = None THEN None ELSE Age(@),
            !.popover  = IF @ = None THEN None ELSE Age(@),
            !.active   = {Age(r) : r \in {r \in @ : r = p.popupped
                                                  \/ Age(r).stage # "gone"}}]

\* The clusters of S that count one announcement, which looks active: they
\* have taken over all its attributes (onUpdateThemeVisibility).
Copies(p, S) ==
  {m \in S \ Singles : \E r \in p.active : /\ r.marker \in Singles
                                         /\ r.stage # "gone"
                                         /\ Members[r.marker] = Visible(m)}

\* The batch is clustered again: the same announcements, new clusters.
AfterClustering(p, S) ==
  LET q == Aged(p, LAMBDA r :
             CASE r.marker \in Areas \/ r.stage = "gone" -> r
               [] r.marker \in Singles /\ r.stage # "gone" ->
                    [r EXCEPT !.stage = IF r.marker \in S THEN "on" ELSE "cached"]
               [] OTHER -> [r EXCEPT !.stage = "gone"])
  IN  [q EXCEPT !.active = @ \cup {On(m) : m \in Copies(p, S)}]

\* A new batch: all objects are new.
AfterMerge(p, l) ==
  Aged(p, LAMBDA r : IF LayerOf(r.marker) = l THEN [r EXCEPT !.stage = "gone"]
                                              ELSE r)

\* No features: the announcements are still in the Cluster strategy's batch.
AfterNothing(p, l) ==
  Aged(p, LAMBDA r :
    CASE LayerOf(r.marker) # l -> r
      [] LayerOf(r.marker) = l /\ r.marker \in Singles /\ r.stage = "on" ->
           [r EXCEPT !.stage = "cached"]
      [] OTHER -> [r EXCEPT !.stage = IF r.stage = "cached" THEN "cached"
                                                             ELSE "gone"])

-----------------------------------------------------------------------------
(* The methods of Geozet.Popup, as functions of its state p.               *)

HidePopover(p) == [p EXCEPT !.popover = None]

RemoveActiveState(p) == [p EXCEPT !.active = @ \ {p.popupped}]

HideSoft(p) == [p EXCEPT !.at = None]

\* Slip: the contents stay behind, out of sight.
HidePopupKeepsPage(p) ==
  [RemoveActiveState(p) EXCEPT !.popupped    = None,
                               !.at          = None,
                               !.itemLength  = 0,
                               !.itemCurrent = 1]

HidePopup(p) ==
  [RemoveActiveState(p) EXCEPT !.popupped    = None,
                               !.at          = None,
                               !.page        = Blank,
                               !.itemLength  = 0,
                               !.itemCurrent = 1]

\* openPopoverFor: no popover for the marker that has the popup.
OpenPopover(p, m) ==
  IF p.popupped = On(m) THEN p
  ELSE [p EXCEPT !.popover = On(m), !.layer = LayerOf(m)]

\* Slip: a layer that is out of range can have the popup.
PositionedOutOfRange(p, v) ==
  LET m == p.popupped.marker IN
  IF Place[m] \notin InView[v] THEN HideSoft(p)
  ELSE IF p.page = Blank THEN p ELSE [p EXCEPT !.at = Place[m]]

\* move, when the marker is still on its layer: next to it if it is in sight.
Positioned(p, v) ==
  LET m == p.popupped.marker IN
  IF Place[m] \notin InView[v] \/ LayerOf(m) # LayerAt(v) THEN HideSoft(p)
  ELSE IF p.page = Blank THEN p ELSE [p EXCEPT !.at = Place[m]]

\* Slip: the marker that had the popup keeps its active state.
AttachedKeepsActive(p, m) ==
  [HidePopover(p) EXCEPT !.popupped = On(m),
                         !.layer    = LayerOf(m),
                         !.active   = @ \cup {On(m)}]

\* openPopupFor, up to the point where areas and announcements part.
Attached(p, m) ==
  [HidePopover(RemoveActiveState(p)) EXCEPT !.popupped = On(m),
                                            !.layer    = LayerOf(m),
                                            !.active   = @ \cup {On(m)}]

\* Slip: the number of items is not set anew.
WrittenKeepsLength(p, m) ==
  LET n == Cardinality(Visible(m)) IN
  IF m \in Singles \/ n = 1
    THEN [p EXCEPT !.page = [of |-> m, items |-> 0, item |-> 0]]
    ELSE [p EXCEPT !.page = [of |-> m, items |-> n, item |-> 1],
                   !.itemLength = IF @ = 0 THEN n ELSE @]

\* openPopupFor, for a marker of announcements: a cluster that counts one is
\* written as that one.
Written(p, m) ==
  LET n == Cardinality(Visible(m)) IN
  IF m \in Singles \/ n = 1
    THEN [p EXCEPT !.page = [of |-> m, items |-> 0, item |-> 0]]
    ELSE [p EXCEPT !.page = [of |-> m, items |-> n, item |-> 1],
                   !.itemLength = n]

Opened(p, m, v) == Positioned(Written(Attached(p, m), m), v)

\* What openPopupFor leaves to do: nothing, or to move the map to an area.
OpenPopup(p, m, v) ==
  IF m \in Areas THEN [popup |-> Attached(p, m), jump |-> ClusterView[m]]
                 ELSE [popup |-> Opened(p, m, v), jump |-> None]

\* move, with the features o of the layers at view v: when the marker has
\* left its layer, the popup is closed and opened for one at its place.
PopupMove(p, o, v) ==
  LET q     == HidePopover(p)
      found == {m \in o[q.layer] : Place[m] = Place[q.popupped.marker]}
  IN  CASE q.popupped = None ->
             {[popup |-> q, jump |-> None]}
        [] q.popupped # None /\ q.popupped.stage = "on" ->
             {[popup |-> Positioned(q, v), jump |-> None]}
        [] q.popupped # None /\ q.popupped.stage # "on" /\ found = {} ->
             {[popup |-> HidePopup(q), jump |-> None]}
        [] OTHER ->
             {OpenPopup(HidePopup(q), m, v) : m \in found}

\* go: the page that is shown next, if there is one, and the popup's place.
Go(p, next) ==
  LET to == p.itemCurrent + (IF next THEN 1 ELSE -1) IN
  IF 0 < to /\ to <= p.itemLength
    THEN [p EXCEPT !.itemCurrent = to, !.page.item = to]
    ELSE p

-----------------------------------------------------------------------------
(* Map.moveTo: the layer in range hears of the move, then the popup does.  *)

\* What clustering makes at this moment: a cluster is only kept when one of
\* those that joined it is visible.
Fits(S) == \A m \in S \ Singles : Visible(m) \ {First[m]} # {}

\* The layer that is in range at view v, when the zoom level was z before.
Layers(o, p, z, v) ==
  {[on |-> o, popup |-> p]} \cup
  IF Zoom[v] = z \/ LayerAt(v) = "areas" \/ ~cached THEN {}
  ELSE {[on |-> [o EXCEPT !["news"] = S], popup |-> AfterClustering(p, S)] :
          S \in {S \in Arrangements : Fits(S)}}

Reads(ls) == \E R \in SUBSET ls : asked' = [l \in Layer |-> asked[l] \/ l \in R]

\* What is left to do after a method of the popup, at view v: if the map
\* jumps to an area, the layers and the popup hear of that move as well.
Settle(q, o, v, ls) ==
  IF q.jump = None
    THEN /\ Reads(ls)
         /\ view'  = v
         /\ on'    = o
         /\ popup' = q.popup
    ELSE \E s \in Layers(o, q.popup, Zoom[v], q.jump) :
         \E r \in PopupMove(s.popup, s.on, q.jump) :
           /\ Reads(ls \cup {LayerAt(q.jump)})
           /\ view'  = q.jump
           /\ on'    = s.on
           /\ popup' = r.popup

MoveTo(v) ==
  \E s \in Layers(on, popup, Zoom[view], v) :
  \E q \in PopupMove(s.popup, s.on, v) :
    /\ Settle(q, s.on, v, {LayerAt(v)})
    /\ UNCHANGED <<legend, cached, closing>>

-----------------------------------------------------------------------------
Init ==
  /\ legend  = [c \in Theme |-> TRUE]
  /\ view    \in View
  /\ on      = [l \in Layer |-> {}]
  /\ cached  = FALSE
  /\ asked   = [l \in Layer |-> l = LayerAt(view)]
  /\ closing = FALSE
  /\ popup   = [popupped |-> None, popover |-> None, active |-> {},
                layer |-> None, at |-> None, page |-> Blank,
                itemLength |-> 0, itemCurrent |-> 1]

\* The user pans: the zoom level stays, the layers may read.
Pan(v) == Zoom[v] = Zoom[view] /\ MoveTo(v)

ZoomTo(v) == Zoom[v] # Zoom[view] /\ MoveTo(v)

\* Legend.handleClick: the popup is closed before any layer hears of the click;
\* the popover and the timer stay.
Toggle(c) ==
  /\ legend' = [legend EXCEPT ![c] = ~@]
  /\ popup'  = HidePopup(popup)
  /\ UNCHANGED <<view, on, cached, asked, closing>>

\* BBOX.merge with features, or without them (nothing there, read failed).
Merge(l) ==
  /\ asked[l]
  /\ asked' = [asked EXCEPT ![l] = FALSE]
  /\ \E S \in IF l = "areas" THEN {Areas} ELSE {T \in Arrangements : Fits(T)} :
       on' = [on EXCEPT ![l] = S]
  /\ cached' = (cached \/ l = "news")
  /\ popup'  = AfterMerge(popup, l)
  /\ UNCHANGED <<legend, view, closing>>

MergeNothing(l) ==
  /\ asked[l]
  /\ asked' = [asked EXCEPT ![l] = FALSE]
  /\ on'    = [on EXCEPT ![l] = {}]
  /\ popup' = AfterNothing(popup, l)
  /\ UNCHANGED <<legend, view, cached, closing>>

\* A marker the user can point at.
InSight(m) ==
  /\ m \in on[LayerAt(view)]
  /\ Drawn(m)
  /\ Place[m] \in InView[view]

Hover(m) ==
  /\ InSight(m)
  /\ popup' = OpenPopover(popup, m)
  /\ UNCHANGED <<legend, view, on, cached, asked, closing>>

\* Handler.Feature: no "out" for a marker that has left its layer.
Out ==
  /\ popup.popover # None
  /\ popup.popover.stage = "on"
  /\ popup' = HidePopover(popup)
  /\ UNCHANGED <<legend, view, on, cached, asked, closing>>

\* A click on a marker goes no further than the feature handler.
Click(m) ==
  /\ InSight(m)
  /\ Settle(OpenPopup(popup, m, view), on, view, {})
  /\ UNCHANGED <<legend, cached, closing>>

\* onPopoverClick, when the marker is on its layer and when it is not: then
\* openPopupFor fails at feature.layer.map, after removeActiveState.
PopoverClick ==
  /\ popup.popover # None
  /\ IF popup.popover.stage = "on"
       THEN Settle(OpenPopup(popup, popup.popover.marker, view), on, view, {})
       ELSE popup' = RemoveActiveState(popup) /\ UNCHANGED <<view, on, asked>>
  /\ UNCHANGED <<legend, cached, closing>>

\* The buttons of a popup that pages, and its close button.
Page(next) ==
  /\ popup.at # None
  /\ popup.page.items > 0
  /\ \E q \in PopupMove(Go(popup, next), on, view) : Settle(q, on, view, {})
  /\ UNCHANGED <<legend, cached, closing>>

Close ==
  /\ popup.at # None
  /\ popup' = HidePopup(popup)
  /\ UNCHANGED <<legend, view, on, cached, asked, closing>>

\* A click on the map starts a timer, a second one stops it.
MapClick ==
  /\ closing' = ~closing
  /\ UNCHANGED <<legend, view, on, cached, asked, popup>>

Timeout ==
  /\ closing
  /\ closing' = FALSE
  /\ popup'   = HidePopup(popup)
  /\ UNCHANGED <<legend, view, on, cached, asked>>

Next ==
  \/ \E v \in View : Pan(v) \/ ZoomTo(v)
  \/ \E c \in Theme : Toggle(c)
  \/ \E l \in Layer : Merge(l) \/ MergeNothing(l)
  \/ \E m \in Marker : Hover(m) \/ Click(m)
  \/ Out \/ PopoverClick
  \/ \E next \in BOOLEAN : Page(next)
  \/ Close \/ MapClick \/ Timeout

Spec == Init /\ [][Next]_vars

-----------------------------------------------------------------------------
\* The type invariant.
TypeOK ==
  /\ legend \in [Theme -> BOOLEAN]
  /\ view   \in View
  /\ on     \in [Layer -> SUBSET Marker]
  /\ {cached, closing} \subseteq BOOLEAN
  /\ asked  \in [Layer -> BOOLEAN]
  /\ popup  \in [popupped : Ref \cup {None}, popover : Ref \cup {None},
                 active : SUBSET Ref, layer : Layer \cup {None},
                 at : {Place[m] : m \in Marker} \cup {None}, page : PageRecord,
                 itemLength : Nat, itemCurrent : Nat \ {0}]

\* Whatever became of the markers that had the popup before, none of them
\* was left behind with the active style: what else looks active is at most
\* a cluster (removeActiveState, openPopupFor, hidePopup, move).
ActiveIsLast ==
  \A r \in popup.active : r # popup.popupped =>
    r.marker \notin Singles \cup Areas /\ r.stage = "on"

\* "a different css style around the feature which is associated with the
\* popup": no other marker has that style.
ActiveHasPopup == popup.active \subseteq {popup.popupped}

\* A popup on screen stands next to the marker it is attached to, at a place
\* that is in sight and on the layer that is in range, also when its marker
\* was taken off the layer or another one took over (Popup.move).
PopupInSight ==
  popup.at # None =>
    /\ popup.popupped # None
    /\ popup.at = Place[popup.popupped.marker]
    /\ popup.at \in InView[view]
    /\ LayerOf(popup.popupped.marker) = LayerAt(view)

\* The contents of the popup are those of the announcements it is attached
\* to, and nothing stays behind for printing when it is attached to none
\* (hidePopup, openPopupFor).
ContentsAreItsOwn ==
  /\ popup.popupped = None => popup.page = Blank
  /\ popup.popupped # None =>
       popup.page.of = popup.popupped.marker \/ popup.popupped.marker \in Areas

\* Paging never leaves the items there are: one of them is visible, however
\* many were opened and paged before (Popup.go, openPopupFor).
ItemVisible ==
  popup.page.items > 0 =>
    /\ popup.page.item \in 1..popup.page.items
    /\ popup.itemLength = popup.page.items

\* "The current item which is being paged": the item that is visible.
CurrentIsVisible == popup.page.items > 0 => popup.itemCurrent = popup.page.item

\* "The feature attached to this popup": a popup on screen, next to a marker,
\* tells about that marker.
TellsAboutItsMarker == popup.at # None => popup.page.of = popup.popupped.marker

\* "check if feature is in view AND still visisble": once the map has moved,
\* the popup is only on screen if its marker is.
MarkerVisible == popup.at # None => Drawn(popup.popupped.marker)

VisibleAfterMove == [][view' # view => MarkerVisible']_vars

\* "zoom level to zoom to if clicked on a cluster": a user who pans does not
\* end up at another zoom level.
PanKeepsZoom == [][(\E v \in View : Pan(v)) => Zoom[view'] = Zoom[view]]_vars

\* "When somebody clicks on the popover, we need to open up the popup."
PopoverOpensPopup ==
  [][PopoverClick => popup'.popupped # None
                     /\ popup'.popupped.marker = popup.popover.marker]_vars
=============================================================================
