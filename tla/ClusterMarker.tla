----------------------------- MODULE ClusterMarker -----------------------------
(***************************************************************************)
(* One cluster marker of the announcements layer, followed call by call:   *)
(* Strategy.Cluster.onUpdateThemeVisibility is called for one theme after  *)
(* another, goes through the members in order, and lets the marker stand   *)
(* in for its only visible member when there is just one.  Module          *)
(* ClusterLayer takes the calls for all themes as one step; this module    *)
(* shows what that step does, which attributes the marker ends up with,    *)
(* and the anchor that is drawn for it.                                    *)
(***************************************************************************)
EXTENDS Legend, Anchor, FiniteSets, FiniteSetsExt

CONSTANTS
  Members,  \* feature.cluster: the members, in the order in which they came
  Cat,      \* Cat[n]: the theme of member n
  None      \* undefined

News == ToSet(Members)

ClusterCat == "cluster"

\* The attributes of a marker, and its anchor.
Marker == [count : Nat, cat : Class \cup {ClusterCat},
           info : News \cup {None}, styled : BOOLEAN]
Node   == [title : ({"one"} \X (News \cup {None})) \cup ({"many"} \X Nat),
           look : Class \cup {ClusterCat}, text : Nat]

ASSUME MarkerAssumption ==
  /\ Members \in Seq(News) /\ Members # <<>> /\ IsInjective(Members)
  /\ Cat \in [News -> Class]
  /\ None \notin News \cup Marker
  /\ NoNode \notin Node

VARIABLES
  onLayer,  \* are the members on the layer, in a marker or on their own?
  hidden,   \* the members with the style {display: 'none'}
  marker,   \* the cluster marker, or None when there is none
  node,     \* the anchor of the cluster marker
  inView    \* does it lie within the extent of the renderer?

markerVars == <<onLayer, hidden, marker, node, inView>>

-----------------------------------------------------------------------------
(* onUpdateThemeVisibility(c, visible) for the marker m, whose members hid *)
(* are hidden.  The loop leaves the number of visible members and the last *)
(* of them.                                                                *)

HiddenAfter(hid, c, visible) ==
  IF visible THEN hid \ {n \in News : Cat[n] = c}
             ELSE hid \cup {n \in News : Cat[n] = c}

Count(hid)    == Cardinality(News \ hid)
LastSeen(hid) == Members[Max({i \in DOMAIN Members : Members[i] \notin hid})]

\* Slip: what the marker stands for follows its count only down to one.
UpdatedOnce(m, hid) ==
  LET cnt == Count(hid)
  IN  IF cnt = m.count THEN m
      ELSE [count  |-> cnt,
            cat    |-> IF cnt = 1 THEN Cat[LastSeen(hid)] ELSE m.cat,
            info   |-> IF cnt = 1 /\ m.info = None THEN LastSeen(hid)
                                                  ELSE m.info,
            styled |-> cnt = 0]

\* applyDefaults gives the marker the attributes it does not have yet, so
\* those of the first announcement it stood for stay (info).
Updated(m, hid) ==
  LET cnt == Count(hid)
  IN  IF cnt = m.count THEN m
      ELSE [count  |-> cnt,
            cat    |-> IF cnt = 1 THEN Cat[LastSeen(hid)] ELSE ClusterCat,
            info   |-> IF cnt = 1 /\ m.info = None THEN LastSeen(hid)
                                                  ELSE m.info,
            styled |-> cnt = 0]

\* getTitleForFeature.
Title(m) == IF m.count = 1 THEN <<"one", m.info>> ELSE <<"many", m.count>>

\* layer.drawFeature of the marker, with the style map of the layer.
Drawn(n, m, view) ==
  DrawFeature(n, ~m.styled /\ view, Title(m), m.cat, m.count)

\* onUpdateThemeVisibility draws the marker when its count has changed.
Call(s, c, visible) ==
  LET hid == HiddenAfter(s.hidden, c, visible)
      m   == Updated(s.marker, hid)
  IN  [s EXCEPT !.hidden = hid,
                !.marker = m,
                !.node   = IF m = s.marker THEN @ ELSE Drawn(@, m, s.view)]

\* Cluster.cluster: a call for every theme in turn; s after the n-th call.
Calling(s) ==
  LET after[n \in 0..Len(Theme)] ==
        IF n = 0 THEN s
        ELSE Call(after[n - 1], Theme[n], legend[Theme[n]])
  IN  after

Calls(s) == Calling(s)[Len(Theme)]

\* createCluster and addToCluster, and what the threshold of two leaves.
Created(hid) ==
  [count  |-> 1 + Cardinality((News \ {Members[1]}) \ hid),
   cat    |-> ClusterCat,
   info   |-> None,
   styled |-> FALSE]

\* addFeatures draws the new marker, before the themes are applied.  When the
\* cluster falls apart, its members follow the legend one by one.
Clustered(hid, view) ==
  IF Created(hid).count >= 2
    THEN Calls([hidden |-> hid, marker |-> Created(hid), view |-> view,
                node |-> Drawn(NoNode, Created(hid), view)])
    ELSE [hidden |-> {n \in News : ~legend[Cat[n]]}, marker |-> None,
          view |-> view, node |-> NoNode]

Become(s) == /\ hidden' = s.hidden
             /\ marker' = s.marker
             /\ node'   = s.node
             /\ inView' = s.view

-----------------------------------------------------------------------------
\* The first batch has arrived.
MarkerInit ==
  /\ onLayer = TRUE
  /\ inView  \in BOOLEAN
  /\ LET s == Clustered({}, inView)
     IN  hidden = s.hidden /\ marker = s.marker /\ node = s.node

\* BBOX.merge with announcements: new members, hidden by ThemeVisibility.
MarkerMerge ==
  /\ Become(Clustered({n \in News : ~legend[Cat[n]]}, inView))
  /\ onLayer' = TRUE
  /\ UNCHANGED legend

\* The map is zoomed: a new marker of the members there were.
MarkerZoom(view) ==
  /\ Become(Clustered(hidden, view))
  /\ onLayer' = TRUE
  /\ UNCHANGED legend

\* The map is moved: Vector.moveTo draws the marker again.
MarkerPan(view) ==
  /\ inView' = view
  /\ node' = IF marker = None THEN node ELSE Drawn(node, marker, view)
  /\ UNCHANGED <<legend, onLayer, hidden, marker>>

\* BBOX.merge without features: members and marker leave the layer.
MarkerMergeNothing ==
  /\ marker'  = None
  /\ node'    = NoNode
  /\ onLayer' = FALSE
  /\ UNCHANGED <<legend, hidden, inView>>

\* Legend.handleClick, for this layer.
MarkerToggle(c) ==
  /\ IF marker # None
       THEN Become(Call([hidden |-> hidden, marker |-> marker,
                         node |-> node, view |-> inView], c, ~legend[c]))
       ELSE /\ hidden' = IF onLayer THEN HiddenAfter(hidden, c, ~legend[c])
                                    ELSE hidden
            /\ UNCHANGED <<marker, node, inView>>
  /\ UNCHANGED onLayer

-----------------------------------------------------------------------------
\* The type invariant.
MarkerTypeOK ==
  /\ legend \in [Class -> BOOLEAN]
  /\ {onLayer, inView} \subseteq BOOLEAN
  /\ hidden \subseteq News
  /\ marker \in Marker \cup {None}
  /\ node \in Node \cup {NoNode}

Visible == {n \in News : legend[Cat[n]]}

\* One call after another, on members whose styles may be those of an older
\* legend, ends with the marker that the legend asks for: its count, whether
\* it is drawn, and the theme it is drawn as (onUpdateThemeVisibility).  One
\* that stands for a single announcement has a title and a text to show in the
\* popup, as getFeatureType takes it for a single announcement.
MarkerMatchesLegend ==
  marker # None =>
    /\ marker.count = Cardinality(Visible)
    /\ marker.styled <=> Visible = {}
    /\ marker.cat = IF marker.count = 1
                      THEN Cat[CHOOSE n \in Visible : TRUE]
                      ELSE ClusterCat
    /\ marker.count = 1 => marker.info # None

\* "When the visiblity of themes changes, the clusters need to be updated":
\* a marker that stands for one announcement has the text of that one.
LoneMarkerHasItsText ==
  marker # None /\ marker.count = 1 => Visible = {marker.info}

\* The anchor of the marker is in the page exactly when there is something to
\* show, and tells the count of this moment, with the icon of this moment,
\* whatever was drawn or erased before (Renderer.Anchor).
AnchorIsCurrent ==
  /\ node # NoNode <=> marker # None /\ ~marker.styled /\ inView
  /\ node # NoNode => node.text = marker.count /\ node.look = marker.cat

\* "Get a plain text version of the popover to use in the title attribute of
\* the anchor" (getTitleForFeature): the title says what the popover would.
TitleIsCurrent == node # NoNode => node.title = Title(marker)
=============================================================================
