---------------------------- MODULE ClusterLayer ----------------------------
(***************************************************************************)
(* The announcements layer of the viewer (bekendmakingenLayer in           *)
(* misc/settings.js): a vector layer whose BBOX strategy reads             *)
(* announcements from the WFS for the part of the country on screen, whose *)
(* ThemeVisibility strategy hides the announcements of the themes that are *)
(* switched off in the legend, and whose Cluster strategy draws those that *)
(* would overlap as one marker that shows how many visible announcements   *)
(* it stands for.                                                          *)
(*                                                                         *)
(* The browser runs one handler at a time, so each handler is one action:  *)
(* a move of the map, a click in the legend, the arrival of an answer.     *)
(*                                                                         *)
(* The map is one-dimensional: positions and centres are integers, an      *)
(* extent is an interval, and Sort orders features by column only.  The    *)
(* order of layer.features is left out: the markers form two sets.         *)
(***************************************************************************)
EXTENDS Integers, Sequences, FiniteSets

CONSTANTS
  Class,      \* the themes that have a checkbox in the legend
  Feature,    \* the announcements the WFS knows
  Cat,        \* Cat[f]: the theme of announcement f
  Pos,        \* Pos[f]: where it lies
  Centre,     \* where the user may centre the map
  Zoom,       \* the zoom levels
  InRange,    \* the zoom levels at which this layer is shown
  Half,       \* Half[z]: half the width of the map at zoom z
  Distance,   \* Distance[z]: the cluster distance (21 pixels) at zoom z
  Column,     \* Column[z]: the width of a sort column (15 pixels) at zoom z
  None        \* the JavaScript null

ASSUME DataAssumption ==
  /\ IsFiniteSet(Feature)
  /\ Cat \in [Feature -> Class]
  /\ Pos \in [Feature -> Int]

ASSUME MapAssumption ==
  /\ Centre \subseteq Int
  /\ InRange \subseteq Zoom
  /\ Half \in [Zoom -> Nat]
  /\ Distance \in [Zoom -> Nat]
  /\ Column \in [Zoom -> Nat \ {0}]

ASSUME NoneAssumption ==
  /\ None \notin Zoom
  /\ None \notin Int
  /\ None \notin [lo : Int, hi : Int]

VARIABLES
  legend,     \* legend[c]: is the checkbox of theme c checked?
  centre,     \* map.center, None until the map panel gives the map a view
  zoom,       \* map.zoom, as seen by the layer: None until then
  bounds,     \* BBOX.bounds: the interval last asked for
  response,   \* BBOX.response: the interval of the request in flight
  lost,       \* history: did the last read that ended fail?
  cached,     \* Cluster.features: the last batch of announcements
  resolution, \* Cluster.resolution: the zoom level of the last clustering
  hidden,     \* the announcements whose style.display is "none"
  singles,    \* layer.features: the announcements with a marker of their own
  clusters    \* layer.features: the cluster markers

mapVars   == <<centre, zoom>>
loadVars  == <<bounds, response>>
layerVars == <<cached, resolution, hidden, singles, clusters>>
vars      == <<legend, mapVars, loadVars, layerVars, lost>>

\* attributeValue: the category of a marker that stands for several features.
ClusterCat == "cluster"

Interval == [lo : Int, hi : Int]
Marker   == [members : SUBSET Feature, count : Nat,
             cat : Class \cup {ClusterCat}, shown : BOOLEAN]

-----------------------------------------------------------------------------
(* The map's extent and the BBOX strategy's bounds.                        *)

Extent(c, z)      == [lo |-> c - Half[z], hi |-> c + Half[z]]
DataBounds(c, z)  == [lo |-> c - 2 * Half[z], hi |-> c + 2 * Half[z]]
Contains(b, e)    == b.lo <= e.lo /\ e.hi <= b.hi
FeaturesIn(b)     == {f \in Feature : b.lo <= Pos[f] /\ Pos[f] <= b.hi}

\* Slip: once something was asked for, nothing is asked for again.
InvalidBoundsOnce(e) == bounds = None

\* invalidBounds: no resFactor is configured, so only the interval counts.
InvalidBounds(e)  == bounds = None \/ ~Contains(bounds, e)

-----------------------------------------------------------------------------
(* Strategy.Sort: the orders in which a batch can leave the sort.  Within  *)
(* the map by column; the announcements on or left of the left edge last.  *)
(* The WFS answers in any order, so features that tie come in any order.   *)

OutOfMap(f, e)    == Pos[f] <= e.lo
ColumnOf(f, e, z) == (Pos[f] - e.lo - 1) \div Column[z]

Before(f, g, e, z) ==
  \/ ~OutOfMap(f, e) /\ OutOfMap(g, e)
  \/ OutOfMap(f, e) /\ OutOfMap(g, e)
  \/ /\ ~OutOfMap(f, e) /\ ~OutOfMap(g, e)
     /\ ColumnOf(f, e, z) <= ColumnOf(g, e, z)

SortOrders(S, e, z) ==
  {s \in [1..Cardinality(S) -> S] :
     \A i, j \in 1..Cardinality(S) :
       i < j => s[i] # s[j] /\ Before(s[i], s[j], e, z)}

-----------------------------------------------------------------------------
(* Strategy.Cluster: features in order, each joins the first cluster whose *)
(* first feature is near enough or starts one.  The count starts at 1      *)
(* whether or not the first feature is visible (createCluster) and grows   *)
(* with each later visible one (addToCluster).                             *)

Near(f, g, z) ==
  LET d == Pos[f] - Pos[g] IN d <= Distance[z] /\ -d <= Distance[z]

Starts(fs, z) ==
  LET starts[i \in 1..Len(fs)] ==
        \A j \in 1..(i - 1) : starts[j] => ~Near(fs[j], fs[i], z)
  IN  {i \in 1..Len(fs) : starts[i]}

\* Slip: the search goes on after a feature has joined a cluster.
JoinersWithoutBreak(fs, st, i, z) ==
  {fs[k] : k \in {k \in (i + 1)..Len(fs) : k \notin st /\ Near(fs[i], fs[k], z)}}

\* The cluster of fs[i], given the set st of the positions that start one.
Joiners(fs, st, i, z) ==
  {fs[k] : k \in {k \in (i + 1)..Len(fs) :
                    /\ k \notin st
                    /\ Near(fs[i], fs[k], z)
                    /\ \A j \in st : j < i => ~Near(fs[j], fs[k], z)}}

\* Slip: the first feature is not counted.
CandidateFromZero(fs, st, i, hid, z) ==
  LET js == Joiners(fs, st, i, z) IN
  [members |-> {fs[i]} \cup js,
   count   |-> Cardinality(js \ hid),
   cat     |-> ClusterCat,
   shown   |-> TRUE]

Candidate(fs, st, i, hid, z) ==
  LET js == Joiners(fs, st, i, z) IN
  [members |-> {fs[i]} \cup js,
   count   |-> 1 + Cardinality(js \ hid),
   cat     |-> ClusterCat,
   shown   |-> TRUE]

Candidates(fs, hid, z) ==
  LET st == Starts(fs, z) IN {Candidate(fs, st, i, hid, z) : i \in st}

\* threshold: a candidate that counts fewer falls apart into its features.
Threshold == 2

Kept(ms)   == {m \in ms : m.count >= Threshold}
Broken(ms) == UNION {m.members : m \in ms \ Kept(ms)}

-----------------------------------------------------------------------------
(* onUpdateThemeVisibility: members are hidden or shown, and the marker    *)
(* follows when its count changes.                                         *)

OnlyChild(m, hid) == CHOOSE f \in m.members : f \notin hid

\* Slips: the count goes down by one at every change, or a style stays.
RecountByOne(m, hid) ==
  LET cnt == Cardinality(m.members \ hid) IN
  IF cnt = m.count THEN m
  ELSE [members |-> m.members,
        count   |-> m.count - 1,
        cat     |-> IF cnt = 1 THEN Cat[OnlyChild(m, hid)] ELSE ClusterCat,
        shown   |-> cnt # 0]

RecountStyleStays(m, hid) ==
  LET cnt == Cardinality(m.members \ hid) IN
  IF cnt = m.count THEN m
  ELSE [members |-> m.members,
        count   |-> cnt,
        cat     |-> IF cnt = 1 THEN Cat[OnlyChild(m, hid)] ELSE ClusterCat,
        shown   |-> cnt # 0 /\ m.shown]

Recount(m, hid) ==
  LET cnt == Cardinality(m.members \ hid) IN
  IF cnt = m.count THEN m
  ELSE [members |-> m.members,
        count   |-> cnt,
        cat     |-> IF cnt = 1 THEN Cat[OnlyChild(m, hid)] ELSE ClusterCat,
        shown   |-> cnt # 0]

RecountAll(ms, hid) == {Recount(m, hid) : m \in ms}

OnLayer(ss, ms) == ss \cup UNION {m.members : m \in ms}

\* One call: theme c of the features on the layer is switched on or off.
HideTheme(hid, c, visible, on) ==
  IF visible THEN hid \ {f \in on : Cat[f] = c}
             ELSE hid \cup {f \in on : Cat[f] = c}

\* Slip: a theme that is on does not bring its features back.
HideThemesOnlyHide(hid, on) == hid \cup {f \in on : ~legend[Cat[f]]}

\* The calls for all themes, one after another, that follow a clustering.
HideThemes(hid, on) == (hid \ on) \cup {f \in on : ~legend[Cat[f]]}

\* Cluster.cluster when it does cluster, with the batch fs whose hidden
\* members are hid: the layer is emptied, the new markers are added (which
\* runs ThemeVisibility) and every theme of the legend is applied.
Recluster(fs, hid, z) ==
  LET cs == Candidates(fs, hid, z)
      hi == HideThemes(hid, OnLayer(Broken(cs), Kept(cs)))
  IN  /\ resolution' = z
      /\ singles'    = Broken(cs)
      /\ hidden'     = hi
      /\ clusters'   = RecountAll(Kept(cs), hi)

\* Cluster.cluster when the clusters are kept: only the themes are applied.
ReapplyThemes ==
  LET hi == HideThemes(hidden, OnLayer(singles, clusters))
  IN  /\ hidden'   = hi
      /\ clusters' = RecountAll(clusters, hi)
      /\ UNCHANGED <<resolution, singles>>

-----------------------------------------------------------------------------
Init ==
  /\ legend     = [c \in Class |-> TRUE]
  /\ centre     = None
  /\ zoom       = None
  /\ bounds     = None
  /\ response   = None
  /\ lost       = FALSE
  /\ cached     = <<>>
  /\ resolution = None
  /\ hidden     = {}
  /\ singles    = {}
  /\ clusters   = {}

\* The layer's "moveend": clustersExist compares in layer order, which Sort
\* may have changed, so clusters that are on the layer may still be redone.
ClusterMoveend(z) ==
  LET zoomed == z # zoom
      again  == /\ zoomed
                /\ Len(cached) > 0
                /\ \/ resolution # z
                   \/ singles = {} /\ clusters = {}
  IN  \/ /\ zoomed /\ Len(cached) > 0
         /\ Recluster(cached, hidden, z)
      \/ /\ ~again
         /\ ReapplyThemes

\* BBOX.update: the request in flight, if any, is aborted and never answers.
BBOXMoveend(c, z) ==
  LET e == Extent(c, z) IN
  IF InvalidBounds(e)
    THEN /\ bounds'   = DataBounds(c, z)
         /\ response' = DataBounds(c, z)
    ELSE UNCHANGED loadVars

\* Map.moveTo: a layer out of range hears nothing of the move.
Move(c, z) ==
  /\ centre' = c
  /\ zoom'   = z
  /\ IF z \in InRange
       THEN /\ ClusterMoveend(z)
            /\ BBOXMoveend(c, z)
       ELSE UNCHANGED <<loadVars, resolution, hidden, singles, clusters>>
  /\ UNCHANGED <<legend, lost, cached>>

\* Legend.handleClick, for this layer.
Toggle(c) ==
  LET on == OnLayer(singles, clusters)
      hi == HideTheme(hidden, c, ~legend[c], on)
  IN  /\ legend'   = [legend EXCEPT ![c] = ~@]
      /\ hidden'   = hi
      /\ clusters' = RecountAll(clusters, hi)
      /\ UNCHANGED <<mapVars, loadVars, lost, cached, resolution, singles>>

\* BBOX.merge with announcements: they pass ThemeVisibility and Sort, become
\* the cached batch and are clustered at the zoom level of this moment.
MergeFeatures ==
  /\ response # None
  /\ FeaturesIn(response) # {}
  /\ LET new == FeaturesIn(response)
         off == {f \in new : ~legend[Cat[f]]}
     IN  \E fs \in SortOrders(new, Extent(centre, zoom), zoom) :
           /\ cached' = fs
           /\ Recluster(fs, off, zoom)
  /\ response' = None
  /\ lost'     = FALSE
  /\ UNCHANGED <<legend, mapVars, bounds>>

\* BBOX.merge without features: an empty answer, or a request that failed.
\* The layer is emptied; the Cluster strategy hears nothing of it.
MergeNothing ==
  /\ response' = None
  /\ singles'  = {}
  /\ clusters' = {}
  /\ UNCHANGED <<legend, mapVars, bounds, cached, resolution, hidden>>

EmptyAnswer ==
  /\ response # None
  /\ FeaturesIn(response) = {}
  /\ lost' = FALSE
  /\ MergeNothing

FailedRequest ==
  /\ response # None
  /\ lost' = TRUE
  /\ MergeNothing

Next ==
  \/ \E c \in Centre, z \in Zoom : Move(c, z)
  \/ \E c \in Class : Toggle(c)
  \/ MergeFeatures
  \/ EmptyAnswer
  \/ FailedRequest

Spec == Init /\ [][Next]_vars

-----------------------------------------------------------------------------
\* The type invariant.
TypeOK ==
  /\ legend     \in [Class -> BOOLEAN]
  /\ centre     \in Centre \cup {None}
  /\ zoom       \in Zoom \cup {None}
  /\ bounds     \in Interval \cup {None}
  /\ response   \in Interval \cup {None}
  /\ lost       \in BOOLEAN
  /\ cached     \in Seq(Feature)
  /\ resolution \in Zoom \cup {None}
  /\ hidden     \in SUBSET Feature
  /\ singles    \in SUBSET Feature
  /\ clusters   \in SUBSET Marker

Visible(m) == {f \in m.members : legend[Cat[f]]}

\* Whatever moves, clicks and answers came in which order, every cluster
\* marker shows the number of its members whose theme is switched on, looks
\* like the theme of that member when there is one, and is not drawn when
\* there is none (Cluster.onUpdateThemeVisibility and its callers).
ClustersMatchLegend ==
  \A m \in clusters :
    /\ m.count = Cardinality(Visible(m))
    /\ m.shown <=> Visible(m) # {}
    /\ m.count = 1 => Visible(m) = {f \in m.members : Cat[f] = m.cat
                                                     /\ legend[m.cat]}
    /\ m.count > 1 => m.cat = ClusterCat

\* An announcement on the layer is hidden exactly when its theme is off,
\* also when it was loaded, clustered or taken apart while it was off.
HiddenMatchesLegend ==
  \A f \in OnLayer(singles, clusters) : f \in hidden <=> ~legend[Cat[f]]

\* The layer shows the whole cached batch or nothing, and no announcement
\* has two markers (Cluster.cluster and the threshold).
EachOnceOrNone ==
  /\ OnLayer(singles, clusters) \in {{}, {cached[i] : i \in DOMAIN cached}}
  /\ \A m, n \in clusters : m # n => m.members \cap n.members = {}
  /\ \A m \in clusters : m.members \cap singles = {}

\* When a clustering is done and no read is under way to replace it, no two
\* visible single markers on screen are within the cluster distance of each
\* other (Cluster.cluster, createCluster, addToCluster): what would overlap
\* is one marker.  Not so when the last read failed: then the batch that is
\* clustered again has missed the clicks made since, and has old styles.
NoOverlap ==
  \A f, g \in (singles \ hidden) \cap FeaturesIn(Extent(centre, zoom)) :
    f # g => ~Near(f, g, zoom)

NoOverlapAfterClustering ==
  [][response' = None /\ ~lost' /\ (resolution' # resolution \/ cached' # cached)
       => NoOverlap']_vars

\* Unless the last read failed or one is under way, every announcement on
\* screen is on the layer: a move within the bounds last asked for needs no
\* read, and no clustering or click loses an announcement, whatever failed
\* before (BBOX.update, merge).
ScreenIsComplete ==
  zoom \in InRange /\ response = None /\ ~lost =>
    FeaturesIn(Extent(centre, zoom)) \subseteq OnLayer(singles, clusters)
=============================================================================
