------------------------ MODULE ClusterLayer_proofs -------------------------
(***************************************************************************)
(* The announcements layer agrees with the legend, for every set of        *)
(* announcements and themes, every geometry and every order of moves,      *)
(* clicks, answers and failures.                                           *)
(***************************************************************************)
EXTENDS ClusterLayer, FiniteSetTheorems, SequenceTheorems, WellFoundedInduction,
        TLAPS

\* What Recount maintains of a marker whose hidden members are those in hid.
MarkerOK(m, hid) ==
  /\ m.count = Cardinality(m.members \ hid)
  /\ m.shown <=> m.count # 0
  /\ m.count = 1 => \A f \in m.members \ hid : Cat[f] = m.cat
  /\ m.count > 1 => m.cat = ClusterCat

\* A read is only under way once the map has a view.
ViewKnown == response # None => centre \in Centre /\ zoom \in Zoom

\* The inductive invariant.
IInv ==
  /\ TypeOK
  /\ ViewKnown
  /\ HiddenMatchesLegend
  /\ \A m \in clusters : MarkerOK(m, hidden)

-----------------------------------------------------------------------------
(* Facts about the operators.                                              *)

\* Every set of announcements is finite and has a natural cardinality.
LEMMA FiniteFeatures ==
  ASSUME NEW S \in SUBSET Feature
  PROVE  IsFiniteSet(S) /\ Cardinality(S) \in Nat
  BY DataAssumption, FS_Subset, FS_CardinalityType

\* Recount gives a marker that is right for the new hidden set, if either
\* the old one was right for hidden members that only grew or shrank, or the
\* marker is a fresh one (shown, with the cluster category, counting two).
LEMMA RecountOK ==
  ASSUME NEW m \in Marker, NEW hid, NEW old,
         \/ /\ MarkerOK(m, old)
            /\ \/ m.members \ hid \subseteq m.members \ old
               \/ m.members \ old \subseteq m.members \ hid
         \/ m.shown /\ m.cat = ClusterCat /\ m.count >= 2
  PROVE  /\ Recount(m, hid) \in Marker
         /\ Recount(m, hid).members = m.members
         /\ MarkerOK(Recount(m, hid), hid)
<1> DEFINE new == m.members \ hid
           cnt == Cardinality(new)
<1>1. new \in SUBSET Feature /\ m.members \ old \in SUBSET Feature
  BY DEF Marker
<1>2. IsFiniteSet(new) /\ cnt \in Nat
  BY <1>1, FiniteFeatures
<1>3. IsFiniteSet(m.members \ old)
  BY <1>1, FiniteFeatures
<1>4. m.count \in Nat
  BY DEF Marker
<1>5. CASE cnt = m.count
  <2>1. Recount(m, hid) = m
    BY <1>5 DEF Recount
  <2>2. CASE MarkerOK(m, old) /\ (\/ new \subseteq m.members \ old
                                  \/ m.members \ old \subseteq new)
    <3>1. Cardinality(m.members \ old) = cnt
      BY <1>5, <2>2 DEF MarkerOK
    <3>2. m.members \ old = new
      BY <1>2, <1>3, <2>2, <3>1, FS_Subset
    <3>3. QED
      BY <2>1, <2>2, <3>2 DEF MarkerOK
  <2>3. CASE m.shown /\ m.cat = ClusterCat /\ m.count >= 2
    BY <1>4, <1>5, <2>1, <2>3 DEF MarkerOK
  <2>4. QED
    BY <2>2, <2>3
<1>6. CASE cnt # m.count
  <2> DEFINE r == Recount(m, hid)
  <2>1. r = [members |-> m.members, count |-> cnt,
             cat |-> IF cnt = 1 THEN Cat[OnlyChild(m, hid)] ELSE ClusterCat,
             shown |-> cnt # 0]
    BY <1>6 DEF Recount
  <2>2. cnt = 1 => \A f \in new : f = OnlyChild(m, hid)
    <3>1. SUFFICES ASSUME cnt = 1 PROVE \A f \in new : f = OnlyChild(m, hid)
      OBVIOUS
    <3>2. PICK x : new = {x}
      BY <1>2, <3>1, FS_Singleton
    <3>3. OnlyChild(m, hid) \in new
      BY <3>2 DEF OnlyChild
    <3>4. QED
      BY <3>2, <3>3
  <2>3. cnt = 1 => OnlyChild(m, hid) \in Feature
    <3>1. SUFFICES ASSUME cnt = 1 PROVE OnlyChild(m, hid) \in Feature
      OBVIOUS
    <3>2. PICK x : new = {x}
      BY <1>2, <3>1, FS_Singleton
    <3>3. QED
      BY <1>1, <2>2, <3>1, <3>2
  <2>4. r \in Marker
    BY <1>2, <2>1, <2>3, DataAssumption DEF Marker
  <2>5. MarkerOK(r, hid)
    <3>1. /\ r.members = m.members
          /\ r.count = cnt
          /\ r.shown = (cnt # 0)
      BY <2>1
    <3>2. cnt = 1 => \A f \in new : Cat[f] = r.cat
      BY <2>1, <2>2
    <3>3. cnt > 1 => r.cat = ClusterCat
      BY <1>2, <2>1
    <3>4. QED
      BY <3>1, <3>2, <3>3, Zenon DEF MarkerOK
  <2>6. QED
    BY <2>1, <2>4, <2>5
<1>7. QED
  BY <1>5, <1>6

\* The candidates of a clustering are markers, fresh in the sense above when
\* they are kept, and a broken one falls apart into announcements.
LEMMA CandidatesType ==
  ASSUME NEW fs \in Seq(Feature), NEW hid, NEW z
  PROVE  /\ Candidates(fs, hid, z) \subseteq Marker
         /\ Broken(Candidates(fs, hid, z)) \subseteq Feature
         /\ \A m \in Kept(Candidates(fs, hid, z)) :
              m.shown /\ m.cat = ClusterCat /\ m.count >= 2
<1> DEFINE st == Starts(fs, z)
<1>1. st \subseteq 1..Len(fs)
  BY DEF Starts
<1>2. \A i \in 1..Len(fs) : fs[i] \in Feature
  BY ElementOfSeq
<1>3. ASSUME NEW i \in st
      PROVE  Candidate(fs, st, i, hid, z) \in Marker
  <2> DEFINE js == Joiners(fs, st, i, z)
  <2>1. js \subseteq Feature
    <3>1. Len(fs) \in Nat /\ i \in Nat
      BY <1>1, LenProperties
    <3>2. \A k \in (i + 1)..Len(fs) : k \in 1..Len(fs)
      BY <3>1
    <3>3. QED
      BY <1>2, <3>2 DEF Joiners
  <2>2. Cardinality(js \ hid) \in Nat
    BY <2>1, FiniteFeatures
  <2>3. fs[i] \in Feature
    BY <1>1, <1>2
  <2>4. {fs[i]} \cup js \in SUBSET Feature /\ 1 + Cardinality(js \ hid) \in Nat
    BY <2>1, <2>2, <2>3
  <2>5. QED
    BY <2>4 DEF Candidate, Marker
<1>4. Candidates(fs, hid, z) \subseteq Marker
  BY <1>3 DEF Candidates
<1>5. ASSUME NEW m \in Candidates(fs, hid, z)
      PROVE  m.shown /\ m.cat = ClusterCat
  <2>1. PICK i \in st : m = Candidate(fs, st, i, hid, z)
    BY DEF Candidates
  <2>2. m.shown = TRUE /\ m.cat = ClusterCat
    BY <2>1 DEF Candidate
  <2>3. QED
    BY <2>2
<1>6. QED
  BY <1>4, <1>5 DEF Broken, Kept, Threshold, Marker

\* A sorted batch is a sequence of the announcements it sorts.
LEMMA SortOrdersType ==
  ASSUME NEW S \in SUBSET Feature, NEW e, NEW z, NEW fs \in SortOrders(S, e, z)
  PROVE  fs \in Seq(Feature)
<1>1. Cardinality(S) \in Nat
  BY FiniteFeatures
<1>2. fs \in [1..Cardinality(S) -> Feature]
  BY DEF SortOrders
<1>3. QED
  BY <1>1, <1>2, SeqDef

\* After a clustering the layer has its type and agrees with the legend.
LEMMA ReclusterOK ==
  ASSUME TypeOK, legend' = legend,
         NEW fs \in Seq(Feature), NEW hid \in SUBSET Feature, NEW z \in Zoom,
         Recluster(fs, hid, z)
  PROVE  /\ resolution' \in Zoom
         /\ singles' \in SUBSET Feature
         /\ hidden' \in SUBSET Feature
         /\ clusters' \in SUBSET Marker
         /\ HiddenMatchesLegend'
         /\ \A m \in clusters' : MarkerOK(m, hidden')
<1> DEFINE cs == Candidates(fs, hid, z)
           on == OnLayer(Broken(cs), Kept(cs))
           hi == HideThemes(hid, on)
<1>1. /\ resolution' = z
      /\ singles' = Broken(cs)
      /\ hidden' = hi
      /\ clusters' = RecountAll(Kept(cs), hi)
  BY DEF Recluster
<1>2. /\ cs \subseteq Marker
      /\ Broken(cs) \subseteq Feature
      /\ \A m \in Kept(cs) : m.shown /\ m.cat = ClusterCat /\ m.count >= 2
  BY CandidatesType
<1>3. Kept(cs) \subseteq Marker
  BY <1>2 DEF Kept
<1>4. \A m \in Kept(cs) : /\ Recount(m, hi) \in Marker
                          /\ Recount(m, hi).members = m.members
                          /\ MarkerOK(Recount(m, hi), hi)
  BY <1>2, <1>3, RecountOK
<1>5. clusters' \subseteq Marker /\ \A m \in clusters' : MarkerOK(m, hidden')
  BY <1>1, <1>4 DEF RecountAll
<1>6. OnLayer(singles', clusters') = on
  <2>1. UNION {m.members : m \in clusters'} = UNION {m.members : m \in Kept(cs)}
    BY <1>1, <1>4 DEF RecountAll
  <2>2. QED
    BY <1>1, <2>1 DEF OnLayer
<1>7. on \subseteq Feature
  BY <1>2, <1>3 DEF OnLayer, Marker
<1>8. hi \subseteq Feature
  BY <1>7 DEF HideThemes
<1>9. HiddenMatchesLegend'
  BY <1>1, <1>6 DEF HiddenMatchesLegend, HideThemes
<1>10. QED
  BY <1>1, <1>2, <1>5, <1>8, <1>9
\* Where the hidden announcements already agree with the legend, applying
\* the themes again changes nothing.
LEMMA ReapplyOK ==
  ASSUME IInv, ReapplyThemes, legend' = legend
  PROVE  UNCHANGED <<resolution, hidden, singles, clusters>>
<1> DEFINE hi == HideThemes(hidden, OnLayer(singles, clusters))
<1>1. hi = hidden
  BY DEF IInv, HiddenMatchesLegend, HideThemes
<1>2. \A m \in clusters : Recount(m, hidden) = m
  BY DEF IInv, MarkerOK, Recount
<1>3. RecountAll(clusters, hidden) = clusters
  BY <1>2 DEF RecountAll
<1>4. QED
  BY <1>1, <1>3 DEF ReapplyThemes

-----------------------------------------------------------------------------
(* The invariant is inductive: one lemma per action.                       *)

LEMMA InitOK == Init => IInv
<1> SUFFICES ASSUME Init PROVE IInv
  OBVIOUS
<1>1. TypeOK
  BY EmptySeq DEF Init, TypeOK
<1>2. QED
  BY <1>1 DEF Init, IInv, ViewKnown, HiddenMatchesLegend, OnLayer

LEMMA MoveOK ==
  ASSUME IInv, NEW c \in Centre, NEW z \in Zoom, Move(c, z)
  PROVE  IInv'
<1>1. /\ centre' = c /\ zoom' = z
      /\ legend' = legend /\ cached' = cached /\ lost' = lost
  BY DEF Move
<1>2. DataBounds(c, z) \in Interval
  BY MapAssumption DEF DataBounds, Interval
<1>3. bounds' \in Interval \cup {None} /\ response' \in Interval \cup {None}
  BY <1>2 DEF Move, BBOXMoveend, loadVars, IInv, TypeOK
<1>4. /\ resolution' \in Zoom \cup {None}
      /\ singles' \in SUBSET Feature
      /\ hidden' \in SUBSET Feature
      /\ clusters' \in SUBSET Marker
      /\ HiddenMatchesLegend'
      /\ \A m \in clusters' : MarkerOK(m, hidden')
  <2>1. CASE UNCHANGED <<resolution, hidden, singles, clusters>>
    BY <1>1, <2>1 DEF IInv, TypeOK, HiddenMatchesLegend
  <2>2. CASE Recluster(cached, hidden, z)
    <3>1. cached \in Seq(Feature) /\ hidden \in SUBSET Feature /\ TypeOK
      BY DEF IInv, TypeOK
    <3>2. QED
      BY <1>1, <2>2, <3>1, ReclusterOK
  <2>3. CASE ReapplyThemes
    BY <1>1, <2>1, <2>3, ReapplyOK
  <2>4. QED
    BY <2>1, <2>2, <2>3 DEF Move, ClusterMoveend
<1>5. TypeOK'
  BY <1>1, <1>3, <1>4 DEF IInv, TypeOK
<1>6. ViewKnown'
  BY <1>1 DEF ViewKnown
<1>7. QED
  BY <1>4, <1>5, <1>6 DEF IInv

LEMMA ToggleOK ==
  ASSUME IInv, NEW c \in Class, Toggle(c)
  PROVE  IInv'
<1> DEFINE on == OnLayer(singles, clusters)
           hi == HideTheme(hidden, c, ~legend[c], on)
<1>1. /\ legend' = [legend EXCEPT ![c] = ~@]
      /\ hidden' = hi
      /\ clusters' = RecountAll(clusters, hi)
      /\ UNCHANGED <<centre, zoom, bounds, response, lost, cached, resolution,
                    singles>>
  BY DEF Toggle, mapVars, loadVars
<1>2. /\ singles \subseteq Feature /\ clusters \subseteq Marker
      /\ hidden \subseteq Feature /\ legend \in [Class -> BOOLEAN]
  BY DEF IInv, TypeOK
<1>3. on \subseteq Feature
  BY <1>2 DEF OnLayer, Marker
<1>4. \A m \in clusters : /\ Recount(m, hi) \in Marker
                          /\ Recount(m, hi).members = m.members
                          /\ MarkerOK(Recount(m, hi), hi)
  <2> SUFFICES ASSUME NEW m \in clusters
               PROVE  /\ Recount(m, hi) \in Marker
                      /\ Recount(m, hi).members = m.members
                      /\ MarkerOK(Recount(m, hi), hi)
    OBVIOUS
  <2>1. hi \subseteq hidden \/ hidden \subseteq hi
    BY DEF HideTheme
  <2>2. \/ m.members \ hi \subseteq m.members \ hidden
        \/ m.members \ hidden \subseteq m.members \ hi
    BY <2>1
  <2>3. m \in Marker /\ MarkerOK(m, hidden)
    BY <1>2 DEF IInv
  <2>4. QED
    BY <2>2, <2>3, RecountOK
<1>5. clusters' \in SUBSET Marker /\ \A m \in clusters' : MarkerOK(m, hidden')
  BY <1>1, <1>4 DEF RecountAll
<1>6. OnLayer(singles', clusters') = on
  <2>1. UNION {m.members : m \in clusters'} = UNION {m.members : m \in clusters}
    BY <1>1, <1>4 DEF RecountAll
  <2>2. QED
    BY <1>1, <2>1 DEF OnLayer
<1>7. HiddenMatchesLegend'
  <2> SUFFICES ASSUME NEW f \in on PROVE f \in hi <=> ~legend'[Cat[f]]
    BY <1>1, <1>6 DEF HiddenMatchesLegend
  <2>1. Cat[f] \in Class /\ (f \in hidden <=> ~legend[Cat[f]])
    BY <1>3, DataAssumption DEF IInv, HiddenMatchesLegend
  <2>2. CASE Cat[f] = c
    BY <1>1, <1>2, <2>2 DEF HideTheme
  <2>3. CASE Cat[f] # c
    BY <1>1, <1>2, <2>1, <2>3 DEF HideTheme
  <2>4. QED
    BY <2>2, <2>3
<1>8. hi \subseteq Feature
  BY <1>2, <1>3 DEF HideTheme
<1>9. TypeOK'
  BY <1>1, <1>2, <1>5, <1>8 DEF IInv, TypeOK
<1>10. ViewKnown'
  BY <1>1 DEF IInv, ViewKnown
<1>11. QED
  BY <1>5, <1>7, <1>9, <1>10 DEF IInv

LEMMA MergeFeaturesOK ==
  ASSUME IInv, MergeFeatures
  PROVE  IInv'
<1> DEFINE new == FeaturesIn(response)
           off == {f \in new : ~legend[Cat[f]]}
<1>1. new \in SUBSET Feature /\ off \in SUBSET Feature
  BY DEF FeaturesIn
<1>2. PICK fs \in SortOrders(new, Extent(centre, zoom), zoom) :
             cached' = fs /\ Recluster(fs, off, zoom)
  BY DEF MergeFeatures
<1>3. fs \in Seq(Feature)
  BY <1>1, SortOrdersType
<1>4. /\ response' = None
      /\ lost' = FALSE
      /\ UNCHANGED <<legend, centre, zoom, bounds>>
  BY DEF MergeFeatures, mapVars
<1>5. zoom \in Zoom
  BY DEF MergeFeatures, IInv, ViewKnown
<1>6. /\ resolution' \in Zoom
      /\ singles' \in SUBSET Feature
      /\ hidden' \in SUBSET Feature
      /\ clusters' \in SUBSET Marker
      /\ HiddenMatchesLegend'
      /\ \A m \in clusters' : MarkerOK(m, hidden')
  BY <1>1, <1>2, <1>3, <1>4, <1>5, ReclusterOK DEF IInv
<1>7. TypeOK'
  BY <1>2, <1>3, <1>4, <1>6 DEF IInv, TypeOK
<1>8. ViewKnown'
  BY <1>4 DEF ViewKnown
<1>9. QED
  BY <1>6, <1>7, <1>8 DEF IInv

LEMMA MergeNothingOK ==
  ASSUME IInv, MergeNothing, lost' \in BOOLEAN
  PROVE  IInv'
<1>1. TypeOK'
  BY DEF MergeNothing, mapVars, IInv, TypeOK
<1>2. ViewKnown'
  BY DEF MergeNothing, ViewKnown
<1>3. OnLayer(singles', clusters') = {}
  BY DEF MergeNothing, OnLayer
<1>4. QED
  BY <1>1, <1>2, <1>3 DEF IInv, MergeNothing, HiddenMatchesLegend

\* Every step keeps the invariant.
LEMMA StepOK == IInv /\ [Next]_vars => IInv'
<1> SUFFICES ASSUME IInv, [Next]_vars PROVE IInv'
  OBVIOUS
<1>1. CASE \E c \in Centre, z \in Zoom : Move(c, z)
  BY <1>1, MoveOK
<1>2. CASE \E c \in Class : Toggle(c)
  BY <1>2, ToggleOK
<1>3. CASE MergeFeatures
  BY <1>3, MergeFeaturesOK
<1>4. CASE EmptyAnswer \/ FailedRequest
  BY <1>4, MergeNothingOK DEF EmptyAnswer, FailedRequest
<1>5. CASE UNCHANGED vars
  BY <1>5 DEF vars, mapVars, loadVars, layerVars, IInv, TypeOK, ViewKnown,
              HiddenMatchesLegend
<1>6. QED
  BY <1>1, <1>2, <1>3, <1>4, <1>5 DEF Next

\* The types and the legend of the layer, always.
THEOREM Inductive == Spec => []IInv
  BY InitOK, StepOK, PTL DEF Spec

-----------------------------------------------------------------------------
(* What follows for the reader of the map.                                 *)

\* The state of the announcements layer always has its type.
THEOREM TypeCorrect == Spec => []TypeOK
<1>1. IInv => TypeOK
  BY DEF IInv
<1>2. QED
  BY <1>1, Inductive, PTL

\* An announcement on the layer is hidden exactly when its theme is off.
THEOREM HiddenIsLegend == Spec => []HiddenMatchesLegend
<1>1. IInv => HiddenMatchesLegend
  BY DEF IInv
<1>2. QED
  BY <1>1, Inductive, PTL

\* Every cluster marker shows the number of its members whose theme is on,
\* with the category of the one when there is one, and is drawn exactly
\* when there is one (Cluster.onUpdateThemeVisibility).
THEOREM ClustersAreLegend == Spec => []ClustersMatchLegend
<1>1. IInv => ClustersMatchLegend
  <2> SUFFICES ASSUME IInv, NEW m \in clusters
               PROVE  /\ m.count = Cardinality(Visible(m))
                      /\ m.shown <=> Visible(m) # {}
                      /\ m.count = 1 => Visible(m) =
                           {f \in m.members : Cat[f] = m.cat /\ legend[m.cat]}
                      /\ m.count > 1 => m.cat = ClusterCat
    BY DEF ClustersMatchLegend
  <2>1. m.members \subseteq OnLayer(singles, clusters)
    BY DEF OnLayer
  <2>2. Visible(m) = m.members \ hidden
    BY <2>1 DEF IInv, HiddenMatchesLegend, Visible
  <2>3. MarkerOK(m, hidden)
    BY DEF IInv
  <2>4. IsFiniteSet(Visible(m))
    <3>1. Visible(m) \in SUBSET Feature
      BY DEF IInv, TypeOK, Marker, Visible
    <3>2. QED
      BY <3>1, FiniteFeatures
  <2>5. m.shown <=> Visible(m) # {}
    BY <2>2, <2>3, <2>4, FS_EmptySet DEF MarkerOK
  <2>6. m.count = 1 => Visible(m) =
          {f \in m.members : Cat[f] = m.cat /\ legend[m.cat]}
    BY <2>2, <2>3 DEF MarkerOK, Visible
  <2>7. QED
    BY <2>2, <2>3, <2>5, <2>6 DEF MarkerOK
<1>2. QED
  BY <1>1, Inductive, PTL

-----------------------------------------------------------------------------
(* The recursion of Starts.                                                *)

\* A set of numbers that is not empty has a least one.
LEMMA LeastNumber ==
  ASSUME NEW T \in SUBSET Nat, T # {}
  PROVE  \E n \in T : \A m \in T : n <= m
<1>1. PICK n \in T : \A m \in T : ~ (<<m, n>> \in OpToRel(<, Nat))
  BY NatLessThanWellFounded, WFMin
<1>2. \A m \in T : <<m, n>> \in OpToRel(<, Nat) <=> m < n
  BY DEF OpToRel
<1>3. \A m \in T : ~(m < n)
  BY <1>1, <1>2, Zenon
<1>4. \A m \in T : n <= m
  BY ONLY <1>3, T \in SUBSET Nat, n \in T
<1>5. QED
  BY ONLY <1>4, n \in T

\* Whatever the relation, the choice in order has an outcome: a number is
\* chosen unless one that was chosen before rules it out.
LEMMA ChoiceInOrder ==
  ASSUME NEW R, NEW len \in Nat
  PROVE  \E S \in SUBSET (1..len) : \A i \in 1..len :
           i \in S <=> \A j \in S : j < i => <<j, i>> \notin R
<1> DEFINE Good(n) == \E S \in SUBSET (1..n) : \A i \in 1..n :
                        i \in S <=> \A j \in S : j < i => <<j, i>> \notin R
           Bad == {n \in Nat : ~Good(n)}
<1>1. Bad = {}
  <2>1. SUFFICES ASSUME Bad # {} PROVE FALSE
    OBVIOUS
  <2>2. PICK n \in Bad : \A m \in Bad : n <= m
    BY <2>1, LeastNumber
  <2>3. n \in Nat /\ ~Good(n)
    OBVIOUS
  <2>4. n # 0
    <3>1. Good(0)
      <4>1. {} \in SUBSET (1..0) /\ 1..0 = {}
        OBVIOUS
      <4>2. QED
        BY <4>1
    <3>2. QED
      BY <2>3, <3>1
  <2>5. n - 1 \in Nat /\ Good(n - 1)
    <3>1. n - 1 \in Nat /\ ~(n <= n - 1)
      BY <2>3, <2>4
    <3>2. n - 1 \notin Bad
      BY <2>2, <3>1
    <3>3. QED
      BY <3>1, <3>2
  <2>6. PICK S \in SUBSET (1..(n - 1)) : \A i \in 1..(n - 1) :
          i \in S <=> \A j \in S : j < i => <<j, i>> \notin R
    BY <2>5
  <2> DEFINE W == IF \A j \in S : <<j, n>> \notin R THEN S \cup {n} ELSE S
  <2>7. W \in SUBSET (1..n)
    BY <2>3, <2>4
  <2>8. \A j \in 1..(n - 1) : j \in W <=> j \in S
    BY <2>3
  <2>9. \A i \in 1..(n - 1) : i \in W <=> \A j \in W : j < i => <<j, i>> \notin R
    <3>1. SUFFICES ASSUME NEW i \in 1..(n - 1)
                   PROVE  i \in W <=> \A j \in W : j < i => <<j, i>> \notin R
      OBVIOUS
    <3>2. \A j \in 1..n : j < i => j \in 1..(n - 1)
      BY <2>3
    <3> HIDE DEF W
    <3>3. \A j : (j \in W /\ j < i) <=> (j \in S /\ j < i)
      BY <2>3, <2>7, <2>8, <3>2
    <3>4. QED
      BY <2>6, <2>8, <3>3
  <2>10. n \in W <=> \A j \in W : j < n => <<j, n>> \notin R
    <3>1. n \notin S /\ \A j \in S : j < n
      BY <2>3
    <3>2. \A j \in W : j < n <=> j \in S
      BY <2>3, <3>1
    <3>3. \A j \in S : j \in W
      OBVIOUS
    <3>4. n \in W <=> \A j \in S : <<j, n>> \notin R
      BY <3>1
    <3> HIDE DEF W
    <3>5. QED
      BY <3>1, <3>2, <3>3, <3>4
  <2>11. Good(n)
    <3>1. \A i \in 1..n : i = n \/ i \in 1..(n - 1)
      BY <2>3, <2>4
    <3> HIDE DEF W
    <3>2. \A i \in 1..n : i \in W <=> \A j \in W : j < i => <<j, i>> \notin R
      BY <2>9, <2>10, <3>1
    <3>3. QED
      BY <2>7, <3>2
  <2>12. QED
    BY <2>3, <2>11
<1>2. Good(len)
  BY <1>1
<1>3. QED
  BY <1>2

\* Starts is what its recursion says: a position starts a cluster unless one
\* that starts an earlier cluster is near.
LEMMA StartsEquation ==
  ASSUME NEW fs \in Seq(Feature), NEW z \in Zoom
  PROVE  \A i \in 1..Len(fs) :
           i \in Starts(fs, z) <=>
             \A j \in Starts(fs, z) : j < i => ~Near(fs[j], fs[i], z)
<1> DEFINE len == Len(fs)
           starts == CHOOSE f : f = [i \in 1..Len(fs) |->
                       \A j \in 1..(i - 1) : f[j] => ~Near(fs[j], fs[i], z)]
           R == {p \in (1..len) \X (1..len) : Near(fs[p[1]], fs[p[2]], z)}
<1>1. Starts(fs, z) = {i \in 1..Len(fs) : starts[i]}
  BY DEF Starts
<1>2. len \in Nat
  BY LenProperties
<1>3. PICK S \in SUBSET (1..len) : \A i \in 1..len :
           i \in S <=> \A j \in S : j < i => <<j, i>> \notin R
  BY <1>2, ChoiceInOrder
<1>4. \A i, j \in 1..len : <<j, i>> \in R <=> Near(fs[j], fs[i], z)
  OBVIOUS
<1>5. \A i \in 1..len :
           i \in S <=> \A j \in S : j < i => ~Near(fs[j], fs[i], z)
  BY <1>3, <1>4
<1>6. \E f : f = [i \in 1..Len(fs) |->
                   \A j \in 1..(i - 1) : f[j] => ~Near(fs[j], fs[i], z)]
  <2> DEFINE f == [i \in 1..len |-> IF i \in S THEN TRUE ELSE FALSE]
  <2>1. ASSUME NEW i \in 1..len
        PROVE  (IF i \in S THEN TRUE ELSE FALSE) =
                 \A j \in 1..(i - 1) : f[j] => ~Near(fs[j], fs[i], z)
    <3>1. \A j \in 1..(i - 1) : j \in 1..len /\ j < i
      BY <1>2
    <3>2. \A j \in S : j < i => j \in 1..(i - 1)
      BY <1>2
    <3>3. \A j \in 1..(i - 1) : f[j] <=> j \in S
      BY <3>1
    <3> HIDE DEF f, R
    <3>4. \A j : (j \in 1..(i - 1) /\ f[j]) <=> (j \in S /\ j < i)
      BY <3>1, <3>2, <3>3
    <3>5. i \in S <=> \A j \in 1..(i - 1) : f[j] => ~Near(fs[j], fs[i], z)
      BY <1>5, <3>4, Zenon
    <3>6. QED
      BY <3>5
  <2>2. f = [i \in 1..Len(fs) |->
               \A j \in 1..(i - 1) : f[j] => ~Near(fs[j], fs[i], z)]
    BY <2>1
  <2>3. QED
    BY <2>2
<1>7. starts = [i \in 1..Len(fs) |->
               \A j \in 1..(i - 1) : starts[j] => ~Near(fs[j], fs[i], z)]
  BY <1>6
<1> HIDE DEF starts
<1>8. ASSUME NEW i \in 1..len
      PROVE  starts[i] <=> \A j \in 1..(i - 1) : starts[j] => ~Near(fs[j], fs[i], z)
  BY <1>7
<1>9. ASSUME NEW i \in 1..len
      PROVE  i \in Starts(fs, z) <=>
               \A j \in Starts(fs, z) : j < i => ~Near(fs[j], fs[i], z)
  <2>1. \A j : j \in 1..(i - 1) <=> j \in 1..len /\ j < i
    BY <1>2
  <2>2. QED
    BY <1>1, <1>8, <2>1
<1>10. QED
  BY <1>9
-----------------------------------------------------------------------------
(* What a clustering does with a batch.                                    *)

Batch(fs)     == {fs[i] : i \in DOMAIN fs}
Injective(fs) == \A i, j \in 1..Len(fs) : i # j => fs[i] # fs[j]

\* Every announcement of a batch is in a candidate: it starts one, or joins
\* the first that it is near to.
LEMMA CandidatesCover ==
  ASSUME NEW fs \in Seq(Feature), NEW hid, NEW z \in Zoom
  PROVE  UNION {m.members : m \in Candidates(fs, hid, z)} = Batch(fs)
<1> DEFINE len == Len(fs)
           st == Starts(fs, z)
           cs == Candidates(fs, hid, z)
<1>1. len \in Nat /\ DOMAIN fs = 1..len
  BY LenProperties
<1>2. st \subseteq 1..len
  BY DEF Starts
<1>3. \A m : m \in cs <=> \E i \in st : m = Candidate(fs, st, i, hid, z)
  BY DEF Candidates
<1>4. \A i \in st : Candidate(fs, st, i, hid, z).members = {fs[i]} \cup Joiners(fs, st, i, z)
  BY DEF Candidate
<1>5. ASSUME NEW i \in st PROVE {fs[i]} \cup Joiners(fs, st, i, z) \subseteq Batch(fs)
  <2>1. \A k \in (i + 1)..len : k \in 1..len
    BY <1>1, <1>2
  <2>2. QED
    BY <1>1, <1>2, <2>1 DEF Joiners, Batch
<1>6. ASSUME NEW k \in 1..len
      PROVE  \E i \in st : fs[k] \in {fs[i]} \cup Joiners(fs, st, i, z)
  <2>1. CASE k \in st
    BY <2>1
  <2>2. CASE k \notin st
    <3> DEFINE T == {j \in st : j < k /\ Near(fs[j], fs[k], z)}
    <3>1. T # {}
      BY <2>2, StartsEquation
    <3>2. T \in SUBSET Nat
      BY <1>1, <1>2
    <3>3. PICK i \in T : \A j \in T : i <= j
      BY <3>1, <3>2, LeastNumber
    <3>4. i \in st /\ i < k /\ Near(fs[i], fs[k], z) /\ i \in Nat
      BY <3>2
    <3>5. \A j \in st : j < i => ~Near(fs[j], fs[k], z)
      <4>1. SUFFICES ASSUME NEW j \in st, j < i, Near(fs[j], fs[k], z) PROVE FALSE
        OBVIOUS
      <4>2. j \in Nat /\ k \in Nat
        BY <1>1, <1>2
      <4>3. j < k
        BY <3>4, <4>1, <4>2
      <4>4. j \in T
        BY <4>1, <4>3
      <4>5. i <= j
        BY <3>3, <4>4
      <4>6. QED
        BY <3>4, <4>1, <4>2, <4>5
    <3>6. k \in (i + 1)..len
      BY <1>1, <3>4
    <3>7. fs[k] \in Joiners(fs, st, i, z)
      BY <2>2, <3>4, <3>5, <3>6 DEF Joiners
    <3>8. QED
      BY <3>4, <3>7
  <2>3. QED
    BY <2>1, <2>2
<1> HIDE DEF cs, st
<1>7. ASSUME NEW f \in Batch(fs) PROVE \E m \in cs : f \in m.members
  <2>1. PICK k \in 1..len : f = fs[k]
    BY <1>1 DEF Batch
  <2>2. PICK i \in st : fs[k] \in {fs[i]} \cup Joiners(fs, st, i, z)
    BY <1>6
  <2>3. QED
    BY <1>3, <1>4, <2>1, <2>2
<1>8. ASSUME NEW m \in cs PROVE m.members \subseteq Batch(fs)
  BY <1>3, <1>4, <1>5
<1>9. QED
  BY <1>7, <1>8 DEF cs

\* No announcement of a batch is in two candidates.
LEMMA CandidatesDisjoint ==
  ASSUME NEW fs \in Seq(Feature), Injective(fs), NEW hid, NEW z \in Zoom,
         NEW m \in Candidates(fs, hid, z), NEW n \in Candidates(fs, hid, z),
         m # n
  PROVE  m.members \cap n.members = {}
<1> DEFINE len == Len(fs)
           st == Starts(fs, z)
           of(i) == {fs[i]} \cup Joiners(fs, st, i, z)
<1>1. len \in Nat /\ st \subseteq 1..len
  BY LenProperties DEF Starts
<1>2. PICK i \in st : m = Candidate(fs, st, i, hid, z)
  BY DEF Candidates
<1>3. PICK k \in st : n = Candidate(fs, st, k, hid, z)
  BY DEF Candidates
<1>4. m.members = of(i) /\ n.members = of(k) /\ i # k
  BY <1>2, <1>3 DEF Candidate
<1>5. ASSUME NEW a \in st, NEW b \in st, a < b PROVE of(a) \cap of(b) = {}
  <2>1. a \in Nat /\ b \in Nat /\ a \in 1..len /\ b \in 1..len
    BY <1>1
  <2>2. ASSUME NEW f \in of(a), NEW c \in 1..len, f = fs[c],
               c = b \/ (c \notin st /\ \A j \in st : j < b => ~Near(fs[j], fs[c], z))
        PROVE  FALSE
    <3>1. CASE f = fs[a]
      <4>1. c = a
        BY <2>1, <2>2, <3>1 DEF Injective
      <4>2. QED
        BY <1>5, <2>1, <2>2, <4>1
    <3>2. CASE f \in Joiners(fs, st, a, z)
      <4>1. PICK d \in (a + 1)..len : d \notin st /\ Near(fs[a], fs[d], z) /\ f = fs[d]
        BY <3>2 DEF Joiners
      <4>2. d \in 1..len
        BY <1>1, <2>1
      <4>3. d = c
        BY <2>2, <4>1, <4>2 DEF Injective
      <4>4. QED
        BY <1>5, <2>2, <4>1, <4>3
    <3>3. QED
      BY <3>1, <3>2
  <2>3. ASSUME NEW f \in of(b)
        PROVE  \E c \in 1..len : /\ f = fs[c]
                                 /\ \/ c = b
                                    \/ c \notin st /\ \A j \in st : j < b => ~Near(fs[j], fs[c], z)
    <3>1. CASE f = fs[b]
      BY <2>1, <3>1
    <3>2. CASE f \in Joiners(fs, st, b, z)
      <4>1. \A c \in (b + 1)..len : c \in 1..len
        BY <1>1, <2>1
      <4>2. QED
        BY <3>2, <4>1 DEF Joiners
    <3>3. QED
      BY <3>1, <3>2
  <2>4. QED
    BY <2>2, <2>3
<1>6. i < k \/ k < i
  BY <1>1, <1>4
<1>7. QED
  BY <1>4, <1>5, <1>6

\* Recount leaves the members alone.
LEMMA RecountMembers ==
  ASSUME NEW m, NEW hid
  PROVE  Recount(m, hid).members = m.members
  BY DEF Recount

\* Nor does counting them all again.
LEMMA RecountAllMembers ==
  ASSUME NEW ms, NEW hid
  PROVE  /\ \A r \in RecountAll(ms, hid) : \E m \in ms :
              r = Recount(m, hid) /\ r.members = m.members
         /\ UNION {m.members : m \in RecountAll(ms, hid)} = UNION {m.members : m \in ms}
  BY RecountMembers DEF RecountAll

\* After a clustering the layer has the whole batch, every announcement once.
LEMMA ReclusterOnce ==
  ASSUME NEW fs \in Seq(Feature), Injective(fs), NEW hid, NEW z \in Zoom,
         Recluster(fs, hid, z)
  PROVE  /\ OnLayer(singles', clusters') = Batch(fs)
         /\ \A m, n \in clusters' : m # n => m.members \cap n.members = {}
         /\ \A m \in clusters' : m.members \cap singles' = {}
<1> DEFINE cs == Candidates(fs, hid, z)
           hi == HideThemes(hid, OnLayer(Broken(cs), Kept(cs)))
<1>1. singles' = Broken(cs) /\ clusters' = RecountAll(Kept(cs), hi)
  BY DEF Recluster
<1>2. Kept(cs) \subseteq cs /\ Broken(cs) = UNION {m.members : m \in cs \ Kept(cs)}
  BY DEF Kept, Broken
<1>3. UNION {m.members : m \in cs} = Batch(fs)
  BY CandidatesCover
<1>4. \A m, n \in cs : m # n => m.members \cap n.members = {}
  BY CandidatesDisjoint
<1> HIDE DEF cs, hi
<1>5. /\ \A r \in clusters' : \E m \in Kept(cs) : r = Recount(m, hi) /\ r.members = m.members
      /\ UNION {m.members : m \in clusters'} = UNION {m.members : m \in Kept(cs)}
  BY <1>1, RecountAllMembers
<1>6. OnLayer(singles', clusters') = Batch(fs)
  <2>1. OnLayer(singles', clusters') =
          (UNION {m.members : m \in cs \ Kept(cs)}) \cup UNION {m.members : m \in Kept(cs)}
    BY <1>1, <1>2, <1>5 DEF OnLayer
  <2>2. (UNION {m.members : m \in cs \ Kept(cs)}) \cup UNION {m.members : m \in Kept(cs)}
          = UNION {m.members : m \in cs}
    BY <1>2
  <2>3. QED
    BY <1>3, <2>1, <2>2
<1>7. \A m, n \in clusters' : m # n => m.members \cap n.members = {}
  BY <1>2, <1>4, <1>5
<1>8. \A m \in clusters' : m.members \cap singles' = {}
  BY <1>1, <1>2, <1>4, <1>5
<1>9. QED
  BY <1>6, <1>7, <1>8

\* Announcements that are left on their own, and visible, are not near to each
\* other: each started a candidate that no other visible one joined.
LEMMA SinglesApart ==
  ASSUME NEW fs \in Seq(Feature), NEW hid, NEW z \in Zoom,
         NEW f \in Broken(Candidates(fs, hid, z)) \ hid,
         NEW g \in Broken(Candidates(fs, hid, z)) \ hid, f # g
  PROVE  ~Near(f, g, z)
<1> DEFINE len == Len(fs)
           st == Starts(fs, z)
           cs == Candidates(fs, hid, z)
<1>1. len \in Nat /\ st \subseteq 1..len /\ \A i \in 1..len : fs[i] \in Feature
  BY LenProperties, ElementOfSeq DEF Starts
<1>2. ASSUME NEW h \in Broken(cs) \ hid PROVE \E i \in st : h = fs[i]
  <2>1. PICK i \in st : /\ Candidate(fs, st, i, hid, z) \notin Kept(cs)
                        /\ h \in Candidate(fs, st, i, hid, z).members
    BY DEF Broken, Candidates
  <2> DEFINE js == Joiners(fs, st, i, z)
  <2>2. js \subseteq Feature
    <3>1. \A k \in (i + 1)..len : k \in 1..len
      BY <1>1
    <3>2. QED
      BY <1>1, <3>1 DEF Joiners
  <2>3. IsFiniteSet(js \ hid) /\ Cardinality(js \ hid) \in Nat
    BY <2>2, FiniteFeatures
  <2>4. Candidate(fs, st, i, hid, z) \in cs
    BY DEF Candidates
  <2>5. ~(1 + Cardinality(js \ hid) >= 2)
    BY <2>1, <2>4 DEF Kept, Threshold, Candidate
  <2>6. Cardinality(js \ hid) = 0
    BY <2>3, <2>5
  <2>7. js \ hid = {}
    BY <2>3, <2>6, FS_EmptySet
  <2>8. h \in {fs[i]} \cup js
    BY <2>1 DEF Candidate
  <2>9. QED
    BY <2>7, <2>8
<1>3. PICK i \in st : f = fs[i]
  BY <1>2
<1>4. PICK k \in st : g = fs[k]
  BY <1>2
<1>5. i < k \/ k < i
  BY <1>1, <1>3, <1>4
<1>6. ~Near(fs[i], fs[k], z) \/ ~Near(fs[k], fs[i], z)
  BY <1>1, <1>5, StartsEquation
<1>7. Pos[f] \in Int /\ Pos[g] \in Int /\ Distance[z] \in Int
  BY <1>1, <1>3, <1>4, DataAssumption, MapAssumption
<1>8. QED
  BY <1>3, <1>4, <1>6, <1>7 DEF Near

\* A sorted batch has every announcement it sorts, once.
LEMMA SortOrdersOnce ==
  ASSUME NEW S \in SUBSET Feature, NEW e, NEW z, NEW fs \in SortOrders(S, e, z)
  PROVE  fs \in Seq(Feature) /\ Injective(fs) /\ Batch(fs) = S
<1> DEFINE n == Cardinality(S)
<1>1. n \in Nat /\ IsFiniteSet(S)
  BY FiniteFeatures
<1>2. fs \in [1..n -> S] /\ \A i, j \in 1..n : i < j => fs[i] # fs[j]
  BY DEF SortOrders
<1>3. fs \in Seq(Feature)
  BY SortOrdersType
<1>4. Len(fs) = n /\ DOMAIN fs = 1..n
  BY <1>1, <1>2, <1>3, LenProperties
<1>5. \A i, j \in 1..n : i # j => fs[i] # fs[j]
  <2>1. SUFFICES ASSUME NEW i \in 1..n, NEW j \in 1..n, i # j PROVE fs[i] # fs[j]
    OBVIOUS
  <2>2. i < j \/ j < i
    BY <1>1, <2>1
  <2>3. QED
    BY <1>2, <2>2
<1>6. Injective(fs)
  BY <1>4, <1>5 DEF Injective
<1>7. fs \in Injection(1..n, S)
  BY <1>2, <1>5 DEF Injection, IsInjective
<1>8. Cardinality(1..n) = n
  <2>1. 1 \in Int /\ n \in Int
    BY <1>1
  <2>2. QED
    BY <1>1, <2>1, FS_Interval
<1>9. fs \in Surjection(1..n, S)
  BY <1>1, <1>7, <1>8, FS_Injection
<1>10. Batch(fs) = S
  BY <1>2, <1>4, <1>9 DEF Surjection, Batch
<1>11. QED
  BY <1>3, <1>6, <1>10

-----------------------------------------------------------------------------
(* What is on the layer, in relation to what was asked for.                *)

\* The layer asks for what is on screen before it is on screen, and has what
\* it asked for when the read has ended well.
AskedFor ==
  /\ response # None => response = bounds
  /\ zoom # None => centre \in Centre
  /\ zoom \in InRange => bounds # None /\ Contains(bounds, Extent(centre, zoom))

HasAnswer ==
  response = None /\ ~lost /\ bounds # None =>
    FeaturesIn(bounds) \subseteq OnLayer(singles, clusters)

\* The inductive invariant for what is on the layer, next to IInv.
LInv == EachOnceOrNone /\ Injective(cached) /\ AskedFor /\ HasAnswer

\* An interval within another has no announcement that the other has not.
LEMMA WithinInterval ==
  ASSUME NEW b \in Interval, NEW e \in Interval, Contains(b, e)
  PROVE  FeaturesIn(e) \subseteq FeaturesIn(b)
<1>1. \A f \in Feature : Pos[f] \in Int
  BY DataAssumption
<1>2. QED
  BY <1>1 DEF Contains, FeaturesIn, Interval

\* The bounds that are asked for hold the screen.
LEMMA ExtentOK ==
  ASSUME NEW c \in Centre, NEW z \in Zoom
  PROVE  /\ Extent(c, z) \in Interval /\ DataBounds(c, z) \in Interval
         /\ Contains(DataBounds(c, z), Extent(c, z))
<1>1. c \in Int /\ Half[z] \in Nat
  BY MapAssumption
<1>2. QED
  BY <1>1 DEF Extent, DataBounds, Contains, Interval

LEMMA LInitOK == Init => LInv
<1> SUFFICES ASSUME Init PROVE LInv
  OBVIOUS
<1>1. EachOnceOrNone
  BY DEF Init, EachOnceOrNone, OnLayer
<1>2. Injective(cached)
  BY LenProperties, EmptySeq DEF Init, Injective
<1>3. AskedFor /\ HasAnswer
  BY NoneAssumption, MapAssumption DEF Init, AskedFor, HasAnswer
<1>4. QED
  BY <1>1, <1>2, <1>3 DEF LInv

\* A layer with the members it had still has each announcement once.
LEMMA OnceAgain ==
  ASSUME LInv, cached \in Seq(Feature), NEW hid, NEW z \in Zoom,
         Recluster(cached, hid, z), cached' = cached
  PROVE  /\ EachOnceOrNone' /\ Injective(cached)'
         /\ OnLayer(singles, clusters) \subseteq OnLayer(singles', clusters')
<1>1. Injective(cached)
  BY DEF LInv
<1>2. /\ OnLayer(singles', clusters') = Batch(cached)
      /\ \A m, n \in clusters' : m # n => m.members \cap n.members = {}
      /\ \A m \in clusters' : m.members \cap singles' = {}
  BY <1>1, ReclusterOnce
<1>3. EachOnceOrNone'
  BY <1>2 DEF EachOnceOrNone, Batch
<1>4. OnLayer(singles, clusters) \in {{}, Batch(cached)}
  BY DEF LInv, EachOnceOrNone, Batch
<1>5. QED
  BY <1>1, <1>2, <1>3, <1>4

LEMMA LMoveOK ==
  ASSUME IInv, LInv, NEW c \in Centre, NEW z \in Zoom, Move(c, z)
  PROVE  LInv'
<1>1. /\ centre' = c /\ zoom' = z
      /\ legend' = legend /\ cached' = cached /\ lost' = lost
  BY DEF Move
<1>2. cached \in Seq(Feature)
  BY DEF IInv, TypeOK
<1>3. /\ EachOnceOrNone' /\ Injective(cached)'
      /\ OnLayer(singles, clusters) \subseteq OnLayer(singles', clusters')
  <2>1. CASE UNCHANGED <<resolution, hidden, singles, clusters>>
    BY <1>1, <2>1 DEF LInv, EachOnceOrNone
  <2>2. CASE Recluster(cached, hidden, z)
    BY <1>1, <1>2, <2>2, OnceAgain
  <2>3. CASE ReapplyThemes
    BY <1>1, <2>1, <2>3, ReapplyOK
  <2>4. QED
    BY <2>1, <2>2, <2>3 DEF Move, ClusterMoveend
<1>4. AskedFor'
  <2>1. z \in InRange => BBOXMoveend(c, z)
    BY DEF Move
  <2>2. z \notin InRange => UNCHANGED <<bounds, response>>
    BY DEF Move, loadVars
  <2>3. (response # None => response = bounds)'
    BY <2>1, <2>2 DEF BBOXMoveend, loadVars, LInv, AskedFor
  <2>4. z \in InRange => bounds' # None /\ Contains(bounds', Extent(c, z))
    BY <2>1, ExtentOK, NoneAssumption DEF BBOXMoveend, InvalidBounds, loadVars, Interval
  <2>5. QED
    BY <1>1, <2>3, <2>4 DEF AskedFor
<1>5. HasAnswer'
  <2>1. CASE UNCHANGED <<bounds, response>>
    BY <1>1, <1>3, <2>1 DEF LInv, HasAnswer
  <2>2. CASE response' = DataBounds(c, z)
    BY <2>2, ExtentOK, NoneAssumption DEF HasAnswer, Interval
  <2>3. QED
    BY <2>1, <2>2 DEF Move, BBOXMoveend, loadVars
<1>6. QED
  BY <1>3, <1>4, <1>5 DEF LInv

LEMMA LToggleOK ==
  ASSUME LInv, NEW c \in Class, Toggle(c)
  PROVE  LInv'
<1> DEFINE hi == HideTheme(hidden, c, ~legend[c], OnLayer(singles, clusters))
<1>1. /\ clusters' = RecountAll(clusters, hi)
      /\ UNCHANGED <<centre, zoom, bounds, response, lost, cached, singles>>
  BY DEF Toggle, mapVars, loadVars
<1> HIDE DEF hi
<1>2. /\ \A r \in clusters' : \E m \in clusters : r = Recount(m, hi) /\ r.members = m.members
      /\ UNION {m.members : m \in clusters'} = UNION {m.members : m \in clusters}
  BY <1>1, RecountAllMembers
<1>3. OnLayer(singles', clusters') = OnLayer(singles, clusters)
  BY <1>1, <1>2 DEF OnLayer
<1>4. EachOnceOrNone'
  BY <1>1, <1>2, <1>3 DEF LInv, EachOnceOrNone
<1>5. QED
  BY <1>1, <1>3, <1>4 DEF LInv, AskedFor, HasAnswer

LEMMA LMergeFeaturesOK ==
  ASSUME IInv, LInv, MergeFeatures
  PROVE  LInv' /\ OnLayer(singles', clusters') = FeaturesIn(bounds)
<1> DEFINE new == FeaturesIn(response)
           off == {f \in new : ~legend[Cat[f]]}
<1>1. new \in SUBSET Feature
  BY DEF FeaturesIn
<1>2. PICK fs \in SortOrders(new, Extent(centre, zoom), zoom) :
             cached' = fs /\ Recluster(fs, off, zoom)
  BY DEF MergeFeatures
<1>3. fs \in Seq(Feature) /\ Injective(fs) /\ Batch(fs) = new
  BY <1>1, SortOrdersOnce
<1>4. /\ response # None /\ response' = None
      /\ UNCHANGED <<centre, zoom, bounds>>
  BY DEF MergeFeatures, mapVars
<1>5. zoom \in Zoom /\ response = bounds
  BY <1>4 DEF IInv, ViewKnown, LInv, AskedFor
<1>6. /\ OnLayer(singles', clusters') = Batch(fs)
      /\ \A m, n \in clusters' : m # n => m.members \cap n.members = {}
      /\ \A m \in clusters' : m.members \cap singles' = {}
  BY <1>2, <1>3, <1>5, ReclusterOnce
<1>7. EachOnceOrNone'
  BY <1>2, <1>6 DEF EachOnceOrNone, Batch
<1>8. OnLayer(singles', clusters') = FeaturesIn(bounds)
  BY <1>3, <1>5, <1>6
<1>9. AskedFor' /\ HasAnswer'
  BY <1>4, <1>8 DEF LInv, AskedFor, HasAnswer
<1>10. QED
  BY <1>2, <1>3, <1>7, <1>8, <1>9 DEF LInv

LEMMA LMergeNothingOK ==
  ASSUME LInv, MergeNothing, response # None, lost' \/ FeaturesIn(response) = {}
  PROVE  LInv'
<1>1. /\ response' = None /\ singles' = {} /\ clusters' = {}
      /\ UNCHANGED <<centre, zoom, bounds, cached>>
  BY DEF MergeNothing, mapVars
<1>2. OnLayer(singles', clusters') = {}
  BY <1>1 DEF OnLayer
<1>3. EachOnceOrNone'
  BY <1>1, <1>2 DEF EachOnceOrNone
<1>4. response = bounds
  BY DEF LInv, AskedFor
<1>5. QED
  BY <1>1, <1>2, <1>3, <1>4 DEF LInv, AskedFor, HasAnswer

\* Every step keeps what is on the layer right.
LEMMA LStepOK == IInv /\ LInv /\ [Next]_vars => LInv'
<1> SUFFICES ASSUME IInv, LInv, [Next]_vars PROVE LInv'
  OBVIOUS
<1>1. CASE \E c \in Centre, z \in Zoom : Move(c, z)
  BY <1>1, LMoveOK
<1>2. CASE \E c \in Class : Toggle(c)
  BY <1>2, LToggleOK
<1>3. CASE MergeFeatures
  BY <1>3, LMergeFeaturesOK
<1>4. CASE EmptyAnswer \/ FailedRequest
  BY <1>4, LMergeNothingOK DEF EmptyAnswer, FailedRequest
<1>5. CASE UNCHANGED vars
  BY <1>5 DEF vars, mapVars, loadVars, layerVars, LInv, EachOnceOrNone, AskedFor,
              HasAnswer
<1>6. QED
  BY <1>1, <1>2, <1>3, <1>4, <1>5 DEF Next

\* What is on the layer, and what it was asked for, always.
THEOREM LayerInvariant == Spec => [](IInv /\ LInv)
  BY InitOK, StepOK, LInitOK, LStepOK, PTL DEF Spec

\* The layer shows the whole cached batch or nothing, and no announcement
\* has two markers (Cluster.cluster and the threshold).
THEOREM EachOnceAlways == Spec => []EachOnceOrNone
<1>1. LInv => EachOnceOrNone
  BY DEF LInv
<1>2. QED
  BY <1>1, LayerInvariant, PTL

\* Unless the last read failed or one is under way, every announcement on
\* screen is on the layer (BBOX.update, merge).
THEOREM ScreenAlwaysComplete == Spec => []ScreenIsComplete
<1>1. IInv /\ LInv => ScreenIsComplete
  <2> SUFFICES ASSUME IInv, LInv, zoom \in InRange, response = None, ~lost
               PROVE  FeaturesIn(Extent(centre, zoom)) \subseteq OnLayer(singles, clusters)
    BY DEF ScreenIsComplete
  <2>1. zoom \in Zoom /\ zoom # None
    BY MapAssumption, NoneAssumption
  <2>2. centre \in Centre /\ bounds # None /\ Contains(bounds, Extent(centre, zoom))
    BY <2>1 DEF LInv, AskedFor
  <2>3. bounds \in Interval /\ Extent(centre, zoom) \in Interval
    BY <2>1, <2>2, ExtentOK DEF IInv, TypeOK
  <2>4. FeaturesIn(Extent(centre, zoom)) \subseteq FeaturesIn(bounds)
    BY <2>2, <2>3, WithinInterval
  <2>5. FeaturesIn(bounds) \subseteq OnLayer(singles, clusters)
    BY <2>2 DEF LInv, HasAnswer
  <2>6. QED
    BY <2>4, <2>5
<1>2. QED
  BY <1>1, LayerInvariant, PTL

\* A clustering by styles that agree with the legend leaves no two visible
\* announcements on their own that are near to each other.
LEMMA ClusteringParts ==
  ASSUME NEW fs \in Seq(Feature), NEW hid, NEW z \in Zoom,
         Recluster(fs, hid, z), legend' = legend, zoom' = z,
         \A f \in Batch(fs) : f \in hid <=> ~legend[Cat[f]]
  PROVE  NoOverlap'
<1> DEFINE cs == Candidates(fs, hid, z)
           on == OnLayer(Broken(cs), Kept(cs))
<1>1. singles' = Broken(cs) /\ hidden' = HideThemes(hid, on)
  BY DEF Recluster
<1>2. Broken(cs) \subseteq on /\ Broken(cs) \subseteq Batch(fs)
  BY CandidatesCover DEF OnLayer, Broken
<1>3. ASSUME NEW f \in singles' \ hidden' PROVE f \in Broken(cs) \ hid
  <2>1. f \in on /\ f \in Batch(fs) /\ f \in Broken(cs)
    BY <1>1, <1>2
  <2>2. legend[Cat[f]]
    BY <1>1, <2>1 DEF HideThemes
  <2>3. QED
    BY <2>1, <2>2
<1>4. \A f, g \in singles' \ hidden' : f # g => ~Near(f, g, z)
  BY <1>3, SinglesApart
<1>5. QED
  BY <1>4 DEF NoOverlap

\* Clustered again by a move, the batch has the styles of the legend, or
\* there is nothing on screen: after an empty answer.
LEMMA MoveParts ==
  ASSUME IInv, LInv, NEW c \in Centre, NEW z \in Zoom, Move(c, z),
         response' = None, ~lost', resolution' # resolution \/ cached' # cached
  PROVE  NoOverlap'
<1>1. /\ centre' = c /\ zoom' = z /\ legend' = legend /\ cached' = cached
      /\ lost' = lost
  BY DEF Move
<1>2. z \in InRange /\ Recluster(cached, hidden, z)
  <2>1. ~UNCHANGED <<resolution, hidden, singles, clusters>>
    BY <1>1
  <2>2. ~ReapplyThemes
    BY <1>1, <2>1, ReapplyOK
  <2>3. QED
    BY <2>1, <2>2 DEF Move, ClusterMoveend
<1>3. cached \in Seq(Feature)
  BY DEF IInv, TypeOK
<1>4. CASE OnLayer(singles, clusters) = Batch(cached)
  <2>1. \A f \in Batch(cached) : f \in hidden <=> ~legend[Cat[f]]
    BY <1>4 DEF IInv, HiddenMatchesLegend
  <2>2. QED
    BY <1>1, <1>2, <1>3, <2>1, ClusteringParts
<1>5. CASE OnLayer(singles, clusters) = {}
  <2>1. BBOXMoveend(c, z)
    BY <1>2 DEF Move
  <2>2. ~InvalidBounds(Extent(c, z)) /\ UNCHANGED <<bounds, response>>
    BY <2>1, ExtentOK, NoneAssumption DEF BBOXMoveend, loadVars, Interval
  <2>3. bounds # None /\ Contains(bounds, Extent(c, z))
    BY <2>2 DEF InvalidBounds
  <2>4. FeaturesIn(Extent(c, z)) \subseteq FeaturesIn(bounds)
    BY <2>3, ExtentOK, WithinInterval DEF IInv, TypeOK
  <2>5. FeaturesIn(bounds) = {}
    BY <1>1, <1>5, <2>2, <2>3 DEF LInv, HasAnswer
  <2>6. QED
    BY <1>1, <2>4, <2>5 DEF NoOverlap
<1>6. QED
  BY <1>4, <1>5 DEF LInv, EachOnceOrNone, Batch

LEMMA PartsStep ==
  ASSUME IInv, LInv, [Next]_vars, response' = None, ~lost',
         resolution' # resolution \/ cached' # cached
  PROVE  NoOverlap'
<1>1. CASE \E c \in Centre, z \in Zoom : Move(c, z)
  BY <1>1, MoveParts
<1>2. CASE MergeFeatures
  <2> DEFINE new == FeaturesIn(response)
             off == {f \in new : ~legend[Cat[f]]}
  <2>1. PICK fs \in SortOrders(new, Extent(centre, zoom), zoom) :
               cached' = fs /\ Recluster(fs, off, zoom)
    BY <1>2 DEF MergeFeatures
  <2>2. fs \in Seq(Feature) /\ Batch(fs) = new
    BY SortOrdersOnce DEF FeaturesIn
  <2>3. zoom \in Zoom /\ legend' = legend /\ zoom' = zoom
    BY <1>2 DEF MergeFeatures, mapVars, IInv, ViewKnown
  <2>4. QED
    BY <2>1, <2>2, <2>3, ClusteringParts
<1>3. CASE (\E c \in Class : Toggle(c)) \/ EmptyAnswer \/ FailedRequest \/ UNCHANGED vars
  BY <1>3 DEF Toggle, EmptyAnswer, FailedRequest, MergeNothing, vars, layerVars
<1>4. QED
  BY <1>1, <1>2, <1>3 DEF Next

\* When a clustering is done, the last read succeeded and none is under way,
\* no two visible single markers on screen are near to each other
\* (Cluster.cluster, createCluster, addToCluster).
THEOREM NoOverlapAlways == Spec => NoOverlapAfterClustering
<1>1. IInv /\ LInv /\ [Next]_vars =>
        [response' = None /\ ~lost' /\ (resolution' # resolution \/ cached' # cached)
           => NoOverlap']_vars
  BY PartsStep
<1>2. QED
  BY <1>1, LayerInvariant, PTL DEF Spec, NoOverlapAfterClustering
=============================================================================
