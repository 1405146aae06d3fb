--------------------------- MODULE ServerSideLayer --------------------------
(***************************************************************************)
(* A layer of server-side clusters (provincie, gemeente or wijk in         *)
(* misc/settings.js): the WFS gives every area its total number of         *)
(* announcements and the number per theme, and Strategy.ServerSideCluster  *)
(* keeps the total in step with the legend by adding and subtracting the   *)
(* numbers of the themes that are switched on and off.                     *)
(*                                                                         *)
(* Bounds and sorting are left out: a read gives all areas or none.        *)
(***************************************************************************)
EXTENDS Legend, Anchor

CONSTANTS
  Area,     \* the areas the WFS knows
  Amount,   \* Amount[a][c]: the attribute aantal_<c> of area a, or Absent
  Other,    \* Other[a]: its announcements that belong to no theme
  Absent    \* an attribute the WFS leaves out

\* The anchor of an area.
AreaNode == [title : Nat, look : {"cluster"}, text : Nat]

ASSUME ServerAssumption ==
  /\ Amount \in [Area -> [Class -> Nat \cup {Absent}]]
  /\ Other \in [Area -> Nat]
  /\ NoNode \notin AreaNode

VARIABLES
  inRange,  \* layer.inRange: does the zoom level show this layer?
  asked,    \* is a read in flight?
  loaded,   \* are the areas on the layer?
  count,    \* count[a]: the attribute totaal_aantal
  styled,   \* styled[a]: has the area the style {display: 'none'}?
  drawn,    \* drawn[a]: the anchor of the area
  sight     \* the areas within the extent of the renderer

serverVars == <<inRange, asked, loaded, count, styled, drawn, sight>>

-----------------------------------------------------------------------------
Present(a, c) == Amount[a][c] # Absent

\* The numbers of area a for the themes in cs, up to the n-th of the legend.
Sums(a, cs) ==
  LET sum[n \in 0..Len(Theme)] ==
        IF n = 0 THEN 0
        ELSE IF Theme[n] \in cs /\ Present(a, Theme[n])
               THEN sum[n - 1] + Amount[a][Theme[n]]
               ELSE sum[n - 1]
  IN  sum

Sum(a, cs) == Sums(a, cs)[Len(Theme)]

\* The attribute totaal_aantal as the WFS sends it.
Total(a) == Other[a] + Sum(a, Class)

\* Slip: a theme that is on is always added, also to a total that has it.
NewCountAlwaysAdds(a, n, c, visible, subtractOnly) ==
  IF visible THEN n + Amount[a][c] ELSE n - Amount[a][c]

\* onUpdateThemeVisibility for one area f = [count, styled].  An attribute
\* that is there counts, also when it is "0": a non-empty string is true.
NewCount(a, n, c, visible, subtractOnly) ==
  CASE ~visible                 -> n - Amount[a][c]
    [] visible /\ subtractOnly  -> n
    [] OTHER                    -> n + Amount[a][c]

\* Slip: a theme that is on is taken off.
UpdateSubtracts(a, f, c, visible, subtractOnly) ==
  IF ~Present(a, c) THEN f
  ELSE LET n == f.count - Amount[a][c]
       IN  [count |-> n, styled |-> ~f.styled /\ n = 0]

\* !feature.style && cnt === 0 sets the style, otherwise any style goes.
Update(a, f, c, visible, subtractOnly) ==
  IF ~Present(a, c) THEN f
  ELSE LET n == NewCount(a, f.count, c, visible, subtractOnly)
       IN  [count |-> n, styled |-> ~f.styled /\ n = 0]

\* updateVisibility: every theme in turn, as the legend has it now; area a
\* after the n-th theme.
Arriving(a) ==
  LET after[n \in 0..Len(Theme)] ==
        IF n = 0 THEN [count |-> Total(a), styled |-> FALSE]
        ELSE Update(a, after[n - 1], Theme[n], legend[Theme[n]], TRUE)
  IN  after

Arrive(a) == Arriving(a)[Len(Theme)]

\* layer.drawFeature for area a, as f, with its anchor n and what is in view.
Draw(n, a, f, view) ==
  DrawFeature(n, ~f.styled /\ a \in view, f.count, "cluster", f.count)

Now(a) == [count |-> count[a], styled |-> styled[a]]

-----------------------------------------------------------------------------
ServerInit ==
  /\ inRange \in BOOLEAN
  /\ asked   = FALSE
  /\ loaded  = FALSE
  /\ count   = [a \in Area |-> 0]
  /\ styled  = [a \in Area |-> FALSE]
  /\ drawn   = [a \in Area |-> NoNode]
  /\ sight   = {}

\* Slip: a layer that comes into range is not drawn again.
ServerMoveWithoutDrawing(range, read, view) ==
  /\ inRange' = range
  /\ asked'   = (asked \/ (range /\ read))
  /\ sight'   = IF range THEN view ELSE sight
  /\ UNCHANGED <<legend, loaded, count, styled, drawn>>

\* Map.moveTo to a zoom level that shows the layer or does not.  When the
\* layer is shown its features are drawn again, and BBOX may read.
ServerMove(range, read, view) ==
  /\ inRange' = range
  /\ IF range
       THEN /\ sight' = view
            /\ drawn' = [a \in Area |->
                           IF loaded THEN Draw(drawn[a], a, Now(a), view)
                                     ELSE NoNode]
            /\ asked' = (asked \/ read)
       ELSE UNCHANGED <<drawn, asked, sight>>
  /\ UNCHANGED <<legend, loaded, count, styled>>

\* Legend.handleClick, for this layer: drawn again only when it is in range.
ServerToggle(c) ==
  LET new(a) == IF loaded THEN Update(a, Now(a), c, ~legend[c], FALSE)
                          ELSE Now(a)
  IN  /\ count'  = [a \in Area |-> new(a).count]
      /\ styled' = [a \in Area |-> new(a).styled]
      /\ drawn'  = [a \in Area |->
                      IF loaded /\ Present(a, c) /\ inRange
                        THEN Draw(drawn[a], a, new(a), sight)
                        ELSE drawn[a]]
      /\ UNCHANGED <<inRange, asked, loaded, sight>>

\* BBOX.merge: the old areas go, the new ones pass updateVisibility.
ServerMerge ==
  /\ asked
  /\ asked'  = FALSE
  /\ loaded' = TRUE
  /\ count'  = [a \in Area |-> Arrive(a).count]
  /\ styled' = [a \in Area |-> Arrive(a).styled]
  /\ drawn'  = [a \in Area |-> Draw(NoNode, a, Arrive(a), sight)]
  /\ UNCHANGED <<legend, inRange, sight>>

\* BBOX.merge of a failed read: the old areas go.
ServerMergeNothing ==
  /\ asked
  /\ asked'  = FALSE
  /\ loaded' = FALSE
  /\ count'  = [a \in Area |-> 0]
  /\ styled' = [a \in Area |-> FALSE]
  /\ drawn'  = [a \in Area |-> NoNode]
  /\ UNCHANGED <<legend, inRange, sight>>

-----------------------------------------------------------------------------
\* The type invariant.
ServerTypeOK ==
  /\ {inRange, asked, loaded} \subseteq BOOLEAN
  /\ count  \in [Area -> Nat]
  /\ styled \in [Area -> BOOLEAN]
  /\ drawn  \in [Area -> AreaNode \cup {NoNode}]
  /\ sight  \subseteq Area

\* Adding and subtracting stays exact: however often themes were switched,
\* and whatever the legend said when the areas arrived, an area counts the
\* announcements of the themes that are on, and those that have no theme.
CountIsVisibleSum ==
  loaded => \A a \in Area :
    count[a] = Other[a] + Sum(a, {c \in Class : legend[c]})

\* When the layer is on screen its markers show the counts of this moment,
\* although a click while it was not on screen drew nothing, and although the
\* renderer reuses the anchors there are.  An area in view with announcements
\* to show is never left hidden.
ScreenIsCurrent ==
  loaded /\ inRange =>
    \A a \in Area :
      /\ drawn[a] # NoNode <=> ~styled[a] /\ a \in sight
      /\ a \in sight /\ count[a] # 0 =>
           drawn[a] # NoNode /\ drawn[a].text = count[a]

\* "tell the renderer we do not want to draw server-side clusters of count
\* 0": an area without announcements to show is hidden.
ZeroHidden ==
  loaded => \A a \in Area : count[a] = 0 => styled[a]
=============================================================================
