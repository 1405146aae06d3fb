------------------------------ MODULE AreaQuery -----------------------------
(***************************************************************************)
(* VlakGerichteWFSClientServlet: which announcements about an area belong  *)
(* to a bounding box.  Three queries are put together, with a box that is  *)
(* shrunk by a percentage of its width on each side ("AOI centrum, midden  *)
(* and rand" in web.xml).                                                  *)
(*                                                                         *)
(* An area is the set of its points.  Shrunk boxes are in hundredths of    *)
(* the unit of the points, so that percentages are exact.                  *)
(***************************************************************************)
EXTENDS Integers

CONSTANTS
  Area,              \* the announcements about an area that the WFS has
  Shape,             \* Shape[a]: the points of its geometry
  Surface,           \* Surface[a]: the attribute oppervlak
  RelevantDivisor,   \* 1 / relevantieFactor
  Centrum, Midden, Rand   \* centrumPerc, middenPerc and randPerc, in percents

ASSUME AreaAssumption ==
  /\ Shape   \in [Area -> SUBSET (Int \X Int)]
  /\ Surface \in [Area -> Nat]
  /\ RelevantDivisor \in Nat \ {0}
  /\ {Centrum, Midden, Rand} \subseteq Nat

\* web.xml: each factor must be greater than the one above.
Ascending == Centrum < Midden /\ Midden < Rand

\* Percentages: no factor takes more than a whole width off a side.
Percentages == Centrum <= 100 /\ Midden <= 100 /\ Rand <= 100

Box == {b \in [minx : Int, miny : Int, maxx : Int, maxy : Int] :
          b.minx <= b.maxx /\ b.miny <= b.maxy}

\* The bbox of a request with coordinates and a radius.
BoxAround(p, straal) ==
  [minx |-> p[1] - straal \div 2, miny |-> p[2] - straal \div 2,
   maxx |-> p[1] + straal \div 2, maxy |-> p[2] + straal \div 2]

-----------------------------------------------------------------------------
\* bepaalRelevanteOppervlakte.
Relevant(a, b) ==
  Surface[a] > ((b.maxx - b.minx) * (b.maxy - b.miny)) \div RelevantDivisor

\* Slip: the box grows on each side.
BepaalBBoxAOIGrown(b, p) ==
  [minx |-> 100 * b.minx - (b.maxx - b.minx) * p,
   miny |-> 100 * b.miny - (b.maxy - b.miny) * p,
   maxx |-> 100 * b.maxx + (b.maxx - b.minx) * p,
   maxy |-> 100 * b.maxy + (b.maxy - b.miny) * p]

BepaalBBoxAOI(b, p) ==
  [minx |-> 100 * b.minx + (b.maxx - b.minx) * p,
   miny |-> 100 * b.miny + (b.maxy - b.miny) * p,
   maxx |-> 100 * b.maxx - (b.maxx - b.minx) * p,
   maxy |-> 100 * b.maxy - (b.maxy - b.miny) * p]

\* BBOX of the WFS.  A factor above one half turns the box inside out: the
\* libraries swap the corners (swap), or nothing lies in it.
Between(lo, v, hi, swap) ==
  \/ lo <= v /\ v <= hi
  \/ swap /\ hi <= v /\ v <= lo

Touches(a, b, swap) ==
  \E pt \in Shape[a] : /\ Between(b.minx, 100 * pt[1], b.maxx, swap)
                       /\ Between(b.miny, 100 * pt[2], b.maxy, swap)

InAOI(a, b, p, swap) == Touches(a, BepaalBBoxAOI(b, p), swap)

\* maakFilter: the three filters.
CentrumQuery(b, swap) ==
  {a \in Area : Relevant(a, b) /\ InAOI(a, b, Centrum, swap)}

MiddenQuery(b, swap) ==
  {a \in Area : /\ Relevant(a, b) /\ InAOI(a, b, Midden, swap)
                /\ ~InAOI(a, b, Centrum, swap)}

RandQuery(b, swap) ==
  {a \in Area : /\ Relevant(a, b) /\ InAOI(a, b, Rand, swap)
                /\ ~InAOI(a, b, Midden, swap)}

\* service: a HashSet of what the three give.
AreaResults(b, swap) ==
  RandQuery(b, swap) \cup MiddenQuery(b, swap) \cup CentrumQuery(b, swap)
=============================================================================
