-------------------------- MODULE CorePages_proofs -------------------------
(***************************************************************************)
(* For every set of places, texts, radii and areas, and whatever a text    *)
(* does to a link: a list is the list of the place that was chosen, and as *)
(* long as no text ends a link coreonly, the radius, the heading and the   *)
(* coordinates come through as well.  The areas lie near that place.       *)
(***************************************************************************)
EXTENDS CorePages, FiniteSetTheorems, TLAPS

-----------------------------------------------------------------------------
(* What the three queries of module AreaQuery give together, for every set *)
(* of areas and every box.                                                 *)

\* What is left of one side of a box.
OnSide(lo, hi, p, v, swap) ==
  Between(100 * lo + (hi - lo) * p, v, 100 * hi - (hi - lo) * p, swap)

\* A greater factor takes more off a side.
LEMMA MoreOff == ASSUME NEW w \in Nat, NEW p \in Nat, NEW q \in Nat, p <= q
                 PROVE  w * p <= w * q /\ w * p \in Int /\ w * q \in Int
  <1>1. PICK d \in Nat : q = p + d
    BY SMT
  <1>2. w * q = w * p + w * d
    BY <1>1, SMT
  <1>3. w * d \in Nat /\ w * p \in Nat
    BY SMT
  <1>. QED
    BY <1>2, <1>3, SMT

\* One side of the box: what is left after the greater factor, also when the
\* side is turned inside out and the corners are swapped, lies within what is
\* left after the smaller one.
LEMMA SideWithin ==
  ASSUME NEW lo \in Int, NEW hi \in Int, lo <= hi,
         NEW p \in Nat, NEW q \in Nat, p <= q, q <= 100 - p,
         NEW v \in Int, NEW swap \in BOOLEAN,
         OnSide(lo, hi, q, v, swap)
  PROVE  OnSide(lo, hi, p, v, swap)
  <1>. DEFINE w == hi - lo
  <1>1. w \in Nat /\ 100 - q \in Nat /\ p <= 100 - q
    BY SMT
  <1>2. w * p <= w * q /\ w * p \in Int /\ w * q \in Int
    BY <1>1, MoreOff
  <1>3. w * p <= w * (100 - q)
    BY <1>1, MoreOff
  <1>4. w * (100 - q) = 100 * hi - 100 * lo - w * q
    BY <1>1, SMT
  <1>5. CASE 100 * lo + w * q <= v /\ v <= 100 * hi - w * q
    <2>. HIDE DEF w
    <2>1. 100 * lo + w * p <= v /\ v <= 100 * hi - w * p
      BY <1>2, <1>5, SMT
    <2>. QED
      BY <2>1 DEF OnSide, Between, w
  <1>6. CASE 100 * hi - w * q <= v /\ v <= 100 * lo + w * q
    <2>. HIDE DEF w
    <2>1. 100 * lo + w * p <= v /\ v <= 100 * hi - w * p
      BY <1>2, <1>3, <1>4, <1>6, SMT
    <2>. QED
      BY <2>1 DEF OnSide, Between, w
  <1>. QED
    BY <1>5, <1>6 DEF OnSide, Between

\* An area that touches the box after the greater factor touches the box
\* after the smaller one.
LEMMA TouchesWithin ==
  ASSUME NEW a \in Area, NEW b \in Box, NEW swap \in BOOLEAN,
         NEW p \in Nat, NEW q \in Nat, p <= q, q <= 100 - p,
         InAOI(a, b, q, swap)
  PROVE  InAOI(a, b, p, swap)
  <1>1. /\ b.minx \in Int /\ b.maxx \in Int /\ b.minx <= b.maxx
        /\ b.miny \in Int /\ b.maxy \in Int /\ b.miny <= b.maxy
    BY DEF Box
  <1>2. PICK pt \in Shape[a] : /\ OnSide(b.minx, b.maxx, q, 100 * pt[1], swap)
                               /\ OnSide(b.miny, b.maxy, q, 100 * pt[2], swap)
    BY DEF InAOI, Touches, BepaalBBoxAOI, OnSide
  <1>3. pt \in Int \X Int
    BY AreaAssumption
  <1>4. 100 * pt[1] \in Int /\ 100 * pt[2] \in Int
    BY <1>3, SMT
  <1>5. OnSide(b.minx, b.maxx, p, 100 * pt[1], swap)
    BY <1>1, <1>2, <1>4, SideWithin
  <1>6. OnSide(b.miny, b.maxy, p, 100 * pt[2], swap)
    BY <1>1, <1>2, <1>4, SideWithin
  <1>. QED
    BY <1>5, <1>6 DEF InAOI, Touches, BepaalBBoxAOI, OnSide

\* maakFilter: with the factors in the order web.xml asks for, and the last one
\* no more than centrum leaves (0.05 and 0.8 as shipped), the queries for
\* midden and rand add nothing to the query for centrum, whatever the WFS
\* makes of a box that is inside out.
THEOREM OnlyCentrumCounts ==
  ASSUME Ascending, Rand <= 100 - Centrum, NEW b \in Box, NEW swap \in BOOLEAN
  PROVE  AreaResults(b, swap) = CentrumQuery(b, swap)
  <1>1. /\ Centrum \in Nat /\ Midden \in Nat /\ Rand \in Nat
        /\ Centrum <= Midden /\ Midden <= 100 - Centrum
        /\ Centrum <= Rand /\ Rand <= 100 - Centrum
    BY AreaAssumption, SMT DEF Ascending
  <1>2. MiddenQuery(b, swap) = {}
    <2>1. ASSUME NEW a \in MiddenQuery(b, swap) PROVE FALSE
      <3>1. a \in Area /\ InAOI(a, b, Midden, swap) /\ ~InAOI(a, b, Centrum, swap)
        BY DEF MiddenQuery
      <3>. QED
        BY <1>1, <3>1, TouchesWithin
    <2>. QED
      BY <2>1
  <1>3. RandQuery(b, swap) \subseteq CentrumQuery(b, swap)
    <2>1. ASSUME NEW a \in RandQuery(b, swap) PROVE a \in CentrumQuery(b, swap)
      <3>1. a \in Area /\ Relevant(a, b) /\ InAOI(a, b, Rand, swap)
        BY DEF RandQuery
      <3>2. InAOI(a, b, Centrum, swap)
        BY <1>1, <3>1, TouchesWithin
      <3>. QED
        BY <3>1, <3>2 DEF CentrumQuery
    <2>. QED
      BY <2>1
  <1>. QED
    BY <1>2, <1>3 DEF AreaResults

\* One side of the box: what a percentage leaves of it, turned inside out or
\* not, lies within it.
LEMMA SideInside ==
  ASSUME NEW lo \in Int, NEW hi \in Int, lo <= hi,
         NEW q \in Nat, q <= 100,
         NEW v \in Int, NEW swap \in BOOLEAN,
         OnSide(lo, hi, q, v, swap)
  PROVE  OnSide(lo, hi, 0, v, FALSE)
<1>. DEFINE w == hi - lo
<1>1. w \in Nat
  BY SMT
<1>2. 0 <= w * q /\ w * q <= w * 100 /\ w * q \in Int
  <2>1. w * 0 <= w * q /\ w * q \in Int
    BY <1>1, MoreOff
  <2>2. w * q <= w * 100
    BY <1>1, MoreOff
  <2>. HIDE DEF w
  <2>3. w * 0 = 0
    BY <1>1, SMT
  <2>4. QED
    BY <2>1, <2>2, <2>3
<1>3. w * 100 = 100 * hi - 100 * lo
  BY SMT
<1>4. 100 * lo <= v /\ v <= 100 * hi
  <2>1. CASE 100 * lo + w * q <= v /\ v <= 100 * hi - w * q
    <3>. HIDE DEF w
    <3>1. QED
      BY <1>2, <2>1, SMT
  <2>2. CASE 100 * hi - w * q <= v /\ v <= 100 * lo + w * q
    <3>. HIDE DEF w
    <3>1. QED
      BY <1>2, <1>3, <2>2, SMT
  <2>3. QED
    BY <2>1, <2>2 DEF OnSide, Between
<1>5. w * 0 = 0
  BY <1>1, SMT
<1>6. 100 * lo + w * 0 = 100 * lo /\ 100 * hi - w * 0 = 100 * hi
  <2>. HIDE DEF w
  <2>1. QED
    BY <1>5, SMT
<1>7. QED
  BY <1>4, <1>6 DEF OnSide, Between

\* An area that touches what a percentage leaves of the box touches the box.
LEMMA TouchesInside ==
  ASSUME NEW a \in Area, NEW b \in Box, NEW swap \in BOOLEAN,
         NEW q \in Nat, q <= 100, InAOI(a, b, q, swap)
  PROVE  InAOI(a, b, 0, FALSE)
<1>1. /\ b.minx \in Int /\ b.maxx \in Int /\ b.minx <= b.maxx
      /\ b.miny \in Int /\ b.maxy \in Int /\ b.miny <= b.maxy
  BY DEF Box
<1>2. PICK pt \in Shape[a] : /\ OnSide(b.minx, b.maxx, q, 100 * pt[1], swap)
                             /\ OnSide(b.miny, b.maxy, q, 100 * pt[2], swap)
  BY DEF InAOI, Touches, BepaalBBoxAOI, OnSide
<1>3. pt \in Int \X Int
  BY AreaAssumption
<1>4. 100 * pt[1] \in Int /\ 100 * pt[2] \in Int
  BY <1>3, SMT
<1>5. OnSide(b.minx, b.maxx, 0, 100 * pt[1], FALSE)
  BY <1>1, <1>2, <1>4, SideInside
<1>6. OnSide(b.miny, b.maxy, 0, 100 * pt[2], FALSE)
  BY <1>1, <1>2, <1>4, SideInside
<1>7. QED
  BY <1>5, <1>6 DEF InAOI, Touches, BepaalBBoxAOI, OnSide

\* maakFilter: whatever the factors are, as long as they are percentages, every
\* area of the three queries is relevant and touches the whole box.
LEMMA ResultsInside ==
  ASSUME Percentages, NEW b \in Box, NEW swap \in BOOLEAN
  PROVE  AreaResults(b, swap) \subseteq
           {a \in Area : Relevant(a, b) /\ InAOI(a, b, 0, FALSE)}
<1>1. Centrum \in Nat /\ Midden \in Nat /\ Rand \in Nat
  BY AreaAssumption
<1>2. ASSUME NEW a \in AreaResults(b, swap)
      PROVE  a \in Area /\ Relevant(a, b) /\ InAOI(a, b, 0, FALSE)
  <2>1. /\ a \in Area /\ Relevant(a, b)
        /\ \E q \in {Centrum, Midden, Rand} : InAOI(a, b, q, swap)
    BY DEF AreaResults, CentrumQuery, MiddenQuery, RandQuery
  <2>2. QED
    BY <1>1, <2>1, TouchesInside DEF Percentages
<1>3. QED
  BY <1>2

-----------------------------------------------------------------------------
(* The pages.                                                              *)

\* The part of the type invariant that a page answers for.
PageOK ==
  /\ at \in Results \cup {"start", "noInput", "notFound", "several", "error"}
  /\ req \in Request
  /\ hits \subseteq Place /\ areas \subseteq Area
  /\ at = "several" <=> \E p, r \in hits : p # r
  /\ hits # {} => at = "several"
  /\ why \in {None, "text", "geocoder", "withdrawn", "coordinates", "radius"}

HistoryOK ==
  /\ wanted \in [place : Place \cup {None}, name : Text \cup {None},
                 straal : Radius]
  /\ core \in BOOLEAN /\ clean \in BOOLEAN

\* A list or areas have a place and a radius; details may have lost them, but
\* never have another place.
PlaceKnown ==
  /\ at \in {"list", "vlak"} => Complete(req)
  /\ at \in Results /\ clean => Complete(req)
  /\ at = "detail" => req.place \in {None, wanted.place}

\* The inductive invariant.
PInv == /\ TypeOK /\ CoreStays /\ ShowsTheChosenPlace /\ NothingIsMissing
        /\ PlaceKnown /\ (clean => Unbroken)

\* What the answer to request q is, unless it is the areas or the details.
Answers(q) ==
  /\ PageOK'
  /\ at' \notin {"vlak", "detail"}
  /\ at' = "list" => Complete(req')
  /\ req'.coreonly = q.coreonly

\* The coordinates are not what is missing.
NotLost == at' = "error" => why' # "coordinates"

-----------------------------------------------------------------------------
(* The pages.                                                              *)

LEMMA RadiusKnown ==
  ASSUME NEW q \in Request, q.straal # NoNumber PROVE RadiusOf(q) \in Radius
  BY PagesAssumption DEF Request, RadiusOf

\* A page without places to choose from.
LEMMA ShowPlain ==
  ASSUME NEW q \in Request, NEW page \in {"start", "noInput", "notFound", "list"},
         page = "list" => Complete(q),
         Show(page, q, {}, {})
  PROVE  Answers(q) /\ at' = page /\ req' = q
  BY DEF Show, Answers, PageOK, Results

LEMMA FailShown ==
  ASSUME NEW q \in Request,
         NEW cause \in {"text", "geocoder", "withdrawn", "coordinates", "radius"},
         Fail(q, cause)
  PROVE  Answers(q) /\ at' = "error" /\ req' = q /\ why' = cause
  BY DEF Fail, Answers, PageOK, Results

\* A list, or the error for what is missing.
LEMMA ListShown ==
  ASSUME NEW q \in Request, ShowList(q)
  PROVE  /\ Answers(q) /\ req' = q /\ at' \in {"list", "error"}
         /\ q.place # None => NotLost
         /\ Complete(q) => at' = "list"
<1>1. CASE q.place = None /\ Fail(q, "coordinates")
  BY <1>1, FailShown DEF Complete
<1>2. CASE q.place # None /\ q.straal = NoNumber /\ Fail(q, "radius")
  BY <1>2, FailShown DEF NotLost, Complete
<1>3. CASE Complete(q) /\ Show("list", q, {}, {})
  BY <1>3, ShowPlain DEF NotLost
<1>4. QED
  BY <1>1, <1>2, <1>3 DEF ShowList, Refused

\* More than one hit are two different hits.
LEMMA TwoHits ==
  ASSUME NEW found \in SUBSET Place, Cardinality(found) > 1
  PROVE  \E p, r \in found : p # r
<1>1. SUFFICES ASSUME \A p, r \in found : p = r PROVE FALSE
  OBVIOUS
<1>2. CASE found = {}
  BY <1>2, FS_EmptySet
<1>3. CASE found # {}
  <2>1. PICK p \in found : TRUE
    BY <1>3
  <2>2. found = {p}
    BY <1>1, <2>1
  <2>3. Cardinality(found) = 1
    BY <2>2, FS_Singleton
  <2>4. QED
    BY <2>3, SMT
<1>4. QED
  BY <1>2, <1>3

LEMMA SeveralShown ==
  ASSUME NEW q \in Request, NEW found \in SUBSET Place, Cardinality(found) > 1,
         Show("several", q, found, {})
  PROVE  Answers(q) /\ at' = "several" /\ req' = q
  BY TwoHits DEF Show, Answers, PageOK, Results

\* The only hit is forwarded with its coordinates and a radius.
LEMMA ForwardedType ==
  ASSUME NEW q \in Request, NEW p \in Place, q.adres \in Text
  PROVE  /\ Forwarded(q, p) \in Request
         /\ Forwarded(q, p).place # None
         /\ Forwarded(q, p).coreonly = q.coreonly
<1>1. (IF TextRadius[q.adres] = None THEN Standard ELSE TextRadius[q.adres])
        \in Radius \cup {None, NoNumber}
  BY PagesAssumption
<1>2. Name[p] \in Text /\ p # None
  BY PagesAssumption
<1>3. QED
  BY <1>1, <1>2 DEF Forwarded, Request

LEMMA HitsAnswer ==
  ASSUME NEW q \in Request, q.adres \in Text, NEW found \in SUBSET Place,
         Hits(q, found)
  PROVE  Answers(q) /\ NotLost
<1>1. CASE found = {} /\ Show("notFound", q, {}, {})
  BY <1>1, ShowPlain DEF NotLost
<1>2. ASSUME NEW p \in found, ShowList(Forwarded(q, p))
      PROVE  Answers(q) /\ NotLost
  <2>1. /\ Forwarded(q, p) \in Request /\ Forwarded(q, p).place # None
        /\ Forwarded(q, p).coreonly = q.coreonly
    BY ForwardedType
  <2>2. Answers(Forwarded(q, p)) /\ NotLost
    BY <1>2, <2>1, ListShown
  <2>3. QED
    BY <2>1, <2>2 DEF Answers
<1>3. CASE Cardinality(found) > 1 /\ Show("several", q, found, {})
  BY <1>3, SeveralShown DEF NotLost
<1>4. QED
  BY <1>1, <1>2, <1>3 DEF Hits

LEMMA LocateAnswers ==
  ASSUME NEW q \in Request, q.adres \in Text, Locate(q)
  PROVE  Answers(q) /\ NotLost
<1>1. CASE Unreadable(q)
  BY <1>1, FailShown DEF Unreadable, NotLost
<1>2. CASE NoInput(q)
  BY <1>2, ShowPlain DEF NoInput, NotLost
<1>3. CASE NoAnswer(q)
  BY <1>3, FailShown DEF NoAnswer, NotLost
<1>4. CASE Geocoded(q)
  BY <1>4, HitsAnswer DEF Geocoded
<1>5. QED
  BY <1>1, <1>2, <1>3, <1>4 DEF Locate

\* The dispatcher asks for no list without coordinates.
LEMMA DispatchAnswers ==
  ASSUME NEW q \in Request, Dispatch(q)
  PROVE  Answers(q) /\ NotLost /\ (HasPlace(q) => at' = "list" /\ req' = q)
<1>1. CASE HasPlace(q) /\ ShowList(q)
  BY <1>1, ListShown DEF HasPlace, Complete
<1>2. CASE ~HasPlace(q) /\ q.adres # None /\ Locate(q)
  BY <1>2, LocateAnswers DEF Request
<1>3. CASE ~HasPlace(q) /\ q.adres = None /\ ShowStart(q)
  BY <1>3, ShowPlain DEF ShowStart, NotLost
<1>4. QED
  BY <1>1, <1>2, <1>3 DEF Dispatch

-----------------------------------------------------------------------------
(* The links.                                                              *)

LEMMA ArrivedType ==
  ASSUME NEW q \in Request, NEW some \in SUBSET Parameters
  PROVE  /\ Arrived(q, some) \in Request
         /\ Arrived(q, some).place \in {None, q.place}
         /\ "coord" \in some => Arrived(q, some).place = q.place
         /\ "straal" \in some => Arrived(q, some).straal = q.straal
         /\ "coreonly" \in some => Arrived(q, some).coreonly = q.coreonly
         /\ "gevonden" \in some => Arrived(q, some).found = Raw(q.found)
<1>1. Raw(q.adres) \in Text \cup {None} /\ Raw(q.found) \in Text \cup {None}
  BY PagesAssumption DEF Raw, Request
<1>2. ("coreonly" \in some /\ q.coreonly) \in BOOLEAN
  OBVIOUS
<1>3. Arrived(q, some) \in Request
  BY <1>1, <1>2 DEF Arrived, Request
<1>4. "coreonly" \in some => Arrived(q, some).coreonly = q.coreonly
  <2>1. q.coreonly \in BOOLEAN
    BY DEF Request
  <2>2. Arrived(q, some).coreonly = ("coreonly" \in some /\ q.coreonly)
    BY DEF Arrived
  <2>3. QED
    BY <2>1, <2>2
<1>5. QED
  BY <1>3, <1>4 DEF Arrived

\* A name that is intact stays what it is.
LEMMA NameStays ==
  ASSUME NEW t \in Text \cup {None}, t \notin {None, Unknown} => Intact(t)
  PROVE  /\ Raw(t) = t
         /\ InField(t, Unknown) = IF t = None THEN Unknown ELSE t
  BY PagesAssumption DEF Raw, InField, Intact

\* What arrives of a link on a page that lists something.
LEMMA Onwards ==
  ASSUME PInv, NEW q \in OnBekendmakingen
  PROVE  /\ q \in Request
         /\ q.place \in {None, req.place}
         /\ clean => /\ q.place = req.place /\ q.straal = req.straal
                     /\ q.coreonly = req.coreonly /\ q.found = Raw(req.found)
<1>1. req \in Request
  BY DEF PInv, TypeOK
<1>2. PICK some \in Kept(req) : q = Arrived(req, some)
  BY DEF OnBekendmakingen
<1>3. some \in SUBSET Parameters
  BY <1>2 DEF Kept, Parameters
<1>4. ASSUME clean PROVE some = Parameters
  <2>1. req.adres \notin Ends /\ req.found \notin Ends
    BY <1>4 DEF PInv, Unbroken
  <2>2. Ending(req) = {}
    BY <2>1 DEF Ending
  <2>3. QED
    BY <1>2, <2>2 DEF Kept
<1>5. QED
  BY <1>1, <1>2, <1>3, <1>4, ArrivedType DEF Parameters

LEMMA LinkOfHit ==
  ASSUME PInv, NEW p \in Place
  PROVE  /\ HitParams(p) \in Request
         /\ HitParams(p).place = p /\ HitParams(p).straal = LinkRadius(p)
         /\ req.adres \notin Ends /\ Name[p] \notin Ends =>
              /\ HitParams(p).coreonly = req.coreonly
              /\ HitParams(p).found = Raw(Name[p])
<1>. DEFINE q == HitLinkOf(p)
<1>1. req \in Request
  BY DEF PInv, TypeOK
<1>2. LinkRadius(p) \in Radius \cup {None, NoNumber} /\ Name[p] \in Text
  BY <1>1, PagesAssumption DEF LinkRadius, Request
<1>3. /\ q \in Request /\ q.place = p /\ q.straal = LinkRadius(p)
      /\ q.coreonly = req.coreonly /\ q.found = Name[p]
  BY <1>1, <1>2 DEF HitLinkOf, Request
<1>4. PICK some \in SUBSET Parameters :
        /\ HitParams(p) = Arrived(q, some) /\ {"coord", "straal"} \subseteq some
        /\ req.adres \notin Ends /\ Name[p] \notin Ends => some = Parameters
  <2>1. CASE req.adres \in Ends
    <3>1. HitParams(p) = Arrived(q, {"coord", "straal", "adres"})
      BY <2>1 DEF HitParams
    <3>2. QED
      BY <2>1, <3>1 DEF Parameters
  <2>2. CASE req.adres \notin Ends /\ Name[p] \in Ends
    <3>1. HitParams(p) = Arrived(q, Parameters \ {"coreonly"})
      BY <2>2 DEF HitParams
    <3>2. QED
      BY <2>2, <3>1 DEF Parameters
  <2>3. CASE req.adres \notin Ends /\ Name[p] \notin Ends
    <3>1. HitParams(p) = Arrived(q, Parameters)
      BY <2>3 DEF HitParams
    <3>2. QED
      BY <2>3, <3>1 DEF Parameters
  <2>4. QED
    BY <2>1, <2>2, <2>3
<1>5. QED
  BY <1>3, <1>4, ArrivedType DEF Parameters

-----------------------------------------------------------------------------
(* The invariant.                                                          *)

\* The areas are reached by their link alone.
OnlyByLink == at' = "vlak" => VlakLink \/ UNCHANGED vars

\* What a step must show of the histories, when it answers a request.
LEMMA InvAfter ==
  ASSUME NEW q \in Request, Answers(q), HistoryOK',
         clean' => Unbroken' /\ q.coreonly = core' /\ NotLost,
         at' = "list" => req'.place = wanted'.place,
         at' = "list" /\ clean' => RadiusOf(req') = wanted'.straal /\ HeadingKept'
  PROVE  PInv' /\ OnlyByLink
<1>1. TypeOK'
  BY DEF Answers, PageOK, HistoryOK, TypeOK
<1>2. CoreStays' /\ NothingIsMissing'
  BY DEF Answers, CoreStays, NothingIsMissing, NotLost
<1>3. ShowsTheChosenPlace' /\ PlaceKnown'
  BY DEF Answers, PlaceKnown, ShowsTheChosenPlace, Results
<1>4. QED
  BY <1>1, <1>2, <1>3 DEF PInv, Answers, OnlyByLink

LEMMA ChosenOK ==
  ASSUME NEW q \in Request, Answers(q), HistoryOK, Chosen
  PROVE  /\ wanted' \in [place : Place \cup {None}, name : Text \cup {None},
                         straal : Radius]
         /\ at' = "list" => req'.place = wanted'.place
         /\ at' = "list" => RadiusOf(req') = wanted'.straal /\ HeadingKept'
<1>1. CASE at' = "list"
  <2>1. req' \in Request /\ req'.straal # NoNumber
    BY <1>1 DEF Answers, PageOK, Complete
  <2>2. RadiusOf(req') \in Radius
    BY <2>1, RadiusKnown
  <2>3. req'.place \in Place \cup {None} /\ req'.found \in Text \cup {None}
    BY <2>1 DEF Request
  <2>4. wanted' = [place |-> req'.place, name |-> req'.found,
                   straal |-> RadiusOf(req')]
    BY <1>1 DEF Chosen
  <2>5. HeadingKept'
    BY <2>4 DEF HeadingKept, Heading
  <2>6. QED
    BY <2>2, <2>3, <2>4, <2>5
<1>2. CASE at' # "list"
  BY <1>2 DEF Chosen, HistoryOK
<1>3. QED
  BY <1>1, <1>2

LEMMA InitInv == Init => PInv
<1>1. ASSUME Init PROVE PInv
  <2>1. Blank \in Request /\ Blank.coreonly = FALSE
    BY DEF Blank, Request
  <2>2. Blank.adres \notin Ends /\ Blank.found \notin Ends
    BY PagesAssumption DEF Blank
  <2>3. QED
    BY <1>1, <2>1, <2>2, PagesAssumption
       DEF Init, PInv, TypeOK, CoreStays, ShowsTheChosenPlace, NothingIsMissing,
           PlaceKnown, Unbroken, Results
<1>2. QED
  BY <1>1

LEMMA EnterStep == PInv /\ EnterURL => PInv' /\ OnlyByLink
<1>. SUFFICES ASSUME PInv, EnterURL PROVE PInv' /\ OnlyByLink
  OBVIOUS
<1>1. HistoryOK
  BY DEF PInv, TypeOK, HistoryOK
<1>2. PICK c \in BOOLEAN :
        /\ core' = c
        /\ \/ ShowStart([Blank EXCEPT !.coreonly = c])
           \/ \E t \in Text \cup {None}, p \in Place \cup {None},
                 s \in Radius \cup {None, NoNumber} :
                Dispatch([Blank EXCEPT !.path = "geozet", !.adres = t,
                                       !.place = p, !.straal = s,
                                       !.coreonly = c])
  BY DEF EnterURL
<1>3. Chosen /\ clean' = Unbroken'
  BY DEF EnterURL
<1>4. clean' \in BOOLEAN
  BY <1>3 DEF Unbroken
<1>5. ASSUME NEW q \in Request, q.coreonly = c, Answers(q), NotLost
      PROVE  PInv' /\ OnlyByLink
  <2>1. HistoryOK'
    BY <1>1, <1>2, <1>3, <1>4, <1>5, ChosenOK DEF HistoryOK
  <2>2. QED
    BY <1>1, <1>2, <1>3, <1>5, <2>1, ChosenOK, InvAfter
<1>6. CASE ShowStart([Blank EXCEPT !.coreonly = c])
  <2>. DEFINE q == [Blank EXCEPT !.coreonly = c]
  <2>1. q \in Request /\ q.coreonly = c
    BY DEF Blank, Request
  <2>2. Answers(q) /\ NotLost
    BY <1>6, <2>1, ShowPlain DEF ShowStart, NotLost
  <2>3. QED
    BY <1>5, <2>1, <2>2
<1>7. ASSUME NEW t \in Text \cup {None}, NEW p \in Place \cup {None},
             NEW s \in Radius \cup {None, NoNumber},
             Dispatch([Blank EXCEPT !.path = "geozet", !.adres = t, !.place = p,
                                    !.straal = s, !.coreonly = c])
      PROVE  PInv' /\ OnlyByLink
  <2>. DEFINE q == [Blank EXCEPT !.path = "geozet", !.adres = t, !.place = p,
                                 !.straal = s, !.coreonly = c]
  <2>1. q \in Request /\ q.coreonly = c
    BY DEF Blank, Request
  <2>2. Answers(q) /\ NotLost
    BY <1>7, <2>1, DispatchAnswers
  <2>3. QED
    BY <1>5, <2>1, <2>2
<1>8. QED
  BY <1>2, <1>6, <1>7

LEMMA SearchStep == PInv /\ SearchForm => PInv' /\ OnlyByLink
<1>. SUFFICES ASSUME PInv, SearchForm PROVE PInv' /\ OnlyByLink
  OBVIOUS
<1>1. HistoryOK /\ req \in Request
  BY DEF PInv, TypeOK, HistoryOK
<1>2. PICK t \in Text :
        Dispatch([Blank EXCEPT !.path = "geozet", !.adres = t,
                               !.straal = RadiusOf(req),
                               !.coreonly = req.coreonly])
  BY DEF SearchForm
<1>. DEFINE q == [Blank EXCEPT !.path = "geozet", !.adres = t,
                               !.straal = RadiusOf(req),
                               !.coreonly = req.coreonly]
<1>3. RadiusOf(req) \in Radius \cup {None, NoNumber} /\ req.coreonly \in BOOLEAN
  BY <1>1, PagesAssumption DEF RadiusOf, Request
<1>4. q \in Request /\ q.coreonly = req.coreonly
  BY <1>3 DEF Blank, Request
<1>5. Answers(q) /\ NotLost
  BY <1>2, <1>4, DispatchAnswers
<1>6. Chosen /\ core' = core /\ clean' = (clean /\ Unbroken')
      /\ (clean => req.coreonly = core)
  BY DEF SearchForm, Follow, PInv, CoreStays
<1>7. clean' \in BOOLEAN
  BY <1>6
<1>8. HistoryOK'
  BY <1>1, <1>4, <1>5, <1>6, <1>7, ChosenOK DEF HistoryOK
<1>9. QED
  BY <1>1, <1>4, <1>5, <1>6, <1>8, ChosenOK, InvAfter

LEMMA HitStep == PInv /\ HitLink => PInv' /\ OnlyByLink
<1>. SUFFICES ASSUME PInv, HitLink PROVE PInv' /\ OnlyByLink
  OBVIOUS
<1>1. HistoryOK /\ req \in Request /\ hits \subseteq Place
  BY DEF PInv, TypeOK, HistoryOK
<1>2. PICK p \in hits :
        /\ ShowList(HitParams(p))
        /\ wanted' = IF at' = "list"
                       THEN [place |-> p, name |-> Name[p],
                             straal |-> LinkRadius(p)]
                       ELSE wanted
  BY DEF HitLink
<1>. DEFINE q == HitParams(p)
<1>3. p \in Place /\ p # None /\ at = "several" /\ Name[p] \in Text
  BY <1>1, PagesAssumption DEF PInv, TypeOK
<1>4. /\ q \in Request /\ q.place = p /\ q.straal = LinkRadius(p)
      /\ clean => q.coreonly = req.coreonly /\ q.found = Raw(Name[p])
  BY <1>3, LinkOfHit DEF PInv, Unbroken
<1>5. Answers(q) /\ req' = q /\ NotLost
  BY <1>2, <1>3, <1>4, ListShown
<1>6. core' = core /\ clean' = (clean /\ Unbroken')
      /\ (clean => req.coreonly = core)
  BY <1>3 DEF HitLink, Follow, PInv, CoreStays
<1>7. at' = "list" => LinkRadius(p) \in Radius /\ RadiusOf(req') = LinkRadius(p)
  <2>1. LinkRadius(p) # None
    BY <1>1, <1>3, PagesAssumption DEF LinkRadius
  <2>2. ASSUME at' = "list" PROVE q.straal # NoNumber
    BY <1>5, <2>2 DEF Answers, Complete
  <2>3. QED
    BY <1>4, <1>5, <2>1, <2>2, RadiusKnown DEF RadiusOf
<1>8. clean' \in BOOLEAN
  BY <1>6
<1>9. HistoryOK'
  BY <1>1, <1>2, <1>3, <1>6, <1>7, <1>8 DEF HistoryOK
<1>10. at' = "list" /\ clean' => HeadingKept'
  <2>1. ASSUME at' = "list", clean', Intact(Name[p]) PROVE req'.found = Name[p]
    <3>1. Raw(Name[p]) = Name[p]
      BY <1>3, <2>1, NameStays
    <3>2. QED
      BY <1>4, <1>5, <1>6, <2>1, <3>1
  <2>2. Name[p] # None
    BY <1>3, PagesAssumption
  <2>3. at' = "list" => wanted'.name = Name[p]
    BY <1>2
  <2>4. QED
    BY <2>1, <2>2, <2>3 DEF HeadingKept, Heading
<1>11. QED
  BY <1>2, <1>4, <1>5, <1>6, <1>7, <1>9, <1>10, InvAfter

LEMMA FilterStep == PInv /\ FilterForm => PInv' /\ OnlyByLink
<1>. SUFFICES ASSUME PInv, FilterForm PROVE PInv' /\ OnlyByLink
  OBVIOUS
<1>1. HistoryOK /\ req \in Request
  BY DEF PInv, TypeOK, HistoryOK
<1>2. PICK s \in Radius :
        /\ IF req.path = "geozet" THEN Dispatch(FilterParams(s))
                                  ELSE ShowList(FilterParams(s))
        /\ wanted' = [wanted EXCEPT !.straal = s]
  BY DEF FilterForm
<1>. DEFINE q == FilterParams(s)
<1>3. /\ at = "list" /\ core' = core /\ clean' = (clean /\ Unbroken')
      /\ clean => req.coreonly = core /\ HeadingKept
      /\ req.place # None /\ req.place = wanted.place
  BY DEF FilterForm, Follow, PInv, CoreStays, PlaceKnown, Complete,
         ShowsTheChosenPlace, Results
<1>4. /\ InField(req.adres, Empty) \in Text /\ InField(req.found, Unknown) \in Text
  BY <1>1, PagesAssumption DEF InField, Request
<1>5. /\ q \in Request /\ q.place = req.place /\ q.straal = s
      /\ q.coreonly = req.coreonly /\ q.found = InField(req.found, Unknown)
  BY <1>1, <1>4 DEF FilterParams, Request
<1>6. s \notin {None, NoNumber} /\ RadiusOf(q) = s
  BY <1>5, PagesAssumption DEF RadiusOf
<1>7. HasPlace(q) /\ Complete(q)
  BY <1>3, <1>5, <1>6 DEF HasPlace, Complete
<1>8. Answers(q) /\ at' = "list" /\ req' = q /\ NotLost
  BY <1>2, <1>3, <1>5, <1>7, ListShown, DispatchAnswers
<1>9. wanted' \in [place : Place \cup {None}, name : Text \cup {None},
                   straal : Radius]
      /\ wanted'.place = wanted.place /\ wanted'.straal = s
      /\ wanted'.name = wanted.name
  BY <1>1, <1>2 DEF HistoryOK
<1>10. clean' => HeadingKept'
  <2>1. SUFFICES ASSUME clean, wanted.name = None \/ Intact(wanted.name)
                 PROVE  q.found \in IF wanted.name = None THEN {None, Unknown}
                                                          ELSE {wanted.name}
    BY <1>3, <1>8, <1>9 DEF HeadingKept, Heading
  <2>2. req.found \in IF wanted.name = None THEN {None, Unknown}
                                            ELSE {wanted.name}
    BY <1>3, <2>1 DEF HeadingKept, Heading
  <2>3. req.found \in Text \cup {None}
    BY <1>1 DEF Request
  <2>4. q.found = IF req.found = None THEN Unknown ELSE req.found
    BY <1>5, <2>1, <2>2, <2>3, NameStays
  <2>5. QED
    BY <2>2, <2>4
<1>11. HistoryOK'
  BY <1>1, <1>3, <1>9 DEF HistoryOK
<1>12. QED
  BY <1>3, <1>5, <1>6, <1>8, <1>9, <1>10, <1>11, InvAfter

\* The heading comes through a link.
LEMMA HeadingThrough ==
  ASSUME NEW q, req \in Request, q.found = Raw(req.found), HeadingKept,
         wanted' = wanted, req' = q
  PROVE  HeadingKept'
<1>1. SUFFICES ASSUME wanted.name = None \/ Intact(wanted.name)
               PROVE  q.found \in Heading
  BY DEF HeadingKept, Heading
<1>2. req.found \in Heading /\ req.found \in Text \cup {None}
  BY <1>1 DEF HeadingKept, Request
<1>3. Raw(req.found) = req.found
  BY <1>1, <1>2, NameStays DEF Heading
<1>4. QED
  BY <1>2, <1>3

\* What holds after any link on the list, the areas or the details.
LEMMA LinkKeeps ==
  ASSUME PInv, at \in Results, NEW q \in OnBekendmakingen, req' = q,
         Follow, wanted' = wanted
  PROVE  /\ q \in Request /\ HistoryOK'
         /\ q.place # None => q.place = wanted'.place
         /\ clean' => /\ Unbroken' /\ q.coreonly = core'
                      /\ Complete(q) /\ q.place = wanted'.place
                      /\ RadiusOf(q) = wanted'.straal /\ HeadingKept'
<1>1. req \in Request /\ HistoryOK
  BY DEF PInv, TypeOK, HistoryOK
<1>2. /\ q \in Request /\ q.place \in {None, req.place}
      /\ clean => /\ q.place = req.place /\ q.straal = req.straal
                  /\ q.coreonly = req.coreonly /\ q.found = Raw(req.found)
  BY Onwards
<1>3. req.place \in {None, wanted.place}
  BY DEF PInv, PlaceKnown, ShowsTheChosenPlace, Results
<1>4. core' = core /\ clean' = (clean /\ Unbroken')
  BY DEF Follow
<1>5. HistoryOK'
  BY <1>1, <1>4 DEF HistoryOK
<1>6. ASSUME clean'
      PROVE  /\ Unbroken' /\ q.coreonly = core'
             /\ Complete(q) /\ q.place = wanted'.place
             /\ RadiusOf(q) = wanted'.straal /\ HeadingKept'
  <2>1. clean /\ Unbroken'
    BY <1>4, <1>6
  <2>2. /\ req.coreonly = core /\ Complete(req) /\ req.place = wanted.place
        /\ RadiusOf(req) = wanted.straal /\ HeadingKept
    BY <2>1 DEF PInv, CoreStays, PlaceKnown, ShowsTheChosenPlace, Results
  <2>3. HeadingKept'
    BY <1>1, <1>2, <2>1, <2>2, HeadingThrough
  <2>4. QED
    BY <1>2, <1>4, <2>1, <2>2, <2>3 DEF Complete, RadiusOf
<1>7. QED
  BY <1>2, <1>3, <1>5, <1>6

LEMMA ListStep == PInv /\ (PageLink \/ BackLink) => PInv' /\ OnlyByLink
<1>. SUFFICES ASSUME PInv, PageLink \/ BackLink PROVE PInv' /\ OnlyByLink
  OBVIOUS
<1>1. /\ at \in Results /\ Follow /\ wanted' = wanted
      /\ \E q \in OnBekendmakingen : ShowList(q)
  BY DEF PageLink, BackLink, Results
<1>2. PICK q \in OnBekendmakingen : ShowList(q)
  BY <1>1
<1>3. q \in Request
  BY Onwards
<1>4. /\ Answers(q) /\ req' = q /\ at' \in {"list", "error"}
      /\ q.place # None => NotLost
  BY <1>2, <1>3, ListShown
<1>5. /\ HistoryOK'
      /\ q.place # None => q.place = wanted'.place
      /\ clean' => /\ Unbroken' /\ q.coreonly = core'
                   /\ Complete(q) /\ q.place = wanted'.place
                   /\ RadiusOf(q) = wanted'.straal /\ HeadingKept'
  BY <1>1, <1>4, LinkKeeps
<1>6. at' = "list" => q.place # None
  BY <1>4 DEF Answers, Complete
<1>7. QED
  BY <1>3, <1>4, <1>5, <1>6, InvAfter DEF Complete

LEMMA OutStep == PInv /\ (VlakLink \/ DetailLink) => PInv' /\ OnlyByLink
<1>. SUFFICES ASSUME PInv, VlakLink \/ DetailLink PROVE PInv' /\ OnlyByLink
  OBVIOUS
<1>1. at = "list" /\ at \in Results /\ Follow /\ wanted' = wanted
  BY DEF VlakLink, DetailLink, Results
<1>2. PICK q \in OnBekendmakingen :
        \/ VlakLink /\ ShowVlak(q)
        \/ DetailLink /\ (Show("detail", q, {}, {}) \/ Fail(q, "withdrawn"))
  BY DEF VlakLink, DetailLink
<1>3. q \in Request
  BY Onwards
<1>4. CASE /\ q.place = None /\ Fail(q, "coordinates")
  <2>1. Answers(q) /\ at' = "error" /\ req' = q
    BY <1>3, <1>4, FailShown
  <2>2. HistoryOK' /\ (clean' => Unbroken' /\ q.coreonly = core' /\ Complete(q))
    BY <1>1, <2>1, LinkKeeps
  <2>3. ~clean'
    BY <1>4, <2>2 DEF Complete
  <2>4. QED
    BY <1>3, <2>1, <2>2, <2>3, InvAfter
<1>5. ASSUME NEW cause \in {"withdrawn", "radius"}, Fail(q, cause)
      PROVE  PInv' /\ OnlyByLink
  <2>1. Answers(q) /\ at' = "error" /\ req' = q /\ NotLost
    BY <1>3, <1>5, FailShown DEF NotLost
  <2>2. HistoryOK' /\ (clean' => Unbroken' /\ q.coreonly = core')
    BY <1>1, <2>1, LinkKeeps
  <2>3. QED
    BY <1>3, <2>1, <2>2, InvAfter
<1>6. ASSUME NEW page \in {"vlak", "detail"}, NEW list \in SUBSET Area,
             Show(page, q, {}, list), page = "vlak" => VlakLink /\ Complete(q)
      PROVE  PInv' /\ OnlyByLink
  <2>1. /\ at' = page /\ req' = q /\ hits' = {} /\ areas' \subseteq Area
        /\ why' = None
    BY <1>6 DEF Show
  <2>2. /\ HistoryOK'
        /\ q.place # None => q.place = wanted'.place
        /\ clean' => /\ Unbroken' /\ q.coreonly = core'
                     /\ Complete(q) /\ q.place = wanted'.place
                     /\ RadiusOf(q) = wanted'.straal /\ HeadingKept'
    BY <1>1, <2>1, LinkKeeps
  <2>3. TypeOK'
    BY <1>3, <2>1, <2>2 DEF TypeOK, HistoryOK, Results
  <2>4. CoreStays' /\ NothingIsMissing'
    BY <2>1, <2>2 DEF CoreStays, NothingIsMissing
  <2>5. PlaceKnown'
    BY <1>6, <2>1, <2>2 DEF PlaceKnown, Results
  <2>6. ShowsTheChosenPlace'
    BY <1>6, <2>1, <2>2 DEF ShowsTheChosenPlace, Results, Complete
  <2>7. OnlyByLink
    BY <1>6, <2>1 DEF OnlyByLink
  <2>8. QED
    BY <2>2, <2>3, <2>4, <2>5, <2>6, <2>7 DEF PInv
<1>7. CASE VlakLink /\ ShowVlak(q)
  <2>1. CASE Refused(q)
    BY <1>4, <1>5, <2>1 DEF Refused
  <2>2. ASSUME NEW swap \in BOOLEAN, Complete(q),
               Show("vlak", q, {},
                    AreaResults(BoxAround(q.place, RadiusOf(q)), swap))
        PROVE  PInv' /\ OnlyByLink
    <3>1. AreaResults(BoxAround(q.place, RadiusOf(q)), swap) \subseteq Area
      BY DEF AreaResults, CentrumQuery, MiddenQuery, RandQuery
    <3>2. QED
      BY <1>6, <1>7, <2>2, <3>1
  <2>3. QED
    BY <1>7, <2>1, <2>2 DEF ShowVlak
<1>8. CASE DetailLink /\ (Show("detail", q, {}, {}) \/ Fail(q, "withdrawn"))
  BY <1>5, <1>6, <1>8
<1>9. QED
  BY <1>2, <1>7, <1>8

LEMMA BackStep == PInv /\ BackToStart => PInv' /\ OnlyByLink
<1>. SUFFICES ASSUME PInv, BackToStart PROVE PInv' /\ OnlyByLink
  OBVIOUS
<1>. DEFINE q == [Blank EXCEPT !.coreonly = req.coreonly]
<1>1. HistoryOK /\ req \in Request
  BY DEF PInv, TypeOK, HistoryOK
<1>2. /\ ShowStart(q) /\ wanted' = wanted /\ core' = core
      /\ clean' = (clean /\ Unbroken') /\ (clean => req.coreonly = core)
  BY DEF BackToStart, Follow, PInv, CoreStays
<1>3. q \in Request /\ q.coreonly = req.coreonly
  BY <1>1 DEF Blank, Request
<1>4. Answers(q) /\ at' = "start"
  BY <1>2, <1>3, ShowPlain DEF ShowStart
<1>5. HistoryOK'
  BY <1>1, <1>2 DEF HistoryOK
<1>6. QED
  BY <1>2, <1>3, <1>4, <1>5, InvAfter DEF NotLost

LEMMA StepInv == PInv /\ [Next]_vars => PInv' /\ OnlyByLink
<1>. SUFFICES ASSUME PInv, [Next]_vars PROVE PInv' /\ OnlyByLink
  OBVIOUS
<1>1. CASE UNCHANGED vars
  BY <1>1 DEF vars, PInv, TypeOK, CoreStays, ShowsTheChosenPlace, HeadingKept,
              Heading, NothingIsMissing, PlaceKnown, Complete, Unbroken, RadiusOf,
              OnlyByLink
<1>2. QED
  BY <1>1, EnterStep, SearchStep, HitStep, FilterStep, ListStep, OutStep, BackStep
     DEF Next

\* The invariant holds of every behaviour.
THEOREM PagesInvariant == Spec => []PInv
<1>1. QED
  BY InitInv, StepInv, PTL DEF Spec

\* The pages keep their types: places are offered only when there are several.
THEOREM TypeCorrect == Spec => []TypeOK
<1>1. PInv => TypeOK
  BY DEF PInv
<1>2. QED
  BY <1>1, PagesInvariant, PTL

\* Every form, link and forward hands coreonly on, unless a text ended a link
\* before it.
THEOREM CoreAlwaysStays == Spec => []CoreStays
<1>1. PInv => CoreStays
  BY DEF PInv
<1>2. QED
  BY <1>1, PagesInvariant, PTL

\* A list and areas are always those of the place chosen last, whatever a text
\* does to a link; without such a text also of the radius, under its name.
THEOREM ResultsAreChosen == Spec => []ShowsTheChosenPlace
<1>1. PInv => ShowsTheChosenPlace
  BY DEF PInv
<1>2. QED
  BY <1>1, PagesInvariant, PTL

\* No form or link leads to a request without coordinates, unless a text ended
\* a link before them.
THEOREM RequestsAreComplete == Spec => []NothingIsMissing
<1>1. PInv => NothingIsMissing
  BY DEF PInv
<1>2. QED
  BY <1>1, PagesInvariant, PTL

-----------------------------------------------------------------------------
(* The areas.                                                              *)

LEMMA BoxAroundType ==
  ASSUME NEW p \in Place, NEW straal \in Radius
  PROVE  BoxAround(p, straal) \in Box
<1>1. p[1] \in Int /\ p[2] \in Int /\ straal \in Nat
  BY PagesAssumption
<1>2. straal \div 2 \in Nat
  BY <1>1, SMT
<1>3. QED
  BY <1>1, <1>2, SMT DEF BoxAround, Box

LEMMA AreasStep ==
  ASSUME Percentages, PInv, AreasAreNear, [Next]_vars
  PROVE  AreasAreNear'
<1>1. CASE VlakLink /\ at' = "vlak" /\ clean'
  <2>1. at \in Results /\ Follow /\ wanted' = wanted
    BY <1>1 DEF VlakLink, Results
  <2>2. PICK q \in OnBekendmakingen : ShowVlak(q)
    BY <1>1 DEF VlakLink
  <2>. DEFINE b == BoxAround(wanted'.place, wanted'.straal)
  <2>3. PICK swap \in BOOLEAN :
          Show("vlak", q, {}, AreaResults(BoxAround(q.place, RadiusOf(q)), swap))
    BY <1>1, <2>2 DEF ShowVlak, Refused, Fail
  <2>4. /\ q \in Request /\ HistoryOK' /\ Complete(q)
        /\ q.place = wanted'.place /\ RadiusOf(q) = wanted'.straal
    BY <1>1, <2>1, <2>3, LinkKeeps DEF Show
  <2>5. wanted'.place \in Place /\ wanted'.straal \in Radius
    BY <2>4 DEF Complete, Request, HistoryOK
  <2>6. b \in Box
    BY <2>5, BoxAroundType
  <2>7. areas' = AreaResults(b, swap)
    BY <2>3, <2>4 DEF Show
  <2>8. areas' \subseteq {a \in Area : Relevant(a, b) /\ InAOI(a, b, 0, FALSE)}
    BY <2>6, <2>7, ResultsInside
  <2>9. QED
    BY <2>8 DEF AreasAreNear
<1>2. CASE UNCHANGED vars
  BY <1>2 DEF vars, AreasAreNear
<1>3. CASE at' # "vlak" \/ ~clean'
  BY <1>3 DEF AreasAreNear
<1>4. QED
  BY <1>1, <1>2, <1>3, StepInv DEF OnlyByLink

\* With percentages as factors no area is listed that does not touch the box
\* around the chosen place.
THEOREM AreasAlwaysNear == ASSUME Percentages PROVE Spec => []AreasAreNear
<1>1. Init => AreasAreNear
  BY DEF Init, AreasAreNear
<1>2. PInv /\ AreasAreNear /\ [Next]_vars => AreasAreNear'
  BY AreasStep
<1>3. QED
  BY <1>1, <1>2, PagesInvariant, PTL DEF Spec
=============================================================================
