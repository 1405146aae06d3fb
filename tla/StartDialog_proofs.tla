------------------------- MODULE StartDialog_proofs ------------------------
(***************************************************************************)
(* First the search by itself: for all places, queries and hashes, and any *)
(* number of searches whose answers come in any order, there is one map    *)
(* panel at most, one message at most, in a form of the page, and the URL  *)
(* names the place the map went to, but for the late answer for the hash.  *)
(*                                                                         *)
(* Then the dialog with the announcements about an area: it pages right,   *)
(* for every number of announcements, requests and items on a page.        *)
(*                                                                         *)
(* Last the two in one page: every step of the page is a step of each part *)
(* or leaves it alone, so that both invariants hold of the whole.          *)
(***************************************************************************)
EXTENDS StartDialog, SequenceTheorems, TLAPS

-----------------------------------------------------------------------------
(* The search.                                                             *)

\* The request for the hash is in flight only as long as there is no map.
Flights ==
  /\ flying \subseteq [nr : 0 .. searches, query : Query]
  /\ \A f \in flying : f.nr = 0 => panels = 0 /\ f.query = start

\* A list of suggestions knows what was asked for.
Suggests == \A m \in shown : m.kind = "many" => m.query \in Query

\* The inductive invariant.
SInv == /\ SearchTypeOK /\ OneMessage /\ UrlNamesView
        /\ Flights /\ Suggests
        /\ start \in Hashes /\ searches \in Nat
        /\ hash \in Place \cup {start}

\* What is left in flight after a request ended, or a search began, keeps the
\* order of things.
LEMMA EndedOK ==
  ASSUME SInv, NEW f, Ended(f), UNCHANGED <<start, searches>>,
         panels' = panels \/ (f.nr = 0 /\ panels' = panels + 1)
  PROVE  /\ Flights' /\ panels' \in 0 .. 1
         /\ f.query \in Query /\ f.nr \in 0 .. searches
         /\ f.nr = 0 => f.query = start /\ start # None
<1>1. /\ f \in flying /\ flying' = flying \ {f}
      /\ f \in [nr : 0 .. searches, query : Query]
      /\ flying \subseteq [nr : 0 .. searches, query : Query]
  BY DEF SInv, Flights, Ended
<1>2. f.nr = 0 => panels = 0 /\ f.query = start /\ start # None
  BY <1>1, SearchAssumption DEF SInv, Flights
<1>3. ASSUME NEW g \in flying', g.nr = 0 PROVE panels' = 0 /\ g.query = start
  <2>1. panels = 0 /\ g.query = start /\ g # f
    BY <1>1, <1>3 DEF SInv, Flights
  <2>2. f.nr # 0
    BY <1>1, <1>2, <1>3, <2>1
  <2>3. QED
    BY <2>1, <2>2
<1>4. panels' \in 0 .. 1
  BY <1>2 DEF SInv, SearchTypeOK
<1>5. QED
  BY <1>1, <1>2, <1>3, <1>4 DEF Flights

\* What is in the page after a message was told, in the current form if it is
\* there, and after the messages were removed, or some of them.
LEMMA TellOK ==
  ASSUME NEW k, NEW nr \in 0 .. searches', NEW q,
         k = "many" => q \in Query, UNCHANGED forms,
         shown' = Tell({}, Message(k, nr, q))
  PROVE  /\ \A m \in shown' : m.form \in forms' /\ m.nr \in 0 .. searches'
         /\ OneMessage' /\ Suggests'
  BY DEF Tell, Message, OneMessage, Suggests

LEMMA FewerOK ==
  ASSUME SInv, searches' = searches, shown' \subseteq shown,
         \A m \in shown' : m.form \in forms'
  PROVE  /\ \A m \in shown' : m.form \in forms' /\ m.nr \in 0 .. searches'
         /\ OneMessage' /\ Suggests'
  BY DEF SInv, SearchTypeOK, OneMessage, Suggests

\* Where the map and the URL are.
Bearings ==
  /\ view \in Place \cup {Default, None}
  /\ hash \in Place \cup {start}
  /\ UrlNamesView

\* The part of the invariant that is about messages.
Messages == /\ \A m \in shown : m.form \in forms /\ m.nr \in 0 .. searches
            /\ OneMessage /\ Suggests

LEMMA Together ==
  ASSUME SInv, UNCHANGED start, Bearings', Messages', Flights', searches' \in Nat,
         panels' \in 0 .. 1, forms' \subseteq {"core", "enhanced"}
  PROVE  SInv'
<1>1. start' \in Hashes /\ hash' \in Place \cup {start'}
  BY DEF SInv, Bearings
<1>2. hash' \in Place \cup Query \cup {None}
  BY <1>1, SearchAssumption
<1>3. QED
  BY <1>1, <1>2 DEF SInv, SearchTypeOK, Bearings, Messages

LEMMA Apart ==
  ASSUME SInv
  PROVE  /\ start \in Hashes /\ Bearings /\ Messages /\ Flights
         /\ searches \in Nat /\ panels \in 0 .. 1
         /\ forms \subseteq {"core", "enhanced"}
  BY DEF SInv, SearchTypeOK, Bearings, Messages

LEMMA PlaceOK == ASSUME NEW q \in Query PROVE Hits[q] \subseteq Place
  BY DEF Place

\* The map goes to a place by a search or a suggestion, or stays.
LEMMA GoToOK ==
  ASSUME NEW p \in Place, GoTo(p), UNCHANGED start
  PROVE  Bearings'
  BY SearchAssumption DEF GoTo, Bearings, UrlNamesView

LEMMA StayOK ==
  ASSUME Bearings, UNCHANGED <<start, view, hash>>
  PROVE  Bearings'
  BY DEF Bearings, UrlNamesView

\* The map panel is made at the default view or at the place of the hash.
LEMMA CreateOK ==
  ASSUME SInv, UNCHANGED start, NEW p \in Place \cup {Default}, CreateMapPanel(p),
         p # Default => start # None /\ p \in Hits[start]
  PROVE  Bearings'
<1>1. view' = p /\ hash' = hash /\ start' = start /\ hash \in Place \cup {start}
  BY Apart DEF CreateMapPanel, Bearings
<1>2. QED
  BY <1>1, SearchAssumption DEF Bearings, UrlNamesView

-----------------------------------------------------------------------------
(* The steps.                                                              *)

LEMMA SearchInitInv == SearchInit => SInv
<1>1. ASSUME SearchInit PROVE SInv
  <2>1. start \in Hashes /\ searches \in Nat /\ panels \in 0 .. 1
        /\ forms \subseteq {"core", "enhanced"}
    BY <1>1 DEF SearchInit
  <2>2. Flights
    BY <1>1, SearchAssumption DEF SearchInit, Flights
  <2>3. Messages
    BY <1>1 DEF SearchInit, Messages, OneMessage, Suggests
  <2>4. Bearings
    BY <1>1, SearchAssumption DEF SearchInit, Bearings, UrlNamesView
  <2>5. hash \in Place \cup Query \cup {None}
    BY <2>1, <2>4, SearchAssumption DEF Bearings
  <2>6. QED
    BY <2>1, <2>2, <2>3, <2>4, <2>5 DEF SInv, SearchTypeOK, Bearings, Messages
<1>2. QED
  BY <1>1

\* A search begins: its number is new, and never 0.
LEMMA BegunOK ==
  ASSUME SInv, UNCHANGED <<start, panels>>, searches' = searches + 1,
         \/ flying' = flying
         \/ \E q \in Query : flying' = flying \cup {[nr |-> searches', query |-> q]}
  PROVE  Flights' /\ searches' \in Nat
<1>1. searches \in Nat /\ Flights
  BY Apart
<1>2. \A f \in flying : f \in [nr : 0 .. searches', query : Query]
  BY <1>1 DEF Flights
<1>3. flying' \subseteq [nr : 0 .. searches', query : Query]
  BY <1>1, <1>2
<1>4. ASSUME NEW f \in flying', f.nr = 0 PROVE panels' = 0 /\ f.query = start'
  <2>1. f \in flying
    BY <1>1, <1>4
  <2>2. QED
    BY <1>1, <1>4, <2>1 DEF Flights
<1>5. QED
  BY <1>1, <1>3, <1>4 DEF Flights

LEMMA SubmitStep == ASSUME SInv, SubmitSome, UNCHANGED start PROVE SInv'
<1>1. PICK form \in {"core", "enhanced"} :
        SubmitShort(form) \/ \E q \in Query : Submit(q, form)
  BY DEF SubmitSome
<1>2. UNCHANGED <<panels, view, hash, forms>> /\ searches' = searches + 1
  BY <1>1 DEF SubmitShort, Submit
<1>3. Flights' /\ searches' \in Nat
  BY <1>1, <1>2, BegunOK DEF SubmitShort, Submit
<1>4. Bearings'
  BY <1>2, Apart, StayOK
<1>5. Messages'
  <2>1. CASE SubmitShort(form)
    <3>1. searches' \in 0 .. searches'
      BY <1>3
    <3>2. QED
      BY <1>2, <2>1, <3>1, TellOK DEF SubmitShort, Messages
  <2>2. CASE \E q \in Query : Submit(q, form)
    BY <2>2 DEF Submit, Messages, OneMessage, Suggests
  <2>3. QED
    BY <1>1, <2>1, <2>2
<1>6. QED
  BY <1>2, <1>3, <1>4, <1>5, Apart, Together

\* A search of the user found its place: the dialog goes, with its messages.
LEMMA MovedStep == ASSUME SInv, NEW f, Moved(f), UNCHANGED start PROVE SInv'
<1>1. /\ Ended(f) /\ AnswerMoves(f) /\ UNCHANGED <<panels, searches>>
  BY DEF Moved, AnswerMoves
<1>2. Flights' /\ panels' \in 0 .. 1 /\ f.query \in Query
  BY <1>1, EndedOK
<1>3. Bearings'
  BY <1>1, <1>2, PlaceOK, GoToOK DEF AnswerMoves
<1>4. shown' = {} /\ forms' \subseteq forms
  BY <1>1 DEF AnswerMoves, RemoveStart, RemoveMessages
<1>5. Messages'
  BY <1>4 DEF Messages, OneMessage, Suggests
<1>6. QED
  BY <1>1, <1>2, <1>3, <1>4, <1>5, Apart, Together

\* An answer that tells, fails, or is the one the viewer waits for.
LEMMA ToldStep == ASSUME SInv, NEW f, Told(f), UNCHANGED start PROVE SInv'
<1>1. /\ Ended(f) /\ UNCHANGED <<forms, current, searches>>
      /\ panels' = panels \/ (f.nr = 0 /\ panels' = panels + 1)
  BY DEF Told, AnswerToViewer, AnswerTells, FailedAnswer, Failed, CreateMapPanel,
         ForViewer
<1>2. /\ Flights' /\ panels' \in 0 .. 1 /\ f.query \in Query
      /\ f.nr \in 0 .. searches'
      /\ f.nr = 0 => f.query = start /\ start # None
  BY <1>1, EndedOK
<1>3. CASE AnswerToViewer(f)
  <2>1. f.query = start /\ start # None /\ f.nr = 0
    BY <1>2, <1>3 DEF AnswerToViewer, ForViewer
  <2>2. CASE Hits[f.query] = {}
    <3>1. /\ CreateMapPanel(Default)
          /\ shown' = Tell({}, Message("none", f.nr, f.query))
      BY <1>3, <2>2 DEF AnswerToViewer, RemoveMessages
    <3>2. Messages'
      BY <1>1, <1>2, <3>1, TellOK DEF Messages
    <3>3. Bearings'
      BY <3>1, CreateOK
    <3>4. QED
      BY <1>1, <1>2, <3>2, <3>3, Apart, Together
  <2>3. CASE Hits[f.query] # {} /\ Cardinality(Hits[f.query]) = 1
    <3>1. (\E p \in Hits[f.query] : CreateMapPanel(p)) /\ shown' = {}
      BY <1>3, <2>3 DEF AnswerToViewer, RemoveMessages
    <3>2. Messages'
      BY <3>1 DEF Messages, OneMessage, Suggests
    <3>3. Bearings'
      BY <1>2, <2>1, <3>1, CreateOK, PlaceOK
    <3>4. QED
      BY <1>1, <1>2, <3>2, <3>3, Apart, Together
  <2>4. CASE Hits[f.query] # {} /\ Cardinality(Hits[f.query]) # 1
    <3>1. /\ CreateMapPanel(Default)
          /\ shown' = Tell({}, Message("many", f.nr, f.query))
      BY <1>3, <2>4 DEF AnswerToViewer, RemoveMessages
    <3>2. Messages'
      BY <1>1, <1>2, <3>1, TellOK DEF Messages
    <3>3. Bearings'
      BY <3>1, CreateOK
    <3>4. QED
      BY <1>1, <1>2, <3>2, <3>3, Apart, Together
  <2>5. QED
    BY <2>2, <2>3, <2>4
<1>4. CASE AnswerTells(f)
  <2>1. /\ UNCHANGED <<panels, view, hash>>
        /\ shown' = Tell({}, Message(IF Hits[f.query] = {} THEN "none" ELSE "many",
                                     f.nr, f.query))
    BY <1>4 DEF AnswerTells, RemoveMessages
  <2>2. Messages'
    BY <1>1, <1>2, <2>1, TellOK DEF Messages
  <2>3. Bearings'
    BY <2>1, Apart, StayOK
  <2>4. QED
    BY <1>1, <1>2, <2>2, <2>3, Apart, Together
<1>5. CASE FailedAnswer(f)
  <2>1. shown' = {} /\ hash' = hash
    BY <1>5 DEF FailedAnswer, RemoveMessages
  <2>2. Messages'
    BY <2>1 DEF Messages, OneMessage, Suggests
  <2>3. Bearings'
    <3>1. CASE CreateMapPanel(Default)
      BY <3>1, CreateOK
    <3>2. CASE UNCHANGED <<panels, view>>
      BY <2>1, <3>2, Apart, StayOK
    <3>3. QED
      BY <1>5, <3>1, <3>2 DEF FailedAnswer
  <2>4. QED
    BY <1>1, <1>2, <2>2, <2>3, Apart, Together
<1>6. CASE Failed(f)
  <2>1. UNCHANGED <<panels, view, hash, shown>>
    BY <1>6 DEF Failed
  <2>2. Messages'
    BY <1>1, <2>1, Apart DEF Messages, OneMessage, Suggests
  <2>3. Bearings'
    BY <2>1, Apart, StayOK
  <2>4. QED
    BY <1>1, <1>2, <2>2, <2>3, Apart, Together
<1>7. QED
  BY <1>3, <1>4, <1>5, <1>6 DEF Told

\* The dialog of the start goes, with the messages in it.
LEMMA RemovedOK ==
  ASSUME SInv, RemoveStart(shown), UNCHANGED <<start, panels, flying, searches>>
  PROVE  Messages' /\ Flights' /\ forms' \subseteq {"core", "enhanced"}
<1>1. /\ shown' \subseteq shown /\ forms' = forms \ {"core"}
      /\ \A m \in shown' : m.form \in forms'
  BY Apart DEF RemoveStart, Messages
<1>2. Messages'
  BY <1>1, FewerOK DEF Messages
<1>3. Flights'
  BY Apart DEF Flights
<1>4. QED
  BY <1>1, <1>2, <1>3, Apart

LEMMA ClickStep == ASSUME SInv, ClickSuggestion, UNCHANGED start PROVE SInv'
<1>1. PICK m \in shown : m.kind = "many" /\ \E p \in Hits[m.query] : GoTo(p)
  BY DEF ClickSuggestion
<1>2. m.query \in Query
  BY <1>1, Apart DEF Messages, Suggests
<1>3. Bearings'
  BY <1>1, <1>2, PlaceOK, GoToOK
<1>4. RemoveStart(shown) /\ UNCHANGED <<panels, flying, searches>>
  BY DEF ClickSuggestion
<1>5. QED
  BY <1>3, <1>4, RemovedOK, Apart, Together

LEMMA CloseStep == ASSUME SInv, CloseStart, UNCHANGED start PROVE SInv'
<1>1. /\ RemoveStart(shown)
      /\ UNCHANGED <<panels, view, hash, flying, searches>>
  BY DEF CloseStart
<1>2. Bearings'
  BY <1>1, Apart, StayOK
<1>3. QED
  BY <1>1, <1>2, RemovedOK, Apart, Together

LEMMA SearchStepInv == SInv /\ [SearchNext]_searchVars => SInv'
<1>1. ASSUME SInv, SearchNext PROVE SInv'
  BY <1>1, SubmitStep, MovedStep, ToldStep, ClickStep, CloseStep
     DEF SearchNext, EndSome
<1>2. ASSUME SInv, UNCHANGED searchVars PROVE SInv'
  BY <1>2 DEF searchVars, SInv, SearchTypeOK, OneMessage, UrlNamesView, Flights,
              Suggests
<1>3. QED
  BY <1>1, <1>2

-----------------------------------------------------------------------------
(* The dialog with the announcements about an area.                        *)

AList   == [pages : Nat \ {0}, active : SUBSET Nat]
AFooter == [number : Nat \ {0}, length : Nat \ {0}, back : BOOLEAN,
            forward : BOOLEAN]

\* The lists and the footers come in pairs, and pages are pages of the list.
Typed ==
  /\ lists \in Seq(AList) /\ footers \in Seq(AFooter)
  /\ Len(lists) = Len(footers)
  /\ \A i \in DOMAIN lists : lists[i].active \subseteq 1 .. lists[i].pages
  /\ pageCurrent \in Nat \ {0} /\ pageLength \in Nat \ {0}

\* The rest of the type invariant.
Rest ==
  /\ dialog \in {"intro", "open", "closed"}
  /\ requests \in Nat /\ pending \subseteq 1 .. requests
  /\ asked \in BOOLEAN
  /\ title \in {"busy", "found", "none", "error"}
  /\ content \in BOOLEAN /\ hidden \in BOOLEAN

\* Without the dialog there is nothing in it; a dialog that got no answer but
\* its own has no list before that answer, and none but that of the answer.
Fresh ==
  /\ dialog # "open" => lists = <<>> /\ title = "busy"
  /\ dialog = "open" /\ ~foreign /\ (requests \in pending \/ title # "found")
       => lists = <<>>

\* The inductive invariant.
VInv == Typed /\ Rest /\ Fresh /\ PagingConsistent

-----------------------------------------------------------------------------
(* Facts about the operators.                                              *)

LEMMA PagesOfOK == ASSUME NEW n \in Nat \ {0} PROVE PagesOf(n) \in Nat \ {0}
<1>. DEFINE k == ItemsPerPage
            q == (n + k - 1) \div k
<1>1. k \in Nat \ {0}
  BY VlakAssumption
<1>2. n + k - 1 \in Nat /\ n + k - 1 >= k
  BY <1>1
<1>3. q \in Int
  BY <1>1, <1>2
<1>4. k * q <= n + k - 1 /\ n + k - 1 < k * q + k
  BY <1>1, <1>2, SMT
<1>5. q > 0
  <2>1. SUFFICES ASSUME q <= 0 PROVE FALSE
    BY <1>3
  <2>2. k * q <= 0
    <3>. HIDE DEF q
    <3>1. QED
      BY <1>1, <1>3, <2>1, SMT
  <2>3. QED
    BY <1>1, <1>2, <1>4, <2>2, SMT
<1>6. QED
  BY <1>3, <1>5 DEF PagesOf

LEMMA NewOK ==
  ASSUME NEW n \in Nat \ {0}
  PROVE  /\ NewList(n) \in AList /\ NewList(n).active = {1}
         /\ NewList(n).pages = PagesOf(n)
         /\ NewList(n).active \subseteq 1 .. NewList(n).pages
<1>1. PagesOf(n) \in Nat \ {0}
  BY PagesOfOK
<1>2. QED
  BY <1>1 DEF NewList, AList

LEMMA NewFooterOK ==
  ASSUME NEW n \in Nat \ {0}
  PROVE  /\ NewFooter(n) \in AFooter
         /\ NewFooter(n).number = 1 /\ NewFooter(n).length = n
         /\ ~NewFooter(n).back /\ (NewFooter(n).forward <=> n > 1)
<1>. DEFINE more == n # 1
<1>1. more \in BOOLEAN /\ (more <=> n > 1)
  OBVIOUS
<1>2. NewFooter(n) = [number |-> 1, length |-> n, back |-> FALSE, forward |-> more]
  BY DEF NewFooter
<1>. HIDE DEF more
<1>3. NewFooter(n) \in AFooter
  <2>1. 1 \in Nat \ {0} /\ n \in Nat \ {0} /\ FALSE \in BOOLEAN
    OBVIOUS
  <2>2. QED
    BY <1>1, <1>2, <2>1 DEF AFooter
<1>4. /\ NewFooter(n).number = 1 /\ NewFooter(n).length = n
      /\ NewFooter(n).back = FALSE /\ NewFooter(n).forward = more
  BY <1>2
<1>5. QED
  BY <1>1, <1>3, <1>4, Zenon

\* A list and a footer that are turned to another page.
LEMMA TurnOK ==
  ASSUME NEW l \in AList, l.active \subseteq 1 .. l.pages, NEW from, NEW to
  PROVE  /\ Turn(l, from, to) \in AList
         /\ Turn(l, from, to).pages = l.pages
         /\ Turn(l, from, to).active = (l.active \ {from}) \cup ({to} \cap 1 .. l.pages)
         /\ Turn(l, from, to).active \subseteq 1 .. l.pages
  BY DEF Turn, AList

LEMMA TurnFooterOK ==
  ASSUME Typed, NEW i \in DOMAIN footers, NEW to \in Nat \ {0}
  PROVE  /\ TurnFooter(i, to) \in AFooter
         /\ TurnFooter(i, to).number = to
         /\ TurnFooter(i, to).length = footers[i].length
         /\ TurnFooter(i, to).back    <=> i # 1 \/ to # 1
         /\ TurnFooter(i, to).forward <=> i # 1 \/ to # pageLength
<1>1. footers[i] \in AFooter
  BY DEF Typed
<1>2. (i # 1 \/ to # 1) \in BOOLEAN /\ (i # 1 \/ to # pageLength) \in BOOLEAN
  OBVIOUS
<1>3. QED
  BY <1>1, <1>2 DEF TurnFooter, AFooter

\* All lists and footers turned.
LEMMA AllTurned ==
  ASSUME Typed, NEW to \in Nat \ {0},
         lists' = [i \in DOMAIN lists |-> Turn(lists[i], pageCurrent, to)],
         footers' = [i \in DOMAIN footers |-> TurnFooter(i, to)]
  PROVE  /\ lists' \in Seq(AList) /\ Len(lists') = Len(lists)
         /\ DOMAIN lists' = DOMAIN lists
         /\ \A i \in DOMAIN lists : lists'[i].active \subseteq 1 .. lists'[i].pages
         /\ footers' \in Seq(AFooter) /\ Len(footers') = Len(footers)
<1>1. /\ Len(lists) \in Nat /\ DOMAIN lists = 1 .. Len(lists)
      /\ Len(footers) \in Nat /\ DOMAIN footers = 1 .. Len(footers)
  BY LenProperties DEF Typed
<1>2. \A i \in DOMAIN lists : lists[i] \in AList
  BY DEF Typed
<1>3. \A i \in DOMAIN lists : /\ Turn(lists[i], pageCurrent, to) \in AList
                              /\ Turn(lists[i], pageCurrent, to).active
                                   \subseteq 1 .. Turn(lists[i], pageCurrent, to).pages
  BY <1>2, TurnOK DEF Typed
<1>4. lists' \in [1 .. Len(lists) -> AList]
  BY <1>1, <1>3
<1>5. lists' \in Seq(AList)
  BY <1>1, <1>4, SeqDef
<1>6. \A i \in DOMAIN footers : TurnFooter(i, to) \in AFooter
  BY TurnFooterOK
<1>7. footers' \in [1 .. Len(footers) -> AFooter]
  BY <1>1, <1>6
<1>8. footers' \in Seq(AFooter)
  BY <1>1, <1>7, SeqDef
<1>9. Len(lists') = Len(lists) /\ DOMAIN lists' = DOMAIN lists
  BY <1>1, <1>4, <1>5, LenProperties
<1>10. Len(footers') = Len(footers)
  BY <1>1, <1>7, <1>8, LenProperties
<1>11. QED
  BY <1>3, <1>5, <1>8, <1>9, <1>10

\* The pages of an answer that comes, to a dialog or to none.
LEMMA SetPagesOK ==
  ASSUME Typed, NEW n \in Nat, SetPages(n)
  PROVE  pageCurrent' \in Nat \ {0} /\ pageLength' \in Nat \ {0}
<1>1. CASE n = 0
  BY <1>1 DEF SetPages, Typed
<1>2. CASE n # 0
  BY <1>2, PagesOfOK DEF SetPages
<1>3. QED
  BY <1>1, <1>2

-----------------------------------------------------------------------------
(* The steps of the dialog with announcements.                             *)

LEMMA VlakInitInv == VlakInit => VInv
<1>1. ASSUME VlakInit PROVE VInv
  <2>1. <<>> \in Seq(AList) /\ <<>> \in Seq(AFooter)
    BY EmptySeq
  <2>2. Typed
    BY <1>1, <2>1 DEF VlakInit, Typed
  <2>3. Rest
    BY <1>1 DEF VlakInit, Rest
  <2>4. QED
    BY <1>1, <2>2, <2>3 DEF VlakInit, VInv, Fresh, PagingConsistent
<1>2. QED
  BY <1>1

\* A dialog that is opened or removed is empty.
LEMMA EmptyOK ==
  ASSUME Typed, Empty, UNCHANGED pageVars
  PROVE  Typed' /\ Fresh' /\ PagingConsistent' /\ title' = "busy"
<1>1. <<>> \in Seq(AList) /\ <<>> \in Seq(AFooter)
  BY EmptySeq
<1>2. title' = "busy" /\ lists' = <<>> /\ footers' = <<>>
      /\ pageCurrent' = pageCurrent /\ pageLength' = pageLength
  BY DEF Empty, pageVars
<1>3. Typed'
  BY <1>1, <1>2 DEF Typed
<1>4. QED
  BY <1>2, <1>3 DEF Fresh, PagingConsistent

LEMMA RemoveStep == ASSUME VInv, RemoveDialog PROVE VInv'
<1>1. Rest'
  BY DEF VInv, Rest, RemoveDialog, Empty, popupVars
<1>2. QED
  BY <1>1, EmptyOK DEF VInv, RemoveDialog

LEMMA CloseAreasStep == ASSUME VInv, Close PROVE VInv'
<1>1. Rest'
  BY DEF VInv, Rest, Close, Empty, ShowPopup
<1>2. QED
  BY <1>1, EmptyOK DEF VInv, Close

LEMMA OpenStep ==
  ASSUME VInv, NEW extent \in BOOLEAN, GeozetAlertClick(extent)
  PROVE  VInv'
<1>1. requests \in Nat /\ pending \subseteq 1 .. requests
  BY DEF VInv, Rest
<1>2. /\ requests' = requests + 1
      /\ pending' = IF extent THEN pending \cup {requests'} ELSE pending
  BY DEF GeozetAlertClick
<1>3. requests' \in Nat /\ pending' \subseteq 1 .. requests'
  <2>1. requests' \in Nat /\ requests' \in 1 .. requests'
        /\ 1 .. requests \subseteq 1 .. requests'
    BY <1>1, <1>2
  <2>2. QED
    BY <1>1, <1>2, <2>1
<1>4. /\ asked' \in BOOLEAN /\ hidden' \in BOOLEAN
  BY Zenon DEF GeozetAlertClick
<1>5. /\ dialog' \in {"intro", "open", "closed"} /\ content' \in BOOLEAN
      /\ title' \in {"busy", "found", "none", "error"}
  BY DEF VInv, Rest, GeozetAlertClick, Empty
<1>6. Rest'
  BY <1>3, <1>4, <1>5 DEF Rest
<1>7. QED
  BY <1>6, EmptyOK DEF VInv, GeozetAlertClick

\* A request ended: the dialog that is open took its answer, or none did.
LEMMA PendingOK ==
  ASSUME VInv, End
  PROVE  /\ Rest'
         /\ dialog' = dialog /\ requests' = requests
<1>1. /\ pending' \subseteq pending
      /\ title' \in {title, "none", "found", "error"}
      /\ UNCHANGED <<dialog, requests, asked, popupVars>>
  BY DEF End, HandleResponse, HandleError
<1>2. QED
  BY <1>1 DEF VInv, Rest, popupVars

\* An answer for a dialog without a list gives it one.
LEMMA FoundOK ==
  ASSUME Typed, NEW n \in Nat \ {0}, lists = <<>>, SetPages(n),
         lists' = <<NewList(n)>> \o lists,
         footers' = Append(footers, NewFooter(PagesOf(n)))
  PROVE  PagingConsistent'
<1>1. PagesOf(n) \in Nat \ {0} /\ NewList(n) \in AList
  BY PagesOfOK, NewOK
<1>2. footers = <<>>
  BY EmptySeq DEF Typed
<1>3. lists' = <<NewList(n)>>
  BY <1>1, ConcatEmptySeq
<1>4. footers' = <<NewFooter(PagesOf(n))>>
  BY <1>2
<1>5. Len(lists') = 1 /\ lists'[1] = NewList(n)
      /\ footers'[1] = NewFooter(PagesOf(n))
  BY <1>3, <1>4
<1>6. pageCurrent' = 1 /\ pageLength' = PagesOf(n)
  BY DEF SetPages
<1>7. /\ lists'[1].active = {1} /\ lists'[1].pages = PagesOf(n)
  BY <1>5, NewOK
<1>8. /\ footers'[1].number = 1 /\ footers'[1].length = PagesOf(n)
      /\ ~footers'[1].back /\ (footers'[1].forward <=> PagesOf(n) > 1)
  BY <1>1, <1>5, NewFooterOK
<1>9. /\ ~(pageCurrent' > 1)
      /\ pageCurrent' < pageLength' <=> PagesOf(n) > 1
  BY <1>1, <1>6
<1>10. QED
  BY <1>5, <1>6, <1>7, <1>8, <1>9 DEF PagingConsistent

LEMMA FoundTyped ==
  ASSUME Typed, NEW n \in Nat \ {0}, SetPages(n),
         lists' = <<NewList(n)>> \o lists,
         footers' = Append(footers, NewFooter(PagesOf(n)))
  PROVE  Typed'
<1>1. NewList(n) \in AList /\ NewFooter(PagesOf(n)) \in AFooter
      /\ NewList(n).active \subseteq 1 .. NewList(n).pages
  BY NewOK, PagesOfOK, NewFooterOK
<1>. DEFINE one == <<NewList(n)>>
<1>2. one \in Seq(AList) /\ Len(one) = 1 /\ one[1] = NewList(n)
  BY <1>1
<1>3. Len(lists) \in Nat /\ DOMAIN lists = 1 .. Len(lists)
  BY LenProperties DEF Typed
<1>. HIDE DEF one
<1>4. /\ one \o lists \in Seq(AList) /\ Len(one \o lists) = 1 + Len(lists)
      /\ \A i \in 1 .. 1 + Len(lists) :
           (one \o lists)[i] = IF i <= 1 THEN one[i] ELSE lists[i - 1]
  <2>1. lists \in Seq(AList)
    BY DEF Typed
  <2>2. /\ one \o lists \in Seq(AList)
        /\ Len(one \o lists) = Len(one) + Len(lists)
        /\ \A i \in 1 .. Len(one) + Len(lists) : (one \o lists)[i] =
              IF i <= Len(one) THEN one[i] ELSE lists[i - Len(one)]
    BY <1>2, <2>1, ConcatProperties
  <2>3. QED
    BY <1>2, <2>2
<1>5. lists' = one \o lists
  BY DEF one
<1>6. DOMAIN lists' = 1 .. 1 + Len(lists)
  BY <1>4, <1>5, LenProperties
<1>7. ASSUME NEW i \in DOMAIN lists'
      PROVE  lists'[i].active \subseteq 1 .. lists'[i].pages
  <2>1. CASE i = 1
    BY <1>1, <1>2, <1>4, <1>5, <1>6, <2>1
  <2>2. CASE i # 1
    <3>1. i - 1 \in DOMAIN lists /\ lists'[i] = lists[i - 1]
      BY <1>3, <1>4, <1>5, <1>6, <1>7, <2>2
    <3>2. QED
      BY <3>1 DEF Typed
  <2>3. QED
    BY <2>1, <2>2
<1>8. footers' \in Seq(AFooter) /\ Len(footers') = Len(footers) + 1
  BY <1>1 DEF Typed
<1>9. QED
  BY <1>3, <1>4, <1>5, <1>7, <1>8, SetPagesOK DEF Typed

LEMMA EndStep == ASSUME VInv, End PROVE VInv'
<1>1. PICK r \in pending :
        /\ pending' = pending \ {r}
        /\ (\E n \in Counts : HandleResponse(r, n)) \/ HandleError(r)
  BY DEF End
<1>2. Rest' /\ dialog' = dialog /\ requests' = requests
  BY PendingOK
<1>3. ASSUME NEW n \in Counts, HandleResponse(r, n) PROVE VInv'
  <2>1. n \in Nat /\ SetPages(n)
    BY <1>3, VlakAssumption DEF HandleResponse
  <2>2. pageCurrent' \in Nat \ {0} /\ pageLength' \in Nat \ {0}
    BY <2>1, SetPagesOK DEF VInv
  <2>3. CASE dialog # "open"
    <3>1. UNCHANGED <<title, lists, footers>>
      BY <1>3, <2>3 DEF HandleResponse
    <3>2. QED
      BY <1>2, <2>2, <2>3, <3>1 DEF VInv, Typed, Fresh, PagingConsistent
  <2>4. CASE dialog = "open" /\ n = 0
    <3>1. UNCHANGED <<lists, footers>> /\ title' = "none"
      BY <1>3, <2>4 DEF HandleResponse
    <3>2. ~foreign' => ~foreign /\ r = requests
      BY <1>3, <2>4, Zenon DEF HandleResponse
    <3>3. Typed'
      BY <2>2, <3>1 DEF VInv, Typed
    <3>4. Fresh'
      BY <1>1, <1>2, <2>4, <3>1, <3>2 DEF VInv, Fresh
    <3>5. QED
      BY <1>2, <3>1, <3>3, <3>4 DEF VInv, PagingConsistent
  <2>5. CASE dialog = "open" /\ n # 0
    <3>1. /\ title' = "found" /\ lists' = <<NewList(n)>> \o lists
          /\ footers' = Append(footers, NewFooter(PagesOf(n)))
      BY <1>3, <2>5 DEF HandleResponse
    <3>2. ~foreign' => ~foreign /\ r = requests
      BY <1>3, <2>5, Zenon DEF HandleResponse
    <3>3. ~foreign' => lists = <<>>
      BY <1>1, <2>5, <3>2 DEF VInv, Fresh
    <3>4. Typed'
      BY <2>1, <2>5, <3>1, FoundTyped DEF VInv
    <3>5. Fresh'
      <4>1. ~foreign' => requests' \notin pending'
        BY <1>1, <1>2, <3>2
      <4>2. QED
        BY <1>2, <2>5, <3>1, <4>1 DEF Fresh
    <3>6. PagingConsistent'
      <4>1. CASE foreign'
        BY <4>1 DEF PagingConsistent
      <4>2. CASE ~foreign'
        BY <2>1, <2>5, <3>1, <3>3, <4>2, FoundOK DEF VInv
      <4>3. QED
        BY <4>1, <4>2
    <3>7. QED
      BY <1>2, <3>4, <3>5, <3>6 DEF VInv
  <2>6. QED
    BY <2>3, <2>4, <2>5
<1>4. CASE HandleError(r)
  <2>1. /\ UNCHANGED <<lists, footers, pageCurrent>> /\ pageLength' = 1
        /\ title' = IF dialog = "open" THEN "error" ELSE title
    BY <1>4 DEF HandleError
  <2>2. ~foreign' => ~foreign /\ (dialog # "open" \/ r = requests)
    BY <1>4, Zenon DEF HandleError
  <2>3. Typed'
    BY <2>1 DEF VInv, Typed
  <2>4. Fresh' /\ PagingConsistent'
    BY <1>1, <1>2, <2>1, <2>2 DEF VInv, Fresh, PagingConsistent
  <2>5. QED
    BY <1>2, <2>3, <2>4 DEF VInv
<1>5. QED
  BY <1>1, <1>3, <1>4

LEMMA GoStep == ASSUME VInv, NEW to \in Int, Go(to) PROVE VInv'
<1>1. /\ dialog = "open" /\ footers # <<>> /\ to \in Nat \ {0} /\ to <= pageLength
      /\ pageCurrent' = to
      /\ lists' = [i \in DOMAIN lists |-> Turn(lists[i], pageCurrent, to)]
      /\ footers' = [i \in DOMAIN footers |-> TurnFooter(i, to)]
      /\ UNCHANGED <<dialog, requests, pending, asked, title, pageLength,
                     popupVars, foreign>>
  BY DEF Go
<1>2. Typed /\ Len(lists) = Len(footers) /\ Len(footers) \in Nat \ {0}
      /\ Len(lists) \in Nat
      /\ DOMAIN lists = 1 .. Len(lists) /\ DOMAIN footers = 1 .. Len(footers)
  BY <1>1, EmptySeq, LenProperties DEF VInv, Typed
<1>3. /\ lists' \in Seq(AList) /\ Len(lists') = Len(lists)
      /\ DOMAIN lists' = DOMAIN lists
      /\ \A i \in DOMAIN lists : lists'[i].active \subseteq 1 .. lists'[i].pages
      /\ footers' \in Seq(AFooter) /\ Len(footers') = Len(footers)
  BY <1>1, <1>2, AllTurned
<1>4. Typed'
  BY <1>1, <1>2, <1>3 DEF Typed
<1>5. Rest'
  BY <1>1 DEF VInv, Rest, popupVars
<1>6. Fresh'
  BY <1>1, <1>2, EmptySeq DEF VInv, Fresh
<1>7. ASSUME title = "found", ~foreign
      PROVE  /\ Len(lists') = 1
             /\ lists'[1].active = {pageCurrent'}
             /\ pageLength' = lists'[1].pages
             /\ footers'[1].number = pageCurrent'
             /\ footers'[1].length = pageLength'
             /\ footers'[1].back <=> pageCurrent' > 1
             /\ footers'[1].forward <=> pageCurrent' < pageLength'
  <2>1. /\ Len(lists) = 1 /\ lists[1].active = {pageCurrent}
        /\ pageLength = lists[1].pages /\ footers[1].length = pageLength
    BY <1>1, <1>7 DEF VInv, PagingConsistent
  <2>2. 1 \in DOMAIN lists /\ 1 \in DOMAIN footers /\ lists[1] \in AList
        /\ lists[1].active \subseteq 1 .. lists[1].pages
    <3>1. /\ lists \in Seq(AList) /\ footers \in Seq(AFooter)
          /\ Len(lists) = 1 /\ Len(footers) = 1
      BY <1>2, <2>1 DEF Typed
    <3>2. DOMAIN lists = 1 .. 1 /\ DOMAIN footers = 1 .. 1
      BY <3>1, LenProperties
    <3>3. 1 \in DOMAIN lists /\ 1 \in DOMAIN footers
      BY <3>2
    <3>4. lists[1] \in AList
      <4>1. 1 \in 1 .. Len(lists)
        BY <3>1
      <4>2. QED
        BY <3>1, <4>1, ElementOfSeq, Zenon
    <3>5. QED
      BY <1>2, <3>3, <3>4 DEF Typed
  <2>3. /\ lists'[1] = Turn(lists[1], pageCurrent, to)
        /\ footers'[1] = TurnFooter(1, to)
    BY <1>1, <2>2
  <2>4. /\ lists'[1].pages = lists[1].pages
        /\ lists'[1].active = (lists[1].active \ {pageCurrent})
                                \cup ({to} \cap 1 .. lists[1].pages)
    BY <2>2, <2>3, TurnOK
  <2>5. to \in 1 .. lists[1].pages
    BY <1>1, <2>1 DEF VInv, Typed
  <2>6. lists'[1].active = {to}
    BY <2>1, <2>4, <2>5
  <2>7. /\ footers'[1].number = to /\ footers'[1].length = footers[1].length
        /\ footers'[1].back <=> to # 1
        /\ footers'[1].forward <=> to # pageLength
    BY <1>1, <1>2, <2>2, <2>3, TurnFooterOK
  <2>8. (to # 1 <=> to > 1) /\ (to # pageLength <=> to < pageLength)
    BY <1>1 DEF VInv, Typed
  <2>9. QED
    BY <1>1, <1>3, <2>1, <2>4, <2>6, <2>7, <2>8
<1>8. PagingConsistent'
  BY <1>1, <1>7 DEF PagingConsistent
<1>9. QED
  BY <1>4, <1>5, <1>6, <1>8 DEF VInv

LEMMA VlakStepInv == VInv /\ [VlakNext]_vlakVars => VInv'
<1>1. ASSUME VInv, VlakNext PROVE VInv'
  <2>1. CASE PopupChanges
    <3>1. /\ content' \in BOOLEAN
          /\ UNCHANGED <<dialog, requests, pending, asked, title, lists, footers,
                         pageCurrent, pageLength, hidden, foreign>>
      BY <2>1 DEF PopupChanges, pageVars
    <3>2. QED
      BY <1>1, <3>1 DEF VInv, Typed, Rest, Fresh, PagingConsistent
  <2>2. CASE Paging
    <3>1. pageCurrent + 1 \in Int /\ pageCurrent - 1 \in Int
      BY <1>1 DEF VInv, Typed
    <3>2. QED
      BY <1>1, <2>2, <3>1, GoStep DEF Paging
  <2>3. QED
    BY <1>1, <2>1, <2>2, RemoveStep, CloseAreasStep, OpenStep, EndStep
       DEF VlakNext
<1>2. ASSUME VInv, UNCHANGED vlakVars PROVE VInv'
  BY <1>2 DEF vlakVars, pageVars, popupVars, VInv, Typed, Rest, Fresh,
              PagingConsistent
<1>3. QED
  BY <1>1, <1>2

-----------------------------------------------------------------------------
(* The list on top, with answers of earlier dialogs under it.              *)

LEMMA TopEndStep == ASSUME VInv, TopListPages, End PROVE TopListPages'
<1>1. PICK r \in pending :
        (\E n \in Counts : HandleResponse(r, n)) \/ HandleError(r)
  BY DEF End
<1>2. dialog' = dialog
  BY DEF End
<1>3. ASSUME NEW n \in Counts, HandleResponse(r, n) PROVE TopListPages'
  <2>1. CASE dialog # "open"
    BY <1>2, <2>1 DEF TopListPages
  <2>2. CASE dialog = "open" /\ n = 0
    <3>1. title' = "none"
      BY <1>3, <2>2 DEF HandleResponse
    <3>2. QED
      BY <3>1 DEF TopListPages
  <2>3. CASE dialog = "open" /\ n # 0
    <3>1. /\ n \in Nat \ {0} /\ SetPages(n)
          /\ lists' = <<NewList(n)>> \o lists
      BY <1>3, <2>3, VlakAssumption DEF HandleResponse
    <3>2. pageCurrent' = 1 /\ pageLength' = PagesOf(n)
      BY <3>1 DEF SetPages
    <3>3. /\ NewList(n) \in AList /\ NewList(n).active = {1}
          /\ NewList(n).pages = PagesOf(n)
      BY <3>1, NewOK
    <3>4. lists \in Seq(AList)
      BY DEF VInv, Typed
    <3>. DEFINE new == NewList(n)
    <3>5. lists' # <<>> /\ lists'[1] = new
      <4>. HIDE DEF new
      <4>1. lists' = <<new>> \o lists /\ new \in AList
        BY <3>1, <3>3 DEF new
      <4>. QED  BY <3>4, <4>1
    <3>. QED  BY <3>2, <3>3, <3>5 DEF TopListPages
  <2>. QED  BY <2>1, <2>2, <2>3
<1>4. CASE HandleError(r)
  BY <1>2, <1>4 DEF HandleError, TopListPages
<1>. QED  BY <1>1, <1>3, <1>4

LEMMA TopGoStep ==
  ASSUME VInv, TopListPages, NEW to \in Int, Go(to)
  PROVE  TopListPages'
<1>1. SUFFICES ASSUME dialog' = "open", title' = "found"
      PROVE  /\ lists' # <<>> /\ lists'[1].active = {pageCurrent'}
             /\ lists'[1].pages = pageLength'
  BY DEF TopListPages
<1>2. /\ to \in Nat \ {0} /\ to <= pageLength /\ pageCurrent' = to
      /\ lists' = [i \in DOMAIN lists |-> Turn(lists[i], pageCurrent, to)]
      /\ UNCHANGED <<dialog, title, pageLength>>
  BY DEF Go
<1>3. /\ lists # <<>> /\ lists[1].active = {pageCurrent}
      /\ lists[1].pages = pageLength
  BY <1>1, <1>2 DEF TopListPages
<1>4. /\ Len(lists) \in Nat \ {0} /\ DOMAIN lists = 1 .. Len(lists)
      /\ lists \in Seq(AList)
  BY <1>3, EmptySeq, LenProperties DEF VInv, Typed
<1>5. /\ 1 \in DOMAIN lists /\ lists[1] \in AList
      /\ lists[1].active \subseteq 1 .. lists[1].pages
  BY <1>4 DEF VInv, Typed
<1>6. lists'[1] = Turn(lists[1], pageCurrent, to) /\ lists' # <<>>
  BY <1>2, <1>5
<1>7. /\ lists'[1].pages = lists[1].pages
      /\ lists'[1].active = (lists[1].active \ {pageCurrent})
                               \cup ({to} \cap 1 .. lists[1].pages)
  BY <1>5, <1>6, TurnOK
<1>8. to \in 1 .. lists[1].pages /\ pageLength' = pageLength
  BY <1>2, <1>3 DEF VInv, Typed
<1>. QED  BY <1>2, <1>3, <1>6, <1>7, <1>8

LEMMA TopStep == VInv /\ TopListPages /\ [VlakNext]_vlakVars => TopListPages'
<1>. SUFFICES ASSUME VInv, TopListPages, [VlakNext]_vlakVars  PROVE TopListPages'
  OBVIOUS
<1>1. CASE Close \/ RemoveDialog
  <2>1. dialog' = "closed"
    BY <1>1 DEF Close, RemoveDialog
  <2>. QED  BY <2>1 DEF TopListPages
<1>2. CASE \E extent \in BOOLEAN : GeozetAlertClick(extent)
  <2>1. title' = "busy"
    BY <1>2 DEF GeozetAlertClick, Empty
  <2>. QED  BY <2>1 DEF TopListPages
<1>3. CASE PopupChanges \/ UNCHANGED vlakVars
  BY <1>3 DEF PopupChanges, vlakVars, pageVars, TopListPages
<1>4. CASE Paging
  <2>1. pageCurrent + 1 \in Int /\ pageCurrent - 1 \in Int
    BY DEF VInv, Typed
  <2>. QED  BY <1>4, <2>1, TopGoStep DEF Paging
<1>. QED  BY <1>1, <1>2, <1>3, <1>4, TopEndStep DEF VlakNext

-----------------------------------------------------------------------------
(* The search and the dialog together.                                     *)

\* Every step of the page is a step of the search or leaves it alone, and a
\* step of the dialog or leaves that alone.
LEMMA StepOfBoth == Next => [SearchNext]_searchVars /\ [VlakNext]_vlakVars
<1>1. ASSUME DialogGoes PROVE [VlakNext]_vlakVars
  BY <1>1 DEF DialogGoes, VlakNext
<1>2. ASSUME IntroGoes PROVE [SearchNext]_searchVars
  BY <1>2 DEF IntroGoes, SearchNext
<1>3. ASSUME GoToPlace PROVE [SearchNext]_searchVars /\ [VlakNext]_vlakVars
  BY <1>1, <1>3 DEF GoToPlace, SearchNext, EndSome
<1>4. ASSUME SearchAlone PROVE [SearchNext]_searchVars /\ [VlakNext]_vlakVars
  BY <1>4 DEF SearchAlone, SearchNext, EndSome
<1>5. ASSUME CloseDialog \/ FocusLink
      PROVE  [SearchNext]_searchVars /\ [VlakNext]_vlakVars
  BY <1>2, <1>5 DEF CloseDialog, FocusLink, VlakNext
<1>6. ASSUME OpenAreas \/ AreasAlone
      PROVE  [SearchNext]_searchVars /\ [VlakNext]_vlakVars
  <2>1. (view # None) \in BOOLEAN
    OBVIOUS
  <2>2. QED
    BY <1>6, <2>1 DEF OpenAreas, AreasAlone, VlakNext
<1>7. QED
  BY <1>3, <1>4, <1>5, <1>6 DEF Next

LEMMA StepsOfBoth == [Next]_vars => [SearchNext]_searchVars /\ [VlakNext]_vlakVars
<1>1. UNCHANGED vars => UNCHANGED searchVars /\ UNCHANGED vlakVars
  BY DEF vars
<1>2. QED
  BY <1>1, StepOfBoth

\* The search form of the start is in the page as long as the introduction.
IntroHasForm == "core" \in forms <=> dialog = "intro"

\* The inductive invariant of the page.
IInv == SInv /\ VInv /\ TopListPages /\ IntroHasForm

LEMMA IntroStep == IntroHasForm /\ [Next]_vars => IntroHasForm'
<1>1. ASSUME IntroHasForm, GoToPlace PROVE IntroHasForm'
  <2>1. forms' = forms \ {"core"}
    BY <1>1 DEF GoToPlace, ClickSuggestion, Moved, AnswerMoves, RemoveStart
  <2>2. dialog' # "intro"
    BY <1>1 DEF GoToPlace, DialogGoes, RemoveDialog, vlakVars
  <2>3. QED
    BY <2>1, <2>2 DEF IntroHasForm
<1>2. ASSUME IntroHasForm, SearchAlone PROVE IntroHasForm'
  BY <1>2 DEF IntroHasForm, SearchAlone, SubmitSome, SubmitShort, Submit, Told,
              AnswerToViewer, AnswerTells, FailedAnswer, Failed, vlakVars
<1>3. ASSUME IntroHasForm, CloseDialog \/ FocusLink PROVE IntroHasForm'
  <2>1. dialog' = "closed"
    BY <1>3 DEF CloseDialog, FocusLink, Close, RemoveDialog
  <2>2. "core" \notin forms'
    BY <1>3 DEF CloseDialog, FocusLink, IntroHasForm, IntroGoes, CloseStart,
                RemoveStart, searchVars
  <2>3. QED
    BY <2>1, <2>2 DEF IntroHasForm
<1>4. ASSUME IntroHasForm, OpenAreas PROVE IntroHasForm'
  BY <1>4 DEF IntroHasForm, OpenAreas, GeozetAlertClick, searchVars
<1>5. ASSUME IntroHasForm, AreasAlone PROVE IntroHasForm'
  BY <1>5 DEF IntroHasForm, AreasAlone, End, PopupChanges, Paging, Go, searchVars
<1>6. ASSUME IntroHasForm, UNCHANGED vars PROVE IntroHasForm'
  BY <1>6 DEF IntroHasForm, vars, searchVars, vlakVars
<1>7. QED
  BY <1>1, <1>2, <1>3, <1>4, <1>5, <1>6 DEF Next

\* Whatever the parts do to each other, both keep their invariants.
THEOREM PageInvariant == Spec => []IInv
<1>1. Init => IInv
  <2>. SUFFICES ASSUME Init  PROVE IInv
    OBVIOUS
  <2>1. SInv /\ VInv
    BY SearchInitInv, VlakInitInv DEF Init
  <2>2. TopListPages /\ IntroHasForm
    BY DEF Init, VlakInit, TopListPages, IntroHasForm
  <2>. QED  BY <2>1, <2>2 DEF IInv
<1>2. IInv /\ [Next]_vars => IInv'
  BY StepsOfBoth, SearchStepInv, VlakStepInv, TopStep, IntroStep DEF IInv
<1>. QED  BY <1>1, <1>2, PTL DEF Spec

\* The variables of the page keep their types.
THEOREM TypeCorrect == Spec => []TypeOK
<1>1. IInv => TypeOK
  BY DEF IInv, SInv, VInv, Typed, Rest, IntroHasForm, TypeOK, VlakTypeOK
<1>. QED  BY <1>1, PageInvariant, PTL

\* However the answers come in, there is one message or one list at most.
THEOREM OneMessageAtMost == Spec => []OneMessage
<1>1. IInv => OneMessage
  BY DEF IInv, SInv
<1>. QED  BY <1>1, PageInvariant, PTL

\* The URL names the place the map went to, but for the late answer.
THEOREM UrlAlwaysNamesView == Spec => []UrlNamesView
<1>1. IInv => UrlNamesView
  BY DEF IInv, SInv
<1>. QED  BY <1>1, PageInvariant, PTL

\* A dialog that got only its own answer pages right.
THEOREM PagingAlwaysConsistent == Spec => []PagingConsistent
<1>1. IInv => PagingConsistent
  BY DEF IInv, VInv
<1>. QED  BY <1>1, PageInvariant, PTL

\* The list on top pages right in every dialog, whatever answers it got.
THEOREM TopListAlwaysPages == Spec => []TopListPages
<1>1. IInv => TopListPages
  BY DEF IInv
<1>. QED  BY <1>1, PageInvariant, PTL
=============================================================================
