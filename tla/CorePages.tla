------------------------------ MODULE CorePages -----------------------------
(***************************************************************************)
(* How a visitor without JavaScript gets from a search to announcements    *)
(* and back: the dispatch of a request (GeozetServlet), the search for a   *)
(* place (OpenLSServlet, with the geocoder behind it) and the parameters   *)
(* that the forms and links of the pages hand on, as nothing is kept on    *)
(* the server.  The pages of a list are left to module ResultPages.        *)
(*                                                                         *)
(* A place is a pair of coordinates.  A text is told apart by what the     *)
(* servlet makes of it, and by what is left of it when a page writes it as *)
(* it is into a link or a form.  Left out: a text that brings parameters   *)
(* of its own into a link ("&" with "=").                                  *)
(***************************************************************************)
EXTENDS AreaQuery, FiniteSets

CONSTANTS
  Place,      \* the places the geocoder knows
  Text,       \* the texts a visitor may type, and the names of the places
  TextKind,   \* TextKind[t], see Kind
  TextRadius, \* TextRadius[t]: the radius among the parts of t, or None
  Name,       \* Name[p]: what the geocoder calls p
  Ends,       \* the texts that end a link they are written into ("#", quote)
  InLink,     \* InLink[t]: what a servlet reads where t is written into a link
  InForm,     \* InForm[t]: the same for a hidden field of a form
  Empty,      \* the empty text
  Unknown,    \* "onbekend"
  Radius,     \* the options of the filter form
  HitRadius,  \* HitRadius[p]: the radius for the kind of place p
  Standard,   \* OPENLS_ZOOMSCALE_STANDAARD
  NoNumber,   \* a radius that is not a number
  None        \* a parameter that is missing

\* A text is empty (or the one filled in beforehand), has no slash, or is cut
\* up in pairs of key and value: with a key that is known, with none, or with
\* a part left over.
Kind == {"empty", "plain", "pairs", "unknown", "odd"}

\* A text that comes through links and forms as it is.
Intact(t) == t \notin Ends /\ InLink[t] = t /\ InForm[t] = t

ASSUME PagesAssumption ==
  /\ Place \subseteq (Nat \ {0}) \X (Nat \ {0}) /\ IsFiniteSet(Place)
  /\ Radius \subseteq Nat \ {0}
  /\ TextKind   \in [Text -> Kind]
  /\ TextRadius \in [Text -> Radius \cup {None, NoNumber}]
  /\ Name       \in [Place -> Text]
  /\ InLink     \in [Text -> Text]
  /\ InForm     \in [Text -> Text]
  /\ Ends \subseteq Text
  /\ {Empty, Unknown} \subseteq Text /\ Intact(Unknown)
  /\ HitRadius  \in [Place -> Radius]
  /\ Standard \in Radius
  /\ None \notin Place /\ None \notin Radius /\ None \notin Text
  /\ NoNumber \notin Radius /\ NoNumber # None

VARIABLES
  at,      \* the page the visitor looks at
  req,     \* the parameters of the request that made it, and its path
  hits,    \* the places it offers
  areas,   \* the areas it lists
  wanted,  \* history: the place, its name and the radius chosen last
  core,    \* history: did the visitor ask for the pages without JavaScript?
  clean,   \* history: did no text so far end a link?
  why      \* history: what led to the error page

vars == <<at, req, hits, areas, wanted, core, clean, why>>

Results == {"list", "vlak", "detail"}

\* sorted: the parameters are in the order of their names, as in the TreeMap of
\* HttpWrappedRequest; the order of any other request is the container's.
Request == [path : {"index", "geozet", "bekendmakingen"},
            adres : Text \cup {None}, place : Place \cup {None},
            found : Text \cup {None}, straal : Radius \cup {None, NoNumber},
            coreonly : BOOLEAN, sorted : BOOLEAN]

Blank == [path |-> "index", adres |-> None, place |-> None, found |-> None,
          straal |-> None, coreonly |-> FALSE, sorted |-> FALSE]

-----------------------------------------------------------------------------
(* The pages.                                                              *)

Show(page, q, offer, list) ==
  /\ at' = page
  /\ req' = q
  /\ hits' = offer
  /\ areas' = list
  /\ why' = None

Fail(q, cause) ==
  /\ at' = "error"
  /\ req' = q
  /\ hits' = {} /\ areas' = {}
  /\ why' = cause

ShowStart(q) == Show("start", q, {}, {})

RadiusOf(q) == IF q.straal = None THEN Standard ELSE q.straal

Complete(q) == q.place # None /\ q.straal # NoNumber

\* What keeps the servlets from an answer; a radius that is missing is the
\* standard one.
Refused(q) == \/ q.place = None /\ Fail(q, "coordinates")
              \/ q.place # None /\ q.straal = NoNumber /\ Fail(q, "radius")

\* WFSClientServlet.service.
ShowList(q) == \/ Refused(q)
               \/ Complete(q) /\ Show("list", q, {}, {})

\* VlakGerichteWFSClientServlet.service.
ShowVlak(q) ==
  \/ Refused(q)
  \/ /\ Complete(q)
     /\ \E swap \in BOOLEAN :
          Show("vlak", q, {},
               AreaResults(BoxAround(q.place, RadiusOf(q)), swap))

-----------------------------------------------------------------------------
(* OpenLSServlet.service.                                                  *)

\* The request that is forwarded for the only hit: HttpWrappedRequest.
Forwarded(q, p) ==
  [q EXCEPT !.place = p, !.found = Name[p], !.sorted = TRUE,
            !.straal = IF TextRadius[q.adres] = None THEN Standard
                                                     ELSE TextRadius[q.adres]]

\* Reads past the array of parts, or cuts a negative length off.
Unreadable(q) == /\ TextKind[q.adres] \in {"odd", "unknown"}
                 /\ Fail(q, "text")

NoInput(q) == /\ TextKind[q.adres] = "empty"
              /\ Show("noInput", q, {}, {})

\* The geocoder fails: the answer is null, and is used.
NoAnswer(q) == /\ TextKind[q.adres] \in {"plain", "pairs"}
               /\ Fail(q, "geocoder")

\* Slip: a hit is offered even when it is the only one.
HitsOffered(q, found) ==
  IF found = {} THEN Show("notFound", q, {}, {})
                ELSE Show("several", q, found, {})

Hits(q, found) ==
  \/ /\ found = {}
     /\ Show("notFound", q, {}, {})
  \/ \E p \in found : /\ found = {p}
                      /\ ShowList(Forwarded(q, p))
  \/ /\ Cardinality(found) > 1
     /\ Show("several", q, found, {})

Geocoded(q) == /\ TextKind[q.adres] \in {"plain", "pairs"}
               /\ \E found \in SUBSET Place : Hits(q, found)

Locate(q) == Unreadable(q) \/ NoInput(q) \/ NoAnswer(q) \/ Geocoded(q)

HasPlace(q) == q.place # None /\ q.straal \notin {None, NoNumber}

\* Slip: the dispatcher looks at the text first.
DispatchByText(q) ==
  \/ q.adres # None /\ Locate(q)
  \/ q.adres = None /\ HasPlace(q)  /\ ShowList(q)
  \/ q.adres = None /\ ~HasPlace(q) /\ ShowStart(q)

\* GeozetServlet.service.
Dispatch(q) ==
  \/ HasPlace(q) /\ ShowList(q)
  \/ ~HasPlace(q) /\ q.adres # None /\ Locate(q)
  \/ ~HasPlace(q) /\ q.adres = None /\ ShowStart(q)

\* After a search or a URL the visitor has chosen what the list is made for.
Chosen == wanted' = IF at' = "list"
                      THEN [place |-> req'.place, name |-> req'.found,
                            straal |-> RadiusOf(req')]
                      ELSE wanted

\* No text that this page writes ends a link.
Unbroken == /\ req.adres \notin Ends /\ req.found \notin Ends
            /\ \A p \in hits : Name[p] \notin Ends

\* The visitor goes on from the page.
Follow == core' = core /\ clean' = (clean /\ Unbroken')

-----------------------------------------------------------------------------
(* Links: the parameters are written as they are, not encoded.             *)

Parameters == {"adres", "coord", "coreonly", "gevonden", "straal"}

Raw(t) == IF t = None THEN None ELSE InLink[t]

\* The request a link makes when the parameters in some come before the place
\* where it ends.
Arrived(q, some) ==
  [path     |-> "bekendmakingen",
   adres    |-> IF "adres"    \in some THEN Raw(q.adres) ELSE None,
   place    |-> IF "coord"    \in some THEN q.place      ELSE None,
   found    |-> IF "gevonden" \in some THEN Raw(q.found) ELSE None,
   straal   |-> IF "straal"   \in some THEN q.straal     ELSE None,
   coreonly |-> "coreonly" \in some /\ q.coreonly,
   sorted   |-> FALSE]

Ending(q) == {k \in {"adres", "gevonden"} :
                IF k = "adres" THEN q.adres \in Ends ELSE q.found \in Ends}

\* The link ends at the first such text in the order of the parameters.
Kept(q) ==
  CASE Ending(q) = {} -> {Parameters}
    [] q.sorted /\ "adres" \in Ending(q) -> {{"adres"}}
    [] q.sorted /\ Ending(q) = {"gevonden"} ->
         {{"adres", "coreonly", "gevonden"}}
    [] OTHER -> {some \in SUBSET Parameters :
                   \E k \in Ending(q) : some \cap Ending(q) = {k}}

\* buildQueryString: all parameters but one that is not ours here.
OnBekendmakingen == {Arrived(req, some) : some \in Kept(req)}

-----------------------------------------------------------------------------
Init ==
  /\ at = "start" /\ req = Blank /\ hits = {} /\ areas = {}
  /\ wanted = [place |-> None, name |-> None, straal |-> Standard]
  /\ core = FALSE /\ clean = TRUE /\ why = None

\* A URL from elsewhere: the start page, or the dispatcher with any of its
\* parameters.
EnterURL ==
  /\ at \in {"start", "error"}
  /\ \E c \in BOOLEAN :
       /\ core' = c
       /\ \/ ShowStart([Blank EXCEPT !.coreonly = c])
          \/ \E t \in Text \cup {None}, p \in Place \cup {None},
                s \in Radius \cup {None, NoNumber} :
               Dispatch([Blank EXCEPT !.path = "geozet", !.adres = t,
                                      !.place = p, !.straal = s,
                                      !.coreonly = c])
  /\ Chosen
  /\ clean' = Unbroken'

\* zoekformulier.jsp: the text, and hidden the radius and coreonly.
SearchForm ==
  /\ at \in {"start", "noInput", "notFound", "several"}
  /\ \E t \in Text :
       Dispatch([Blank EXCEPT !.path = "geozet", !.adres = t,
                              !.straal = RadiusOf(req),
                              !.coreonly = req.coreonly])
  /\ Chosen
  /\ Follow

\* renderHTMLResults of OpenLSServlet: the link to a hit, with its coordinates
\* first and coreonly last.
LinkRadius(p) == IF req.straal = None THEN HitRadius[p] ELSE req.straal

HitLinkOf(p) == [req EXCEPT !.place = p, !.found = Name[p],
                            !.straal = LinkRadius(p)]

\* Slip: the links to the hits leave coreonly out.
HitParamsPlain(p) == Arrived(HitLinkOf(p), Parameters \ {"coreonly"})

HitParams(p) ==
  Arrived(HitLinkOf(p),
          CASE req.adres \in Ends -> {"coord", "straal", "adres"}
            [] req.adres \notin Ends /\ Name[p] \in Ends ->
                 Parameters \ {"coreonly"}
            [] OTHER -> Parameters)

HitLink ==
  /\ \E p \in hits :
       /\ ShowList(HitParams(p))
       /\ wanted' = IF at' = "list"
                      THEN [place |-> p, name |-> Name[p],
                            straal |-> LinkRadius(p)]
                      ELSE wanted
  /\ Follow

\* The text in a hidden field: other when there is none.
InField(t, other) == InForm[IF t = None THEN other ELSE t]

\* Slip: the filter form does not hand the coordinates on.
FilterParamsWithoutPlace(s) ==
  [req EXCEPT !.straal = s, !.place = None, !.sorted = FALSE,
              !.adres = InField(req.adres, Empty),
              !.found = InField(req.found, Unknown)]

FilterParams(s) ==
  [req EXCEPT !.straal = s, !.sorted = FALSE,
              !.adres = InField(req.adres, Empty),
              !.found = InField(req.found, Unknown)]

\* filterformulier.jsp: its action is "#", the path the page came from.
FilterForm ==
  /\ at = "list"
  /\ \E s \in Radius :
       /\ IF req.path = "geozet" THEN Dispatch(FilterParams(s))
                                 ELSE ShowList(FilterParams(s))
       /\ wanted' = [wanted EXCEPT !.straal = s]
  /\ Follow

\* The links of the list of pages.
PageLink ==
  /\ at = "list"
  /\ \E q \in OnBekendmakingen : ShowList(q)
  /\ Follow /\ UNCHANGED wanted

VlakLink ==
  /\ at = "list"
  /\ \E q \in OnBekendmakingen : ShowVlak(q)
  /\ Follow /\ UNCHANGED wanted

\* WFSDetailsServlet: the link starts with the announcement, so the details
\* are found whatever is lost; one that was withdrawn leads to an error.
DetailLink ==
  /\ at = "list"
  /\ \E q \in OnBekendmakingen : \/ Show("detail", q, {}, {})
                                 \/ Fail(q, "withdrawn")
  /\ Follow /\ UNCHANGED wanted

\* The links back of the areas and of the details.
BackLink ==
  /\ at \in {"vlak", "detail"}
  /\ \E q \in OnBekendmakingen : ShowList(q)
  /\ Follow /\ UNCHANGED wanted

\* zoekresultaat_einde.jsp: index.jsp, with coreonly if it is true.
BackToStart ==
  /\ at = "list"
  /\ ShowStart([Blank EXCEPT !.coreonly = req.coreonly])
  /\ Follow /\ UNCHANGED wanted

Next == EnterURL \/ SearchForm \/ HitLink \/ FilterForm \/ PageLink
        \/ VlakLink \/ DetailLink \/ BackLink \/ BackToStart

Spec == Init /\ [][Next]_vars

-----------------------------------------------------------------------------
\* The type invariant.
TypeOK ==
  /\ at \in Results \cup {"start", "noInput", "notFound", "several", "error"}
  /\ req \in Request
  /\ hits \subseteq Place /\ areas \subseteq Area
  /\ at = "several" <=> \E p, r \in hits : p # r
  /\ hits # {} => at = "several"
  /\ wanted \in [place : Place \cup {None}, name : Text \cup {None},
                 straal : Radius]
  /\ core \in BOOLEAN /\ clean \in BOOLEAN
  /\ why \in {None, "text", "geocoder", "withdrawn", "coordinates", "radius"}

\* coreonly is in the request alone and must come through every form, link,
\* forward and list of hits, so that a visitor who chose the pages without
\* JavaScript is not given the viewer (javascript.jsp), nor another visitor
\* kept from it: as long as no text on the way ended a link before it.
CoreStays == at # "error" /\ clean => req.coreonly = core

\* The heading for the place that was chosen: its name, or "onbekend" after the
\* filter form when it was chosen by its coordinates.
Heading == IF wanted.name = None THEN {None, Unknown} ELSE {wanted.name}

HeadingKept == wanted.name = None \/ Intact(wanted.name) => req.found \in Heading

\* The list and the areas are those of the place the visitor chose last,
\* however they were reached: by the only hit, a link to a hit, the filter
\* form under either path, or a link back; a text that ends a link may cost
\* the page, but never brings up another place.  Without one the radius and
\* the heading are the chosen ones too, and the details keep them all.
ShowsTheChosenPlace ==
  /\ at \in {"list", "vlak"} => req.place = wanted.place
  /\ at \in Results /\ clean =>
       req.place = wanted.place /\ RadiusOf(req) = wanted.straal /\ HeadingKept

\* Following the forms and links never leads to a request that lacks what its
\* servlet requires, unless a text ended a link: the error page has other
\* causes.
NothingIsMissing == at = "error" /\ clean => why # "coordinates"

\* Every area listed is relevant for the box around the chosen place and has a
\* point in it: none of the three queries (maakFilter), shrunk by its factor
\* and at worst turned inside out, looks beyond that box.
AreasAreNear ==
  at = "vlak" /\ clean =>
    LET box == BoxAround(wanted.place, wanted.straal)
    IN areas \subseteq {a \in Area : Relevant(a, box) /\ InAOI(a, box, 0, FALSE)}
=============================================================================
