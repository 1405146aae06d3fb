----------------------------- MODULE ResultPages ---------------------------
(***************************************************************************)
(* The pages with announcements that work without JavaScript, as one       *)
(* visitor walks through them: the list of announcements (WFSClientServlet)*)
(* the list of announcements about an area (VlakGerichteWFSClientServlet)  *)
(* and the details of one announcement (WFSDetailsServlet).  Every request *)
(* asks the WFS again; all that a page remembers is in its links.          *)
(*                                                                         *)
(* The results of a query are the numbers 1..found, in the order of the    *)
(* list.  Publishing or withdrawing shifts them, so the numbers of two     *)
(* pages are compared only while nothing changed in between.               *)
(***************************************************************************)
EXTENDS PageList, FiniteSets, SequencesExt

CONSTANT MaxFound   \* bound: the most results of each list

List == {"list", "vlak"}

ASSUME MaxAssumption == MaxFound \in [List -> Nat]

VARIABLES
  found,      \* found[k]: how many results the WFS has for list k
  at,         \* the page the visitor looks at
  offset,     \* the request parameter offset of the last list
  unticked,   \* did the visitor search with all the categories off?
  size,       \* results.size() of the list when it was rendered
  shown,      \* the results on the page
  links,      \* its list of pages
  withdrawn,  \* was a result withdrawn since the page was made?
  seen,       \* history: what was shown since the first page of this list
  whole       \* history: only "Volgende" since then, and nothing changed

vars == <<found, at, offset, unticked, size, shown, links, withdrawn, seen,
          whole>>

-----------------------------------------------------------------------------
\* Slip: a page goes on to the end of the results.
ShownToTheEnd(items, from) == [i \in 1 .. AtLeastZero(items - from) |-> from + i]

\* renderItems and the loop of renderHTMLResults.
Shown(items, from) ==
  LET to == IF from + ItemsPerPage > items THEN items ELSE from + ItemsPerPage
  IN  [i \in 1 .. AtLeastZero(to - from) |-> from + i]

\* A search with usefilter and no category asks nothing; the list of areas
\* does not look at the filter.
Results(k, none) == IF k = "list" /\ none THEN 0 ELSE found[k]

Render(k, from, none) ==
  /\ at' = k
  /\ offset' = from
  /\ unticked' = none
  /\ size' = Results(k, none)
  /\ shown' = Shown(size', from)
  /\ links' = PageList(size', from)
  /\ withdrawn' = FALSE
  /\ UNCHANGED found

StartWalk == /\ seen' = shown'
             /\ whole' = TRUE

\* Seen so far when the visitor goes on by a link.
GoOnWalk(l) ==
  IF l.to = 0 THEN StartWalk
  ELSE /\ whole' = (whole /\ l.kind = "next")
       /\ seen' = IF whole' THEN seen \o shown' ELSE <<>>

NoWalk == /\ seen' = <<>>
          /\ whole' = FALSE

-----------------------------------------------------------------------------
Init ==
  /\ found \in [List -> UNION {0 .. MaxFound[k] : k \in List}]
  /\ \A k \in List : found[k] <= MaxFound[k]
  /\ at = "start" /\ offset = 0 /\ unticked = FALSE /\ size = 0
  /\ shown = <<>> /\ links = <<>> /\ withdrawn = FALSE
  /\ seen = <<>> /\ whole = FALSE

\* A search (the offset is missing: NumberFormatException, so 0).
Search == /\ at # "list"
          /\ Render("list", 0, FALSE)
          /\ StartWalk

\* The filter form has the coordinates and the categories, not the offset.
FilterForm == /\ at = "list"
              /\ \E none \in BOOLEAN : Render("list", 0, none)
              /\ StartWalk

Follow ==
  /\ at \in List
  /\ \E l \in ToSet(links) :
       /\ l.kind \in {"prev", "page", "next"}
       /\ Render(at, l.to, unticked)
       /\ GoOnWalk(l)

\* The link to the list of areas leaves the offset out ...
ToVlak == /\ at = "list"
          /\ Render("vlak", 0, unticked)
          /\ StartWalk

\* ... and so does the link back.
VlakBack == /\ at = "vlak"
            /\ Render("list", 0, unticked)
            /\ StartWalk

\* ophalenBekendmaking gives null for an announcement that is gone, and
\* renderHTMLResults reads its attributes.
Detail ==
  /\ at = "list"
  /\ shown # <<>>
  /\ at' \in IF withdrawn THEN {"detail", "error"} ELSE {"detail"}
  /\ withdrawn' = FALSE
  /\ NoWalk
  /\ UNCHANGED <<found, offset, unticked, size, shown, links>>

\* The link back drops only the fid.
DetailBack == /\ at = "detail"
              /\ Render("list", offset, unticked)
              /\ IF offset = 0 THEN StartWalk ELSE NoWalk

Change ==
  /\ \E k \in List : \E n \in {found[k] - 1, found[k] + 1} :
       /\ n \in 0 .. MaxFound[k]
       /\ found' = [found EXCEPT ![k] = n]
       /\ withdrawn' = (withdrawn \/ (k = at /\ n < found[k]))
  /\ NoWalk
  /\ UNCHANGED <<at, offset, unticked, size, shown, links>>

Next == Search \/ FilterForm \/ Follow \/ ToVlak \/ VlakBack \/ Detail
        \/ DetailBack \/ Change

Spec == Init /\ [][Next]_vars

-----------------------------------------------------------------------------
\* Every offset is the start of a page, and what is shown is part of the list.
TypeOK ==
  /\ found \in [List -> Nat]
  /\ at \in List \cup {"start", "detail", "error"}
  /\ offset \in Nat /\ offset % ItemsPerPage = 0
  /\ size \in Nat
  /\ Len(shown) <= ItemsPerPage /\ ToSet(shown) \subseteq 1 .. size
  /\ \A l \in ToSet(links) : l.to \in Nat /\ l.to % ItemsPerPage = 0
  /\ {unticked, withdrawn, whole} \subseteq BOOLEAN

\* A visitor who follows "Volgende" from the first page to the last sees every
\* result exactly once, in order, as long as the results do not change: the
\* links of buildPageList and the slices of renderHTMLResults fit together.
WalkSeesAll ==
  whole /\ at \in List /\ (\A l \in ToSet(links) : l.kind # "next")
    => seen = [i \in 1 .. size |-> i]

\* Javadoc of buildPageList: at most 7 page numbers, no page twice, among them
\* the two pages before and after the current one.
Numbers == {i \in DOMAIN links : links[i].kind \in {"page", "active"}}

SevenNumbersAround ==
  at \in List /\ offset < size =>
    /\ Cardinality(Numbers) <= 7
    /\ \A i, j \in Numbers : links[i].to = links[j].to => i = j
    /\ Pages(size) > 1 =>
         \A d \in -2 .. 2 : offset + d * ItemsPerPage \in 0 .. size - 1 =>
           \E i \in Numbers : links[i].to = offset + d * ItemsPerPage

\* The page numbers rise from the first page to the last, with both among
\* them, and every link is to a page with results.
InOrder ==
  /\ \A i \in DOMAIN links : links[i].to < size
  /\ \A i, j \in Numbers : i < j => links[i].to < links[j].to
  /\ Pages(size) > 1 =>
       {0, Laatste(size)} \subseteq {links[i].to : i \in Numbers}

\* buildPageList keeps that order on every page of every list, except on the
\* first page of a list of four pages.
OnlyFourPagesWrong ==
  at \in List /\ offset < size /\ ~InOrder
    => Pages(size) = 4 /\ offset = 0

\* The comment "voor het geval er minder dan 5 pagina's zijn" (in case there
\* are fewer than 5 pages): also then the list offers only pages there are.
OnlyRealPages ==
  at \in List /\ offset < size => \A l \in ToSet(links) : l.to < size

\* Javadoc of buildPageList, "Tussen de rij van 5 paginanummers en de eerste
\* danwel laatste is een extra item met '...'" (between the row of 5 page
\* numbers and the first or the last is an extra item with '...'), and the
\* comment "alleen als aantal pagina's groter is dan 5" (only if there are more
\* than 5 pages): a list of more pages than the row holds has dots.
DotsWhenMoreThanRow ==
  at \in List /\ offset < size /\ Pages(size) > 5
    => \E i \in DOMAIN links : links[i].kind = "dots"

\* The comment "geen lege OL" (no empty list) of renderHTMLResults: a list
\* with results shows some.
NoEmptyList == at \in List /\ size > 0 => shown # <<>>

\* The comment at the link back of the details, "de paginering wordt eraf
\* geknipt" (the paging is cut off): it leads to the first page.
BackDropsPaging == [][at = "detail" /\ at' = "list" => offset' = 0]_vars
=============================================================================
