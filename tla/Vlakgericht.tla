---------------------------- MODULE Vlakgericht ----------------------------
(***************************************************************************)
(* widgets/Vlakgericht.js with the dialog of misc/init.js: a click on the  *)
(* box in the corner opens a dialog, hides the popup and asks for the      *)
(* announcements about the area in view; the answer fills whatever dialog  *)
(* is open by then.                                                        *)
(*                                                                         *)
(* The dialog covers the box, so that there is one dialog at a time.  The  *)
(* announcements are left out but for their number.  What else removes the *)
(* dialog, and whether the map is there, is open here; module StartDialog  *)
(* puts the search in its place.                                           *)
(***************************************************************************)
EXTENDS Naturals, Sequences, FiniteSets, Functions

CONSTANTS
  ItemsPerPage,  \* ITEMSPERPAGE
  Counts,        \* how many announcements an area may have
  MaxRequests    \* bound: clicks on the box

ASSUME VlakAssumption ==
  /\ ItemsPerPage \in Nat \ {0}
  /\ IsFiniteSet(Counts) /\ Counts \subseteq Nat
  /\ MaxRequests \in Nat

VARIABLES
  dialog,       \* "intro", "open" or "closed"
  requests,     \* the number of the last request, and of the dialog
  pending,      \* the requests in flight
  asked,        \* did the dialog send a request?
  title,        \* #vlakkentitle: "busy", "found", "none" or "error"
  lists,        \* the lists in the dialog, the newest on top
  footers,      \* the "x van y" lines in the dialog, the oldest first
  pageCurrent,
  pageLength,
  content,      \* does #geozetPopup have contents?
  hidden,       \* is #geozetPopup hidden (display: none)?
  foreign       \* history: did the dialog get an answer of an earlier one?

popupVars == <<content, hidden>>
pageVars  == <<pageCurrent, pageLength>>
vlakVars == <<dialog, requests, pending, asked, title, lists, footers, pageVars,
              popupVars, foreign>>

-----------------------------------------------------------------------------
PagesOf(n) == (n + ItemsPerPage - 1) \div ItemsPerPage

\* A list shows the items of the pages in active; a footer shows a page
\* number and greys out its buttons.
NewList(n)   == [pages |-> PagesOf(n), active |-> {1}]
NewFooter(n) == [number |-> 1, length |-> n, back |-> FALSE, forward |-> n # 1]

Turn(l, from, to) ==
  [l EXCEPT !.active = (@ \ {from}) \cup ({to} \cap 1 .. l.pages)]

\* removeClass and attr reach all the buttons, the ids only the first ones.
TurnFooter(i, to) ==
  [footers[i] EXCEPT !.number = to,
                     !.back = (i # 1 \/ to # 1),
                     !.forward = (i # 1 \/ to # pageLength)]

\* The popup comes back with the close button only, and only if it has
\* something to show.
ShowPopup == IF content THEN hidden' = FALSE ELSE UNCHANGED hidden

Empty == /\ title' = "busy"
         /\ lists' = <<>>
         /\ footers' = <<>>
         /\ foreign' = FALSE

-----------------------------------------------------------------------------
\* The first dialog is the introduction with the search form, unless the hash
\* names a place (misc/init.js).
VlakInit ==
  /\ dialog \in {"intro", "closed"} /\ requests = 0 /\ pending = {}
  /\ asked = FALSE
  /\ title = "busy" /\ lists = <<>> /\ footers = <<>> /\ foreign = FALSE
  /\ pageCurrent = 1 /\ pageLength = 1
  /\ content = FALSE /\ hidden = FALSE

\* The close button.
Close == /\ dialog # "closed"
         /\ dialog' = "closed"
         /\ ShowPopup
         /\ Empty
         /\ UNCHANGED <<requests, pending, asked, pageVars, content>>

\* The focus of a.geozetCSS and a search with one hit remove it as well.
RemoveDialog == /\ dialog # "closed"
                /\ dialog' = "closed"
                /\ Empty
                /\ UNCHANGED <<requests, pending, asked, pageVars, popupVars>>

\* A map that has not been sent anywhere has no extent to ask for.
GeozetAlertClick(extent) ==
  /\ dialog = "closed"
  /\ requests < MaxRequests
  /\ dialog' = "open"
  /\ requests' = requests + 1
  /\ asked' = extent
  /\ pending' = IF extent THEN pending \cup {requests'} ELSE pending
  /\ hidden' = (hidden \/ content)
  /\ Empty
  /\ UNCHANGED <<pageVars, content>>

\* Slip: an answer with results goes on from the page the last one was at.
SetPagesKeepCurrent(n) ==
  /\ pageLength' = IF n = 0 THEN 1 ELSE PagesOf(n)
  /\ UNCHANGED pageCurrent

SetPages(n) ==
  /\ pageLength' = IF n = 0 THEN 1 ELSE PagesOf(n)
  /\ pageCurrent' = IF n = 0 THEN pageCurrent ELSE 1

\* Slip: the list of an answer comes under the lists that are there.
HandleResponseBelow(r, n) ==
  /\ SetPages(n)
  /\ IF dialog # "open" THEN UNCHANGED <<title, lists, footers, foreign>>
     ELSE /\ foreign' = (foreign \/ r # requests)
          /\ title' = IF n = 0 THEN "none" ELSE "found"
          /\ lists' = IF n = 0 THEN lists ELSE Append(lists, NewList(n))
          /\ footers' = IF n = 0 THEN footers
                        ELSE Append(footers, NewFooter(PagesOf(n)))

\* handleResponse: jQuery finds nothing to change when there is no dialog.
HandleResponse(r, n) ==
  /\ SetPages(n)
  /\ IF dialog # "open" THEN UNCHANGED <<title, lists, footers, foreign>>
     ELSE /\ foreign' = (foreign \/ r # requests)
          /\ IF n = 0
             THEN /\ title' = "none"
                  /\ UNCHANGED <<lists, footers>>
             ELSE /\ title' = "found"
                  /\ lists' = <<NewList(n)>> \o lists
                  /\ footers' = Append(footers, NewFooter(PagesOf(n)))

\* Slip: an error is not told.
HandleErrorSilently(r) ==
  /\ pageLength' = 1
  /\ foreign' = (foreign \/ (dialog = "open" /\ r # requests))
  /\ UNCHANGED <<title, lists, footers, pageCurrent>>

HandleError(r) ==
  /\ pageLength' = 1
  /\ title' = IF dialog = "open" THEN "error" ELSE title
  /\ foreign' = (foreign \/ (dialog = "open" /\ r # requests))
  /\ UNCHANGED <<lists, footers, pageCurrent>>

End ==
  /\ \E r \in pending :
       /\ pending' = pending \ {r}
       /\ \/ \E n \in Counts : HandleResponse(r, n)
          \/ HandleError(r)
  /\ UNCHANGED <<dialog, requests, asked, popupVars>>

Go(to) ==
  /\ dialog = "open" /\ footers # <<>>
  /\ to > 0 /\ to <= pageLength
  /\ pageCurrent' = to
  /\ lists' = [i \in DOMAIN lists |-> Turn(lists[i], pageCurrent, to)]
  /\ footers' = [i \in DOMAIN footers |-> TurnFooter(i, to)]
  /\ UNCHANGED <<dialog, requests, pending, asked, title, pageLength, popupVars,
                 foreign>>

\* The popup opens or closes: also behind the dialog, by the keyboard or by a
\* map that is still moving.
PopupChanges == /\ content' = ~content
                /\ UNCHANGED <<dialog, requests, pending, asked, title, lists,
                               footers, pageVars, hidden, foreign>>

Paging == Go(pageCurrent + 1) \/ Go(pageCurrent - 1)

VlakNext == \/ Close \/ RemoveDialog \/ End \/ PopupChanges \/ Paging
            \/ \E extent \in BOOLEAN : GeozetAlertClick(extent)

\* A request always ends: with an answer, an error or the timer.
VlakFairness == WF_vlakVars(End)

-----------------------------------------------------------------------------
\* Also an answer that finds no dialog leaves a page that exists or the page
\* that was there.
VlakTypeOK ==
  /\ dialog \in {"intro", "open", "closed"}
  /\ requests \in Nat /\ pending \subseteq 1 .. requests
  /\ asked \in BOOLEAN
  /\ title \in {"busy", "found", "none", "error"}
  /\ Len(lists) = Len(footers)
  /\ \A i \in DOMAIN lists : lists[i].active \subseteq 1 .. lists[i].pages
  /\ pageCurrent \in Nat \ {0} /\ pageLength \in Nat \ {0}
  /\ {content, hidden} \subseteq BOOLEAN

\* A dialog that got only its own answer pages right, whatever earlier
\* answers found no dialog: one page of items, its number, and a button that
\* is grey just when there is nowhere to go.
PagingConsistent ==
  dialog = "open" /\ title = "found" /\ ~foreign =>
    /\ Len(lists) = 1
    /\ lists[1].active = {pageCurrent}
    /\ pageLength = lists[1].pages
    /\ footers[1].number = pageCurrent
    /\ footers[1].length = pageLength
    /\ footers[1].back <=> pageCurrent > 1
    /\ footers[1].forward <=> pageCurrent < pageLength

\* Also a dialog that got answers of earlier ones, and errors in between, pages
\* the list on top: the last one to come, whose length is the one that paging
\* goes by (handleResponse puts a list right under the title; go).
TopListPages ==
  dialog = "open" /\ title = "found" =>
    /\ lists # <<>>
    /\ lists[1].active = {pageCurrent}
    /\ lists[1].pages = pageLength

\* The comment of the class, "Received features will be show in a pageble
\* list in popup": one list, of the area that was asked for.
OwnAnswerOnly == ~foreign /\ Len(lists) <= 1

\* The comment in init.js, "if we closed a popup while opening this
\* geozetStart, reopen it": without a dialog the popup can be seen.
PopupComesBack == dialog = "closed" => ~hidden
=============================================================================
