------------------------------- MODULE Search ------------------------------
(***************************************************************************)
(* widgets/Search.js and the start of the viewer in Viewer.js: places that *)
(* are typed in a form, or named by the hash of the URL, go to a geocoder; *)
(* one hit moves the map, several hits are offered as suggestions.  The    *)
(* map panel is made at once, or by the answer for the hash.               *)
(*                                                                         *)
(* A view is the place last gone to; panning by hand is left out.          *)
(***************************************************************************)
EXTENDS Naturals, FiniteSets

CONSTANTS
  Query,        \* what can be typed or stand in the hash
  Hits,         \* Hits[q]: the places the geocoder finds for q
  Hashes,       \* what the hash may hold at the start, None for no hash
  MaxSearches,  \* bound: searches of the user
  Default,      \* the view of settings.js when there is no place to go to
  None

Place == UNION {Hits[q] : q \in Query}

ASSUME SearchAssumption ==
  /\ \A q \in Query : IsFiniteSet(Hits[q])
  /\ Hashes \subseteq Query \cup {None}
  /\ MaxSearches \in Nat
  /\ Default \notin Place /\ None \notin Place \cup Query

VARIABLES
  start,     \* the hash at the start: the viewer keeps it in startHash
  panels,    \* how many map panels were made
  view,      \* where the map was last sent, None before that
  hash,      \* document.location.hash, as the place or query it names
  forms,     \* the search forms in the page
  current,   \* searchFormId
  flying,    \* the requests in flight: [nr, query], the one of the hash is 0
  searches,  \* the number of the user's last search
  shown      \* the messages and lists of suggestions in the page; no two of
             \* them are about the same search

searchVars == <<start, panels, view, hash, forms, current, flying, searches,
                shown>>

-----------------------------------------------------------------------------
\* showError and the list of suggestions: nothing if the form is not there.
Tell(told, m) == IF current' \in forms THEN told \cup {m} ELSE told

Message(k, nr, q) == [kind |-> k, nr |-> nr, query |-> q, form |-> current']

\* $('#geozetStart').remove(): the start dialog goes, with the form in it.
RemoveStart(told) ==
  /\ forms' = forms \ {"core"}
  /\ shown' = {m \in told : m.form # "core"}

\* Slip: an answer relies on search() to have removed what was there.
RemoveNothing(told) == told

\* $('.geozetError, .geozetSuggestions').remove() of handleResponse.
RemoveMessages(told) == {}

\* Slip: every answer is taken for the one the viewer waits for.
ForViewerAlways(f) == TRUE

\* Is this the answer that searchCb of Viewer.create waits for?
ForViewer(f) == f.nr = 0

\* Slip: the hash stays what it was.
GoToWithoutHash(p) == /\ view' = p
                      /\ UNCHANGED hash

GoTo(p) == /\ view' = p
           /\ hash' = p

CreateMapPanel(p) == /\ panels' = panels + 1
                     /\ view' = p
                     /\ UNCHANGED hash

-----------------------------------------------------------------------------
\* Viewer.create, after init.js put the page in place: with a hash there is
\* no start dialog and the geocoder is asked first.
SearchInit ==
  /\ start \in Hashes
  /\ panels = IF start = None THEN 1 ELSE 0
  /\ view = IF start = None THEN Default ELSE None
  /\ hash = start
  /\ forms = IF start = None THEN {"core", "enhanced"} ELSE {"enhanced"}
  /\ current = IF start = None THEN "none" ELSE "core"
  /\ flying = IF start = None THEN {} ELSE {[nr |-> 0, query |-> start]}
  /\ searches = 0
  /\ shown = {}

\* search: whatever the form has, the old messages go first.
Submit(q, form) ==
  /\ form \in forms
  /\ searches < MaxSearches
  /\ searches' = searches + 1
  /\ current' = form
  /\ flying' = flying \cup {[nr |-> searches', query |-> q]}
  /\ shown' = {}
  /\ UNCHANGED <<panels, view, hash, forms>>

\* A search string that is too short sends nothing.
SubmitShort(form) ==
  /\ form \in forms
  /\ searches < MaxSearches
  /\ searches' = searches + 1
  /\ current' = form
  /\ shown' = Tell({}, Message("short", searches', None))
  /\ UNCHANGED <<panels, view, hash, forms, flying>>

\* handleResponse for the hash, with returnCoords; its result goes to
\* createMapPanel, also when it is false.
AnswerToViewer(f) ==
  /\ ForViewer(f)
  /\ UNCHANGED <<forms, current, searches>>
  /\ LET told == RemoveMessages(shown)
     IN  CASE Hits[f.query] = {} ->
                /\ CreateMapPanel(Default)
                /\ shown' = Tell(told, Message("none", f.nr, f.query))
           [] Cardinality(Hits[f.query]) = 1 ->
                /\ \E p \in Hits[f.query] : CreateMapPanel(p)
                /\ shown' = told
           [] OTHER ->
                /\ CreateMapPanel(Default)
                /\ shown' = Tell(told, Message("many", f.nr, f.query))

\* handleResponse for a search of the user that found one place ...
AnswerMoves(f) ==
  /\ ~ForViewer(f)
  /\ Cardinality(Hits[f.query]) = 1
  /\ \E p \in Hits[f.query] : GoTo(p)
  /\ RemoveStart(RemoveMessages(shown))
  /\ UNCHANGED <<panels, current, searches>>

\* ... and one that found none or several.
AnswerTells(f) ==
  /\ ~ForViewer(f)
  /\ Cardinality(Hits[f.query]) # 1
  /\ UNCHANGED <<panels, view, hash, forms, current, searches>>
  /\ shown' = Tell(RemoveMessages(shown),
                   Message(IF Hits[f.query] = {} THEN "none" ELSE "many",
                           f.nr, f.query))

\* An answer with FAILED, Exception or "No more credits" in it.
FailedAnswer(f) ==
  /\ shown' = RemoveMessages(shown)
  /\ UNCHANGED <<hash, forms, current, searches>>
  /\ IF ForViewer(f) THEN CreateMapPanel(Default) ELSE UNCHANGED <<panels, view>>

\* handleError: "fail silently".
Failed(f) == UNCHANGED <<panels, view, hash, forms, current, searches, shown>>

\* A request ends, with or without the map and the start dialog changing.
Ended(f) == f \in flying /\ flying' = flying \ {f}

Moved(f) == Ended(f) /\ AnswerMoves(f)
Told(f)  == Ended(f) /\ (AnswerToViewer(f) \/ AnswerTells(f)
                           \/ FailedAnswer(f) \/ Failed(f))

ClickSuggestion ==
  /\ \E m \in shown :
       /\ m.kind = "many"
       /\ \E p \in Hits[m.query] : GoTo(p)
  /\ RemoveStart(shown)
  /\ UNCHANGED <<panels, current, flying, searches>>

\* The close button of the start dialog (misc/init.js).
CloseStart ==
  /\ "core" \in forms
  /\ RemoveStart(shown)
  /\ UNCHANGED <<panels, view, hash, current, flying, searches>>

SubmitSome == \E form \in {"core", "enhanced"} :
                \/ SubmitShort(form)
                \/ \E q \in Query : Submit(q, form)

EndSome == \E f \in flying : Moved(f) \/ Told(f)

SearchNext == /\ SubmitSome \/ EndSome \/ ClickSuggestion \/ CloseStart
              /\ UNCHANGED start

\* A request always ends: the browser answers it, fails it, or the timer of
\* OpenLayers.Request.issue does.
SearchFairness == WF_searchVars(EndSome /\ UNCHANGED start)

SearchSpec == SearchInit /\ [][SearchNext]_searchVars /\ SearchFairness

-----------------------------------------------------------------------------
\* There is at most one map panel, and a message stands in a form of the page.
SearchTypeOK ==
  /\ panels \in 0 .. 1
  /\ view \in Place \cup {Default, None}
  /\ hash \in Place \cup Query \cup {None}
  /\ forms \subseteq {"core", "enhanced"}
  /\ \A m \in shown : m.form \in forms /\ m.nr \in 0 .. searches

\* However the answers come in, the page has one message or one list of
\* suggestions at most: the answers must clean up, since search() does so
\* long before them.
OneMessage == \A m, n \in shown : m = n

\* The hash names the place the map was sent to last, so that the URL can be
\* passed on, with one exception: the answer for the hash of the start may
\* come after the user went somewhere, and takes the map back.
UrlNamesView ==
  view \in Place /\ hash # view =>
    start # None /\ view \in Hits[start] /\ hash \in Place \cup {start}

\* The comment in handleResponse, "suggestions already removed these in
\* this.search": what is shown is about the last search.
ShownIsLastSearch == \A m \in shown : m.nr = searches

\* The comment in Viewer.create, "we need to postpone initialization of the
\* map panel until we now where to go": it is postponed, not dropped.
MapComesUp == <>(panels = 1)

\* The comment of showError, "will show the error msg in current searchform":
\* a viewer whose hash names no place, or several, says so.
HashAnswerIsTold ==
  [][AnswerToViewer([nr |-> 0, query |-> start])
       /\ Cardinality(Hits[start]) # 1 => shown' # {}]_searchVars
=============================================================================
