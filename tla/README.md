# Geozet in TLA+

Geozet shows public announcements ("bekendmakingen") of Dutch authorities on a
map (the *viewer*, JavaScript on OpenLayers 2.9, GeoExt and jQuery) and as a set
of pages that work without JavaScript (the *core*, Java servlets that ask a WFS
and a geocoder). This directory models what in those programs depends on order:
what the user does, what the servers answer and when, and what the code then
does to state it set earlier.

Contents: 1 the system, 2 the modules, 3 the runs, 4 where the code departs from its own words,
5 fairness, 6 the proofs, 7 abstractions and bounds, 8 what is not modelled,
9 the plan.

Paths below leave out `src/`; `Geozet/` is `src/src/Geozet/lib/Geozet/`, `OL/`
is `src/jsbuild/openlayers/ol_29/lib/OpenLayers/`, `nl/` is
`src/geozet-webapp/src/main/java/nl/geozet/`.

## 1. The system

### The viewer

| component | code | state | operations | called by |
|---|---|---|---|---|
| announcements layer | `Geozet/Strategy/{Sort,ThemeVisibility,Cluster}.js`, `OL/Strategy/{BBOX,Cluster}.js` | features on the layer, the batch kept for clustering, resolution of the last clustering, styles, bounds, request in flight | `update`, `merge`, `cluster`, `onUpdateThemeVisibility` | map (`moveend`), protocol (answers), legend |
| server-side cluster layers (province, municipality, district) | `Geozet/Strategy/ServerSideCluster.js` | total per area, style | `onUpdateThemeVisibility` | legend, arrival of areas |
| reading | `OL/Strategy/BBOX.js`, `OL/Protocol/WFS/v1.js`, `jsbuild/full/lib/ol_overrides.js` | request of each layer and its stage | `triggerRead`, `abort`, the timer of `Request.issue`, callbacks | map, browser |
| loading panel | `jsbuild/full/lib/LoadingPanel.js` | counter, maximized | `increaseCounter`, `decreaseCounter` | `loadstart`, `loadend` of every layer |
| legend | `Geozet/widgets/Legend.js` | check boxes | `handleClick` | user |
| popup | `Geozet/widgets/Popup.js` | feature of popup and of popover, item shown, DOM | `openPopoverFor`, `openPopupFor`, `go`, `move`, `hidePopup` | feature handler, map (`move`), user, timer of the click control |
| search and start | `Geozet/widgets/Search.js`, `Geozet/Viewer.js`, `src/misc/init.js` | current form, messages, suggestions, URL hash, map panel | `search`, `handleResponse`, `handleError`, `create` | user, geocoder |
| area announcements | `Geozet/widgets/Vlakgericht.js`, `src/misc/init.js` | dialog, page, number of pages | `geozetAlertClick`, `handleResponse`, `go` | user, servlet |
| map resizing | `Geozet/plugins/ResizeMap.js` | size, listeners on the window | `toggleResizeMap`, `resizeMap` | user, browser |
| anchors | `Geozet/Renderer/Anchor.js` | a node in the page per marker | `drawFeature`, `eraseGeometry` | layers |
| pan/zoom bar, scale bar, XLS formats | `Geozet/widgets/PanZoomBar.js`, `Geozet/Control/ScaleBar.js`, `Geozet/Format/` | DOM only | | |

The browser runs one handler at a time, so there are no races inside a handler;
what is hard is the order of handlers and the references they keep in between:

* A layer reads for the view of the moment, aborts a read that is no longer of
  use, and gets the answer at another zoom level and under another legend.
* Listeners run in a fixed order inside one event: `beforefeaturesadded` goes to
  ThemeVisibility, Sort, Cluster; `moveend` to Cluster, then BBOX; the popup
  hears `move` of the map after all layers heard `moveend`.
* The Cluster strategy keeps feature objects and clusters them again, with the
  styles and attributes they have by then.
* The popup keeps a feature object that the layer may have thrown away.
* Handlers call each other: a click on an area moves the map, which calls the
  popup again before the click handler is through.
* Answers of the geocoder and of the area servlet are not tied to the request
  that is current.
* Three parts of the page open, fill and remove one element, `#geozetStart`.
* A marker is drawn into the anchor that is there, so that what an older drawing
  left in it may stay.
* A resize of the browser reaches the map after a timer, which may outlive the
  state it was set for.

What makes the components correct: markers agree with the legend; nothing on
screen is missing or shown twice; an overtaken answer does not show; the loading
panel says the truth and goes away; the popup is at its own marker with its own
contents; one message about one search; one dialog with one list; a maximized
map that has the size of its window.

### The core

| component | code | state | operations |
|---|---|---|---|
| pages with announcements | `nl/wfs/WFSClientServlet.java`, `nl/wfs/VlakGerichteWFSClientServlet.java`, `nl/wfs/WFSDetailsServlet.java` | connection with the WFS; all else is in the request | `service`, `renderHTMLResults` |
| list of page numbers | `nl/common/ServletBase.java` | none | `buildPageList`, `buildQueryString` |
| area query | `nl/wfs/VlakGerichteWFSClientServlet.java` | none | `maakFilter`, `bepaalBBoxAOI` |
| dispatch and places | `nl/GeozetServlet.java`, `nl/openls/` | an HTTP client shared by all requests | `service` |
| forms and links | `WEB-INF/*.jsp` | the request | |

What is hard: every page is rendered from a new query, and the only memory is in
the forms and links of the page before, each of which hands on its own selection of
parameters; the dispatcher decides by the parameters it finds; the list of page
numbers has special cases at both ends and for few pages.

## 2. The modules

| module | models | composed with |
|---|---|---|
| `ClusterLayer` | the announcements layer, a handler per action | |
| `Legend` | the check boxes | extended by the layers |
| `Anchor` | what drawing does to the node of a marker, as operators | used by the layers |
| `ClusterMarker` | one marker of the announcements layer, a call of `onUpdateThemeVisibility` at a time | details the operator `Recount` of `ClusterLayer` |
| `ServerSideLayer` | a layer of server-side clusters | |
| `Markers` | both kinds of markers behind one legend | composes `Legend`, `ServerSideLayer`, `ClusterMarker` |
| `LatestRead` | abstract: a layer shows the answer to its last question, or nothing | |
| `LayerReads` | requests, timers, answers, tiles, loading panel for all layers | implements `LatestRead` (`ImplementsLatestRead`) |
| `Popup` | popup and popover over both kinds of layers | takes the arrangements that `ClusterLayer` computes as given |
| `Search` | searches, suggestions, start with and without a hash | |
| `Vlakgericht` | the dialog with announcements about areas | |
| `StartDialog` | the dialog both of them open and remove | composes `Search` and `Vlakgericht` |
| `ResizeMap` | the size of the map, its listeners and timers | |
| `PageList` | `buildPageList` as operators | |
| `ResultPages` | a visitor's walk over the pages of a list | extends `PageList` |
| `AreaQuery` | the boxes and the three queries for areas, as operators | |
| `CorePages` | dispatch, search for a place, forms and links | extends `AreaQuery` |
| `MC*` | the values of a small instance for TLC | extend their module |
| `*_proofs` | theorems with proofs | extend their module; those of `Search` and `Vlakgericht` are in `StartDialog_proofs` |

Operators whose comment starts with "Slip" are not the code: each is the code
with one plausible mistake, and serves to show that a property notices it.

### How state and actions correspond to the code

**ClusterLayer.** `bounds`, `response` are the fields of the BBOX strategy,
`cached`, `resolution` those of the Cluster strategy (`features`, `resolution`).
`singles` and `clusters` together are `layer.features`; `hidden` is the set of
announcements with `style.display = 'none'`. `Move` is `Map.moveTo` with
the layer's `moveend` (`ClusterMoveend`, then `BBOXMoveend`); `Toggle` is
`Legend.handleClick`; `MergeFeatures` is `BBOX.merge` with its three listeners:
hide by theme, sort, cluster; `EmptyAnswer` and `FailedRequest` are `merge`
without features, which empties the layer and leaves the cached batch alone.
`Starts`, `Joiners` and `Candidate` are the loop of `cluster`, with the counts of
Geozet's `createCluster` (1, whatever the style of the first feature) and
`addToCluster`; `Kept` and `Broken` are the threshold. The comparison
`clustersExist` fails after every answer (Sort reorders), which the model
takes as a choice where its outcome depends on the order of the layer.

**Legend, Anchor.** `legend` is the state of the check boxes, `HandleClick` the
handler, which every layer hears of in the same step. `DrawFeature` is
`drawFeature` of the renderer for a node that may be in the page already: the
image is set again, the label only when it is not 0, the title never
(`drawGeometry`, `drawText`, `removeText`).

**ClusterMarker.** `Updated` is the body of `onUpdateThemeVisibility` for one
marker: count, category, style, and `applyDefaults` (`info` is the announcement
whose texts the marker has). `Calls` is the sequence of calls after a clustering.
`node` is the marker's anchor; it is drawn when the marker is added, when its
count has changed, and when the map moves.

**ServerSideLayer.** `Update` is `onUpdateThemeVisibility` for one area, `Arrive`
its calls for the themes in turn when areas arrive (subtract only), `drawn` the
anchors in the page: a click draws only when the layer is in range, a move draws
everything of the layer that is. `Sums`, `Arriving` and `Calling` (in `ClusterMarker`)
are recursive functions over the positions of the themes, so that they can be
proved about.

**Markers.** `Toggle` is `Legend.handleClick`, which goes through the layers; the
three moves are `Map.moveTo` to a zoom level that shows the areas, the
announcements, or another layer; answers come to either layer at any time.

**LayerReads.** A request is "opened" when `Request.issue` has made it, "sent"
when its timer has run, and used again when it is through; `aborted` is set by
`triggerRead` through `Protocol.abort`. `Timer`, `Ignored`, `Answered` are what
the browser does with it. `Drag` is a move that fires no `moveend`.

**Popup.** The record `popup` has the fields of `Geozet.Popup` and what is in the
DOM: `at` (where #geozetPopup is shown, `None` when not), `page` (whose
contents it has, how many items, which is visible). A reference to a feature has
a *stage*: on its layer, off it but still in the Cluster strategy's batch, or
gone. The methods of the class are functions of that record (`OpenPopup`,
`PopupMove`, `Go`, `HidePopup`); the actions are the callbacks. `Settle` is what
happens when a method moves the map: the layers and the popup hear of that move
inside the same handler.

**Search.** `flying` holds the requests to the geocoder; number 0 is that for
the hash. `AnswerToViewer` is `searchCb` of `Viewer.create`, `AnswerMoves` and
`AnswerTells` are `handleResponse`, `FailedAnswer` an answer with an error in its text, `Failed`
is `handleError`. `start` is the hash the viewer starts with, if any. A message
knows the search it answers. `UrlNamesView` leaves out one case, the late answer for
the hash, which takes the map back after the user has gone elsewhere.

**Vlakgericht.** `GeozetAlertClick`, `HandleResponse`, `HandleError`, `Go` are
the methods; `Close` and `RemoveStart` are the handlers of `init.js`. A list is
the set of pages whose items are visible, a footer its number and grey buttons:
jQuery classes reach all lists, ids only the first, which `Turn` and
`TurnFooter` keep apart.

**StartDialog.** `dialog` says what is in `#geozetStart`: the introduction with
the core search form (`init.js`), the areas, or nothing. `GoToPlace` is a search
or a suggestion that found its place and removes the element, whichever of the two
it is; the two dialogs are closed by the same button and by the focus of a link
in the map. A step of one part is a step of that part's own module and what it
does to the other.

**ResizeMap.** `listeners` is the list of `resizeMapOnBrowserResize` on the window,
each with its buffer timer (`Ext.EventManager`, option `buffer`); `avail` is what
`getMaxAvailableSize` would give. `AddAnchor`, `Minimize` and `Maximize`
(`toggleResizeMap`), `Destroy` are the methods, `BrowserResize` is the browser, and
`ResizeMapOnBrowserResize` and `ToggleAnchor` run when a timer ends.

**AreaQuery, CorePages.** `BepaalBBoxAOI` is the shrunk box in hundredths, the three
queries are the filters of `maakFilter`. `req` is the request that made the page;
`Dispatch` is `GeozetServlet.service`, `Locate` is `OpenLSServlet.service` with
the answer of the geocoder, `SearchForm`, `FilterForm` and the links are what the
pages offer, each with the parameters it hands on. Where GeoTools leaves open what a box
turned inside out matches, `swap` is both.

The servlets write what they decoded into their links as it is. A text is therefore a
value with what is left of it in a link (`InLink`) and in a form (`InForm`),
and `Ends` are the texts that end the link they are written into (with a `#` or a quote).
`Arrived` is the request of a link that ends after some of its parameters: of `HitParams`,
which are in the order of `OpenLSServlet.java:371-403`, it keeps what stands before
such a text; of `OnBekendmakingen` (`buildQueryString`), what the order of the map
of parameters puts before it, which is by name after the only hit (`sorted`, the `TreeMap` of
`HttpWrappedRequest`) and any order otherwise. `FilterParams` sends an empty `adres` and
"onbekend" as `gevonden` where there was none, as the JSP does. A radius in the
text that is not a number (`NoNumber`) is forwarded and refused by the next servlet.

`wanted`, `core` and `clean` are history: the place, its name and the radius the visitor chose
last, whether the visitor asked for the pages without JavaScript, and whether
no text written into a page so far ended a link.

**PageList, ResultPages.** `PageList(items, offset)` is the list of entries that
`buildPageList` writes; its loop is the recursive function `row` in `RowEntries`,
one round per page. `Render` is a request: new query, slice, links. `Change`
is a publication or withdrawal between two requests. `seen` and `whole` are
history: what a visitor who only follows "Volgende" has seen.

## 3. The runs

| run | shows | bounds |
|---|---|---|
| `cluster_layer` | markers agree with the legend, each announcement once, all on screen is there, no overlapping singles | 5 announcements, 2 themes, 3 centres, 3 zoom levels |
| `markers` | totals, styles and anchors of areas; calls per theme on one marker; one legend | 2 areas, 3 themes, a zero, a missing number, announcements without theme, 4 members |
| `layer_reads` | requests, loading panel, refinement of `LatestRead`, loading ends | 2 layers, 4 views, 3 requests, 1 tile |
| `popup` | the popup stays with its marker | 5 announcements, 2 clusters (of 2 and 3), 1 area, 5 views |
| `result_pages` | walks; seven numbers at most, rising from first to last page | 2 per page, up to 17 results (9 pages), 3 areas |
| `start_dialog` | one message, URL is view, one map panel, paging of the dialog and of its list on top, no dialog stays busy | 2 searches besides the hash, 3 queries with 0, 1 and 2 hits; 2 requests for areas with answers of 0, 1 and 3 pages |
| `resize_map` | sizes, looks, listeners, timers | window too small, room for the map, room for the anchor too; all configurations; 3 resizes |
| `core_pages` | parameters along forms, forwards and links; areas of a query | 3 places, 15 texts, 3 radii and one that is no number, 5 areas in and around the boxes |

Why the bounds are enough for the interesting cases. Five announcements: two at
one place, two within reach of each other and of these, one apart; so a feature
can be in reach of two clusters, a cluster can fall below the threshold, and a
batch can differ between the two orders of one sort column. Three zoom levels:
out of range, clustered, clustered otherwise. Clusters of two and of three in
`popup`: with a click in the legend they count one, two or three, so that paging
can be left in a longer list than the one opened next. Three requests: one alive, one
aborted before its timer and one aborted after it; more are interchangeable with
these, and a move waits for a free one only when three are on their way. Seventeen
results: the row of five pages stands at the left end, in the middle with dots on
both sides, and at the right end, also with a last page that is partly filled.
Several searches in flight: an answer can overtake another, and the one for the
hash comes after or before them. Areas in `core_pages`: in the box for centrum, between
the boxes, at the edge, too small, and beyond, around one of the places, whose hits
have different radii. The texts there: one of each kind `OpenLSServlet` tells apart, one with
a radius and one with a radius that is no number, and for links one that comes through
whole, one with `#`, one with a quote, one with `%23`, which becomes a `#` on its
second way through, and one with `&`; the names of the three places are of the first, the
second and the last sort.

Where a failure changes what can be promised, the property says so. In
`ClusterLayer` the history variable `lost` says that the last read that ended
failed: the layer is empty then although announcements are on screen, and the
batch kept for clustering misses what the legend does meanwhile.
`ScreenIsComplete` and `NoOverlapAfterClustering` speak of layers whose last read
succeeded (with an empty answer, too); all the other properties hold either way.

The type invariants of `LayerReads`, `Popup` and `ResizeMap`, and `NeverTooSmall` of the
latter, are proved (section 6) and not run besides.

Each property is paired with a slip that breaks it, so that none of them holds
by the shape of the model.

## 4. Where the code departs from its own words

Four runs check one sentence of the repository each and end in a counterexample.

| run | the sentence | what the code does |
|---|---|---|
| `server_side_zero` | "...do not want to draw server-side clusters of count 0" (`ServerSideCluster.js:122`) | a second update at count 0 deletes the style |
| `popup_page` | "The current item which is being paged." (`Popup.js:88`) | opening another cluster does not reset the counter |
| `result_pages_four` | "voor het geval er minder dan 5 pagina's zijn" (`ServletBase.java:260`) | four pages: page five is offered, before page four |
| `search_no_map` | "we need to postpone initialization of the map panel" (`Viewer.js:59`) | when the request fails there never is one |

Other sentences are stated next to the properties, in the module, and are not in
a configuration: add the definition to the `.cfg` (as `INVARIANT` when it is a
state formula, else as `PROPERTY`) and TLC shows how the code departs from it.

| definition | the sentence | what the code does |
|---|---|---|
| `ClusterLayer!NoOverlapAfterClustering` without `~lost'` | "Cluster features based on some threshold distance." (`Geozet/Strategy/Cluster.js:55`) | after a failed read, a click in the legend misses the cached batch, which is clustered by old styles at the next zoom: single markers overlap |
| `ClusterMarker!TitleIsCurrent` | "Get a plain text version of the popover to use in the title attribute" (`Popup.js:135`, `getTitleForFeature`) | an anchor that is used again keeps its title |
| `ResizeMap!MinimizedIsStatic` | "If already maximized, switch back to the static size" (`ResizeMap.js:204-205`) | with autoHeight a listener stays on the window and widens the minimized map |
| `ClusterMarker!LoneMarkerHasItsText` | "When the visiblity of themes changes, the clusters need to be updated." (`Cluster.js:108`) | title and text of the first announcement stay |
| `Popup!TellsAboutItsMarker` | "The feature attached to this popup." (`Popup.js:58`) | an area gets the popup with the old contents |
| `Popup!VisibleAfterMove` | "check if feature is in view AND still visisble" (`Popup.js:368`) | a click in the legend closes the popup, but when the cluster it is opened for afterwards falls apart, `move` opens it for the marker that now stands there (345-358), also for one that the legend hides |
| `Popup!PanKeepsZoom` | "zoom level to zoom to if clicked on a cluster" (`settings.js:335`) | a pan can open an area that took over the place, and zoom |
| `Popup!PopoverOpensPopup` | "When somebody clicks on the popover, we need to open up the popup." (`Popup.js:289`) | the feature's layer is gone: TypeError |
| `Popup!ActiveHasPopup` | "different css style around the feature which is associated with the popup" (`Popup.js:183`) | a cluster takes over the active attribute of its member |
| `ResultPages!DotsWhenMoreThanRow` | "Tussen de rij van 5 paginanummers en de eerste danwel laatste is een extra item met '...'" (`ServletBase.java:178-179`), "groter is dan 5" (`ServletBase.java:239`) | the code asks for more than six pages; a list of six has no dots |
| `ResultPages!NoEmptyList` | "geen lege OL" (`WFSClientServlet.java:497`) | a page past the end is an empty list |
| `ResultPages!BackDropsPaging` | "de paginering wordt eraf geknipt!" (`WFSDetailsServlet.java:214`) | the link keeps the offset |
| `Search!ShownIsLastSearch` | "suggestions already removed these in this.search" (`Search.js:292`) | an older answer replaces the newer one |
| `Search!HashAnswerIsTold` | "will show the error msg in current searchform" (`Search.js:147`) | with a hash that form is not in the page |
| `Vlakgericht!OwnAnswerOnly` | "...in a pageble list in popup" (`Vlakgericht.js:17`) | the answer of a closed dialog fills the open one |
| `Vlakgericht!PopupComesBack` | "if we closed a popup while opening this geozetStart, reopen it" (`init.js:83`) | only the close button does |

## 5. Fairness

Only what the browser does by itself is fair: it runs its timers
(`LayerReads!Timer`, `ResizeMap!Timer`), and it ends every request and every image
with an answer or an error (`Answered`, `Ignored`, `TileLoaded`,
`Search!SearchFairness`, `Vlakgericht!End`). `ol_overrides.js` gives an image that
fails for the last time the same callback as one that loads. Nothing is assumed
of the user, and nothing of the outcome: an answer may always be a failure.

* `LoadingEnds` says what holds when the user leaves the map alone from some
  moment on.
* `BusyEndsWithMap` holds for a viewer without a hash, and for every dialog opened when
  the map had an extent. A dialog opened earlier, while the request for the hash is
  on its way, asks nothing and stays busy (`Vlakgericht.js:125`).
* `MapFollowsWindow` needs only that timers end: while the browser is being
  resized they start again, but the bound on resizes ends that.
* `StartDialog` has the fairness of both parts (`SearchFairness`, `VlakFairness`): either part's
  requests end whatever the other does.
* In `search_no_map` weak fairness of the answers as a whole suffices, because there
  the request for the hash ends in the error; a `pass` never rests on it.

`CHECK_DEADLOCK FALSE` stands where the system really stops: in `Search` and
`StartDialog` when all requests have ended and the user simply reads on, in
`ResizeMap` after `destroy`.

## 6. The proofs

Checked by TLAPS for every value of the constants that satisfies the
assumptions in the module.

**ClusterLayer_proofs.** Assumptions: the set of announcements is finite, every
one has a theme and a place, zoom levels have widths (`DataAssumption`,
`MapAssumption`), and `None` is no value (`NoneAssumption`). That clusters match
the legend is not inductive: a marker is updated only when its count *changes*,
compared with the styles of the members. The inductive invariant `IInv` therefore
says that styles match the legend on the layer (`HiddenMatchesLegend`), and that
count, look and category of every marker match the *styles* of its members
(`MarkerOK`); the legend follows from the two together. `ViewKnown` says that an answer
only comes when the map has a view, which typing needs. Lemmas: what `Recount`
establishes from any marker with a right category (`RecountOK`), what a fresh
candidate is (`CandidatesType`), what clustering and reapplying leave
(`ReclusterOK`, `ReapplyOK`), one lemma per action. Theorems: `TypeCorrect`,
`HiddenIsLegend`, `ClustersAreLegend`.

What is on the layer needs the clustering itself. `Starts` is a recursive choice
over the batch (a position starts a cluster unless one that did is near);
`ChoiceInOrder` shows by the least counterexample (`LeastNumber`, from the
well-foundedness of the naturals) that such a choice has an outcome, so that
`StartsEquation` holds; then every announcement is in one candidate
(`CandidatesCover`) and no two (`CandidatesDisjoint`), broken candidates give
their members back, and those that are left alone are apart (`SinglesApart`). The
second invariant `LInv` is `EachOnceOrNone`, a cache without doubles, `AskedFor`
(the bounds asked for hold the screen, or a failure is known) and `HasAnswer`
(without a read under way, what lies within the bounds is in the cache). Theorems:
`EachOnceAlways`, `ScreenAlwaysComplete`, `NoOverlapAlways`. The last one
has a case that is easily overlooked: after an empty answer the old cache
stays and is clustered again by a zoom, with styles that no click has reached; it
is harmless because there is nothing on screen within the bounds (`MoveParts`).

**LayerReads_proofs.** Assumptions: `ReadsAssumption` (finitely many layers, every view
shows one layer and lies within its own bounds). The inductive invariant `RInv` is
the type, `Known` (a request in use has a layer and a view) and `OneLiveRequest`
itself: an abort and the assignment of the new request are one step, so the
live request and the field `response` always move together. `PanelIsRight` adds
the counting argument: each action changes the set of busy layers and the
tiles in a way `PanelArithmetic` and `TilesArithmetic` translate to
increments. `ScreenAsked` uses `v \in Covers[v]`. `LayersImplementLatestRead` maps
`bounds`, `response # None` and `contents` to `asked`, `waiting` and `shown`;
every step is an `Ask`, an `Answer` or a stutter (`ReadsStep`).

**Popup_proofs.** Assumptions: `PopupAssumption` (finitely many markers with themes
and places, every view shows one layer). The methods of the popup are functions of
its record, and call each other and the map, so the proof goes by method. `Sound` is
what every method keeps wherever the map is: contents, items, active style. `Near` is
where the popup may be drawn; it does not survive a move of the map, only the
`PopupMove` that follows in the same handler brings it back. The inductive
invariant `IInv` is both at the current view. `SettleOK` covers the handlers that
move the map themselves. Theorems: `TypeCorrect`, `PopupAlwaysInSight`,
`ContentsAlwaysItsOwn`, `ItemAlwaysVisible`, `ActiveAlwaysLast`.

**StartDialog_proofs.** `SInv` adds to the properties of the search that
the request for the hash is in flight only while there is no map (`Flights`);
without that a late answer for the hash could make a second panel. `VInv` adds that lists and
footers come in pairs, and that a dialog without a foreign answer has no list
before its own (`Fresh`); `AllTurned` and `SetPagesOK` show that a click turns every list the
same way. `StepsOfBoth` shows that each step of the shared dialog is a step, or a
stutter, of either part, so that the invariants of the parts hold of the whole
(`IInv`, `PageInvariant`). `TopListPages` also speaks of dialogs with foreign answers, where lists of
different lengths lie under each other: an answer puts its list on top and sets the
length with it (`TopEndStep`), and a click turns the lists below beyond their ends, but never
the one on top (`TopGoStep`). `TypeCorrect` needs
besides that the form of the start is there just as long as the introduction
(`IntroStep`). Theorems: `TypeCorrect`, `OneMessageAtMost`, `UrlAlwaysNamesView`,
`PagingAlwaysConsistent`, `TopListAlwaysPages`. Assumptions: `SearchAssumption`, `VlakAssumption`.

**ResizeMap_proofs.** For any static size, window and number of resizes
(`ResizeAssumption`). `QuietMapFits` is not inductive: `Fits` says that the map has the width
of the window *or* every listener's timer still runs, so that the last timer to end sets
it. `ListensWhenMaximized` is needed for it: a maximized map without
listener would never be told.

**Markers_proofs.** For any number of themes (each once in the legend,
`LegendAssumption`: its state is an object), any numbers per area with any of
them absent (`ServerAssumption`), and a cluster of one member or more (`MarkerAssumption`). The loops over the themes
are recursive functions; `Recursion` shows that such a function exists, for any set
of values and any steps within it, and `UpTo` is induction up to a length. `SumOfOneMore`
says that one theme adds its number, `SumOfParts` that the themes that are on and
those that are off make the total, from which `ArriveOK`: an area that arrives,
subtracting what is off, has the sum of what is on. The invariant of the areas
(`ServerInv`) adds that only a count of zero is hidden. `CallsOK` is the same for the
calls on a marker: each call keeps the stage `Sound`, where the marker is right for the
members as they are (`Right`) or new (`Fresh`), and settles the members of its
theme, so that after the last one they all follow the legend. A call on a marker
whose count does not change leaves it; `UpdatedOK` shows that this is right because one call
only hides or only shows. Theorems: `TypeCorrect`, `CountAlwaysSum`, `ScreenAlwaysCurrent`,
`MarkerAlwaysMatches`, `AnchorAlwaysCurrent`. `CallIsRecount` and `CallsAreRecount` tie the two
models of a marker together: one call is `HideTheme` and `Recount` of `ClusterLayer`,
and the calls for all themes, through counts that `ClusterLayer` never sees, end where
its single `HideThemes` and `Recount` does. The latter is so for a new marker and for
one whose members follow the legend, which are the two `Cluster.cluster` calls it with.

**CorePages_proofs.** `OnlyCentrumCounts`: a larger percentage gives a
smaller box, so that a point in the box for midden is in that for centrum, and
the queries for midden and rand, which exclude the one before, find nothing that
counts; the three together are the query for centrum. It assumes factors that ascend, as
web.xml asks (`Ascending`), and that rand and centrum make no more than a whole width, which
web.xml does not ask for but its values keep: beyond it, the box for rand is
turned inside out so far that it is larger than that for centrum.
`PagesInvariant` says that the request of every page carries what was chosen, also of the
pages with several hits and with none, as long as no text ended a link (`clean`), and
that without that condition a list is still one of the place chosen last: a link has its
coordinates whole or not at all, and then the page is refused. From it
`CoreAlwaysStays`, `ResultsAreChosen`, `RequestsAreComplete` follow, for every set of texts and whatever
links and forms leave of them. A request that
the filter form sends through the dispatcher has its coordinates, and thereby never
reaches the search. `AreasAlwaysNear` assumes factors up to a whole width
(`Percentages`): a box that is shrunk, or turned inside out, then lies within the
box of the request (`SideInside`).

**ResultPages_proofs.** Assumptions: a page holds one result or more
(`ItemsAssumption`), and there is a bound on the results (`MaxAssumption`), which may
be any number. The source counts in offsets, which are products of two unknowns
and as such beyond the provers; the proofs count in pages. `Factor`, `Beside`, `PagesOK` and
`HasResults` translate once: offsets are in the order of their pages, and a page has
results just when it is one of `Pages(size)`. `RowIsRun` goes through the loop round by
round: for every list but the first page of four, the row holds the pages from one
to another, one by one, around the current page (`Run`), with the first and the
last page left out. `ListShape` adds what stands before and after it: nothing, two entries
or three, three just when pages are left out between them and the row (`Shape`). So
`NumbersAreAround` and `NumbersAreInOrder` speak of positions in a list of known shape.
The first page of a list of four is the exception: there the row has five pages, and
`FourPages` writes the list down as it comes out, with a page that does not exist
in front of the last one. The list still has at most seven numbers, and that it is
out of order there and nowhere else is `OnlyFourEverWrong`.

The invariant `RInv` says that the page in view is that of its size and offset
(`PageInv`), and that a visitor whose walk is whole has seen all results up to the page in
view, of a list that has not changed, and is on a page that has results, or on the first one
(`WalkInv`). The last part is needed for the step: a link past the end would be followed by
an empty slice, and the results in between would be lost. Theorems:
`TypeCorrect`, `WalkAlwaysSeesAll`, `SevenAlwaysAround`, `OnlyFourEverWrong`.

Left to TLC: liveness (`LoadingEnds`, `MapComesUp`, `BusyEndsWithMap`,
`MapFollowsWindow`), which is beyond the prover. Every invariant and every
other action or refinement property of a passing run is a theorem.

## 7. Abstractions

* The map of `ClusterLayer` is one-dimensional; distances, extents and sort
  columns are those of the code, rows of the sort are left out. In `Popup` and
  `LayerReads` a view is a value, with what it shows given by functions.
* `Popup` does not compute clusters: any arrangement of a given set may come out
  of a clustering, if its clusters would be kept under the present legend.
* Contents of popups, messages and lists are known by what they are about.
* `Anchor` leaves out positions, sizes and the length of the label.
* `Search` takes what the geocoder finds for a query as given; an answer
  may also be an error text or not come. Panning by hand is left out.
* One dialog at a time: #geozetStart covers the box that opens it.
* Browsers with `querySelectorAll`; jQuery's `delegate('li/a')` works as `li`.
* The answer for areas always has a field `vlakken`.
* `ResizeMap` leaves out borders and the position of the map: the room for it
  changes with the window only.
* `ResultPages` follows one visitor with links and forms of the pages; offsets
  typed into the URL are left out. The order of areas and announcements is
  that of the query, and numbers are compared only while nothing changes.
* `CorePages` tells texts apart by what `OpenLSServlet` makes of them, and by what a link
  and a form leave of them; a text that brings parameters of its own into a link (`&` with
  `=`) is left out. Which hits the geocoder has is open. A URL from elsewhere has no
  `gevonden`. Offsets, categories and the pages of a list are in `ResultPages`.
* In `AreaQuery` an area is a set of points with whole coordinates, and the
  limit of 500 features and the order of the result (a `HashSet`) are left out.

Facts about the code that the models make visible and that contradict no text of the
repository:

* A text such as "12/14", or one with an odd number of parts, leads to
  the error page (`OpenLSServlet.java:139,154`), and so do a radius in the text that is not a
  number and a geocoder that fails (`OpenLSClientUtil.java:36`).
* A text or name with a `#` or a quote ends the links it is written into. The link to a
  hit then loses `coreonly` (and `gevonden`), and after the only hit every link on the list
  loses coordinates, radius and `coreonly` and leads to the error page: without `clean`,
  `CoreStays` and `NothingIsMissing` are false. A text with `%23` is one with a `#` a page later.
  A name with an `&` is cut in the heading.
* After the filter form the heading is "onbekend" when the place was given by coordinates.
* The radius by kind of hit is never used by a visitor
  who comes through the form, which always sends one; the only hit ignores the radius
  of the form, a hit out of several does not.
* The queries for midden and rand add nothing to that for centrum. The texts call the factors a
  share of the box (`VlakGerichteWFSClientServlet.java:73-79`, `web.xml`), the code takes them off on
  each side; `AreasAreNear` holds under either reading.

## 8. Not modelled

Pan/zoom bar, scale bar, XLS formats, texts and templates: no state that
interacts. Construction and `destroy` of the viewer, except the start with a hash
and `ResizeMap`. The HTTP client the servlets share, whose behaviour under two
requests lies in a library; start and stop of the servlets, the connection with the
WFS, the distance sort and HTML; `proxy.jsp`.

Most of the files in the repository are not the program's own: OpenLayers 2.9,
GeoExt and Ext are vendored under `src/jsbuild/`, and `Geozet.js` and `ext.js` are
the build of the same sources. Of these only what the viewer relies on is
modelled (map moves, requests, the vector layer, the cluster and BBOX
strategies, the feature and click handlers, buffered listeners). The modules cover the
program's own logic, and therefore a small share of all lines.

`PROJECT.json` lists the hazards with the lines where they bite, also those no
property covers.

## 9. The plan

Done, in this order: announcements layer and its proof, server-side clusters,
reads with the refinement and its proof, popup, marker, pages, search, dialog;
then the composition of search and dialog with its proofs, the
composition of the layers behind the legend with their anchors, the resizing, the
area query, the dispatch and the forms of the core, the proofs about popup, search,
dialog, resizing and core, and those about the
clustering itself, the loops over the themes and the row of pages.

Left:

1. A composition of `LayerReads` and `ClusterLayer`: the answers of the requests
   with aborts feed the layer.
2. `destroy` of the viewer, and answers that come after it.
