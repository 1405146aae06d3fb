------------------------------ MODULE ResizeMap -----------------------------
(***************************************************************************)
(* plugins/ResizeMap.js: the link in the map that lets it fill the window  *)
(* or takes it back to its static size, and the listeners on the window    *)
(* that keep a maximized map in step with it.  Ext.EventManager buffers    *)
(* the listeners: a resize of the browser (re)starts a timer of 100 ms for *)
(* each of them, and taking a listener off stops its timer.                *)
(*                                                                         *)
(* Borders and the position of the map are left out: avail is what         *)
(* getMaxAvailableSize gives, and changes with the window only.            *)
(***************************************************************************)
EXTENDS Integers, Sequences

CONSTANTS
  StaticW, StaticH,  \* staticSize
  AnchorW,           \* anchor.getWidth()
  Widths, Heights,   \* what the window may leave for the map
  MaxResizes,        \* bound: resizes of the browser
  MaxListeners       \* bound: listeners that pile up

ASSUME ResizeAssumption ==
  /\ StaticW \in Nat /\ StaticH \in Nat /\ AnchorW \in Nat
  /\ Widths \subseteq Int /\ Heights \subseteq Int
  /\ MaxResizes \in Nat /\ MaxListeners \in Nat

VARIABLES
  config,       \* autoWidth, autoHeight and hidden
  phase,        \* "new", "on" after addAnchor, "gone" after destroy
  avail,        \* getMaxAvailableSize(): [w, h]
  size,         \* the size of mapPanel.body: [w, h]
  isMaximized,
  bodyMax,      \* has the body of the page the class geozetMax?
  anchorMax,    \* has the anchor the class max?
  contentHigh,  \* has #geozetContent a height of its own?
  anchorShown,  \* can the anchor be seen?
  listeners,    \* resizeMapOnBrowserResize on the window: does its timer run?
  anchorTimer,  \* does the timer of toggleAnchor on the window run?
  resizes       \* bound: resizes of the browser so far

looks == <<isMaximized, bodyMax, anchorMax, contentHigh>>
vars  == <<config, phase, avail, size, looks, anchorShown, listeners,
           anchorTimer, resizes>>

-----------------------------------------------------------------------------
Larger(m, n) == IF m > n THEN m ELSE n

\* Ext.EventManager.on adds a listener also when there is one; un takes off
\* the first one that matches, with its timer.
On(ls) == Append(ls, FALSE)
Un(ls) == IF ls = <<>> THEN ls ELSE Tail(ls)

\* Slip: the map gets what the window leaves.
MaximalSizeOfWindow == [size EXCEPT !.w = avail.w]

\* resizeMap(static, toggle), but for the class of the body.
MaximalSize == [size EXCEPT !.w = Larger(avail.w, StaticW)]
StaticSize  == [w |-> StaticW,
                h |-> IF config.autoHeight THEN Larger(avail.h, StaticH)
                                           ELSE StaticH]

\* toggleAnchor.
RoomForAnchor == ~config.hidden /\ avail.w >= StaticW + AnchorW

-----------------------------------------------------------------------------
\* Viewer.createMapPanel.
Init ==
  /\ config \in [autoWidth : BOOLEAN, autoHeight : BOOLEAN, hidden : BOOLEAN]
  /\ phase = "new"
  /\ avail \in [w : Widths, h : Heights]
  /\ size = [w |-> StaticW, h |-> StaticH]
  /\ isMaximized = FALSE /\ bodyMax = FALSE /\ anchorMax = FALSE
  /\ contentHigh = FALSE /\ anchorShown = FALSE
  /\ listeners = <<>> /\ anchorTimer = FALSE
  /\ resizes = 0

\* Slip: a map that starts up maximized does not look like it.
AddAnchorPlain ==
  /\ phase = "new" /\ phase' = "on"
  /\ isMaximized' = config.autoWidth
  /\ size' = [w |-> IF config.autoWidth  THEN Larger(avail.w, StaticW) ELSE size.w,
              h |-> IF config.autoHeight THEN Larger(avail.h, StaticH) ELSE size.h]
  /\ listeners' = IF config.autoWidth THEN On(listeners) ELSE listeners
  /\ anchorShown' = RoomForAnchor
  /\ UNCHANGED <<config, avail, bodyMax, anchorMax, contentHigh, anchorTimer,
                 resizes>>

AddAnchor ==
  /\ phase = "new" /\ phase' = "on"
  /\ isMaximized' = config.autoWidth /\ bodyMax' = config.autoWidth
  /\ anchorMax' = config.autoWidth /\ contentHigh' = config.autoWidth
  /\ size' = [w |-> IF config.autoWidth  THEN Larger(avail.w, StaticW) ELSE size.w,
              h |-> IF config.autoHeight THEN Larger(avail.h, StaticH) ELSE size.h]
  /\ listeners' = IF config.autoWidth THEN On(listeners) ELSE listeners
  /\ anchorShown' = RoomForAnchor
  /\ UNCHANGED <<config, avail, anchorTimer, resizes>>

\* Slip: the listener always stays.
MinimizeKeepsListener ==
  /\ phase = "on" /\ anchorShown /\ isMaximized
  /\ isMaximized' = FALSE
  /\ anchorMax' = ~anchorMax /\ bodyMax' = ~bodyMax
  /\ contentHigh' = (contentHigh /\ config.autoHeight)
  /\ size' = StaticSize
  /\ UNCHANGED <<config, phase, avail, anchorShown, listeners, anchorTimer,
                 resizes>>

\* toggleResizeMap of a maximized map; with autoHeight the listener stays.
Minimize ==
  /\ phase = "on" /\ anchorShown /\ isMaximized
  /\ isMaximized' = FALSE
  /\ anchorMax' = ~anchorMax /\ bodyMax' = ~bodyMax
  /\ contentHigh' = (contentHigh /\ config.autoHeight)
  /\ listeners' = IF config.autoHeight THEN listeners ELSE Un(listeners)
  /\ size' = StaticSize
  /\ UNCHANGED <<config, phase, avail, anchorShown, anchorTimer, resizes>>

\* Slip: only the map that starts up maximized listens.
MaximizeDeaf ==
  /\ phase = "on" /\ anchorShown /\ ~isMaximized
  /\ isMaximized' = TRUE
  /\ anchorMax' = ~anchorMax /\ bodyMax' = ~bodyMax
  /\ contentHigh' = TRUE
  /\ size' = MaximalSize
  /\ UNCHANGED <<config, phase, avail, anchorShown, listeners, anchorTimer,
                 resizes>>

\* toggleResizeMap of a map that is not.
Maximize ==
  /\ phase = "on" /\ anchorShown /\ ~isMaximized
  /\ Len(listeners) < MaxListeners
  /\ isMaximized' = TRUE
  /\ anchorMax' = ~anchorMax /\ bodyMax' = ~bodyMax
  /\ contentHigh' = TRUE
  /\ size' = MaximalSize
  /\ listeners' = On(listeners)
  /\ UNCHANGED <<config, phase, avail, anchorShown, anchorTimer, resizes>>

BrowserResize ==
  /\ resizes < MaxResizes
  /\ resizes' = resizes + 1
  /\ avail' \in [w : Widths, h : Heights]
  /\ listeners' = [i \in DOMAIN listeners |-> TRUE]
  /\ anchorTimer' = (phase = "on")
  /\ UNCHANGED <<config, phase, size, looks, anchorShown>>

\* resizeMapOnBrowserResize, when the timer of listener i ends.  Without a
\* map panel it throws.
ResizeMapOnBrowserResize(i) ==
  /\ listeners[i]
  /\ listeners' = [listeners EXCEPT ![i] = FALSE]
  /\ size' = IF phase = "on" THEN MaximalSize ELSE size
  /\ UNCHANGED <<config, phase, avail, looks, anchorShown, anchorTimer, resizes>>

ToggleAnchor ==
  /\ anchorTimer
  /\ anchorTimer' = FALSE
  /\ anchorShown' = RoomForAnchor
  /\ UNCHANGED <<config, phase, avail, size, looks, listeners, resizes>>

\* The timers of what it takes off do not end any more.
Destroy ==
  /\ phase = "on" /\ phase' = "gone"
  /\ anchorShown' = FALSE
  /\ listeners' = Un(listeners)
  /\ anchorTimer' = FALSE
  /\ UNCHANGED <<config, avail, size, looks, resizes>>

Timer == ToggleAnchor \/ \E i \in DOMAIN listeners : ResizeMapOnBrowserResize(i)

Next == AddAnchor \/ Minimize \/ Maximize \/ BrowserResize \/ Timer \/ Destroy

\* A timer that is not stopped ends.
Spec == Init /\ [][Next]_vars /\ WF_vars(Timer)

-----------------------------------------------------------------------------
\* The type invariant.
TypeOK ==
  /\ config \in [autoWidth : BOOLEAN, autoHeight : BOOLEAN, hidden : BOOLEAN]
  /\ phase \in {"new", "on", "gone"}
  /\ avail \in [w : Int, h : Int]
  /\ size \in [w : Nat, h : Nat]
  /\ isMaximized \in BOOLEAN /\ bodyMax \in BOOLEAN /\ anchorMax \in BOOLEAN
  /\ contentHigh \in BOOLEAN /\ anchorShown \in BOOLEAN
  /\ anchorTimer \in BOOLEAN
  /\ listeners \in Seq(BOOLEAN)
  /\ resizes \in Nat

\* "If minimized, it will not get smaller than a pre-defined minimum size",
\* and neither will a maximized map in a small window.
NeverTooSmall == size.w >= StaticW /\ size.h >= StaticH

\* The classes are toggled, in two places, and the flag is set: they must
\* stay in step, from either start.  The height given to #geozetContent goes
\* with them, but for autoHeight.
LooksAgree ==
  /\ bodyMax = isMaximized /\ anchorMax = isMaximized
  /\ isMaximized => contentHigh
  /\ contentHigh => isMaximized \/ config.autoHeight

\* "If maximized, it will listen to browser resize events": through toggles,
\* resizes and destroy there is one listener then and none otherwise, and no
\* timer of it.  With autoHeight a listener stays behind for every time the
\* map was minimized, so there is one at least.
ListensWhenMaximized ==
  /\ phase = "on" /\ isMaximized => Len(listeners) > 0
  /\ ~config.autoHeight =>
       Len(listeners) = IF phase = "on" /\ isMaximized THEN 1 ELSE 0

\* When no timer runs, a maximized map has the width of the window, a
\* minimized one the static width, unless autoHeight left a listener behind
\* (toggleResizeMap), and the anchor is there just when there is room.
Quiet == ~anchorTimer /\ \A i \in DOMAIN listeners : ~listeners[i]

QuietMapFits ==
  phase = "on" /\ Quiet =>
    /\ isMaximized => size.w = Larger(avail.w, StaticW)
    /\ ~isMaximized => size.w = StaticW \/ (config.autoHeight /\ listeners # <<>>)
    /\ anchorShown <=> RoomForAnchor

\* A maximized map gets the width of the window, or is minimized or gone.
MapFollowsWindow ==
  phase = "on" /\ isMaximized
    ~> phase = "gone" \/ ~isMaximized \/ size.w = Larger(avail.w, StaticW)

\* The comment of toggleResizeMap, "If already maximized, switch back to the
\* static size": a minimized map has the static width.
MinimizedIsStatic == phase = "on" /\ ~isMaximized => size.w = StaticW
=============================================================================
