-------------------------- MODULE ResizeMap_proofs -------------------------
(***************************************************************************)
(* For every static size, every window and any number of resizes and       *)
(* listeners: the map is never too small, its looks agree with its state,  *)
(* it listens when it must, and it fits when no timer runs.                *)
(***************************************************************************)
EXTENDS ResizeMap, SequenceTheorems, TLAPS

\* Before addAnchor nothing has happened to the map.
NewIsPlain ==
  phase = "new" => ~isMaximized /\ listeners = <<>> /\ size.w = StaticW

\* A maximized map has the width of the window, or every listener has yet to
\* tell it; a minimized one the static width, or a listener that stayed.
Fits ==
  phase = "on" =>
    /\ isMaximized => \/ size.w = Larger(avail.w, StaticW)
                      \/ \A i \in DOMAIN listeners : listeners[i]
    /\ ~isMaximized => size.w = StaticW \/ (config.autoHeight /\ listeners # <<>>)

\* The anchor is there just when there is room, or its timer runs.
AnchorFits == phase = "on" => anchorTimer \/ (anchorShown <=> RoomForAnchor)

\* The inductive invariant.
RInv == /\ TypeOK /\ NeverTooSmall /\ LooksAgree /\ ListensWhenMaximized
        /\ NewIsPlain /\ Fits /\ AnchorFits

-----------------------------------------------------------------------------
\* The larger of two lengths.
LEMMA LargerOK ==
  ASSUME NEW m \in Int, NEW n \in Nat
  PROVE  Larger(m, n) \in Nat /\ Larger(m, n) >= n
  BY DEF Larger

\* The sizes the map is given.
LEMMA SizesOK ==
  ASSUME TypeOK, NeverTooSmall
  PROVE  /\ MaximalSize \in [w : Nat, h : Nat] /\ StaticSize \in [w : Nat, h : Nat]
         /\ MaximalSize.w = Larger(avail.w, StaticW) /\ MaximalSize.w >= StaticW
         /\ MaximalSize.h = size.h
         /\ StaticSize.w = StaticW /\ StaticSize.h >= StaticH
<1>1. /\ Larger(avail.w, StaticW) \in Nat /\ Larger(avail.w, StaticW) >= StaticW
      /\ Larger(avail.h, StaticH) \in Nat /\ Larger(avail.h, StaticH) >= StaticH
  BY LargerOK, ResizeAssumption DEF TypeOK
<1>2. (IF config.autoHeight THEN Larger(avail.h, StaticH) ELSE StaticH) \in Nat
      /\ (IF config.autoHeight THEN Larger(avail.h, StaticH) ELSE StaticH) >= StaticH
  BY <1>1, ResizeAssumption
<1>3. QED
  BY <1>1, <1>2, ResizeAssumption DEF MaximalSize, StaticSize, TypeOK

\* The list of listeners.
LEMMA ListenersOK ==
  ASSUME NEW ls \in Seq(BOOLEAN)
  PROVE  /\ On(ls) \in Seq(BOOLEAN) /\ Len(On(ls)) = Len(ls) + 1
         /\ Un(ls) \in Seq(BOOLEAN)
         /\ Len(Un(ls)) = IF ls = <<>> THEN 0 ELSE Len(ls) - 1
         /\ [i \in DOMAIN ls |-> TRUE] \in Seq(BOOLEAN)
         /\ Len([i \in DOMAIN ls |-> TRUE]) = Len(ls)
         /\ DOMAIN [i \in DOMAIN ls |-> TRUE] = DOMAIN ls
         /\ ls # <<>> <=> Len(ls) > 0
         /\ Len(ls) \in Nat
<1>1. On(ls) \in Seq(BOOLEAN) /\ Len(On(ls)) = Len(ls) + 1
  BY SMT DEF On
<1>2. /\ Un(ls) \in Seq(BOOLEAN)
      /\ Len(Un(ls)) = IF ls = <<>> THEN 0 ELSE Len(ls) - 1
  BY HeadTailProperties, EmptySeq DEF Un
<1>3. /\ [i \in DOMAIN ls |-> TRUE] \in Seq(BOOLEAN)
      /\ Len([i \in DOMAIN ls |-> TRUE]) = Len(ls)
      /\ DOMAIN [i \in DOMAIN ls |-> TRUE] = DOMAIN ls
  <2>1. Len(ls) \in Nat /\ DOMAIN ls = 1 .. Len(ls)
    BY LenProperties
  <2>. DEFINE all == [i \in 1 .. Len(ls) |-> TRUE]
  <2>2. all \in [1 .. Len(ls) -> BOOLEAN]
    OBVIOUS
  <2>3. all \in Seq(BOOLEAN)
    BY <2>1, <2>2, SeqDef
  <2>4. Len(all) = Len(ls)
    BY <2>1, <2>2, <2>3, LenProperties, SMT
  <2>5. QED
    BY <2>1, <2>3, <2>4
<1>4. Len(ls) \in Nat /\ (ls # <<>> <=> Len(ls) > 0)
  BY EmptySeq, LenProperties
<1>5. QED
  BY <1>1, <1>2, <1>3, <1>4

LEMMA InitInv == Init => RInv
<1>1. ASSUME Init PROVE RInv
  <2>1. TypeOK
    <3>1. avail \in [w : Int, h : Int] /\ size \in [w : Nat, h : Nat]
      BY <1>1, ResizeAssumption DEF Init
    <3>2. <<>> \in Seq(BOOLEAN)
      BY EmptySeq
    <3>3. resizes \in Nat
      BY <1>1 DEF Init
    <3>4. QED
      BY <1>1, <3>1, <3>2, <3>3, Zenon DEF Init, TypeOK
  <2>2. NeverTooSmall
    BY <1>1, ResizeAssumption DEF Init, NeverTooSmall
  <2>3. QED
    BY <1>1, <2>1, <2>2
       DEF Init, RInv, LooksAgree, ListensWhenMaximized, NewIsPlain, Fits,
           AnchorFits
<1>2. QED
  BY <1>1

LEMMA TypeStep == ASSUME RInv, [Next]_vars PROVE TypeOK' /\ NeverTooSmall'
<1>. USE DEF RInv
<1>1. CASE AddAnchor
  <2>1. /\ Larger(avail.w, StaticW) \in Nat /\ Larger(avail.w, StaticW) >= StaticW
        /\ Larger(avail.h, StaticH) \in Nat /\ Larger(avail.h, StaticH) >= StaticH
    BY LargerOK, ResizeAssumption DEF TypeOK
  <2>2. size' \in [w : Nat, h : Nat] /\ size'.w >= StaticW /\ size'.h >= StaticH
    BY <1>1, <2>1 DEF AddAnchor, TypeOK, NeverTooSmall
  <2>3. listeners' \in Seq(BOOLEAN)
    BY <1>1, ListenersOK DEF AddAnchor, TypeOK
  <2>4. RoomForAnchor \in BOOLEAN /\ config.autoWidth \in BOOLEAN
    BY DEF RoomForAnchor, TypeOK
  <2>5. phase' = "on" /\ UNCHANGED <<config, avail, anchorTimer, resizes>>
    BY <1>1 DEF AddAnchor
  <2>6. /\ isMaximized' \in BOOLEAN /\ bodyMax' \in BOOLEAN
        /\ anchorMax' \in BOOLEAN /\ contentHigh' \in BOOLEAN
        /\ anchorShown' \in BOOLEAN
    BY <1>1, <2>4, Zenon DEF AddAnchor
  <2>7. /\ config' \in [autoWidth : BOOLEAN, autoHeight : BOOLEAN, hidden : BOOLEAN]
        /\ phase' \in {"new", "on", "gone"} /\ avail' \in [w : Int, h : Int]
        /\ anchorTimer' \in BOOLEAN /\ resizes' \in Nat
    BY <2>5 DEF TypeOK
  <2>8. QED
    BY <2>2, <2>3, <2>6, <2>7 DEF TypeOK, NeverTooSmall
<1>2. CASE Minimize
  <2>1. listeners' \in Seq(BOOLEAN)
    BY <1>2, ListenersOK DEF Minimize, TypeOK
  <2>2. /\ isMaximized' \in BOOLEAN /\ bodyMax' \in BOOLEAN
        /\ anchorMax' \in BOOLEAN /\ contentHigh' \in BOOLEAN
    BY <1>2, Zenon DEF Minimize
  <2>3. UNCHANGED <<config, phase, avail, anchorShown, anchorTimer, resizes>>
    BY <1>2 DEF Minimize
  <2>4. size' \in [w : Nat, h : Nat] /\ NeverTooSmall'
    BY <1>2, SizesOK, ResizeAssumption DEF Minimize, NeverTooSmall
  <2>5. QED
    BY <2>1, <2>2, <2>3, <2>4 DEF TypeOK
<1>3. CASE Maximize
  <2>1. listeners' \in Seq(BOOLEAN)
    BY <1>3, ListenersOK DEF Maximize, TypeOK
  <2>2. QED
    BY <1>3, <2>1, SizesOK DEF Maximize, TypeOK, NeverTooSmall
<1>4. CASE BrowserResize
  <2>1. listeners' \in Seq(BOOLEAN)
    BY <1>4, ListenersOK DEF BrowserResize, TypeOK
  <2>2. avail' \in [w : Int, h : Int]
    BY <1>4, ResizeAssumption DEF BrowserResize
  <2>3. QED
    BY <1>4, <2>1, <2>2 DEF BrowserResize, TypeOK, NeverTooSmall, looks
<1>5. ASSUME NEW i \in DOMAIN listeners, ResizeMapOnBrowserResize(i)
      PROVE  TypeOK' /\ NeverTooSmall'
  <2>1. listeners' \in Seq(BOOLEAN)
    BY <1>5 DEF ResizeMapOnBrowserResize, TypeOK
  <2>2. size' \in [w : Nat, h : Nat] /\ size'.w >= StaticW /\ size'.h >= StaticH
    BY <1>5, SizesOK DEF ResizeMapOnBrowserResize, TypeOK, NeverTooSmall
  <2>3. QED
    BY <1>5, <2>1, <2>2 DEF ResizeMapOnBrowserResize, TypeOK, NeverTooSmall, looks
<1>6. CASE ToggleAnchor
  BY <1>6 DEF ToggleAnchor, TypeOK, NeverTooSmall, looks, RoomForAnchor
<1>7. CASE Destroy
  BY <1>7, ListenersOK DEF Destroy, TypeOK, NeverTooSmall, looks
<1>8. CASE UNCHANGED vars
  BY <1>8 DEF vars, looks, TypeOK, NeverTooSmall
<1>9. QED
  BY <1>1, <1>2, <1>3, <1>4, <1>5, <1>6, <1>7, <1>8 DEF Next, Timer

\* The looks: flag, classes and height are set together or toggled together.
LEMMA LooksStep == ASSUME RInv, [Next]_vars PROVE LooksAgree'
<1>. USE DEF RInv, LooksAgree
<1>1. CASE AddAnchor
  BY <1>1, Zenon DEF AddAnchor
<1>2. CASE Minimize
  <2>1. bodyMax = TRUE /\ anchorMax = TRUE /\ contentHigh = TRUE
    BY <1>2, Zenon DEF Minimize, TypeOK
  <2>2. isMaximized' = FALSE /\ bodyMax' = FALSE /\ anchorMax' = FALSE
    BY <1>2, <2>1, Zenon DEF Minimize
  <2>3. contentHigh' => config.autoHeight'
    BY <1>2, <2>1, Zenon DEF Minimize
  <2>4. QED
    BY <2>2, <2>3, Zenon
<1>3. CASE Maximize
  <2>1. bodyMax = FALSE /\ anchorMax = FALSE
    BY <1>3, Zenon DEF Maximize, TypeOK
  <2>2. /\ isMaximized' = TRUE /\ bodyMax' = TRUE /\ anchorMax' = TRUE
        /\ contentHigh' = TRUE
    BY <1>3, <2>1, Zenon DEF Maximize
  <2>3. QED
    BY <2>2, Zenon
<1>4. CASE UNCHANGED <<config, looks>>
  BY <1>4, Zenon DEF looks
<1>5. CASE BrowserResize \/ Timer \/ Destroy \/ UNCHANGED vars
  <2>1. UNCHANGED <<config, looks>>
    BY <1>5, Zenon DEF BrowserResize, Timer, ToggleAnchor,
                ResizeMapOnBrowserResize, Destroy, vars
  <2>2. QED
    BY <1>4, <2>1
<1>6. QED
  BY <1>1, <1>2, <1>3, <1>5 DEF Next

\* How many listeners there are.
LEMMA ListensStep == ASSUME RInv, [Next]_vars PROVE ListensWhenMaximized' /\ NewIsPlain'
<1>. USE DEF RInv, TypeOK, ListensWhenMaximized, NewIsPlain
<1>0. /\ Len(On(listeners)) = Len(listeners) + 1
      /\ Len(Un(listeners)) = IF listeners = <<>> THEN 0 ELSE Len(listeners) - 1
      /\ listeners # <<>> <=> Len(listeners) > 0
      /\ Len(listeners) \in Nat
  BY ListenersOK
<1>1. CASE AddAnchor
  <2>1. Len(listeners) = 0
    BY <1>0, <1>1 DEF AddAnchor
  <2>2. CASE config.autoWidth
    <3>1. listeners' = On(listeners) /\ phase' = "on" /\ Len(listeners') = 1
      BY <1>0, <1>1, <2>1, <2>2 DEF AddAnchor
    <3>2. isMaximized'
      BY <1>1, <2>2, Zenon DEF AddAnchor
    <3>3. QED
      BY <3>1, <3>2
  <2>3. CASE ~config.autoWidth
    <3>1. listeners' = listeners /\ phase' = "on"
      BY <1>1, <2>3 DEF AddAnchor
    <3>2. ~isMaximized'
      BY <1>1, <2>3, Zenon DEF AddAnchor
    <3>3. QED
      BY <2>1, <3>1, <3>2
  <2>4. QED
    BY <2>2, <2>3
<1>2. CASE Minimize
  <2>1. phase' = "on" /\ ~isMaximized' /\ config' = config /\ isMaximized
        /\ phase = "on"
    BY <1>2 DEF Minimize
  <2>2. ~config.autoHeight => Len(listeners) = 1 /\ listeners' = Un(listeners)
    BY <1>2, <2>1 DEF Minimize
  <2>3. ~config.autoHeight => Len(listeners') = 0
    BY <1>0, <2>2
  <2>4. QED
    BY <2>1, <2>3
<1>3. CASE Maximize
  BY <1>0, <1>3 DEF Maximize
<1>4. CASE BrowserResize
  BY <1>4, ListenersOK DEF BrowserResize, looks
<1>5. ASSUME NEW i \in DOMAIN listeners, ResizeMapOnBrowserResize(i)
      PROVE  ListensWhenMaximized' /\ NewIsPlain'
  <2>1. Len(listeners') = Len(listeners) /\ listeners # <<>>
    BY <1>5 DEF ResizeMapOnBrowserResize
  <2>2. QED
    BY <1>5, <2>1 DEF ResizeMapOnBrowserResize, looks
<1>6. CASE ToggleAnchor
  BY <1>6 DEF ToggleAnchor, looks
<1>7. CASE Destroy
  <2>1. /\ phase' = "gone" /\ config' = config /\ phase = "on"
        /\ listeners' = Un(listeners)
    BY <1>7 DEF Destroy
  <2>2. ~config.autoHeight => Len(listeners) \in {0, 1}
    BY <2>1
  <2>3. Len(listeners) \in {0, 1} => Len(Un(listeners)) = 0
    <3>1. CASE listeners = <<>>
      BY <1>0, <3>1
    <3>2. CASE listeners # <<>>
      BY <1>0, <3>2
    <3>3. QED
      BY <3>1, <3>2
  <2>4. QED
    BY <2>1, <2>2, <2>3
<1>8. CASE UNCHANGED vars
  BY <1>8 DEF vars, looks
<1>9. QED
  BY <1>1, <1>2, <1>3, <1>4, <1>5, <1>6, <1>7, <1>8 DEF Next, Timer

\* The size of the map and the anchor.
LEMMA FitsStep == ASSUME RInv, [Next]_vars PROVE Fits' /\ AnchorFits'
<1>. USE DEF RInv, TypeOK, NewIsPlain, Fits, AnchorFits
<1>1. CASE AddAnchor
  <2>1. phase = "new" /\ size.w = StaticW
    BY <1>1 DEF AddAnchor
  <2>2. QED
    BY <1>1, <2>1 DEF AddAnchor, RoomForAnchor
<1>2. CASE Minimize
  BY <1>2, SizesOK DEF Minimize, RoomForAnchor
<1>3. CASE Maximize
  BY <1>3, SizesOK DEF Maximize, RoomForAnchor
<1>4. CASE BrowserResize
  BY <1>4, ListenersOK DEF BrowserResize, looks
<1>5. ASSUME NEW i \in DOMAIN listeners, ResizeMapOnBrowserResize(i)
      PROVE  Fits' /\ AnchorFits'
  BY <1>5, SizesOK DEF ResizeMapOnBrowserResize, looks, RoomForAnchor, ListensWhenMaximized
<1>6. CASE ToggleAnchor
  BY <1>6 DEF ToggleAnchor, looks, RoomForAnchor
<1>7. CASE Destroy
  BY <1>7 DEF Destroy
<1>8. CASE UNCHANGED vars
  BY <1>8 DEF vars, looks, RoomForAnchor
<1>9. QED
  BY <1>1, <1>2, <1>3, <1>4, <1>5, <1>6, <1>7, <1>8 DEF Next, Timer

-----------------------------------------------------------------------------
LEMMA StepInv == RInv /\ [Next]_vars => RInv'
<1>1. ASSUME RInv, [Next]_vars PROVE RInv'
  <2>1. TypeOK' /\ NeverTooSmall'
    BY <1>1, TypeStep
  <2>2. LooksAgree'
    BY <1>1, LooksStep
  <2>3. ListensWhenMaximized' /\ NewIsPlain'
    BY <1>1, ListensStep
  <2>4. Fits' /\ AnchorFits'
    BY <1>1, FitsStep
  <2>5. QED
    BY <2>1, <2>2, <2>3, <2>4 DEF RInv
<1>2. QED
  BY <1>1

\* The type, the sizes, the looks and the listeners with their timers hold in
\* every reachable state; resizing a browser window is a step like any other.
THEOREM ResizeInvariant == Spec => []RInv
<1>1. QED
  BY InitInv, StepInv, PTL DEF Spec

\* The variables keep their types.
THEOREM TypeCorrect == Spec => []TypeOK
<1>1. RInv => TypeOK
  BY DEF RInv
<1>2. QED
  BY <1>1, ResizeInvariant, PTL

\* The map is never smaller than its static size, whatever the window.
THEOREM MapNeverTooSmall == Spec => []NeverTooSmall
<1>1. RInv => NeverTooSmall
  BY DEF RInv
<1>2. QED
  BY <1>1, ResizeInvariant, PTL

\* The toggled classes and the flag never get out of step.
THEOREM LooksAlwaysAgree == Spec => []LooksAgree
<1>1. RInv => LooksAgree
  BY DEF RInv
<1>2. QED
  BY <1>1, ResizeInvariant, PTL

\* A maximized map listens; without autoHeight nothing else does.
THEOREM MaximizedListens == Spec => []ListensWhenMaximized
<1>1. RInv => ListensWhenMaximized
  BY DEF RInv
<1>2. QED
  BY <1>1, ResizeInvariant, PTL

\* Between resizes the map and the anchor fit the window: a listener that has
\* yet to tell the map has its timer running.
THEOREM MapFitsWhenQuiet == Spec => []QuietMapFits
<1>1. RInv => QuietMapFits
  <2>1. SUFFICES ASSUME RInv, phase = "on", Quiet
                 PROVE  /\ isMaximized => size.w = Larger(avail.w, StaticW)
                        /\ ~isMaximized => size.w = StaticW
                             \/ (config.autoHeight /\ listeners # <<>>)
                        /\ anchorShown <=> RoomForAnchor
    BY DEF QuietMapFits
  <2>2. anchorShown <=> RoomForAnchor
    BY <2>1 DEF RInv, AnchorFits, Quiet
  <2>3. ASSUME isMaximized PROVE size.w = Larger(avail.w, StaticW)
    <3>1. Len(listeners) > 0 /\ DOMAIN listeners = 1 .. Len(listeners)
          /\ Len(listeners) \in Nat
      BY <2>1, <2>3, LenProperties DEF RInv, ListensWhenMaximized, TypeOK
    <3>2. 1 \in DOMAIN listeners
      BY <3>1
    <3>3. ~listeners[1]
      BY <2>1, <3>2 DEF Quiet
    <3>4. QED
      BY <2>1, <2>3, <3>2, <3>3 DEF RInv, Fits
  <2>4. ASSUME ~isMaximized
        PROVE  size.w = StaticW \/ (config.autoHeight /\ listeners # <<>>)
    BY <2>1, <2>4 DEF RInv, Fits
  <2>5. QED
    BY <2>2, <2>3, <2>4
<1>2. QED
  BY <1>1, ResizeInvariant, PTL
=============================================================================
