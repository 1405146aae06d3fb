----------------------------- MODULE LatestRead -----------------------------
(***************************************************************************)
(* What reading promises to the layers of the viewer: a layer may ask for  *)
(* another part of the country at any time, and whatever it then shows is  *)
(* the answer to what it asked for last, or nothing if that read failed.   *)
(* An answer that was overtaken by a later question never shows.           *)
(***************************************************************************)
CONSTANTS
  Layer,      \* the layers that read
  View,       \* the parts of the country they can ask for
  None        \* nothing

VARIABLES
  asked,      \* asked[l]: what layer l asked for last
  waiting,    \* waiting[l]: has it not been answered yet?
  shown       \* shown[l]: the part whose contents layer l shows

vars == <<asked, waiting, shown>>

Init ==
  /\ asked   = [l \in Layer |-> None]
  /\ waiting = [l \in Layer |-> FALSE]
  /\ shown   = [l \in Layer |-> None]

Ask(l, v) ==
  /\ asked'   = [asked EXCEPT ![l] = v]
  /\ waiting' = [waiting EXCEPT ![l] = TRUE]
  /\ UNCHANGED shown

Answer(l) ==
  /\ waiting[l]
  /\ waiting' = [waiting EXCEPT ![l] = FALSE]
  /\ \E v \in {asked[l], None} : shown' = [shown EXCEPT ![l] = v]
  /\ UNCHANGED asked

Next == \E l \in Layer : (\E v \in View : Ask(l, v)) \/ Answer(l)

Spec == Init /\ [][Next]_vars
=============================================================================
