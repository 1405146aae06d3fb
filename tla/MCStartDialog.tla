---------------------------- MODULE MCStartDialog ---------------------------
(***************************************************************************)
(* Three queries: one with a single hit, one with two hits and one with    *)
(* none.  Two items on a page; areas with none, one page or three pages.   *)
(***************************************************************************)
EXTENDS StartDialog

CONSTANTS baarn, bergen, nergens, bergenNH, bergenL

MCQuery == {baarn, bergen, nergens}
MCHashes == {None, baarn, bergen, nergens}
MCHits  == [q \in MCQuery |-> CASE q = baarn   -> {baarn}
                                [] q = bergen  -> {bergenNH, bergenL}
                                [] q = nergens -> {}]
MCCounts == {0, 1, 5}
=============================================================================
