------------------------------ MODULE MCSearch -----------------------------
(***************************************************************************)
(* Three queries: one with a single hit, one with two hits and one with    *)
(* none.                                                                   *)
(***************************************************************************)
EXTENDS Search

CONSTANTS baarn, bergen, nergens, bergenNH, bergenL

MCQuery == {baarn, bergen, nergens}
MCHashes == {None, baarn, bergen, nergens}
MCHits  == [q \in MCQuery |-> CASE q = baarn   -> {baarn}
                                [] q = bergen  -> {bergenNH, bergenL}
                                [] q = nergens -> {}]
=============================================================================
