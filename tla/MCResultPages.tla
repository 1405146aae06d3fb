---------------------------- MODULE MCResultPages --------------------------
(***************************************************************************)
(* Two results on a page and up to eight pages, so that the row of five    *)
(* can stand at either end and in the middle, with dots on both sides.     *)
(***************************************************************************)
EXTENDS ResultPages

MCMaxFound == [k \in List |-> IF k = "list" THEN 17 ELSE 3]
=============================================================================
