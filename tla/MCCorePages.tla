----------------------------- MODULE MCCorePages ----------------------------
(***************************************************************************)
(* Three places, each with a name of another kind: one that comes through  *)
(* links, one that is cut in them, one that ends them; a text of every     *)
(* kind, and what is left of it after a link and after a form.  Around the *)
(* first place there are areas in the middle, between the factors, at the  *)
(* edge of the box, beyond it, and one too small to be relevant.           *)
(***************************************************************************)
EXTENDS CorePages

MCPlace == {<<100, 100>>, <<400, 100>>, <<700, 700>>}
MCHitRadius == [p \in MCPlace |-> IF p[1] = 100 THEN 20 ELSE 80]
MCName == [p \in MCPlace |-> CASE p[1] = 100 -> "Stad"
                               [] p[1] = 400 -> "Dorp & Duin"
                               [] p[1] = 700 -> "Wijk #2"]
MCText == {"", "dorp", "dorp#1", "1/2", "gemeente/dorp/straal/80",
           "gemeente/dorp/straal/abc", "a/b/c", "Dorp & Duin", "Dorp", "Stad",
           "Wijk #2", "Wijk ", "dorp\"1", "dorp%231", "onbekend"}
MCEnds == {"dorp#1", "dorp\"1", "Wijk #2"}
MCTextKind ==
  [t \in MCText |->
     CASE t = ""      -> "empty"
       [] t = "1/2"   -> "unknown"
       [] t = "a/b/c" -> "odd"
       [] t \in {"gemeente/dorp/straal/80", "gemeente/dorp/straal/abc"} -> "pairs"
       [] OTHER       -> "plain"]
MCTextRadius ==
  [t \in MCText |-> CASE t = "gemeente/dorp/straal/80"  -> 80
                      [] t = "gemeente/dorp/straal/abc" -> NoNumber
                      [] OTHER -> None]
MCInLink == [t \in MCText |-> CASE t \in {"dorp#1", "dorp\"1"} -> "dorp"
                                [] t = "dorp%231"    -> "dorp#1"
                                [] t = "Wijk #2"     -> "Wijk "
                                [] t = "Dorp & Duin" -> "Dorp"
                                [] OTHER -> t]
MCInForm == [t \in MCText |-> IF t = "dorp\"1" THEN "dorp" ELSE t]

MCArea  == {"midden", "ring", "rand", "klein", "ver"}
MCShape ==
  [a \in MCArea |->
     CASE a = "midden" -> {<<100, 101>>, <<101, 103>>}
       [] a = "ring"   -> {<<106, 95>>, <<370, 100>>}
       [] a = "rand"   -> {<<110, 100>>, <<140, 100>>}
       [] a = "klein"  -> {<<99, 99>>}
       [] a = "ver"    -> {<<900, 900>>}]
MCSurface == [a \in MCArea |-> IF a = "klein" THEN 1 ELSE 100]
=============================================================================
