------------------------- MODULE ResultPages_proofs ------------------------
(***************************************************************************)
(* For every number of results and of results on a page: the list of pages *)
(* has at most seven numbers, with the neighbours of the current page, in  *)
(* order but for the first of four pages; and who follows "Volgende" sees  *)
(* every result once.                                                      *)
(*                                                                         *)
(* The source counts in offsets; the proofs count in pages, page p being   *)
(* the one with offset p * ItemsPerPage.                                   *)
(***************************************************************************)
EXTENDS ResultPages, FiniteSetTheorems, SequenceTheorems,
        WellFoundedInduction, TLAPS

-----------------------------------------------------------------------------
(* Offsets and pages.                                                      *)

\* The offset of page p.
Off(p) == p * ItemsPerPage

\* Offsets are in the order of their pages.
LEMMA Factor ==
  ASSUME NEW a \in Int, NEW b \in Int
  PROVE  /\ Off(a) \in Int
         /\ Off(a) <= Off(b) <=> a <= b
         /\ Off(a) = Off(b) <=> a = b
<1> DEFINE I == ItemsPerPage
<1>1. I \in Nat \ {0}
  BY ItemsAssumption
<1> HIDE DEF I
<1>2. (b - a) * I = b * I - a * I /\ (a - b) * I = a * I - b * I
  BY <1>1
<1>3. b - a >= 1 => (b - a) * I >= I
  BY <1>1
<1>4. a - b >= 1 => (a - b) * I >= I
  BY <1>1
<1>5. /\ a * I \in Int
      /\ a * I <= b * I <=> a <= b
      /\ a * I = b * I <=> a = b
  BY <1>1, <1>2, <1>3, <1>4
<1>6. QED
  BY <1>5 DEF I, Off

\* The offset of the first page is 0.
LEMMA Zero ==
  ASSUME NEW a \in Int
  PROVE  Off(0) = 0 /\ (a = 0 <=> Off(a) = 0) /\ (a >= 0 <=> Off(a) >= 0)
BY ItemsAssumption, Factor DEF Off

\* The offsets of the pages next to one.
LEMMA Beside ==
  ASSUME NEW a \in Int
  PROVE  /\ Off(a) \in Int
         /\ Off(a + 1) = Off(a) + ItemsPerPage
         /\ Off(a - 1) = Off(a) - ItemsPerPage
BY ItemsAssumption DEF Off

\* The offsets of the pages.
Offset == {Off(p) : p \in Nat}

\* They are the multiples of ItemsPerPage.
LEMMA OffsetOK == ASSUME NEW o \in Offset PROVE o \in Nat /\ o % ItemsPerPage = 0
<1>1. PICK p \in Nat : o = p * ItemsPerPage
  BY DEF Offset, Off
<1>2. QED
  BY <1>1, ItemsAssumption

\* There are as many pages as the results need, and no more.
LEMMA PagesOK ==
  ASSUME NEW items \in Nat
  PROVE  /\ Pages(items) \in Nat
         /\ items <= Off(Pages(items))
         /\ Off(Pages(items) - 1) < items
BY ItemsAssumption DEF Pages, Off

\* A page has results just when it is one of them.
LEMMA HasResults ==
  ASSUME NEW items \in Nat, NEW p \in Int
  PROVE  Off(p) < items <=> p < Pages(items)
<1> DEFINE P == Pages(items)
<1>1. P \in Nat /\ items <= Off(P) /\ Off(P - 1) < items
  BY PagesOK
<1> HIDE DEF P
<1>2. /\ Off(P) <= Off(p) <=> P <= p
      /\ Off(p) <= Off(P - 1) <=> p <= P - 1
      /\ Off(p) \in Int /\ Off(P) \in Int /\ Off(P - 1) \in Int
  BY <1>1, Factor
<1>3. Off(p) < items <=> p < P
  BY <1>1, <1>2
<1>4. QED
  BY <1>3 DEF P

-----------------------------------------------------------------------------
(* The row of five, counted in pages.                                      *)

\* The first page of the row, and how many there are.
First(P, p) == LET s == IF p >= P - 3 THEN P - 5 ELSE p - 2
               IN  IF s < 0 THEN 0 ELSE s
Many(P, p)  == IF p >= P - 3 /\ P < 5 THEN P ELSE 5

\* They are start and maxPages of the source.
LEMMA RowInPages ==
  ASSUME NEW items \in Nat, NEW p \in Nat, Pages(items) > 1
  PROVE  /\ First(Pages(items), p) \in Nat
         /\ RowStart(items, Off(p)) = Off(First(Pages(items), p))
         /\ Many(Pages(items), p) \in 2..5
         /\ RowLength(items, Off(p)) = Many(Pages(items), p)
         /\ Laatste(items) = Off(Pages(items) - 1)
<1> DEFINE P == Pages(items)
<1>1. P \in Nat /\ P > 1
  BY PagesOK
<1>2. NearEnd(items, Off(p)) <=> p >= P - 3
  <2>1. NearEnd(items, Off(p)) <=> Off(p) >= Off(P - 3)
    BY DEF NearEnd, Off
  <2>2. P - 3 \in Int
    BY <1>1
  <2> HIDE DEF P
  <2>3. QED
    BY <2>1, <2>2, Factor
<1>3. ASSUME NEW s \in Int
      PROVE  AtLeastZero(Off(s)) = Off(IF s < 0 THEN 0 ELSE s)
  BY Zero, Beside DEF AtLeastZero
<1>4. RowStart(items, Off(p)) = AtLeastZero(Off(IF p >= P - 3 THEN P - 5 ELSE p - 2))
  <2>1. Off(p - 2) = Off(p) - 2 * ItemsPerPage
    BY ItemsAssumption DEF Off
  <2>2. (P - 5) * ItemsPerPage = Off(P - 5)
    BY DEF Off
  <2>3. QED
    BY <1>2, <2>1, <2>2 DEF RowStart
<1>5. (IF p >= P - 3 THEN P - 5 ELSE p - 2) \in Int
  BY <1>1
<1>6. RowStart(items, Off(p)) = Off(First(P, p)) /\ First(P, p) \in Nat
  BY <1>3, <1>4, <1>5 DEF First
<1>7. RowLength(items, Off(p)) = Many(P, p) /\ Many(P, p) \in 2..5
  BY <1>1, <1>2 DEF RowLength, Many
<1>8. Laatste(items) = Off(P - 1)
  BY DEF Laatste, Off
<1>9. QED
  BY <1>6, <1>7, <1>8

-----------------------------------------------------------------------------
(* Recursion over the rounds of the loop.                                  *)

\* What holds at first and survives every step up to the last holds throughout.
LEMMA UpTo ==
  ASSUME NEW last \in Nat, NEW T,
         0 \in T, \A n \in 1..last : n - 1 \in T => n \in T
  PROVE  \A n \in 0..last : n \in T
<1> DEFINE Bad == {n \in 0..last : n \notin T}
<1>1. SUFFICES ASSUME Bad # {} PROVE FALSE
  OBVIOUS
<1>2. Bad \in SUBSET Nat
  OBVIOUS
<1>3. PICK n \in Bad : \A m \in Bad : ~ (<<m, n>> \in OpToRel(<, Nat))
  BY <1>1, <1>2, NatLessThanWellFounded, WFMin
<1>4. n \in 1..last /\ n - 1 \in 0..last
  <2>1. n \in 0..last /\ n \notin T
    OBVIOUS
  <2>2. n # 0
    BY <2>1
  <2>3. QED
    BY ONLY <2>1, <2>2, last \in Nat
<1>5. n - 1 \in Bad
  BY <1>3, <1>4
<1>6. <<n - 1, n>> \in OpToRel(<, Nat)
  BY <1>4 DEF OpToRel
<1>7. QED
  BY <1>3, <1>5, <1>6

\* A recursion from 0 to last has an outcome.
LEMMA Recursion ==
  ASSUME NEW S, NEW base \in S, NEW last \in Nat,
         NEW step \in [1..last -> [S -> S]]
  PROVE  \E f \in [0..last -> S] :
           f[0] = base /\ \A n \in 1..last : f[n] = step[n][f[n - 1]]
<1> DEFINE Good(k) == \E f \in [0..k -> S] :
                        f[0] = base /\ \A n \in 1..k : f[n] = step[n][f[n - 1]]
           T == {k \in 0..last : Good(k)}
<1>1. 0 \in T
  <2> DEFINE f == [n \in 0..0 |-> base]
  <2>1. f \in [0..0 -> S] /\ f[0] = base /\ 1..0 = {}
    OBVIOUS
  <2>2. Good(0)
    BY <2>1
  <2>3. QED
    BY <2>2
<1>2. ASSUME NEW k \in 1..last, k - 1 \in T PROVE k \in T
  <2>1. PICK g \in [0..(k - 1) -> S] :
          g[0] = base /\ \A n \in 1..(k - 1) : g[n] = step[n][g[n - 1]]
    BY <1>2
  <2> DEFINE f == [n \in 0..k |-> IF n = k THEN step[k][g[k - 1]] ELSE g[n]]
  <2>2. step[k][g[k - 1]] \in S
    <3>1. k - 1 \in 0..(k - 1)
      OBVIOUS
    <3>2. QED
      BY <3>1
  <2>3. \A n \in 0..(k - 1) : n \in 0..k /\ n # k /\ f[n] = g[n]
    OBVIOUS
  <2>4. f[k] = step[k][g[k - 1]] /\ k \in 0..k
    OBVIOUS
  <2>5. ASSUME NEW n \in 0..k PROVE n = k \/ n \in 0..(k - 1)
    OBVIOUS
  <2>6. f \in [0..k -> S]
    <3>1. ASSUME NEW n \in 0..k PROVE f[n] \in S
      BY <2>2, <2>3, <2>4, <2>5
    <3>2. f = [n \in 0..k |-> f[n]]
      OBVIOUS
    <3> HIDE DEF f
    <3>3. QED
      BY <3>1, <3>2
  <2> HIDE DEF f
  <2>7. f[0] = base
    <3>1. 0 \in 0..(k - 1)
      OBVIOUS
    <3>2. QED
      BY <2>1, <2>3, <3>1
  <2>8. ASSUME NEW n \in 1..k PROVE f[n] = step[n][f[n - 1]]
    <3>1. n - 1 \in 0..(k - 1) /\ (n = k \/ n \in 1..(k - 1))
      OBVIOUS
    <3>2. n # k => n \in 0..(k - 1)
      BY <3>1
    <3>3. QED
      BY <2>1, <2>3, <2>4, <3>1, <3>2
  <2>9. Good(k)
    BY <2>6, <2>7, <2>8
  <2>10. k \in 0..last
    OBVIOUS
  <2> HIDE DEF Good
  <2>11. QED
    BY <2>9, <2>10
<1>3. last \in T
  <2> HIDE DEF T
  <2>1. \A k \in 1..last : k - 1 \in T => k \in T
    BY <1>2
  <2>2. \A k \in 0..last : k \in T
    BY <1>1, <2>1, UpTo
  <2>3. QED
    BY <2>2
<1>4. QED
  BY <1>3

\* The entries of the list.
PageEntry == [kind : {"prev", "page", "next", "active", "dots"}, to : Offset]

\* What round n of the loop writes, in pages.
Round(items, p, n) ==
  LET k == First(Pages(items), p) + n - 1
  IN  If(InRow(items, Off(p), Off(k)), Item(Off(p), Off(k)))

\* An entry under a condition is a list of entries.
LEMMA IfOK ==
  ASSUME NEW cond, NEW e \in PageEntry
  PROVE  If(cond, e) \in Seq(PageEntry) /\ Len(If(cond, e)) \in 0..1
BY DEF If

\* A round writes an entry or none.
LEMMA RoundOK ==
  ASSUME NEW items \in Nat, NEW p \in Nat, Pages(items) > 1,
         NEW n \in 1..Many(Pages(items), p)
  PROVE  /\ Round(items, p, n) \in Seq(PageEntry)
         /\ RowStart(items, Off(p)) + (n - 1) * ItemsPerPage
              = Off(First(Pages(items), p) + n - 1)
<1> DEFINE f == First(Pages(items), p)
           k == f + n - 1
<1>1. /\ f \in Nat /\ RowStart(items, Off(p)) = Off(f)
      /\ Many(Pages(items), p) \in 2..5
  BY RowInPages
<1> HIDE DEF f
<1>2. n \in Nat \ {0} /\ k \in Nat
  BY <1>1
<1>3. Off(f) + (n - 1) * ItemsPerPage = Off(k)
  BY <1>1, <1>2, ItemsAssumption DEF Off
<1>4. Item(Off(p), Off(k)) \in PageEntry
  <2> HIDE DEF k
  <2>1. Off(k) \in Offset
    BY <1>2 DEF Offset
  <2>2. QED
    BY <2>1 DEF Item, Entry, PageEntry
<1>5. Round(items, p, n) \in Seq(PageEntry)
  BY <1>4, IfOK DEF Round, f
<1>6. QED
  BY <1>1, <1>3, <1>5 DEF f

\* RowEntries is what its recursion says.
LEMMA RowEquation ==
  ASSUME NEW items \in Nat, NEW p \in Nat, Pages(items) > 1
  PROVE  \E row \in [0..Many(Pages(items), p) -> Seq(PageEntry)] :
           /\ row[0] = <<>>
           /\ \A n \in 1..Many(Pages(items), p) :
                row[n] = row[n - 1] \o Round(items, p, n)
           /\ RowEntries(items, Off(p)) = row[Many(Pages(items), p)]
<1> DEFINE S == Seq(PageEntry)
           last == Many(Pages(items), p)
           base == <<>>
           step == [n \in 1..last |-> [x \in S |-> x \o Round(items, p, n)]]
           page(n) == RowStart(items, Off(p)) + (n - 1) * ItemsPerPage
           Written(n, x) ==
             x \o If(InRow(items, Off(p), page(n)), Item(Off(p), page(n)))
           row == CHOOSE f : f = [n \in 0..RowLength(items, Off(p)) |->
                    IF n = 0 THEN <<>> ELSE Written(n, f[n - 1])]
<1>1. RowEntries(items, Off(p)) = row[RowLength(items, Off(p))]
  BY DEF RowEntries
<1>2. last \in Nat /\ RowLength(items, Off(p)) = last
  BY RowInPages
<1>3. ASSUME NEW n \in 1..last, NEW x
      PROVE  Written(n, x) = x \o Round(items, p, n)
  BY RoundOK DEF Round
<1>4. base \in S /\ step \in [1..last -> [S -> S]]
  <2>1. ASSUME NEW n \in 1..last, NEW x \in S PROVE x \o Round(items, p, n) \in S
    BY RoundOK, ConcatProperties
  <2>2. QED
    BY <2>1
<1>5. PICK f \in [0..last -> S] :
        f[0] = base /\ \A n \in 1..last : f[n] = step[n][f[n - 1]]
  <2>1. base \in S /\ last \in Nat /\ step \in [1..last -> [S -> S]]
    BY <1>2, <1>4
  <2> HIDE DEF step, last, S, base
  <2>2. QED
    BY ONLY <2>1, Recursion
<1>6. ASSUME NEW n \in 1..last
      PROVE  f[n] = f[n - 1] \o Round(items, p, n) /\ f[n] = Written(n, f[n - 1])
  <2>1. n - 1 \in 0..last
    BY <1>2
  <2>2. f[n - 1] \in S
    BY <2>1, <1>5
  <2>3. step[n][f[n - 1]] = f[n - 1] \o Round(items, p, n)
    BY <2>2
  <2> HIDE DEF step, Written
  <2>4. QED
    BY <1>3, <1>5, <2>3
<1>7. f = [n \in 0..RowLength(items, Off(p)) |->
             IF n = 0 THEN <<>> ELSE Written(n, f[n - 1])]
  <2>1. ASSUME NEW n \in 0..last
        PROVE  f[n] = IF n = 0 THEN <<>> ELSE Written(n, f[n - 1])
    <3>1. n = 0 \/ n \in 1..last
      BY <1>2
    <3> HIDE DEF step, Written
    <3>2. QED
      BY <1>5, <1>6, <3>1
  <2>2. f = [n \in 0..last |-> f[n]]
    BY <1>5
  <2> HIDE DEF Written, last, step, S, base
  <2>3. QED
    BY <1>2, <2>1, <2>2
<1>8. row[RowLength(items, Off(p))] = f[last]
  <2> DEFINE Fix(g) == g = [n \in 0..RowLength(items, Off(p)) |->
                              IF n = 0 THEN <<>> ELSE Written(n, g[n - 1])]
  <2>1. row = CHOOSE g : Fix(g)
    OBVIOUS
  <2>2. Fix(f)
    BY <1>7
  <2>3. Fix(row)
    <3> HIDE DEF Fix, row
    <3>1. QED
      BY <2>1, <2>2
  <2>4. ASSUME NEW g, Fix(g) PROVE \A n \in 0..last : g[n] = f[n]
    <3> DEFINE T == {n \in 0..last : g[n] = f[n]}
    <3>1. \A n \in 0..last : g[n] = IF n = 0 THEN <<>> ELSE Written(n, g[n - 1])
      <4> HIDE DEF Written, last
      <4>1. QED
        BY <1>2, <2>4
    <3>2. 0 \in T
      BY <1>2, <1>5, <3>1
    <3>3. ASSUME NEW n \in 1..last, n - 1 \in T PROVE n \in T
      <4>1. n \in 0..last /\ n # 0
        BY <1>2
      <4> HIDE DEF Written, step
      <4>2. QED
        BY <1>6, <3>1, <3>3, <4>1
    <3> HIDE DEF T
    <3>4. \A n \in 0..last : n \in T
      BY <1>2, <3>2, <3>3, UpTo
    <3>5. QED
      BY <3>4 DEF T
  <2> HIDE DEF Fix, row
  <2>5. QED
    BY <1>2, <2>3, <2>4
<1>9. QED
  <2> HIDE DEF row, step, Written
  <2>1. QED
    BY <1>1, <1>2, <1>5, <1>6, <1>8

-----------------------------------------------------------------------------
(* The entries of the row.                                                 *)

\* The entry of page k when page p is the current one.
LEMMA ItemOK ==
  ASSUME NEW p \in Nat, NEW k \in Nat
  PROVE  /\ Item(Off(p), Off(k)) \in PageEntry
         /\ Item(Off(p), Off(k)).to = Off(k)
         /\ Item(Off(p), Off(k)).kind = IF k = p THEN "active" ELSE "page"
<1>1. Off(k) \in Offset /\ (Off(k) = Off(p) <=> k = p)
  BY Factor DEF Offset
<1>2. QED
  BY <1>1 DEF Item, Entry, PageEntry

\* The entries of the pages a to b.
Run(p, a, b) == [i \in 1..(b - a + 1) |-> Item(Off(p), Off(a + i - 1))]

\* It is a list of entries, one for each page.
LEMMA RunOK ==
  ASSUME NEW p \in Nat, NEW a \in Nat, NEW b \in Int, a <= b + 1
  PROVE  /\ Run(p, a, b) \in Seq(PageEntry)
         /\ Len(Run(p, a, b)) = b - a + 1
         /\ \A i \in 1..(b - a + 1) :
              Run(p, a, b)[i] = Item(Off(p), Off(a + i - 1)) /\ a + i - 1 \in a..b
<1>1. \A i \in 1..(b - a + 1) : a + i - 1 \in Nat /\ a + i - 1 \in a..b
  OBVIOUS
<1>2. \A i \in 1..(b - a + 1) : Item(Off(p), Off(a + i - 1)) \in PageEntry
  BY <1>1, ItemOK
<1>3. b - a + 1 \in Nat
  OBVIOUS
<1>4. QED
  BY <1>1, <1>2, <1>3 DEF Run

\* With the next page it is the run up to that page.
LEMMA RunGrows ==
  ASSUME NEW p \in Nat, NEW a \in Nat, NEW b \in Int, a <= b + 1
  PROVE  Run(p, a, b) \o <<Item(Off(p), Off(b + 1))>> = Run(p, a, b + 1)
<1> DEFINE r == Run(p, a, b)
           e == Item(Off(p), Off(b + 1))
           g == Run(p, a, b + 1)
           m == b - a + 1
<1>1. /\ r \in Seq(PageEntry) /\ Len(r) = m
      /\ \A i \in 1..m : r[i] = Item(Off(p), Off(a + i - 1))
  BY RunOK
<1>2. /\ g \in Seq(PageEntry) /\ Len(g) = m + 1
      /\ \A i \in 1..(m + 1) : g[i] = Item(Off(p), Off(a + i - 1))
  <2>1. b + 1 \in Int /\ a <= (b + 1) + 1 /\ (b + 1) - a + 1 = m + 1
    OBVIOUS
  <2>2. QED
    BY <2>1, RunOK
<1>3. <<e>> \in Seq(PageEntry) /\ Len(<<e>>) = 1 /\ <<e>>[1] = e
  <2>1. b + 1 \in Nat
    OBVIOUS
  <2>2. e \in PageEntry
    BY <2>1, ItemOK
  <2>3. QED
    BY <2>2
<1>4. m \in Nat /\ a + (m + 1) - 1 = b + 1
  OBVIOUS
<1>5. e = g[m + 1]
  BY <1>2, <1>4
<1> HIDE DEF r, e, g, m
<1>6. /\ r \o <<e>> \in Seq(PageEntry) /\ Len(r \o <<e>>) = m + 1
      /\ \A i \in 1..(m + 1) :
           (r \o <<e>>)[i] = IF i <= m THEN r[i] ELSE <<e>>[i - m]
  BY <1>1, <1>3, ConcatProperties
<1>7. ASSUME NEW i \in 1..(m + 1) PROVE (r \o <<e>>)[i] = g[i]
  <2>1. CASE i <= m
    BY <1>1, <1>2, <1>4, <1>6, <2>1
  <2>2. CASE i = m + 1
    BY <1>3, <1>4, <1>5, <1>6, <2>2
  <2>3. i <= m \/ i = m + 1
    BY ONLY <1>4, i \in 1..(m + 1)
  <2>4. QED
    BY <2>1, <2>2, <2>3
<1>8. r \o <<e>> = g
  BY <1>2, <1>6, <1>7, SeqEqual
<1>9. QED
  BY <1>8 DEF r, e, g

\* What round n writes: the entry of its page, unless that is the first or the
\* last and not the current one.
LEMMA RoundWrites ==
  ASSUME NEW items \in Nat, NEW p \in Nat, Pages(items) > 1,
         NEW n \in 1..Many(Pages(items), p), NEW k,
         k = First(Pages(items), p) + n - 1
  PROVE  Round(items, p, n) = IF k = p \/ k \notin {0, Pages(items) - 1}
                              THEN <<Item(Off(p), Off(k))>> ELSE <<>>
<1> DEFINE q == Pages(items) - 1
<1>1. q \in Int /\ k \in Nat /\ Laatste(items) = Off(q)
  BY PagesOK, RowInPages
<1> HIDE DEF q
<1>2. /\ Off(k) = Off(p) <=> k = p
      /\ Off(k) = Off(q) <=> k = q
      /\ Off(k) = 0 <=> k = 0
  BY <1>1, Factor, Zero
<1>3. InRow(items, Off(p), Off(k)) <=> k = p \/ k \notin {0, q}
  BY <1>1, <1>2 DEF InRow
<1>4. QED
  BY <1>3 DEF Round, If, q

\* The first and the last page in the row.
Lo(P, p) == IF p # 0 /\ First(P, p) = 0 THEN 1 ELSE First(P, p)
Hi(P, p) == LET k == First(P, p) + Many(P, p) - 1
            IN  IF p # P - 1 /\ k = P - 1 THEN P - 2 ELSE k

\* On every page of the list but the first of four, the row is a run around
\* the current page.
LEMMA RowIsRun ==
  ASSUME NEW items \in Nat, NEW p \in Nat, Pages(items) > 1, p < Pages(items),
         ~(Pages(items) = 4 /\ p = 0)
  PROVE  RowEntries(items, Off(p)) = Run(p, Lo(Pages(items), p), Hi(Pages(items), p))
<1> DEFINE P == Pages(items)
           f == First(P, p)
           last == Many(P, p)
           lo == Lo(P, p)
           Up(n) == IF p # P - 1 /\ f + n - 1 = P - 1 THEN P - 2 ELSE f + n - 1
<1>1. P \in Nat /\ f \in Nat /\ last \in 2..5
  BY PagesOK, RowInPages
<1>2. PICK row \in [0..last -> Seq(PageEntry)] :
        /\ row[0] = <<>>
        /\ \A n \in 1..last : row[n] = row[n - 1] \o Round(items, p, n)
        /\ RowEntries(items, Off(p)) = row[last]
  BY RowEquation
<1>3. f + last - 1 <= P - 1
  BY <1>1 DEF First, Many
<1>4. lo \in Nat /\ (p # 0 /\ f = 0 => lo = 1) /\ (~(p # 0 /\ f = 0) => lo = f)
  BY <1>1 DEF Lo
<1> DEFINE T == {n \in 0..last : row[n] = Run(p, lo, Up(n))}
<1>5. 0 \in T
  <2>1. Up(0) = f - 1 /\ Up(0) - lo + 1 <= 0
    BY <1>1, <1>3, <1>4
  <2>2. Run(p, lo, Up(0)) = <<>>
    <3> HIDE DEF Up, lo
    <3>1. QED
      BY <1>1, <1>4, <2>1 DEF Run
  <2>3. QED
    BY <1>1, <1>2, <2>2
<1>6. ASSUME NEW n \in 1..last, n - 1 \in T PROVE n \in T
  <2> DEFINE k == f + n - 1
  <2>1. row[n] = row[n - 1] \o Round(items, p, n) /\ row[n - 1] = Run(p, lo, Up(n - 1))
    BY <1>1, <1>2, <1>6
  <2>2. Round(items, p, n) = IF k = p \/ k \notin {0, P - 1}
                             THEN <<Item(Off(p), Off(k))>> ELSE <<>>
    <3>1. k = First(Pages(items), p) + n - 1
      OBVIOUS
    <3>2. QED
      BY <3>1, RoundWrites
  <2>3. k \in Nat /\ k <= P - 1 /\ Up(n - 1) = k - 1 /\ n \in 0..last
    BY <1>1, <1>3
  <2>4. row[n - 1] \in Seq(PageEntry)
    <3>1. n - 1 \in 0..last
      BY <1>1
    <3> HIDE DEF last
    <3>2. QED
      BY <1>2, <3>1
  <2>5. CASE k # p /\ k \in {0, P - 1}
    <3>1. row[n] = Run(p, lo, k - 1)
      BY <2>1, <2>2, <2>3, <2>4, <2>5, ConcatEmptySeq
    <3>2. CASE k = P - 1
      <4>1. Up(n) = k - 1
        BY <1>1, <2>3, <2>5, <3>2
      <4>2. QED
        BY <2>3, <3>1, <4>1
    <3>3. CASE k = 0 /\ k # P - 1
      <4>1. Up(n) = 0 /\ lo = 1 /\ Run(p, lo, 0) = Run(p, lo, 0 - 1)
        BY <1>1, <1>4, <2>3, <2>5, <3>3 DEF Run
      <4>2. QED
        BY <2>3, <3>1, <3>3, <4>1
    <3>4. QED
      BY <2>5, <3>2, <3>3
  <2>6. CASE k = p \/ k \notin {0, P - 1}
    <3>1. row[n] = Run(p, lo, k - 1) \o <<Item(Off(p), Off(k))>>
      BY <2>1, <2>2, <2>3, <2>6
    <3>2. lo <= k /\ Up(n) = k
      BY <1>1, <1>4, <2>3, <2>6
    <3>3. Run(p, lo, k - 1) \o <<Item(Off(p), Off(k))>> = Run(p, lo, k)
      <4>1. k - 1 \in Int /\ lo <= (k - 1) + 1 /\ (k - 1) + 1 = k
        BY <2>3, <3>2
      <4> HIDE DEF k, lo
      <4>2. QED
        BY <1>4, <4>1, RunGrows
    <3>4. QED
      BY <2>3, <3>1, <3>2, <3>3
  <2>7. QED
    BY <2>5, <2>6
<1>7. last \in T
  <2> HIDE DEF T
  <2>1. \A n \in 0..last : n \in T
    BY <1>1, <1>5, <1>6, UpTo
  <2>2. QED
    BY <1>1, <2>1
<1>8. Up(last) = Hi(P, p)
  BY DEF Hi
<1>9. QED
  BY <1>2, <1>7, <1>8

-----------------------------------------------------------------------------
(* The list of pages: what comes before the row, the row, what comes after. *)

\* The links to the page before and to the first page, and the dots.
Before(P, p) == If(p >= 1, Entry("prev", Off(p - 1)))
                \o If(p # 0, Entry("page", 0))
                \o If(P > 6 /\ p > 3, Dots)

\* The dots, and the links to the last page and to the page after.
After(P, p) == If(P > 6 /\ P - 1 - p > 3, Dots)
               \o If(p # P - 1, Entry("page", Off(P - 1)))
               \o If(p + 1 <= P - 1, Entry("next", Off(p + 1)))

\* The entries before and after the row are entries of the list.
LEMMA EntriesOK ==
  /\ Dots \in PageEntry /\ Entry("page", 0) \in PageEntry
  /\ \A k \in Nat : Entry("prev", Off(k)) \in PageEntry
  /\ \A k \in Nat : Entry("page", Off(k)) \in PageEntry
  /\ \A k \in Nat : Entry("next", Off(k)) \in PageEntry
<1>1. 0 \in Offset /\ \A k \in Nat : Off(k) \in Offset
  BY Zero DEF Offset
<1>2. QED
  BY <1>1 DEF Dots, Entry, PageEntry

\* Short lists, one after another.
LEMMA ShortLists ==
  ASSUME NEW a \in PageEntry, NEW b \in PageEntry, NEW c \in PageEntry
  PROVE  /\ <<a>> \in Seq(PageEntry) /\ <<a, b>> \in Seq(PageEntry)
         /\ <<a, b, c>> \in Seq(PageEntry)
         /\ <<>> \o <<a>> = <<a>> /\ <<a, b>> \o <<>> = <<a, b>>
         /\ <<a>> \o <<b>> = <<a, b>> /\ <<a, b>> \o <<c>> = <<a, b, c>>
<1>1. /\ <<a>> \in Seq(PageEntry) /\ <<b>> \in Seq(PageEntry)
      /\ <<c>> \in Seq(PageEntry) /\ <<a, b>> \in Seq(PageEntry)
      /\ <<a, b, c>> \in Seq(PageEntry)
  OBVIOUS
<1>2. <<>> \o <<a>> = <<a>> /\ <<a, b>> \o <<>> = <<a, b>>
  BY <1>1, ConcatEmptySeq
<1>3. <<a>> \o <<b>> = <<a, b>>
  <2> DEFINE s == <<a>> \o <<b>>
  <2>1. s \in Seq(PageEntry) /\ Len(s) = 2 /\ s[1] = a /\ s[2] = b
    BY <1>1, ConcatProperties
  <2> HIDE DEF s
  <2>2. \A i \in 1..Len(s) : s[i] = <<a, b>>[i]
    BY <2>1
  <2>3. s = <<a, b>>
    BY <1>1, <2>1, <2>2, SeqEqual
  <2>4. QED
    BY <2>3 DEF s
<1>4. <<a, b>> \o <<c>> = <<a, b, c>>
  <2> DEFINE s == <<a, b>> \o <<c>>
  <2>1. s \in Seq(PageEntry) /\ Len(s) = 3 /\ s[1] = a /\ s[2] = b /\ s[3] = c
    BY <1>1, ConcatProperties
  <2> HIDE DEF s
  <2>2. \A i \in 1..Len(s) : s[i] = <<a, b, c>>[i]
    BY <2>1
  <2>3. s = <<a, b, c>>
    BY <1>1, <2>1, <2>2, SeqEqual
  <2>4. QED
    BY <2>3 DEF s
<1>5. QED
  BY <1>1, <1>2, <1>3, <1>4

\* What comes before the row is nothing, two links, or two links and dots.
LEMMA BeforeOK ==
  ASSUME NEW P \in Nat, NEW p \in Nat
  PROVE  /\ Before(P, p) \in Seq(PageEntry)
         /\ p = 0 => Before(P, p) = <<>>
         /\ p # 0 /\ ~(P > 6 /\ p > 3) =>
              Before(P, p) = <<Entry("prev", Off(p - 1)), Entry("page", 0)>>
         /\ p # 0 /\ P > 6 /\ p > 3 =>
              Before(P, p) = <<Entry("prev", Off(p - 1)), Entry("page", 0), Dots>>
<1> DEFINE a == Entry("prev", Off(p - 1))
           b == Entry("page", 0)
<1>1. b \in PageEntry /\ Dots \in PageEntry /\ (p # 0 => a \in PageEntry)
  BY EntriesOK
<1> HIDE DEF a, b
<1>2. /\ p >= 1 <=> p # 0
      /\ Before(P, p) = If(p >= 1, a) \o If(p # 0, b) \o If(P > 6 /\ p > 3, Dots)
  BY DEF Before, a, b
<1>3. p = 0 => Before(P, p) = <<>>
  BY <1>2 DEF If
<1>4. p # 0 /\ ~(P > 6 /\ p > 3) => Before(P, p) = <<a, b>>
  <2>1. p # 0 /\ ~(P > 6 /\ p > 3) => Before(P, p) = <<a>> \o <<b>> \o <<>>
    BY <1>2 DEF If
  <2>2. QED
    BY <1>1, <2>1, ShortLists
<1>5. p # 0 /\ P > 6 /\ p > 3 => Before(P, p) = <<a, b, Dots>>
  <2>1. p # 0 /\ P > 6 /\ p > 3 => Before(P, p) = <<a>> \o <<b>> \o <<Dots>>
    BY <1>2 DEF If
  <2>2. QED
    BY <1>1, <2>1, ShortLists
<1>6. Before(P, p) \in Seq(PageEntry)
  <2>1. <<>> \in Seq(PageEntry) /\ (p # 0 => <<a, b>> \in Seq(PageEntry))
    BY <1>1
  <2>2. p # 0 => <<a, b, Dots>> \in Seq(PageEntry)
    BY <1>1
  <2>3. QED
    BY <1>3, <1>4, <1>5, <2>1, <2>2
<1>7. QED
  BY <1>3, <1>4, <1>5, <1>6 DEF a, b

\* What comes after the row is nothing, two links, or dots and two links, as
\* long as the current page is a page of the list.
LEMMA AfterOK ==
  ASSUME NEW P \in Nat, NEW p \in Nat, P > 1
  PROVE  /\ After(P, p) \in Seq(PageEntry)
         /\ p = P - 1 => After(P, p) = <<>>
         /\ p < P - 1 /\ ~(P > 6 /\ P - 1 - p > 3) =>
              After(P, p) = <<Entry("page", Off(P - 1)), Entry("next", Off(p + 1))>>
         /\ p < P - 1 /\ P > 6 /\ P - 1 - p > 3 =>
              After(P, p) =
                <<Dots, Entry("page", Off(P - 1)), Entry("next", Off(p + 1))>>
<1> DEFINE a == Entry("page", Off(P - 1))
           b == Entry("next", Off(p + 1))
           many == P > 6 /\ P - 1 - p > 3
<1>1. a \in PageEntry /\ b \in PageEntry /\ Dots \in PageEntry
  <2>1. P - 1 \in Nat /\ p + 1 \in Nat
    OBVIOUS
  <2>2. QED
    BY <2>1, EntriesOK
<1>2. After(P, p) = If(many, Dots) \o If(p # P - 1, a) \o If(p + 1 <= P - 1, b)
  BY DEF After
<1>3. /\ If(many, Dots) \in Seq(PageEntry) /\ If(p # P - 1, a) \in Seq(PageEntry)
      /\ If(p + 1 <= P - 1, b) \in Seq(PageEntry)
  <2> HIDE DEF a, b, many
  <2>1. QED
    BY <1>1, IfOK
<1>4. After(P, p) \in Seq(PageEntry)
  <2> HIDE DEF a, b, many
  <2>1. QED
    BY <1>2, <1>3, ConcatProperties
<1>5. p = P - 1 => After(P, p) = <<>>
  BY <1>2 DEF If
<1>6. p < P - 1 => p # P - 1 /\ p + 1 <= P - 1
  OBVIOUS
<1> HIDE DEF a, b
<1>7. p < P - 1 /\ ~many => After(P, p) = <<a, b>>
  <2> HIDE DEF many
  <2>1. p < P - 1 /\ ~many => After(P, p) = <<>> \o <<a>> \o <<b>>
    BY <1>2, <1>6 DEF If
  <2>2. QED
    BY <1>1, <2>1, ShortLists
<1>8. p < P - 1 /\ many => After(P, p) = <<Dots, a, b>>
  <2> HIDE DEF many
  <2>1. p < P - 1 /\ many => After(P, p) = <<Dots>> \o <<a>> \o <<b>>
    BY <1>2, <1>6 DEF If
  <2>2. QED
    BY <1>1, <2>1, ShortLists
<1>9. QED
  BY <1>4, <1>5, <1>7, <1>8 DEF a, b

\* buildPageList in pages.
LEMMA ListParts ==
  ASSUME NEW items \in Nat, NEW p \in Nat, Pages(items) > 1
  PROVE  /\ RowEntries(items, Off(p)) \in Seq(PageEntry)
         /\ PageList(items, Off(p)) = Before(Pages(items), p)
              \o RowEntries(items, Off(p)) \o After(Pages(items), p)
<1> DEFINE P == Pages(items)
           o == Off(p)
           q == P - 1
           r == RowEntries(items, o)
           d == If(P > 6 /\ P - 1 - p > 3, Dots)
           l == If(p # P - 1, Entry("page", Off(P - 1)))
           n == If(p + 1 <= P - 1, Entry("next", Off(p + 1)))
<1>1. P \in Nat /\ q \in Nat /\ Laatste(items) = Off(q)
  BY PagesOK, RowInPages
<1>2. r \in Seq(PageEntry)
  <2>1. PICK row \in [0..Many(P, p) -> Seq(PageEntry)] : r = row[Many(P, p)]
    BY RowEquation
  <2>2. Many(P, p) \in 2..5
    BY RowInPages
  <2>3. QED
    BY ONLY <2>1, <2>2
<1>3. d \in Seq(PageEntry) /\ l \in Seq(PageEntry) /\ n \in Seq(PageEntry)
  <2>1. P - 1 \in Nat /\ p + 1 \in Nat
    BY <1>1
  <2>2. /\ Dots \in PageEntry /\ Entry("page", Off(P - 1)) \in PageEntry
        /\ Entry("next", Off(p + 1)) \in PageEntry
    BY <2>1, EntriesOK
  <2>3. QED
    BY <2>2, IfOK
<1>4. /\ Off(p + 1) = o + ItemsPerPage /\ Off(p - 1) = o - ItemsPerPage
      /\ o \in Int /\ Off(q) \in Int
      /\ (Off(3) = 3 * ItemsPerPage /\ Off(1) = ItemsPerPage)
      /\ Off(q - p) = Off(q) - o
  BY <1>1, Beside, ItemsAssumption DEF Off
<1>5. (o >= ItemsPerPage <=> p >= 1) /\ (o # 0 <=> p # 0)
  BY <1>4, Factor, Zero
<1>6. o > 3 * ItemsPerPage <=> p > 3
  BY <1>4, Factor
<1>7. Laatste(items) - o > 3 * ItemsPerPage <=> P - 1 - p > 3
  <2>1. q - p \in Int
    BY <1>1
  <2>2. Off(q - p) <= Off(3) <=> q - p <= 3
    <3> DEFINE z == q - p
    <3>1. z \in Int
      BY <2>1
    <3> HIDE DEF z
    <3>2. Off(z) <= Off(3) <=> z <= 3
      BY <3>1, Factor
    <3>3. QED
      BY <3>2 DEF z
  <2>3. Laatste(items) - o = Off(q - p) /\ Off(q - p) \in Int
    BY <1>1, <1>4
  <2>4. 3 * ItemsPerPage = Off(3) /\ Off(3) \in Int
    BY Beside, <1>4
  <2>5. Laatste(items) - o > 3 * ItemsPerPage <=> ~(Off(q - p) <= Off(3))
    <3> DEFINE x == Off(q - p)
               y == Off(3)
               z == 3 * ItemsPerPage
    <3>1. Laatste(items) - o = x /\ z = y /\ x \in Int /\ y \in Int
      BY <2>3, <2>4
    <3> HIDE DEF x, y, z
    <3>2. Laatste(items) - o > z <=> ~(x <= y)
      BY <3>1
    <3>3. QED
      BY <3>2 DEF x, y, z
  <2>6. QED
    BY <2>1, <2>2, <2>5
<1>8. (o # Laatste(items) <=> p # q) /\ (o + ItemsPerPage <= Laatste(items) <=> p + 1 <= q)
  <2> DEFINE z == p + 1
  <2>1. z \in Int /\ Off(z) = o + ItemsPerPage
    BY <1>4
  <2> HIDE DEF z, q
  <2>2. (o = Off(q) <=> p = q) /\ (Off(z) <= Off(q) <=> z <= q)
    BY <1>1, <2>1, Factor
  <2>3. QED
    BY <1>1, <2>1, <2>2 DEF z
<1>9. /\ DotsBefore(items, o) = If(P > 6 /\ p > 3, Dots)
      /\ DotsAfter(items, o) = d
      /\ NextLink(items, o) = n
  BY <1>4, <1>6, <1>7, <1>8 DEF DotsBefore, DotsAfter, NextLink, If
<1>10. PageList(items, o) = Before(P, p) \o r \o d \o l \o n
  <2>1. If(o # Laatste(items), Entry("page", Laatste(items))) = l
    BY <1>1, <1>8 DEF If
  <2>2. /\ If(o >= ItemsPerPage, Entry("prev", o - ItemsPerPage))
             = If(p >= 1, Entry("prev", Off(p - 1)))
        /\ If(o # 0, Entry("page", 0)) = If(p # 0, Entry("page", 0))
    BY <1>4, <1>5 DEF If
  <2>3. ~(Pages(items) <= 1)
    BY <1>1
  <2>4. PageList(items, o) =
          If(o >= ItemsPerPage, Entry("prev", o - ItemsPerPage))
            \o If(o # 0, Entry("page", 0)) \o DotsBefore(items, o) \o r
            \o DotsAfter(items, o)
            \o If(o # Laatste(items), Entry("page", Laatste(items)))
            \o NextLink(items, o)
    <3> HIDE DEF o
    <3>1. QED
      BY <2>3 DEF PageList, r
  <2> HIDE DEF o, r, d, l, n
  <2>5. QED
    BY ONLY <1>9, <2>1, <2>2, <2>4 DEF Before
<1>11. Before(P, p) \in Seq(PageEntry)
  BY <1>1, BeforeOK
<1>12. Before(P, p) \o r \o d \o l \o n = Before(P, p) \o r \o (d \o l \o n)
  <2> DEFINE x == Before(P, p) \o r
             y == d \o l
  <2>1. x \in Seq(PageEntry)
    BY <1>2, <1>11, ConcatProperties
  <2> HIDE DEF d, l, n, x
  <2>2. y \in Seq(PageEntry)
    BY <1>3, ConcatProperties
  <2>3. x \o d \o l = x \o y
    BY <1>3, <2>1, ConcatAssociative
  <2> HIDE DEF y
  <2>4. x \o y \o n = x \o (y \o n)
    BY <1>3, <2>1, <2>2, ConcatAssociative
  <2>5. QED
    BY <2>3, <2>4 DEF x, y
<1>13. After(P, p) = d \o l \o n
  BY DEF After
<1>14. QED
  BY <1>2, <1>10, <1>12, <1>13

\* The list of pages is a list of entries, whatever the offset.
LEMMA ListTyped ==
  ASSUME NEW items \in Nat, NEW o \in Offset
  PROVE  PageList(items, o) \in Seq(PageEntry)
<1>1. PICK p \in Nat : o = Off(p)
  BY DEF Offset
<1>2. CASE Pages(items) > 1
  <2>1. /\ Pages(items) \in Nat
        /\ Before(Pages(items), p) \in Seq(PageEntry)
        /\ After(Pages(items), p) \in Seq(PageEntry)
    BY <1>2, PagesOK, BeforeOK, AfterOK
  <2>2. RowEntries(items, Off(p)) \in Seq(PageEntry)
    BY <1>2, ListParts
  <2>3. Before(Pages(items), p) \o RowEntries(items, Off(p)) \in Seq(PageEntry)
    BY <2>1, <2>2, ConcatProperties
  <2>4. QED
    BY <1>1, <1>2, <2>1, <2>3, ListParts, ConcatProperties
<1>3. CASE ~(Pages(items) > 1)
  BY <1>3, PagesOK DEF PageList
<1>4. QED
  BY <1>2, <1>3

-----------------------------------------------------------------------------
(* The whole list, entry by entry.                                         *)

\* List l has nb entries before the row lo to hi around page p, and na after it;
\* three of them when there are dots.
Shape(l, P, p, nb, na, lo, hi) ==
  /\ lo <= p /\ p <= hi /\ hi <= P - 1 /\ hi - lo <= 4
  /\ lo <= 1 \/ lo <= p - 2
  /\ hi >= P - 2 \/ hi >= p + 2
  /\ nb = 0 <=> p = 0
  /\ nb = 0 => lo = 0
  /\ nb = 2 => lo = 1
  /\ nb = 3 => lo > 1
  /\ na = 0 <=> p = P - 1
  /\ na = 0 => hi = P - 1
  /\ na = 2 => hi = P - 2
  /\ na = 3 => hi < P - 2
  /\ l \in Seq(PageEntry) /\ Len(l) = nb + (hi - lo + 1) + na
  /\ nb # 0 => l[1] = Entry("prev", Off(p - 1)) /\ l[2] = Entry("page", 0)
  /\ nb = 3 => l[3] = Dots
  /\ \A i \in (nb + 1)..(nb + (hi - lo + 1)) :
       l[i] = Item(Off(p), Off(lo + (i - nb - 1)))
  /\ na = 3 => l[Len(l) - 2] = Dots
  /\ na # 0 => /\ l[Len(l) - 1] = Entry("page", Off(P - 1))
               /\ l[Len(l)] = Entry("next", Off(p + 1))

\* Three lists one after another, entry by entry.
LEMMA ThreeLists ==
  ASSUME NEW S, NEW a \in Seq(S), NEW b \in Seq(S), NEW c \in Seq(S)
  PROVE  /\ a \o b \o c \in Seq(S)
         /\ Len(a \o b \o c) = Len(a) + Len(b) + Len(c)
         /\ \A i \in 1..Len(a) : (a \o b \o c)[i] = a[i]
         /\ \A i \in (Len(a) + 1)..(Len(a) + Len(b)) :
              (a \o b \o c)[i] = b[i - Len(a)]
         /\ \A i \in (Len(a) + Len(b) + 1)..(Len(a) + Len(b) + Len(c)) :
              (a \o b \o c)[i] = c[i - (Len(a) + Len(b))]
<1> DEFINE d == a \o b
<1>1. /\ d \in Seq(S) /\ Len(d) = Len(a) + Len(b)
      /\ \A i \in 1..(Len(a) + Len(b)) :
           d[i] = IF i <= Len(a) THEN a[i] ELSE b[i - Len(a)]
  BY ConcatProperties
<1> HIDE DEF d
<1>2. /\ d \o c \in Seq(S) /\ Len(d \o c) = Len(d) + Len(c)
      /\ \A i \in 1..(Len(d) + Len(c)) :
           (d \o c)[i] = IF i <= Len(d) THEN d[i] ELSE c[i - Len(d)]
  <2>1. d \in Seq(S) /\ c \in Seq(S)
    BY <1>1
  <2>2. QED
    BY ONLY <2>1, ConcatProperties
<1>3. Len(a) \in Nat /\ Len(b) \in Nat /\ Len(c) \in Nat
  BY LenProperties
<1>4. /\ \A i \in 1..Len(a) : (d \o c)[i] = a[i]
      /\ \A i \in (Len(a) + 1)..(Len(a) + Len(b)) : (d \o c)[i] = b[i - Len(a)]
      /\ \A i \in (Len(a) + Len(b) + 1)..(Len(a) + Len(b) + Len(c)) :
           (d \o c)[i] = c[i - (Len(a) + Len(b))]
  BY <1>1, <1>2, <1>3
<1>5. QED
  BY <1>1, <1>2, <1>4 DEF d

\* The row around the current page, and what its ends have to do with the dots.
LEMMA Ends ==
  ASSUME NEW P \in Nat, NEW p \in Nat, P > 1, p < P, ~(P = 4 /\ p = 0)
  PROVE  LET lo == Lo(P, p)
             hi == Hi(P, p)
         IN  /\ lo \in Nat /\ hi \in Nat
             /\ lo <= p /\ p <= hi /\ hi <= P - 1 /\ hi - lo <= 4
             /\ lo <= 1 \/ lo <= p - 2
             /\ hi >= P - 2 \/ hi >= p + 2
             /\ p = 0 => lo = 0
             /\ p # 0 /\ ~(P > 6 /\ p > 3) => lo = 1
             /\ p # 0 /\ P > 6 /\ p > 3 => lo > 1
             /\ p = P - 1 => hi = P - 1
             /\ p < P - 1 /\ ~(P > 6 /\ P - 1 - p > 3) => hi = P - 2
             /\ p < P - 1 /\ P > 6 /\ P - 1 - p > 3 => hi < P - 2
BY DEF Lo, Hi, First, Many

\* Every list of more than one page, but that of the first of four, has that
\* shape.
LEMMA ListShape ==
  ASSUME NEW items \in Nat, NEW p \in Nat, Pages(items) > 1, p < Pages(items),
         ~(Pages(items) = 4 /\ p = 0)
  PROVE  \E nb, na \in {0, 2, 3}, lo, hi \in Nat :
           Shape(PageList(items, Off(p)), Pages(items), p, nb, na, lo, hi)
<1> DEFINE P == Pages(items)
           l == PageList(items, Off(p))
           a == Before(P, p)
           c == After(P, p)
           lo == Lo(P, p)
           hi == Hi(P, p)
           b == Run(p, lo, hi)
           nb == IF p = 0 THEN 0 ELSE IF P > 6 /\ p > 3 THEN 3 ELSE 2
           na == IF p = P - 1 THEN 0 ELSE IF P > 6 /\ P - 1 - p > 3 THEN 3 ELSE 2
<1>1. P \in Nat /\ P > 1 /\ p < P /\ ~(P = 4 /\ p = 0)
  BY PagesOK
<1>2. l = a \o b \o c
  BY ListParts, RowIsRun
<1> HIDE DEF P
<1>3. /\ lo \in Nat /\ hi \in Nat
      /\ lo <= p /\ p <= hi /\ hi <= P - 1 /\ hi - lo <= 4
      /\ lo <= 1 \/ lo <= p - 2
      /\ hi >= P - 2 \/ hi >= p + 2
      /\ nb = 0 <=> p = 0
      /\ nb = 0 => lo = 0
      /\ nb = 2 => lo = 1
      /\ nb = 3 => lo > 1
      /\ na = 0 <=> p = P - 1
      /\ na = 0 => hi = P - 1
      /\ na = 2 => hi = P - 2
      /\ na = 3 => hi < P - 2
      /\ nb \in {0, 2, 3} /\ na \in {0, 2, 3}
  <2> HIDE DEF lo, hi, nb, na
  <2>1. /\ lo \in Nat /\ hi \in Nat
        /\ lo <= p /\ p <= hi /\ hi <= P - 1 /\ hi - lo <= 4
        /\ lo <= 1 \/ lo <= p - 2
        /\ hi >= P - 2 \/ hi >= p + 2
        /\ p = 0 => lo = 0
        /\ p # 0 /\ ~(P > 6 /\ p > 3) => lo = 1
        /\ p # 0 /\ P > 6 /\ p > 3 => lo > 1
        /\ p = P - 1 => hi = P - 1
        /\ p < P - 1 /\ ~(P > 6 /\ P - 1 - p > 3) => hi = P - 2
        /\ p < P - 1 /\ P > 6 /\ P - 1 - p > 3 => hi < P - 2
    BY <1>1, Ends DEF lo, hi
  <2>2. QED
    BY <1>1, <2>1 DEF nb, na
<1>4. /\ a \in Seq(PageEntry) /\ Len(a) = nb
      /\ nb # 0 => a[1] = Entry("prev", Off(p - 1)) /\ a[2] = Entry("page", 0)
      /\ nb = 3 => a[3] = Dots
  BY <1>1, BeforeOK
<1>5. /\ c \in Seq(PageEntry) /\ Len(c) = na
      /\ na = 3 => c[1] = Dots
      /\ na # 0 => /\ c[na - 1] = Entry("page", Off(P - 1))
                   /\ c[na] = Entry("next", Off(p + 1))
  BY <1>1, AfterOK
<1> DEFINE m == hi - lo + 1
<1>6. m \in Nat /\ m >= 1
  BY <1>3
<1>7. /\ b \in Seq(PageEntry) /\ Len(b) = m
      /\ \A i \in 1..m : b[i] = Item(Off(p), Off(lo + i - 1))
  <2>1. p \in Nat /\ lo \in Nat /\ hi \in Int /\ lo <= hi + 1
    BY <1>3
  <2> HIDE DEF lo, hi
  <2>2. QED
    BY ONLY <2>1, RunOK
<1> HIDE DEF l, a, b, c, lo, hi, nb, na, m
<1>8. /\ l \in Seq(PageEntry) /\ Len(l) = nb + m + na
      /\ \A i \in 1..nb : l[i] = a[i]
      /\ \A i \in (nb + 1)..(nb + m) : l[i] = b[i - nb]
      /\ \A i \in (nb + m + 1)..(nb + m + na) : l[i] = c[i - (nb + m)]
  <2>1. a \in Seq(PageEntry) /\ b \in Seq(PageEntry) /\ c \in Seq(PageEntry)
    BY <1>4, <1>5, <1>7
  <2>2. /\ a \o b \o c \in Seq(PageEntry)
        /\ Len(a \o b \o c) = Len(a) + Len(b) + Len(c)
        /\ \A i \in 1..Len(a) : (a \o b \o c)[i] = a[i]
        /\ \A i \in (Len(a) + 1)..(Len(a) + Len(b)) :
             (a \o b \o c)[i] = b[i - Len(a)]
        /\ \A i \in (Len(a) + Len(b) + 1)..(Len(a) + Len(b) + Len(c)) :
             (a \o b \o c)[i] = c[i - (Len(a) + Len(b))]
    BY ONLY <2>1, ThreeLists
  <2>3. Len(a) = nb /\ Len(b) = m /\ Len(c) = na
    BY <1>4, <1>5, <1>7
  <2>4. QED
    BY ONLY <1>2, <2>2, <2>3
<1>9. nb # 0 => l[1] = Entry("prev", Off(p - 1)) /\ l[2] = Entry("page", 0)
  <2>1. nb # 0 => 1 \in 1..nb /\ 2 \in 1..nb
    BY <1>3
  <2>2. QED
    BY <1>4, <1>8, <2>1
<1>10. nb = 3 => l[3] = Dots
  <2>1. nb = 3 => 3 \in 1..nb
    OBVIOUS
  <2>2. QED
    BY <1>4, <1>8, <2>1
<1>11. ASSUME NEW i \in (nb + 1)..(nb + m)
       PROVE  l[i] = Item(Off(p), Off(lo + (i - nb - 1)))
  <2>1. i - nb \in 1..m /\ lo + (i - nb) - 1 = lo + (i - nb - 1)
    BY <1>3, <1>6
  <2>2. l[i] = b[i - nb]
    BY <1>8
  <2>3. b[i - nb] = Item(Off(p), Off(lo + (i - nb) - 1))
    BY <1>7, <2>1
  <2>4. QED
    BY <2>1, <2>2, <2>3
<1>12. na = 3 => l[Len(l) - 2] = Dots
  <2>1. na = 3 => /\ Len(l) - 2 \in (nb + m + 1)..(nb + m + na)
                  /\ (Len(l) - 2) - (nb + m) = 1
    BY <1>3, <1>6, <1>8
  <2>2. QED
    BY <1>5, <1>8, <2>1
<1>13. na # 0 => /\ l[Len(l) - 1] = Entry("page", Off(P - 1))
                 /\ l[Len(l)] = Entry("next", Off(p + 1))
  <2>1. na # 0 => /\ Len(l) - 1 \in (nb + m + 1)..(nb + m + na)
                  /\ (Len(l) - 1) - (nb + m) = na - 1
                  /\ Len(l) \in (nb + m + 1)..(nb + m + na)
                  /\ Len(l) - (nb + m) = na
    BY <1>3, <1>6, <1>8
  <2>2. QED
    BY <1>5, <1>8, <2>1
<1>14. Shape(l, P, p, nb, na, lo, hi)
  BY <1>3, <1>8, <1>9, <1>10, <1>11, <1>12, <1>13 DEF Shape, m
<1>15. QED
  BY <1>3, <1>14 DEF l, P

\* Where the page numbers are in a list with a row of m pages from lo, and what
\* the other entries are.
Entries(l, P, p, nb, na, lo, m) ==
  /\ m \in 1..5 /\ Len(l) = nb + m + na /\ DOMAIN l = 1..Len(l)
  /\ \A i \in 1..Len(l) :
       \/ nb # 0 /\ i = 1 /\ l[i] = Entry("prev", Off(p - 1))
       \/ nb # 0 /\ i = 2 /\ l[i] = Entry("page", Off(0))
       \/ nb = 3 /\ i = 3 /\ l[i] = Dots
       \/ /\ i \in (nb + 1)..(nb + m)
          /\ l[i].kind \in {"page", "active"}
          /\ l[i].to = Off(lo + (i - nb - 1))
       \/ na = 3 /\ i = Len(l) - 2 /\ l[i] = Dots
       \/ na # 0 /\ i = Len(l) - 1 /\ l[i] = Entry("page", Off(P - 1))
       \/ na # 0 /\ i = Len(l) /\ l[i] = Entry("next", Off(p + 1))

\* A list of that shape has these entries.
LEMMA EntriesOfShape ==
  ASSUME NEW l, NEW P \in Nat, NEW p \in Nat, P > 1, p < P,
         NEW nb \in {0, 2, 3}, NEW na \in {0, 2, 3}, NEW lo \in Nat, NEW hi \in Nat,
         Shape(l, P, p, nb, na, lo, hi)
  PROVE  Entries(l, P, p, nb, na, lo, hi - lo + 1)
<1> DEFINE m == hi - lo + 1
<1>1. /\ lo <= p /\ p <= hi /\ hi - lo <= 4
      /\ l \in Seq(PageEntry) /\ Len(l) = nb + m + na
      /\ nb # 0 => l[1] = Entry("prev", Off(p - 1)) /\ l[2] = Entry("page", 0)
      /\ nb = 3 => l[3] = Dots
      /\ \A i \in (nb + 1)..(nb + m) : l[i] = Item(Off(p), Off(lo + (i - nb - 1)))
      /\ na = 3 => l[Len(l) - 2] = Dots
      /\ na # 0 => /\ l[Len(l) - 1] = Entry("page", Off(P - 1))
                   /\ l[Len(l)] = Entry("next", Off(p + 1))
  BY DEF Shape
<1>2. m \in 1..5
  BY <1>1
<1>3. DOMAIN l = 1..Len(l)
  BY <1>1, LenProperties
<1>4. ASSUME NEW i \in (nb + 1)..(nb + m)
      PROVE  l[i].kind \in {"page", "active"} /\ l[i].to = Off(lo + (i - nb - 1))
  <2>1. lo + (i - nb - 1) \in Nat
    BY <1>2
  <2>2. l[i] = Item(Off(p), Off(lo + (i - nb - 1)))
    BY <1>1
  <2>3. QED
    BY <2>1, <2>2, ItemOK
<1>5. Off(0) = 0
  BY Zero
<1>6. ASSUME NEW i \in 1..Len(l)
      PROVE  \/ nb # 0 /\ i = 1
             \/ nb # 0 /\ i = 2
             \/ nb = 3 /\ i = 3
             \/ i \in (nb + 1)..(nb + m)
             \/ na = 3 /\ i = Len(l) - 2
             \/ na # 0 /\ i = Len(l) - 1
             \/ na # 0 /\ i = Len(l)
  <2> HIDE DEF Shape
  <2>1. i \in 1..(nb + m + na) /\ m \in 1..5
    BY <1>1, <1>2
  <2>2. QED
    BY <1>1, <2>1
<1>7. ASSUME NEW i \in 1..Len(l)
      PROVE  \/ nb # 0 /\ i = 1 /\ l[i] = Entry("prev", Off(p - 1))
             \/ nb # 0 /\ i = 2 /\ l[i] = Entry("page", Off(0))
             \/ nb = 3 /\ i = 3 /\ l[i] = Dots
             \/ /\ i \in (nb + 1)..(nb + m)
                /\ l[i].kind \in {"page", "active"}
                /\ l[i].to = Off(lo + (i - nb - 1))
             \/ na = 3 /\ i = Len(l) - 2 /\ l[i] = Dots
             \/ na # 0 /\ i = Len(l) - 1 /\ l[i] = Entry("page", Off(P - 1))
             \/ na # 0 /\ i = Len(l) /\ l[i] = Entry("next", Off(p + 1))
  BY <1>1, <1>4, <1>5, <1>6
<1>8. Entries(l, P, p, nb, na, lo, m)
  <2> HIDE DEF m
  <2>1. QED
    BY <1>1, <1>2, <1>3, <1>7 DEF Entries
<1>9. QED
  BY <1>8

\* Which page the number at position i stands for, given where the row is.
PageAt(i, P, nb, m, lo) ==
  IF i \in (nb + 1)..(nb + m) THEN lo + (i - nb - 1)
  ELSE IF nb # 0 /\ i = 2 THEN 0 ELSE P - 1

\* The numbers of the list are the two links and the row, page by page.
NumbersAt(P, nb, na, lo, m) ==
  /\ Numbers = {i \in 1..Len(links) : \/ nb # 0 /\ i = 2
                                      \/ i \in (nb + 1)..(nb + m)
                                      \/ na # 0 /\ i = Len(links) - 1}
  /\ \A i \in Numbers : /\ PageAt(i, P, nb, m, lo) \in 0..(P - 1)
                        /\ links[i].to = Off(PageAt(i, P, nb, m, lo))

\* A list of that shape has its numbers there.
LEMMA NumbersOfShape ==
  ASSUME NEW P \in Nat, NEW p \in Nat, P > 1, p < P,
         NEW nb \in {0, 2, 3}, NEW na \in {0, 2, 3}, NEW lo \in Nat, NEW hi \in Nat,
         Shape(links, P, p, nb, na, lo, hi)
  PROVE  NumbersAt(P, nb, na, lo, hi - lo + 1)
<1> DEFINE m == hi - lo + 1
<1>1. /\ m \in 1..5 /\ Len(links) = nb + m + na /\ DOMAIN links = 1..Len(links)
      /\ \A i \in 1..Len(links) :
           \/ nb # 0 /\ i = 1 /\ links[i] = Entry("prev", Off(p - 1))
           \/ nb # 0 /\ i = 2 /\ links[i] = Entry("page", Off(0))
           \/ nb = 3 /\ i = 3 /\ links[i] = Dots
           \/ /\ i \in (nb + 1)..(nb + m)
              /\ links[i].kind \in {"page", "active"}
              /\ links[i].to = Off(lo + (i - nb - 1))
           \/ na = 3 /\ i = Len(links) - 2 /\ links[i] = Dots
           \/ na # 0 /\ i = Len(links) - 1 /\ links[i] = Entry("page", Off(P - 1))
           \/ na # 0 /\ i = Len(links) /\ links[i] = Entry("next", Off(p + 1))
  <2>1. Entries(links, P, p, nb, na, lo, m)
    BY EntriesOfShape
  <2> HIDE DEF m
  <2>2. QED
    BY <2>1 DEF Entries
<1>2. /\ \A k, o : Entry(k, o).kind = k /\ Entry(k, o).to = o
      /\ Dots.kind = "dots" /\ m = hi - lo + 1
  BY DEF Entry, Dots
<1> HIDE DEF m
<1> DEFINE Pos(i) == \/ nb # 0 /\ i = 2
                     \/ i \in (nb + 1)..(nb + m)
                     \/ na # 0 /\ i = Len(links) - 1
<1>3. ASSUME NEW i \in 1..Len(links)
      PROVE  /\ links[i].kind \in {"page", "active"} <=> Pos(i)
             /\ Pos(i) => links[i].to = Off(PageAt(i, P, nb, m, lo))
  <2>1. CASE nb # 0 /\ i = 1 /\ links[i] = Entry("prev", Off(p - 1))
    BY <1>1, <1>2, <2>1
  <2>2. CASE nb # 0 /\ i = 2 /\ links[i] = Entry("page", Off(0))
    <3>1. i \notin (nb + 1)..(nb + m)
      BY <2>2
    <3>2. PageAt(i, P, nb, m, lo) = 0
      BY <2>2, <3>1 DEF PageAt
    <3>3. QED
      BY <1>2, <2>2, <3>2
  <2>3. CASE nb = 3 /\ i = 3 /\ links[i] = Dots
    BY <1>1, <1>2, <2>3
  <2>4. CASE /\ i \in (nb + 1)..(nb + m)
             /\ links[i].kind \in {"page", "active"}
             /\ links[i].to = Off(lo + (i - nb - 1))
    BY <2>4 DEF PageAt
  <2>5. CASE na = 3 /\ i = Len(links) - 2 /\ links[i] = Dots
    BY <1>1, <1>2, <2>5
  <2>6. CASE na # 0 /\ i = Len(links) - 1 /\ links[i] = Entry("page", Off(P - 1))
    <3>1. i \notin (nb + 1)..(nb + m) /\ ~(nb # 0 /\ i = 2)
      BY <1>1, <2>6
    <3>2. PageAt(i, P, nb, m, lo) = P - 1
      BY <3>1 DEF PageAt
    <3>3. QED
      BY <1>2, <2>6, <3>2
  <2>7. CASE na # 0 /\ i = Len(links) /\ links[i] = Entry("next", Off(p + 1))
    BY <1>1, <1>2, <2>7
  <2>8. QED
    BY <1>1, <2>1, <2>2, <2>3, <2>4, <2>5, <2>6, <2>7
<1>4. ASSUME NEW i \in 1..Len(links) PROVE PageAt(i, P, nb, m, lo) \in 0..(P - 1)
  <2>1. hi <= P - 1
    BY DEF Shape
  <2>2. QED
    BY <1>1, <1>2, <2>1 DEF PageAt
<1>5. NumbersAt(P, nb, na, lo, m)
  BY <1>1, <1>3, <1>4 DEF Numbers, NumbersAt
<1>6. QED
  BY <1>5 DEF m

-----------------------------------------------------------------------------
(* What the list promises.                                                 *)

\* The page numbers are in the order of their positions, each page once, and the
\* pages next to the current one are among them.
LEMMA NumbersAreAround ==
  ASSUME NEW P \in Nat, NEW p \in Nat, P > 1, p < P,
         NEW nb \in {0, 2, 3}, NEW na \in {0, 2, 3}, NEW lo \in Nat, NEW hi \in Nat,
         Shape(links, P, p, nb, na, lo, hi)
  PROVE  /\ Cardinality(Numbers) <= 7
         /\ \A i, j \in Numbers : links[i].to = links[j].to => i = j
         /\ \A k \in 0..(P - 1) : p - 2 <= k /\ k <= p + 2 =>
              \E i \in Numbers : links[i].to = Off(k)
<1> DEFINE m == hi - lo + 1
           At(i) == PageAt(i, P, nb, m, lo)
           last == Len(links) - 1
<1>1. /\ m \in 1..5 /\ Len(links) = nb + m + na
      /\ lo <= p /\ p <= hi /\ hi <= P - 1
      /\ lo <= 1 \/ lo <= p - 2
      /\ hi >= P - 2 \/ hi >= p + 2
      /\ nb = 0 => lo = 0
      /\ nb # 0 => lo >= 1
      /\ na = 0 => hi = P - 1
      /\ na # 0 => hi <= P - 2
  BY DEF Shape
<1>2. /\ Numbers = {i \in 1..Len(links) : \/ nb # 0 /\ i = 2
                                          \/ i \in (nb + 1)..(nb + m)
                                          \/ na # 0 /\ i = last}
      /\ \A i \in Numbers : At(i) \in 0..(P - 1) /\ links[i].to = Off(At(i))
  <2>1. NumbersAt(P, nb, na, lo, m)
    BY NumbersOfShape
  <2> HIDE DEF m
  <2>2. QED
    BY <2>1 DEF NumbersAt
<1> HIDE DEF m
<1>3. Cardinality(Numbers) <= 7
  <2> DEFINE R == (nb + 1)..(nb + m)
             S == R \cup {2}
             T == S \cup {last}
  <2>1. IsFiniteSet(R) /\ Cardinality(R) = m
    <3>1. nb + 1 \in Int /\ nb + m \in Int /\ ~(nb + 1 > nb + m)
          /\ (nb + m) - (nb + 1) + 1 = m
      BY <1>1
    <3>2. QED
      BY <3>1, FS_Interval
  <2> HIDE DEF R
  <2>2. IsFiniteSet(S) /\ Cardinality(S) <= m + 1
    <3>1. IsFiniteSet(R \cup {2}) /\ (Cardinality(R \cup {2}) = Cardinality(R)
                                    \/ Cardinality(R \cup {2}) = Cardinality(R) + 1)
      BY <2>1, FS_AddElement
    <3>2. QED
      BY <1>1, <2>1, <3>1
  <2> HIDE DEF S
  <2>3. IsFiniteSet(T) /\ Cardinality(T) <= m + 2
    <3>1. IsFiniteSet(T) /\ (Cardinality(T) = Cardinality(S)
                             \/ Cardinality(T) = Cardinality(S) + 1)
      BY <2>2, FS_AddElement
    <3>2. Cardinality(S) \in Nat
      BY <2>2, FS_CardinalityType
    <3>3. QED
      BY <1>1, <2>2, <3>1, <3>2
  <2>4. Numbers \in SUBSET T
    BY <1>2 DEF R, S
  <2> HIDE DEF T
  <2>5. Cardinality(Numbers) <= Cardinality(T) /\ Cardinality(Numbers) \in Nat
        /\ Cardinality(T) \in Nat
    BY <2>3, <2>4, FS_Subset, FS_CardinalityType
  <2>6. QED
    BY <1>1, <2>3, <2>5
<1>4. ASSUME NEW i \in Numbers, NEW j \in Numbers, links[i].to = links[j].to
      PROVE  i = j
  <2>1. At(i) \in Int /\ At(j) \in Int /\ Off(At(i)) = Off(At(j))
    BY <1>2, <1>4
  <2>2. At(i) = At(j)
    <3> HIDE DEF At
    <3>1. QED
      BY <2>1, Factor
  <2>3. /\ i \in 1..Len(links) /\ j \in 1..Len(links)
        /\ (nb # 0 /\ i = 2) \/ i \in (nb + 1)..(nb + m) \/ (na # 0 /\ i = last)
        /\ (nb # 0 /\ j = 2) \/ j \in (nb + 1)..(nb + m) \/ (na # 0 /\ j = last)
    BY <1>2
  <2>4. m = hi - lo + 1
    BY DEF m
  <2>5. QED
    BY <1>1, <2>2, <2>3, <2>4 DEF PageAt
<1>5. ASSUME NEW k \in 0..(P - 1), p - 2 <= k, k <= p + 2
      PROVE  \E i \in Numbers : links[i].to = Off(k)
  <2> SUFFICES \E i \in Numbers : At(i) = k
    BY <1>2
  <2>1. m = hi - lo + 1
    BY DEF m
  <2>2. CASE k \in lo..hi
    <3> DEFINE i == nb + 1 + (k - lo)
    <3>1. i \in (nb + 1)..(nb + m) /\ i \in 1..Len(links) /\ lo + (i - nb - 1) = k
      BY <1>1, <2>1, <2>2
    <3> HIDE DEF i
    <3>2. QED
      BY <1>2, <3>1 DEF PageAt
  <2>3. CASE k < lo
    <3>1. k = 0 /\ nb # 0
      BY <1>1, <1>5, <2>3
    <3>2. 2 \in 1..Len(links) /\ 2 \notin (nb + 1)..(nb + m)
      BY <1>1, <3>1
    <3>3. QED
      BY <1>2, <3>1, <3>2 DEF PageAt
  <2>4. CASE k > hi
    <3>1. k = P - 1 /\ na # 0
      BY <1>1, <1>5, <2>4
    <3>2. last \in 1..Len(links) /\ last \notin (nb + 1)..(nb + m)
          /\ ~(nb # 0 /\ last = 2)
      BY <1>1, <3>1
    <3>3. QED
      BY <1>2, <3>1, <3>2 DEF PageAt
  <2>5. QED
    BY <1>1, <2>2, <2>3, <2>4
<1>6. QED
  BY <1>3, <1>4, <1>5

\* The numbers are in order.
LEMMA NumbersAreInOrder ==
  ASSUME NEW P \in Nat, NEW p \in Nat, P > 1, p < P, size \in Nat, P = Pages(size),
         NEW nb \in {0, 2, 3}, NEW na \in {0, 2, 3}, NEW lo \in Nat, NEW hi \in Nat,
         Shape(links, P, p, nb, na, lo, hi)
  PROVE  InOrder
<1> DEFINE m == hi - lo + 1
           At(i) == PageAt(i, P, nb, m, lo)
           last == Len(links) - 1
<1>1. /\ m \in 1..5 /\ Len(links) = nb + m + na
      /\ lo <= p /\ p <= hi /\ hi <= P - 1
      /\ nb = 0 => lo = 0
      /\ nb = 2 => lo = 1
      /\ nb = 3 => lo > 1
      /\ na = 0 => hi = P - 1
      /\ na = 2 => hi = P - 2
      /\ na = 3 => hi < P - 2
  BY DEF Shape
<1>2. /\ Numbers = {i \in 1..Len(links) : \/ nb # 0 /\ i = 2
                                          \/ i \in (nb + 1)..(nb + m)
                                          \/ na # 0 /\ i = last}
      /\ \A i \in Numbers : At(i) \in 0..(P - 1) /\ links[i].to = Off(At(i))
  <2>1. NumbersAt(P, nb, na, lo, m)
    BY NumbersOfShape
  <2> HIDE DEF m
  <2>2. QED
    BY <2>1 DEF NumbersAt
<1>3. /\ DOMAIN links = 1..Len(links)
      /\ nb = 3 => links[3] = Dots
      /\ na = 3 => links[last - 1] = Dots
      /\ na # 0 => links[Len(links)] = Entry("next", Off(p + 1))
  <2>1. last - 1 = Len(links) - 2
    BY <1>1
  <2>2. links \in Seq(PageEntry)
    BY DEF Shape
  <2>3. QED
    BY <2>1, <2>2, LenProperties DEF Shape
<1>4. m = hi - lo + 1
  OBVIOUS
<1> HIDE DEF m
<1>5. \A k, o : Entry(k, o).kind = k /\ Entry(k, o).to = o
  BY DEF Entry
<1>6. Dots.kind = "dots" /\ Dots.to = Off(0)
  BY Zero DEF Dots, Entry
<1>7. ASSUME NEW i \in DOMAIN links PROVE links[i].to < size
  <2>1. ASSUME NEW k \in 0..(P - 1) PROVE Off(k) < size
    BY HasResults
  <2>2. /\ 0 \in 0..(P - 1) /\ P - 1 \in 0..(P - 1)
        /\ (p # 0 => p - 1 \in 0..(P - 1))
        /\ (p # P - 1 => p + 1 \in 0..(P - 1))
    OBVIOUS
  <2>3. (nb # 0 => p # 0) /\ (na # 0 => p # P - 1)
    BY <1>1
  <2>4. i \in (nb + 1)..(nb + m) => lo + (i - nb - 1) \in 0..(P - 1)
    BY <1>1, <1>4
  <2>5. \/ nb # 0 /\ links[i].to = Off(p - 1)
        \/ links[i].to = Off(0)
        \/ i \in (nb + 1)..(nb + m) /\ links[i].to = Off(lo + (i - nb - 1))
        \/ links[i].to = Off(P - 1)
        \/ na # 0 /\ links[i].to = Off(p + 1)
    <3>1. Entries(links, P, p, nb, na, lo, m)
      <4>1. Entries(links, P, p, nb, na, lo, hi - lo + 1)
        BY EntriesOfShape, ZenonT(60)
      <4>2. QED
        BY <1>4, <4>1
    <3>2. /\ Entry("prev", Off(p - 1)).to = Off(p - 1)
          /\ Entry("page", Off(0)).to = Off(0)
          /\ Entry("page", Off(P - 1)).to = Off(P - 1)
          /\ Entry("next", Off(p + 1)).to = Off(p + 1)
      BY <1>5
    <3>3. QED
      BY <1>3, <1>6, <3>1, <3>2 DEF Entries
  <2>6. QED
    BY <2>1, <2>2, <2>3, <2>4, <2>5
<1>8. \A i \in Numbers : /\ i \in 1..Len(links)
                         /\ At(i) = IF i \in (nb + 1)..(nb + m) THEN lo + (i - nb - 1)
                                    ELSE IF nb # 0 /\ i = 2 THEN 0 ELSE P - 1
  BY <1>2 DEF PageAt
<1> HIDE DEF At
<1>9. ASSUME NEW i \in Numbers, NEW j \in Numbers, i < j
      PROVE  links[i].to < links[j].to
  <2>1. /\ (nb # 0 /\ i = 2) \/ i \in (nb + 1)..(nb + m) \/ (na # 0 /\ i = last)
        /\ (nb # 0 /\ j = 2) \/ j \in (nb + 1)..(nb + m) \/ (na # 0 /\ j = last)
    BY <1>2
  <2>2. /\ i \in (nb + 1)..(nb + m) => At(i) = lo + (i - nb - 1)
        /\ j \in (nb + 1)..(nb + m) => At(j) = lo + (j - nb - 1)
        /\ nb # 0 /\ i = 2 => At(i) = 0
        /\ na # 0 /\ j = last => At(j) = P - 1
    BY <1>1, <1>8
  <2>3. At(i) < At(j)
    <3>1. i \in 1..Len(links) /\ j \in 1..Len(links)
      BY <1>8
    <3>2. CASE i \in (nb + 1)..(nb + m) /\ j \in (nb + 1)..(nb + m)
      BY <1>1, <1>9, <2>2, <3>2
    <3>3. CASE i \in (nb + 1)..(nb + m) /\ na # 0 /\ j = last
      BY <1>1, <1>4, <2>2, <3>3
    <3>4. CASE nb # 0 /\ i = 2 /\ j \in (nb + 1)..(nb + m)
      BY <1>1, <2>2, <3>4
    <3>5. CASE nb # 0 /\ i = 2 /\ na # 0 /\ j = last
      BY <2>2, <3>5
    <3>. QED  BY <1>1, <1>9, <2>1, <3>1, <3>2, <3>3, <3>4, <3>5
  <2>4. /\ links[i].to = Off(At(i)) /\ links[j].to = Off(At(j))
        /\ At(i) \in Int /\ At(j) \in Int
    BY <1>2
  <2>5. Off(At(i)) \in Int /\ Off(At(j)) \in Int /\ ~(Off(At(j)) <= Off(At(i)))
    BY <2>3, <2>4, Factor
  <2>. QED  BY <2>4, <2>5
<1>10. ASSUME NEW k \in {0, P - 1}
       PROVE  \E i \in Numbers : links[i].to = Off(k)
  <2>1. CASE k = 0
    <3>. DEFINE i == IF nb = 0 THEN 1 ELSE 2
    <3>1. i \in Numbers
      BY <1>1, <1>2
    <3>2. At(i) = 0
      BY <1>1, <1>8, <3>1
    <3>. QED  BY <1>2, <2>1, <3>1, <3>2
  <2>2. CASE k = P - 1
    <3>. DEFINE i == IF na = 0 THEN nb + m ELSE last
    <3>1. i \in Numbers
      BY <1>1, <1>2
    <3>2. At(i) = P - 1
      BY <1>1, <1>4, <1>8, <3>1
    <3>. QED  BY <1>2, <2>2, <3>1, <3>2
  <2>. QED  BY <2>1, <2>2
<1>11. {0, Laatste(size)} \subseteq {links[i].to : i \in Numbers}
  <2>1. Laatste(size) = Off(P - 1) /\ Off(0) = 0
    BY Zero DEF Laatste, Off
  <2>. QED  BY <1>10, <2>1
<1>. QED  BY <1>7, <1>9, <1>11 DEF InOrder

\* The row on the first of four pages: its three pages, and one there is not.
LEMMA RowOfFour ==
  ASSUME NEW items \in Nat, NEW p \in Nat, p = 0, Pages(items) = 4
  PROVE  RowEntries(items, Off(p)) = Run(p, p, 2) \o <<Item(Off(p), Off(4))>>
<1> DEFINE last == Many(Pages(items), p)
<1>1. Pages(items) > 1 /\ First(Pages(items), p) = 0 /\ last = 5
  BY DEF First, Many
<1> HIDE DEF last
<1>2. PICK row \in [0..last -> Seq(PageEntry)] :
        /\ row[0] = <<>>
        /\ \A n \in 1..last : row[n] = row[n - 1] \o Round(items, p, n)
        /\ RowEntries(items, Off(p)) = row[last]
  BY <1>1, RowEquation DEF last
<1>3. ASSUME NEW n \in 1..last, NEW k, k = n - 1
      PROVE  row[n] = IF k = 3 THEN row[k] ELSE row[k] \o <<Item(Off(p), Off(k))>>
  <2>1. k = First(Pages(items), p) + n - 1 /\ n \in 1..Many(Pages(items), p)
    BY <1>1, <1>3 DEF last
  <2>2. Round(items, p, n) = IF k = p \/ k \notin {0, Pages(items) - 1}
                             THEN <<Item(Off(p), Off(k))>> ELSE <<>>
    BY <1>1, <2>1, RoundWrites
  <2>3. row[n] = row[k] \o Round(items, p, n)
    BY <1>2, <1>3
  <2>4. row[k] \in Seq(PageEntry) /\ Pages(items) - 1 = 3
    <3>1. k \in 0..last
      BY <1>1, <1>3
    <3>2. row[k] \in Seq(PageEntry)
      BY ONLY <1>2, <3>1
    <3>3. QED
      BY <3>2
  <2>5. CASE k = 3
    <3>1. Round(items, p, n) = <<>>
      BY <2>2, <2>4, <2>5
    <3>2. QED
      BY <2>3, <2>4, <2>5, <3>1, ConcatEmptySeq
  <2>6. CASE k # 3
    <3>1. Round(items, p, n) = <<Item(Off(p), Off(k))>>
      BY <2>2, <2>4, <2>6
    <3>2. QED
      BY <2>3, <2>6, <3>1
  <2>7. QED
    BY <2>5, <2>6
<1> DEFINE T == {n \in 0..3 : row[n] = Run(p, p, n - 1)}
<1>4. 0 \in T
  BY <1>2 DEF Run
<1>5. ASSUME NEW n \in 1..3, n - 1 \in T PROVE n \in T
  <2> DEFINE k == n - 1
             b == k - 1
  <2>1. /\ k = n - 1 /\ k # 3 /\ n \in 1..last /\ n \in 0..3
        /\ b \in Int /\ p <= b + 1 /\ b + 1 = k
    BY <1>1
  <2>2. row[k] = Run(p, p, b)
    BY <1>5
  <2> HIDE DEF k, b
  <2>3. row[n] = row[k] \o <<Item(Off(p), Off(k))>>
    BY <1>3, <2>1
  <2>4. Run(p, p, b) \o <<Item(Off(p), Off(b + 1))>> = Run(p, p, b + 1)
    BY <2>1, RunGrows
  <2>5. row[n] = Run(p, p, n - 1)
    BY <2>1, <2>2, <2>3, <2>4
  <2>6. QED
    BY <2>1, <2>5
<1>6. row[3] = Run(p, p, 2)
  <2> HIDE DEF T
  <2>1. \A n \in 1..3 : n - 1 \in T => n \in T
    BY <1>5
  <2>2. \A n \in 0..3 : n \in T
    BY <1>4, <2>1, UpTo
  <2>3. 3 \in T
    BY <2>2
  <2>4. row[3] = Run(p, p, 3 - 1)
    BY <2>3 DEF T
  <2>5. QED
    BY <2>4
<1>7. row[4] = row[3] /\ row[5] = row[4] \o <<Item(Off(p), Off(4))>>
  <2>1. 4 \in 1..last /\ 3 = 4 - 1 /\ 5 \in 1..last /\ 4 = 5 - 1
    BY <1>1
  <2>2. row[4] = IF 3 = 3 THEN row[3] ELSE row[3] \o <<Item(Off(p), Off(3))>>
    BY <1>3, <2>1
  <2>3. row[5] = IF 4 = 3 THEN row[4] ELSE row[4] \o <<Item(Off(p), Off(4))>>
    BY <1>3, <2>1
  <2>4. QED
    BY <2>2, <2>3
<1>8. QED
  BY <1>1, <1>2, <1>6, <1>7

\* On the first of four pages the list has the numbers 1, 2, 3, 5 and 4.
LEMMA FourPages ==
  ASSUME NEW items \in Nat, NEW l, NEW p \in Nat, p = 0, Pages(items) = 4,
         l = PageList(items, Off(p))
  PROVE  /\ l \in Seq(PageEntry) /\ Len(l) = 6
         /\ \A i \in 1..3 : l[i].kind \in {"page", "active"}
                            /\ l[i].to = Off(i - 1)
         /\ l[4] = Entry("page", Off(4)) /\ l[5] = Entry("page", Off(3))
         /\ l[6] = Entry("next", Off(1))
<1> DEFINE run == Run(p, p, 2)
           e == Item(Off(p), Off(4))
           d == <<e>>
           c == After(4, p)
<1>1. Before(4, p) = <<>>
  <2>1. 4 \in Nat
    OBVIOUS
  <2>2. QED
    BY <2>1, BeforeOK
<1>2. c = <<Entry("page", Off(3)), Entry("next", Off(1))>> /\ c \in Seq(PageEntry)
  <2> DEFINE P == 4
  <2>1. P \in Nat /\ P > 1 /\ p < P - 1 /\ ~(P > 6 /\ P - 1 - p > 3)
        /\ P - 1 = 3 /\ p + 1 = 1
    OBVIOUS
  <2> HIDE DEF P
  <2>2. After(P, p) \in Seq(PageEntry)
        /\ After(P, p) = <<Entry("page", Off(P - 1)), Entry("next", Off(p + 1))>>
    BY <2>1, AfterOK
  <2>3. QED
    BY <2>1, <2>2 DEF P
<1>3. /\ run \in Seq(PageEntry) /\ Len(run) = 3
      /\ \A i \in 1..3 : run[i] = Item(Off(p), Off(i - 1))
  <2> DEFINE b == 2
             m == b - p + 1
  <2>1. b \in Int /\ p <= b + 1 /\ m = 3 /\ \A i \in 1..3 : p + i - 1 = i - 1
    OBVIOUS
  <2> HIDE DEF b
  <2>2. /\ Run(p, p, b) \in Seq(PageEntry) /\ Len(Run(p, p, b)) = m
        /\ \A i \in 1..m : Run(p, p, b)[i] = Item(Off(p), Off(p + i - 1))
    BY <2>1, RunOK
  <2> HIDE DEF m
  <2>3. QED
    BY <2>1, <2>2 DEF b
<1>4. e \in PageEntry /\ e = Entry("page", Off(4)) /\ d \in Seq(PageEntry)
  <2>1. Off(4) # Off(p)
    BY Factor
  <2>2. Item(Off(p), Off(4)) \in PageEntry
    BY ItemOK
  <2>3. QED
    BY <2>1, <2>2 DEF Item
<1>5. l = run \o d \o c
  <2>1. l = Before(4, p) \o RowEntries(items, Off(p)) \o c
    <3>1. Pages(items) > 1
      OBVIOUS
    <3>2. PageList(items, Off(p)) = Before(Pages(items), p)
            \o RowEntries(items, Off(p)) \o After(Pages(items), p)
      BY <3>1, ListParts
    <3> HIDE DEF Before
    <3>3. QED
      BY <3>2
  <2>2. RowEntries(items, Off(p)) = run \o d
    BY RowOfFour
  <2>3. RowEntries(items, Off(p)) \in Seq(PageEntry)
    BY ListParts
  <2> HIDE DEF run, c, d
  <2>4. QED
    BY <1>1, <2>1, <2>2, <2>3, ConcatEmptySeq
<1>6. /\ run \o d \o c \in Seq(PageEntry)
      /\ Len(run \o d \o c) = Len(run) + Len(d) + Len(c)
      /\ \A i \in 1..Len(run) : (run \o d \o c)[i] = run[i]
      /\ \A i \in (Len(run) + 1)..(Len(run) + Len(d)) :
           (run \o d \o c)[i] = d[i - Len(run)]
      /\ \A i \in (Len(run) + Len(d) + 1)..(Len(run) + Len(d) + Len(c)) :
           (run \o d \o c)[i] = c[i - (Len(run) + Len(d))]
  <2>1. run \in Seq(PageEntry) /\ d \in Seq(PageEntry) /\ c \in Seq(PageEntry)
    BY <1>2, <1>3, <1>4
  <2> HIDE DEF run, d, c
  <2>2. QED
    BY ONLY <2>1, ThreeLists
<1>7. Len(run) = 3 /\ Len(d) = 1 /\ Len(c) = 2 /\ d[1] = e
      /\ c[1] = Entry("page", Off(3)) /\ c[2] = Entry("next", Off(1))
  BY <1>2, <1>3
<1> HIDE DEF run, c, d, e
<1>8. /\ l \in Seq(PageEntry) /\ Len(l) = 6
      /\ \A i \in 1..3 : l[i] = run[i]
      /\ \A i \in 4..4 : l[i] = d[i - 3]
      /\ \A i \in 5..6 : l[i] = c[i - 4]
  <2>1. /\ \A i \in 1..3 : l[i] = run[i]
        /\ \A i \in (3 + 1)..(3 + 1) : l[i] = d[i - 3]
        /\ \A i \in (3 + 1 + 1)..(3 + 1 + 2) : l[i] = c[i - (3 + 1)]
        /\ l \in Seq(PageEntry) /\ Len(l) = 3 + 1 + 2
    BY ONLY <1>5, <1>6, <1>7
  <2>2. QED
    BY <2>1
<1>9. l[4] = d[1] /\ l[5] = c[1] /\ l[6] = c[2]
  <2>1. l[4] = d[4 - 3] /\ l[5] = c[5 - 4] /\ l[6] = c[6 - 4]
    BY <1>8
  <2>2. QED
    BY <2>1
<1>10. ASSUME NEW i \in 1..3
       PROVE  l[i].kind \in {"page", "active"} /\ l[i].to = Off(i - 1)
  <2> DEFINE k == i - 1
  <2>1. l[i] = Item(Off(p), Off(k)) /\ k \in Nat
    BY <1>3, <1>8
  <2> HIDE DEF k
  <2>2. l[i].kind \in {"page", "active"} /\ l[i].to = Off(k)
    BY <2>1, ItemOK
  <2>3. QED
    BY <2>2 DEF k
<1>11. QED
  BY <1>4, <1>7, <1>8, <1>9, <1>10

-----------------------------------------------------------------------------
(* The invariant.                                                          *)

\* What has been shown of the list, up to the page in view.
Counted(n) == [i \in 1..n |-> i]
Upto(items, from) ==
  IF items < from + ItemsPerPage THEN items ELSE from + ItemsPerPage

Typed ==
  /\ found \in [List -> Nat]
  /\ at \in List \cup {"start", "detail", "error"}
  /\ offset \in Offset /\ size \in Nat
  /\ unticked \in BOOLEAN /\ withdrawn \in BOOLEAN /\ whole \in BOOLEAN

\* The page in view, or the last one before the details, is that of its offset.
PageInv == links = PageList(size, offset) /\ shown = Shown(size, offset)

\* As long as the walk is whole, it stays within the results, which are still
\* the same, and has seen all of them up to the page in view.
WalkInv ==
  whole => /\ at \in List
           /\ offset = 0 \/ offset < size
           /\ size = Results(at, unticked)
           /\ seen = Counted(Upto(size, offset))

\* The inductive invariant.
RInv == Typed /\ PageInv /\ WalkInv

\* The slice of a page: at most ItemsPerPage results, all of the list.
LEMMA ShownOK ==
  ASSUME NEW items \in Nat, NEW from \in Nat
  PROVE  /\ \A x \in ToSet(Shown(items, from)) : x \in 1..items
         /\ Len(Shown(items, from)) <= ItemsPerPage
         /\ Shown(items, 0) = Counted(Upto(items, 0))
         /\ from < items =>
              Counted(from) \o Shown(items, from) = Counted(Upto(items, from))
<1> DEFINE to == IF from + ItemsPerPage > items THEN items ELSE from + ItemsPerPage
           n == AtLeastZero(to - from)
           s == Shown(items, from)
<1>1. s = [i \in 1..n |-> from + i]
  BY DEF Shown
<1>2. n \in Nat /\ n <= ItemsPerPage /\ (n # 0 => from + n <= items)
  BY ItemsAssumption DEF AtLeastZero
<1> HIDE DEF n
<1>3. s \in Seq(Nat) /\ Len(s) = n /\ \A i \in 1..n : s[i] = from + i
  BY <1>1, <1>2
<1>4. \A x \in ToSet(s) : x \in 1..items
  BY <1>1, <1>2 DEF ToSet
<1>5. Shown(items, 0) = Counted(Upto(items, 0))
  <2> DEFINE u == Upto(items, 0)
  <2>1. u \in Nat /\ AtLeastZero((IF 0 + ItemsPerPage > items THEN items
                                  ELSE 0 + ItemsPerPage) - 0) = u
    BY ItemsAssumption DEF Upto, AtLeastZero
  <2>2. Shown(items, 0) = [i \in 1..u |-> 0 + i]
    BY <2>1 DEF Shown
  <2> HIDE DEF u
  <2>3. [i \in 1..u |-> 0 + i] = [i \in 1..u |-> i]
    OBVIOUS
  <2>4. QED
    BY <2>2, <2>3 DEF Counted, u
<1>6. ASSUME from < items
      PROVE  Counted(from) \o s = Counted(Upto(items, from))
  <2> DEFINE a == Counted(from)
             b == Counted(Upto(items, from))
  <2>1. Upto(items, from) = from + n
    BY <1>6, ItemsAssumption DEF Upto, n, AtLeastZero
  <2>2. a \in Seq(Nat) /\ Len(a) = from /\ \A i \in 1..from : a[i] = i
    BY DEF Counted
  <2>3. b \in Seq(Nat) /\ Len(b) = from + n /\ \A i \in 1..(from + n) : b[i] = i
    <3> DEFINE k == from + n
    <3>1. k \in Nat
      BY <1>2
    <3> HIDE DEF k
    <3>2. Counted(k) \in Seq(Nat) /\ Len(Counted(k)) = k
          /\ \A i \in 1..k : Counted(k)[i] = i
      BY <3>1 DEF Counted
    <3>3. QED
      BY <2>1, <3>2 DEF k
  <2> HIDE DEF a, b, s
  <2>4. /\ a \o s \in Seq(Nat) /\ Len(a \o s) = from + n
        /\ \A i \in 1..(from + n) :
             (a \o s)[i] = IF i <= from THEN a[i] ELSE s[i - from]
    BY <1>3, <2>2, ConcatProperties
  <2>5. ASSUME NEW i \in 1..(from + n) PROVE (a \o s)[i] = b[i]
    <3>1. i <= from \/ i - from \in 1..n
      BY <1>2
    <3>2. QED
      BY <1>2, <1>3, <2>2, <2>3, <2>4, <3>1
  <2>6. a \o s = b
    BY <2>3, <2>4, <2>5, SeqEqual
  <2>7. QED
    BY <2>6 DEF a, b
<1>7. QED
  BY <1>2, <1>3, <1>4, <1>5, <1>6

\* Where "Volgende" leads, and that it is there until the end.
LEMMA NextOK ==
  ASSUME NEW items \in Nat, NEW p \in Nat, p = 0 \/ Off(p) < items,
         NEW l, l = PageList(items, Off(p))
  PROVE  /\ \A e \in ToSet(l) : e.kind = "next" =>
              e.to = Off(p) + ItemsPerPage /\ e.to < items
         /\ (\A e \in ToSet(l) : e.kind # "next") => items <= Off(p) + ItemsPerPage
<1> DEFINE P == Pages(items)
<1>1. P \in Nat /\ items <= Off(P) /\ Off(p + 1) = Off(p) + ItemsPerPage
  BY PagesOK, Beside
<1>2. ASSUME NEW k \in Int, P <= k PROVE items <= Off(k)
  BY <1>1, <1>2, Factor
<1> HIDE DEF P
<1>3. CASE P <= 1
  <2>1. l = <<>>
    BY <1>3 DEF P, PageList
  <2>2. P <= p + 1 /\ p + 1 \in Int
    BY <1>1, <1>3
  <2>3. items <= Off(p + 1)
    BY <1>2, <2>2
  <2>4. QED
    BY <1>1, <2>1, <2>3 DEF ToSet
<1>4. CASE P > 1 /\ ~(P = 4 /\ p = 0)
  <2>1. p < P
    BY <1>1, <1>4, HasResults DEF P
  <2>2. PICK nb, na \in {0, 2, 3}, lo, hi \in Nat : Shape(l, P, p, nb, na, lo, hi)
    <3>1. Pages(items) > 1 /\ p < Pages(items) /\ ~(Pages(items) = 4 /\ p = 0)
      BY <1>4, <2>1 DEF P
    <3>2. \E nb, na \in {0, 2, 3}, lo, hi \in Nat :
            Shape(PageList(items, Off(p)), Pages(items), p, nb, na, lo, hi)
      BY <3>1, ListShape
    <3>3. QED
      BY <3>2, Zenon DEF P
  <2>3. Entries(l, P, p, nb, na, lo, hi - lo + 1)
    <3>1. P \in Nat /\ P > 1 /\ p < P
      BY <1>1, <1>4, <2>1
    <3>2. QED
      BY <2>2, <3>1, EntriesOfShape, ZenonT(60)
  <2>4. /\ na = 0 <=> p = P - 1
        /\ na # 0 => l[Len(l)] = Entry("next", Off(p + 1))
    BY <2>2 DEF Shape
  <2>5. /\ Entry("prev", Off(p - 1)).kind = "prev"
        /\ Entry("page", Off(0)).kind = "page"
        /\ Entry("page", Off(P - 1)).kind = "page"
        /\ Entry("next", Off(p + 1)).kind = "next"
        /\ Entry("next", Off(p + 1)).to = Off(p + 1)
        /\ Dots.kind = "dots"
    BY DEF Entry, Dots
  <2>6. ASSUME NEW i \in DOMAIN l, l[i].kind = "next"
        PROVE  l[i].to = Off(p + 1) /\ na # 0
    <3>1. i \in 1..Len(l)
      BY <2>3 DEF Entries
    <3>2. QED
      BY <2>3, <2>5, <2>6, <3>1 DEF Entries
  <2>7. na # 0 => Off(p + 1) < items
    <3>1. na # 0 => p + 1 < P /\ p + 1 \in Int
      BY <1>1, <2>1, <2>4
    <3>2. QED
      BY <3>1, HasResults DEF P
  <2>8. na = 0 => items <= Off(p + 1)
    <3>1. na = 0 => P <= p + 1 /\ p + 1 \in Int
      BY <1>1, <2>4
    <3>2. QED
      BY <1>2, <3>1
  <2>9. na # 0 => \E e \in ToSet(l) : e.kind = "next"
    <3>1. na # 0 => Len(l) \in DOMAIN l
      BY <2>3 DEF Entries
    <3>2. QED
      BY <2>4, <2>5, <3>1 DEF ToSet
  <2>10. \A e \in ToSet(l) : e.kind = "next" => e.to = Off(p + 1) /\ na # 0
    BY <2>6 DEF ToSet
  <2>11. QED
    BY <1>1, <2>7, <2>8, <2>9, <2>10
<1>5. CASE P = 4 /\ p = 0
  <2>1. /\ l \in Seq(PageEntry) /\ Len(l) = 6
        /\ \A i \in 1..3 : l[i].kind \in {"page", "active"}
        /\ l[4] = Entry("page", Off(4)) /\ l[5] = Entry("page", Off(3))
        /\ l[6] = Entry("next", Off(1))
    BY <1>5, FourPages DEF P
  <2>2. \A k, o : Entry(k, o).kind = k /\ Entry(k, o).to = o
    BY DEF Entry
  <2>3. DOMAIN l = 1..6
    BY <2>1, LenProperties
  <2>4. \A i \in 1..6 : i \in 1..3 \/ i = 4 \/ i = 5 \/ i = 6
    OBVIOUS
  <2>5. Off(p + 1) = Off(1) /\ Off(1) < items
    <3>1. 1 < P /\ 1 \in Int /\ p + 1 = 1
      BY <1>5
    <3>2. QED
      BY <3>1, HasResults DEF P
  <2>6. \A i \in DOMAIN l : l[i].kind = "next" => l[i].to = Off(1)
    BY <2>1, <2>2, <2>3, <2>4
  <2>7. 6 \in DOMAIN l /\ l[6].kind = "next"
    BY <2>1, <2>2, <2>3
  <2>8. QED
    BY <1>1, <2>5, <2>6, <2>7 DEF ToSet
<1>6. QED
  BY <1>1, <1>3, <1>4, <1>5

-----------------------------------------------------------------------------
(* The steps.                                                              *)

\* A request makes the page of its offset.
LEMMA RenderOK ==
  ASSUME RInv, NEW k \in List, NEW o \in Offset, NEW none \in BOOLEAN,
         Render(k, o, none), whole' \in BOOLEAN
  PROVE  /\ Typed' /\ PageInv'
         /\ at' \in List /\ offset' = o
         /\ size' = Results(at, unticked)'
<1>1. /\ at' = k /\ offset' = o /\ unticked' = none /\ size' = Results(k, none)
      /\ shown' = Shown(size', o) /\ links' = PageList(size', o)
      /\ withdrawn' = FALSE /\ found' = found
  BY DEF Render
<1>2. found \in [List -> Nat]
  BY DEF RInv, Typed
<1>3. size' \in Nat
  BY <1>1, <1>2 DEF Results
<1>4. size' = Results(at, unticked)'
  BY <1>1 DEF Results
<1>5. Typed'
  BY <1>1, <1>2, <1>3 DEF Typed
<1>6. PageInv'
  BY <1>1 DEF PageInv
<1>7. QED
  BY <1>1, <1>4, <1>5, <1>6

\* A walk starts at the first page.
LEMMA StartOK ==
  ASSUME RInv, NEW k \in List, NEW none \in BOOLEAN, Render(k, 0, none), StartWalk
  PROVE  RInv'
<1>1. 0 \in Offset
  BY Zero DEF Offset
<1>2. whole' = TRUE /\ seen' = shown'
  BY DEF StartWalk
<1>3. /\ Typed' /\ PageInv' /\ at' \in List /\ offset' = 0
      /\ size' = Results(at, unticked)'
  BY <1>1, <1>2, RenderOK
<1>4. shown' = Counted(Upto(size', 0))
  BY <1>3, ShownOK DEF PageInv, Typed
<1>5. WalkInv'
  BY <1>2, <1>3, <1>4 DEF WalkInv
<1>6. QED
  BY <1>3, <1>5 DEF RInv

\* A request that is no part of a walk.
LEMMA AwayOK ==
  ASSUME RInv, NEW k \in List, NEW o \in Offset, NEW none \in BOOLEAN,
         Render(k, o, none), whole' = FALSE
  PROVE  RInv'
<1>1. Typed' /\ PageInv'
  BY RenderOK
<1>2. QED
  BY <1>1 DEF RInv, WalkInv

\* Following a link.
LEMMA FollowStep == ASSUME RInv, Follow PROVE RInv'
<1>1. PICK l \in ToSet(links) : /\ l.kind \in {"prev", "page", "next"}
                                /\ Render(at, l.to, unticked)
                                /\ GoOnWalk(l)
  BY DEF Follow
<1>2. /\ at \in List /\ unticked \in BOOLEAN /\ whole \in BOOLEAN
      /\ offset \in Offset /\ size \in Nat
      /\ links = PageList(size, offset)
  BY DEF Follow, RInv, Typed, PageInv
<1>3. l.to \in Offset
  <2>1. links \in Seq(PageEntry)
    BY <1>2, ListTyped
  <2>2. l \in PageEntry
    BY <2>1, LenProperties DEF ToSet
  <2>3. QED
    BY <2>2 DEF PageEntry
<1>4. CASE l.to = 0
  BY <1>1, <1>2, <1>4, StartOK DEF GoOnWalk
<1>5. CASE l.to # 0 /\ ~(whole /\ l.kind = "next")
  BY <1>1, <1>2, <1>3, <1>5, AwayOK DEF GoOnWalk
<1>6. CASE l.to # 0 /\ whole /\ l.kind = "next"
  <2>1. whole' = TRUE /\ seen' = seen \o shown'
    BY <1>1, <1>6 DEF GoOnWalk
  <2>2. /\ Typed' /\ PageInv' /\ at' \in List /\ offset' = l.to
        /\ size' = Results(at, unticked)'
    BY <1>1, <1>2, <1>3, <2>1, RenderOK
  <2>3. /\ offset = 0 \/ offset < size
        /\ size = Results(at, unticked)
        /\ seen = Counted(Upto(size, offset))
    BY <1>6 DEF RInv, WalkInv
  <2>4. l.to = offset + ItemsPerPage /\ l.to < size
    <3>1. PICK p \in Nat : offset = Off(p)
      BY <1>2 DEF Offset
    <3>2. p = 0 \/ Off(p) < size
      BY <2>3, <3>1, Zero
    <3>3. \A e \in ToSet(links) : e.kind = "next" =>
            e.to = Off(p) + ItemsPerPage /\ e.to < size
      BY <1>2, <3>1, <3>2, NextOK
    <3>4. QED
      BY <1>6, <3>1, <3>3
  <2>5. size' = size
    BY <1>1, <2>3 DEF Render
  <2>6. Upto(size, offset) = l.to
    BY <1>2, <1>3, <2>4, OffsetOK, ItemsAssumption DEF Upto
  <2>7. Counted(l.to) \o Shown(size, l.to) = Counted(Upto(size, l.to))
    BY <1>2, <1>3, <2>4, OffsetOK, ShownOK
  <2>8. shown' = Shown(size, l.to)
    BY <2>2, <2>5 DEF PageInv
  <2>9. seen' = Counted(Upto(size', offset'))
    BY <2>1, <2>2, <2>3, <2>5, <2>6, <2>7, <2>8
  <2>10. WalkInv'
    BY <2>2, <2>4, <2>5, <2>9 DEF WalkInv
  <2>11. QED
    BY <2>2, <2>10 DEF RInv
<1>7. QED
  BY <1>4, <1>5, <1>6

\* The details break off the walk.
LEMMA DetailStep == ASSUME RInv, Detail PROVE RInv'
<1>1. /\ at' \in {"detail", "error"} /\ withdrawn' = FALSE /\ whole' = FALSE
      /\ UNCHANGED <<found, offset, unticked, size, shown, links>>
  BY DEF Detail, NoWalk
<1>2. Typed'
  BY <1>1 DEF RInv, Typed
<1>3. PageInv'
  BY <1>1 DEF RInv, PageInv
<1>4. QED
  BY <1>1, <1>2, <1>3 DEF RInv, WalkInv

\* What is published or withdrawn at the server breaks it off too.
LEMMA ChangeStep == ASSUME RInv, Change PROVE RInv'
<1>1. PICK k \in List : \E n \in {found[k] - 1, found[k] + 1} :
        /\ n \in 0..MaxFound[k]
        /\ found' = [found EXCEPT ![k] = n]
        /\ withdrawn' = (withdrawn \/ (k = at /\ n < found[k]))
  BY DEF Change
<1>2. /\ whole' = FALSE /\ UNCHANGED <<at, offset, unticked, size, shown, links>>
  BY DEF Change, NoWalk
<1>3. PICK n \in {found[k] - 1, found[k] + 1} :
        /\ n \in 0..MaxFound[k]
        /\ found' = [found EXCEPT ![k] = n]
        /\ withdrawn' = (withdrawn \/ (k = at /\ n < found[k]))
  BY <1>1
<1>4. found' \in [List -> Nat] /\ withdrawn' \in BOOLEAN
  <2>1. n \in Nat
    BY <1>3, MaxAssumption
  <2>2. QED
    BY <1>3, <2>1 DEF RInv, Typed
<1>5. Typed'
  BY <1>2, <1>4 DEF RInv, Typed
<1>6. PageInv'
  BY <1>2 DEF RInv, PageInv
<1>7. QED
  BY <1>2, <1>5, <1>6 DEF RInv, WalkInv

\* Back from the details the offset is kept.
LEMMA DetailBackStep == ASSUME RInv, DetailBack PROVE RInv'
<1>1. /\ Render("list", offset, unticked) /\ "list" \in List
      /\ offset \in Offset /\ unticked \in BOOLEAN
  BY DEF DetailBack, RInv, Typed, List
<1>2. CASE offset = 0
  <2>1. Render("list", 0, unticked) /\ StartWalk
    BY <1>1, <1>2 DEF DetailBack
  <2>2. QED
    BY <1>1, <2>1, StartOK
<1>3. CASE offset # 0
  <2>1. whole' = FALSE
    BY <1>3 DEF DetailBack, NoWalk
  <2>2. QED
    BY <1>1, <2>1, AwayOK
<1>4. QED
  BY <1>2, <1>3

\* Nothing has been asked for yet.
LEMMA InitInv == Init => RInv
<1> SUFFICES ASSUME Init PROVE RInv
  OBVIOUS
<1>1. /\ found \in [List -> UNION {0..MaxFound[k] : k \in List}]
      /\ at = "start" /\ offset = 0 /\ unticked = FALSE /\ size = 0
      /\ shown = <<>> /\ links = <<>> /\ withdrawn = FALSE /\ whole = FALSE
  BY DEF Init
<1>2. found \in [List -> Nat]
  <2>1. ASSUME NEW n \in UNION {0..MaxFound[k] : k \in List} PROVE n \in Nat
    BY MaxAssumption
  <2>2. QED
    BY <1>1, <2>1
<1>3. Typed
  <2>1. 0 \in Offset
    BY Zero DEF Offset
  <2>2. QED
    BY <1>1, <1>2, <2>1 DEF Typed
<1>4. PageList(0, 0) = <<>>
  <2>1. Pages(0) \in Nat /\ Off(Pages(0) - 1) < 0
    BY PagesOK
  <2>2. Pages(0) <= 0
    <3> DEFINE q == Pages(0) - 1
    <3>1. q \in Int /\ Off(q) < 0
      BY <2>1
    <3> HIDE DEF q
    <3>2. Off(q) \in Int /\ (q >= 0 <=> Off(q) >= 0)
      BY <3>1, Factor, Zero
    <3>3. ~(q >= 0)
      BY <3>1, <3>2
    <3>4. QED
      BY <2>1, <3>3 DEF q
  <2>3. QED
    BY <2>1, <2>2 DEF PageList
<1>5. Shown(0, 0) = <<>>
  BY ItemsAssumption DEF Shown, AtLeastZero
<1>6. PageInv
  BY <1>1, <1>4, <1>5 DEF PageInv
<1>7. QED
  BY <1>1, <1>3, <1>6 DEF RInv, WalkInv

\* Every step keeps the invariant.
LEMMA StepInv == RInv /\ [Next]_vars => RInv'
<1> SUFFICES ASSUME RInv, [Next]_vars PROVE RInv'
  OBVIOUS
<1>1. CASE Search
  <2>1. Render("list", 0, FALSE) /\ StartWalk /\ "list" \in List
    BY <1>1 DEF Search, List
  <2>2. QED
    BY <2>1, StartOK
<1>2. CASE FilterForm
  <2>1. PICK none \in BOOLEAN : Render("list", 0, none)
    BY <1>2 DEF FilterForm
  <2>2. StartWalk /\ "list" \in List
    BY <1>2 DEF FilterForm, List
  <2>3. QED
    BY <2>1, <2>2, StartOK
<1>3. CASE Follow
  BY <1>3, FollowStep
<1>4. CASE ToVlak
  <2>1. Render("vlak", 0, unticked) /\ StartWalk /\ "vlak" \in List
        /\ unticked \in BOOLEAN
    BY <1>4 DEF ToVlak, List, RInv, Typed
  <2>2. QED
    BY <2>1, StartOK
<1>5. CASE VlakBack
  <2>1. Render("list", 0, unticked) /\ StartWalk /\ "list" \in List
        /\ unticked \in BOOLEAN
    BY <1>5 DEF VlakBack, List, RInv, Typed
  <2>2. QED
    BY <2>1, StartOK
<1>6. CASE Detail
  BY <1>6, DetailStep
<1>7. CASE DetailBack
  BY <1>7, DetailBackStep
<1>8. CASE Change
  BY <1>8, ChangeStep
<1>9. CASE UNCHANGED vars
  BY <1>9 DEF vars, RInv, Typed, PageInv, WalkInv, Results
<1>10. QED
  BY <1>1, <1>2, <1>3, <1>4, <1>5, <1>6, <1>7, <1>8, <1>9 DEF Next

\* The invariant holds in every reachable state: the page in view is always
\* that of its offset, and a whole walk has seen all up to it.
THEOREM Invariant == Spec => []RInv
<1>1. QED
  BY InitInv, StepInv, PTL DEF Spec

-----------------------------------------------------------------------------
(* The properties.                                                         *)

\* Every offset is the start of a page, and every result shown is one of the
\* list, whatever was published or withdrawn on the way.
THEOREM TypeCorrect == Spec => []TypeOK
<1>1. RInv => TypeOK
  <2> SUFFICES ASSUME RInv PROVE TypeOK
    OBVIOUS
  <2>1. /\ Typed /\ links = PageList(size, offset) /\ shown = Shown(size, offset)
    BY DEF RInv, PageInv
  <2>2. offset \in Nat /\ offset % ItemsPerPage = 0
    BY <2>1, OffsetOK DEF Typed
  <2>3. Len(shown) <= ItemsPerPage /\ ToSet(shown) \subseteq 1..size
    BY <2>1, <2>2, ShownOK DEF Typed
  <2>4. ASSUME NEW l \in ToSet(links) PROVE l.to \in Nat /\ l.to % ItemsPerPage = 0
    <3>1. links \in Seq(PageEntry)
      BY <2>1, ListTyped DEF Typed
    <3>2. l \in PageEntry
      BY <3>1, LenProperties DEF ToSet
    <3>3. l.to \in Offset
      BY <3>2 DEF PageEntry
    <3>4. QED
      BY <3>3, OffsetOK
  <2>5. QED
    BY <2>1, <2>2, <2>3, <2>4 DEF TypeOK, Typed
<1>2. QED
  BY <1>1, Invariant, PTL

\* Who follows "Volgende" from the first page until there is none has seen
\* every result once, in order, however many there are.
THEOREM WalkAlwaysSeesAll == Spec => []WalkSeesAll
<1>1. RInv => WalkSeesAll
  <2> SUFFICES ASSUME RInv, whole, at \in List,
                      \A l \in ToSet(links) : l.kind # "next"
               PROVE  seen = [i \in 1..size |-> i]
    BY DEF WalkSeesAll
  <2>1. /\ offset = 0 \/ offset < size
        /\ seen = Counted(Upto(size, offset))
        /\ links = PageList(size, offset) /\ offset \in Offset /\ size \in Nat
    BY DEF RInv, WalkInv, PageInv, Typed
  <2>2. PICK p \in Nat : offset = Off(p)
    BY <2>1 DEF Offset
  <2>3. p = 0 \/ Off(p) < size
    BY <2>1, <2>2, Zero
  <2>4. size <= offset + ItemsPerPage
    BY <2>1, <2>2, <2>3, NextOK
  <2>5. Upto(size, offset) = size
    BY <2>1, <2>4, OffsetOK, ItemsAssumption DEF Upto
  <2>6. QED
    BY <2>1, <2>5 DEF Counted
<1>2. QED
  BY <1>1, Invariant, PTL

\* The list of pages has at most seven numbers, no page twice, and the two
\* pages on either side, on every page of every list.
THEOREM SevenAlwaysAround == Spec => []SevenNumbersAround
<1>1. RInv => SevenNumbersAround
  <2> SUFFICES ASSUME RInv, offset < size PROVE SevenNumbersAround
    BY DEF SevenNumbersAround
  <2>1. links = PageList(size, offset) /\ offset \in Offset /\ size \in Nat
    BY DEF RInv, PageInv, Typed
  <2>2. PICK p \in Nat : offset = Off(p)
    BY <2>1 DEF Offset
  <2> DEFINE P == Pages(size)
             Once == /\ Cardinality(Numbers) <= 7
                     /\ \A i, j \in Numbers : links[i].to = links[j].to => i = j
             Near(k) == \E i \in Numbers : links[i].to = Off(k)
  <2>3. P \in Nat /\ p < P
    BY <2>1, <2>2, PagesOK, HasResults
  <2>4. ASSUME NEW d \in -2..2, offset + d * ItemsPerPage \in 0..(size - 1)
        PROVE  /\ p + d \in 0..(P - 1)
               /\ offset + d * ItemsPerPage = Off(p + d)
    <3> DEFINE k == p + d
    <3>1. k \in Int /\ Off(k) = offset + d * ItemsPerPage
      BY <2>2, ItemsAssumption DEF Off
    <3> HIDE DEF k
    <3>2. k >= 0 /\ k < P
      <4>1. Off(k) >= 0 /\ Off(k) < size
        BY <2>1, <2>4, <3>1
      <4>2. QED
        BY <2>1, <3>1, <4>1, Zero, HasResults
    <3>3. QED
      BY <2>3, <3>1, <3>2 DEF k
  <2>5. CASE P <= 1
    <3>1. links = <<>>
      BY <2>1, <2>5 DEF PageList
    <3>2. Numbers = {}
      BY <3>1 DEF Numbers
    <3>3. Cardinality(Numbers) = 0
      BY <3>2, FS_EmptySet
    <3>4. QED
      BY <2>3, <2>5, <3>2, <3>3 DEF SevenNumbersAround
  <2>6. CASE P > 1 /\ ~(P = 4 /\ p = 0)
    <3>1. PICK nb, na \in {0, 2, 3}, lo, hi \in Nat :
            Shape(links, P, p, nb, na, lo, hi)
      <4>1. \E nb, na \in {0, 2, 3}, lo, hi \in Nat :
              Shape(PageList(size, Off(p)), Pages(size), p, nb, na, lo, hi)
        BY <2>1, <2>3, <2>6, ListShape
      <4>2. QED
        BY <2>1, <2>2, <4>1
    <3> HIDE DEF P
    <3>2. Once /\ \A k \in 0..(P - 1) : p - 2 <= k /\ k <= p + 2 => Near(k)
      BY <2>3, <2>6, <3>1, NumbersAreAround
    <3>3. ASSUME NEW d \in -2..2, offset + d * ItemsPerPage \in 0..(size - 1)
          PROVE  \E i \in Numbers : links[i].to = offset + d * ItemsPerPage
      <4>1. p - 2 <= p + d /\ p + d <= p + 2
        OBVIOUS
      <4>2. Near(p + d)
        BY <2>4, <3>2, <3>3, <4>1
      <4>3. QED
        BY <2>4, <3>3, <4>2
    <3>4. QED
      BY <3>2, <3>3 DEF SevenNumbersAround
  <2>7. CASE P = 4 /\ p = 0
    <3>1. /\ links \in Seq(PageEntry) /\ Len(links) = 6
          /\ \A i \in 1..3 : links[i].kind \in {"page", "active"}
                             /\ links[i].to = Off(i - 1)
          /\ links[4] = Entry("page", Off(4)) /\ links[5] = Entry("page", Off(3))
          /\ links[6] = Entry("next", Off(1))
      BY <2>1, <2>2, <2>7, FourPages
    <3>2. \A k, o : Entry(k, o).kind = k /\ Entry(k, o).to = o
      BY DEF Entry
    <3>3. DOMAIN links = 1..6
      BY <3>1, LenProperties
    <3> DEFINE At(i) == IF i \in 1..3 THEN i - 1 ELSE IF i = 4 THEN 4 ELSE 3
    <3>4. Numbers = 1..5
      <4>1. ASSUME NEW i \in 1..6
            PROVE  links[i].kind \in {"page", "active"} <=> i \in 1..5
        <5>1. i \in 1..3 \/ i = 4 \/ i = 5 \/ i = 6
          OBVIOUS
        <5>2. QED
          BY <3>1, <3>2, <5>1
      <4>2. QED
        BY <3>3, <4>1 DEF Numbers
    <3>5. ASSUME NEW i \in 1..5
          PROVE  At(i) \in Nat /\ links[i].to = Off(At(i))
      <4>1. i \in 1..3 \/ i = 4 \/ i = 5
        OBVIOUS
      <4>2. QED
        BY <3>1, <3>2, <4>1
    <3>6. ASSUME NEW i \in 1..5, NEW j \in 1..5, links[i].to = links[j].to
          PROVE  i = j
      <4>1. At(i) = At(j)
        <5> HIDE DEF At
        <5>1. QED
          BY <3>5, <3>6, Factor
      <4>2. QED
        BY <4>1
    <3>7. Cardinality(Numbers) <= 7
      <4>1. 1 \in Int /\ 5 \in Int
        OBVIOUS
      <4>2. Cardinality(1..5) = IF 1 > 5 THEN 0 ELSE 5 - 1 + 1
        BY ONLY <4>1, FS_Interval
      <4>3. QED
        BY <3>4, <4>2
    <3>8. ASSUME NEW d \in -2..2, offset + d * ItemsPerPage \in 0..(size - 1)
          PROVE  \E i \in Numbers : links[i].to = offset + d * ItemsPerPage
      <4> DEFINE k == p + d
      <4>1. k \in 0..2 /\ offset + d * ItemsPerPage = Off(k)
        BY <2>4, <2>7, <3>8
      <4> HIDE DEF k
      <4>2. k + 1 \in 1..3 /\ k + 1 \in 1..5 /\ (k + 1) - 1 = k
        BY <4>1
      <4>3. links[k + 1].to = Off(k)
        BY <3>1, <4>2
      <4>4. QED
        BY <3>4, <4>1, <4>2, <4>3
    <3>9. QED
      BY <3>4, <3>6, <3>7, <3>8 DEF SevenNumbersAround
  <2>8. QED
    BY <2>3, <2>5, <2>6, <2>7
<1>2. QED
  BY <1>1, Invariant, PTL

\* The numbers rise from the first page to the last, and no link goes beyond it,
\* on every page of every list, but for the first of four pages.
THEOREM OnlyFourEverWrong == Spec => []OnlyFourPagesWrong
<1>1. RInv => OnlyFourPagesWrong
  <2> SUFFICES ASSUME RInv, offset < size, ~(Pages(size) = 4 /\ offset = 0)
               PROVE  InOrder
    BY DEF OnlyFourPagesWrong
  <2>1. links = PageList(size, offset) /\ offset \in Offset /\ size \in Nat
    BY DEF RInv, PageInv, Typed
  <2>2. PICK p \in Nat : offset = Off(p)
    BY <2>1 DEF Offset
  <2> DEFINE P == Pages(size)
  <2>3. P \in Nat /\ p < P /\ ~(P = 4 /\ p = 0)
    BY <2>1, <2>2, PagesOK, HasResults, Zero
  <2>4. CASE P <= 1
    <3>1. links = <<>>
      BY <2>1, <2>4 DEF PageList
    <3>2. QED
      BY <2>3, <2>4, <3>1 DEF InOrder, Numbers
  <2>5. CASE P > 1
    <3>1. PICK nb, na \in {0, 2, 3}, lo, hi \in Nat :
            Shape(links, P, p, nb, na, lo, hi)
      <4>1. \E nb, na \in {0, 2, 3}, lo, hi \in Nat :
              Shape(PageList(size, Off(p)), Pages(size), p, nb, na, lo, hi)
        BY <2>1, <2>3, <2>5, ListShape
      <4>2. QED
        BY <2>1, <2>2, <4>1
    <3>2. QED
      BY <2>1, <2>3, <2>5, <3>1, NumbersAreInOrder
  <2>6. QED
    BY <2>3, <2>4, <2>5
<1>2. QED
  BY <1>1, Invariant, PTL

=============================================================================
