--------------------------- MODULE Markers_proofs ---------------------------
(***************************************************************************)
(* For every legend, every set of areas with any numbers, and every        *)
(* cluster: sums and markers are what the legend asks for, and the anchors *)
(* in the page show them, after any clicks, moves, answers and failures.   *)
(***************************************************************************)
EXTENDS Markers, FiniteSetTheorems, SequenceTheorems, WellFoundedInduction,
        TLAPS

-----------------------------------------------------------------------------
(* Recursion over the themes.                                              *)

\* The themes have a length, a place each, and no theme has two.
LEMMA ThemeFacts ==
  /\ Len(Theme) \in Nat
  /\ \A n \in 1..Len(Theme) : Theme[n] \in Class
  /\ \A m, n \in 1..Len(Theme) : Theme[m] = Theme[n] => m = n
  /\ \A c \in Class : \E n \in 1..Len(Theme) : Theme[n] = c
<1>1. Theme \in Seq(Class) /\ IsInjective(Theme)
  BY LegendAssumption
<1>2. Len(Theme) \in Nat /\ DOMAIN Theme = 1..Len(Theme)
  BY <1>1, LenProperties
<1>3. \A n \in 1..Len(Theme) : Theme[n] \in Class
  BY <1>1, ElementOfSeq
<1>4. \A m, n \in 1..Len(Theme) : Theme[m] = Theme[n] => m = n
  BY <1>1, <1>2 DEF IsInjective
<1>5. \A c \in Class : \E n \in 1..Len(Theme) : Theme[n] = c
  BY <1>2 DEF Class, ToSet
<1>6. QED
  BY <1>2, <1>3, <1>4, <1>5

\* What holds at first and survives every step up to the last holds throughout.
LEMMA UpTo ==
  ASSUME NEW last \in Nat, NEW T,
         0 \in T, \A n \in 1..last : n - 1 \in T => n \in T
  PROVE  \A n \in 0..last : n \in T
<1> DEFINE Bad == {n \in 0..last : n \notin T}
<1>1. SUFFICES ASSUME Bad # {} PROVE FALSE
  OBVIOUS
<1>2. Bad \in SUBSET Nat
  OBVIOUS
<1>3. PICK n \in Bad : \A m \in Bad : ~ (<<m, n>> \in OpToRel(<, Nat))
  BY <1>1, <1>2, NatLessThanWellFounded, WFMin
<1>4. n \in 1..last /\ n - 1 \in 0..last
  <2>1. n \in 0..last /\ n \notin T
    OBVIOUS
  <2>2. n # 0
    BY <2>1
  <2>3. QED
    BY ONLY <2>1, <2>2, last \in Nat
<1>5. n - 1 \in Bad
  BY <1>3, <1>4
<1>6. <<n - 1, n>> \in OpToRel(<, Nat)
  BY <1>4 DEF OpToRel
<1>7. QED
  BY <1>3, <1>5, <1>6

\* A recursion from 0 to last has an outcome.
LEMMA Recursion ==
  ASSUME NEW S, NEW base \in S, NEW last \in Nat,
         NEW step \in [1..last -> [S -> S]]
  PROVE  \E f \in [0..last -> S] :
           f[0] = base /\ \A n \in 1..last : f[n] = step[n][f[n - 1]]
<1> DEFINE Good(k) == \E f \in [0..k -> S] :
                        f[0] = base /\ \A n \in 1..k : f[n] = step[n][f[n - 1]]
           T == {k \in 0..last : Good(k)}
<1>1. 0 \in T
  <2> DEFINE f == [n \in 0..0 |-> base]
  <2>1. f \in [0..0 -> S] /\ f[0] = base /\ 1..0 = {}
    OBVIOUS
  <2>2. Good(0)
    BY <2>1
  <2>3. QED
    BY <2>2
<1>2. ASSUME NEW k \in 1..last, k - 1 \in T PROVE k \in T
  <2>1. PICK g \in [0..(k - 1) -> S] :
          g[0] = base /\ \A n \in 1..(k - 1) : g[n] = step[n][g[n - 1]]
    BY <1>2
  <2> DEFINE f == [n \in 0..k |-> IF n = k THEN step[k][g[k - 1]] ELSE g[n]]
  <2>2. step[k][g[k - 1]] \in S
    <3>1. k - 1 \in 0..(k - 1)
      OBVIOUS
    <3>2. QED
      BY <3>1
  <2>3. \A n \in 0..(k - 1) : n \in 0..k /\ n # k /\ f[n] = g[n]
    OBVIOUS
  <2>4. f[k] = step[k][g[k - 1]] /\ k \in 0..k
    OBVIOUS
  <2>5. ASSUME NEW n \in 0..k PROVE n = k \/ n \in 0..(k - 1)
    OBVIOUS
  <2>6. f \in [0..k -> S]
    <3>1. ASSUME NEW n \in 0..k PROVE f[n] \in S
      BY <2>2, <2>3, <2>4, <2>5
    <3>2. f = [n \in 0..k |-> f[n]]
      OBVIOUS
    <3> HIDE DEF f
    <3>3. QED
      BY <3>1, <3>2
  <2> HIDE DEF f
  <2>7. f[0] = base
    <3>1. 0 \in 0..(k - 1)
      OBVIOUS
    <3>2. QED
      BY <2>1, <2>3, <3>1
  <2>8. ASSUME NEW n \in 1..k PROVE f[n] = step[n][f[n - 1]]
    <3>1. n - 1 \in 0..(k - 1) /\ (n = k \/ n \in 1..(k - 1))
      OBVIOUS
    <3>2. n # k => n \in 0..(k - 1)
      BY <3>1
    <3>3. QED
      BY <2>1, <2>3, <2>4, <3>1, <3>2
  <2>9. Good(k)
    BY <2>6, <2>7, <2>8
  <2>10. k \in 0..last
    OBVIOUS
  <2> HIDE DEF Good
  <2>11. QED
    BY <2>9, <2>10
<1>3. last \in T
  <2> HIDE DEF T
  <2>1. \A k \in 1..last : k - 1 \in T => k \in T
    BY <1>2
  <2>2. \A k \in 0..last : k \in T
    BY <1>1, <2>1, UpTo
  <2>3. QED
    BY <2>2
<1>4. QED
  BY <1>3

-----------------------------------------------------------------------------
(* The sums of an area.                                                    *)

\* Sums is what its recursion says.
LEMMA SumsEquation ==
  ASSUME NEW a \in Area, NEW cs
  PROVE  /\ Sums(a, cs) \in [0..Len(Theme) -> Nat]
         /\ Sums(a, cs)[0] = 0
         /\ \A n \in 1..Len(Theme) :
              Sums(a, cs)[n] = IF Theme[n] \in cs /\ Present(a, Theme[n])
                                 THEN Sums(a, cs)[n - 1] + Amount[a][Theme[n]]
                                 ELSE Sums(a, cs)[n - 1]
<1> DEFINE last == Len(Theme)
           Add(n, x) == IF Theme[n] \in cs /\ Present(a, Theme[n])
                           THEN x + Amount[a][Theme[n]] ELSE x
           step == [n \in 1..last |-> [x \in Nat |-> Add(n, x)]]
           sum == CHOOSE f : f = [n \in 0..Len(Theme) |->
                    IF n = 0 THEN 0
                    ELSE IF Theme[n] \in cs /\ Present(a, Theme[n])
                           THEN f[n - 1] + Amount[a][Theme[n]]
                           ELSE f[n - 1]]
<1>1. Sums(a, cs) = sum
  BY DEF Sums
<1>2. last \in Nat
  BY ThemeFacts
<1>3. ASSUME NEW n \in 1..last, NEW x \in Nat PROVE Add(n, x) \in Nat
  <2>1. Theme[n] \in Class
    BY ThemeFacts
  <2>2. Present(a, Theme[n]) => Amount[a][Theme[n]] \in Nat
    BY <2>1, ServerAssumption DEF Present
  <2>3. QED
    BY <2>2
<1>4. step \in [1..last -> [Nat -> Nat]]
  <2> HIDE DEF Add
  <2>1. QED
    BY <1>3
<1>5. PICK f \in [0..last -> Nat] :
        f[0] = 0 /\ \A n \in 1..last : f[n] = step[n][f[n - 1]]
  <2> DEFINE S == Nat
             base == 0
  <2>1. S = Nat /\ base = 0
    OBVIOUS
  <2>2. base \in S /\ last \in Nat /\ step \in [1..last -> [S -> S]]
    BY <1>2, <1>4
  <2> HIDE DEF step, last, S, base
  <2>3. \E f \in [0..last -> S] :
          f[0] = base /\ \A n \in 1..last : f[n] = step[n][f[n - 1]]
    BY <2>2, Recursion
  <2>4. QED
    BY <2>1, <2>3
<1>6. ASSUME NEW n \in 1..last
      PROVE  step[n][f[n - 1]] = Add(n, f[n - 1])
  <2>1. n - 1 \in 0..last
    OBVIOUS
  <2>2. f[n - 1] \in Nat
    BY <2>1
  <2> HIDE DEF Add
  <2>3. QED
    BY <2>2
<1>7. ASSUME NEW n \in 0..last
      PROVE  f[n] = IF n = 0 THEN 0 ELSE Add(n, f[n - 1])
  <2>1. n = 0 \/ n \in 1..last
    OBVIOUS
  <2> HIDE DEF step, Add
  <2>2. QED
    BY <1>5, <1>6, <2>1
<1>8. f = [n \in 0..last |-> IF n = 0 THEN 0 ELSE Add(n, f[n - 1])]
  <2> HIDE DEF Add
  <2>1. f = [n \in 0..last |-> f[n]]
    OBVIOUS
  <2>2. QED
    BY <1>7, <2>1
<1>9. sum = [n \in 0..last |-> IF n = 0 THEN 0 ELSE Add(n, sum[n - 1])]
  BY <1>8
<1> HIDE DEF sum
<1>10. /\ sum[0] = 0
       /\ \A n \in 1..last : sum[n] = Add(n, sum[n - 1])
  <2> HIDE DEF Add
  <2>1. 0 \in 0..last /\ \A n \in 1..last : n \in 0..last /\ n # 0
    BY <1>2
  <2>2. QED
    BY <1>9, <2>1
<1>11. \A n \in 0..last : sum[n] \in Nat
  <2> DEFINE T == {n \in 0..last : sum[n] \in Nat}
  <2>1. 0 \in T
    BY <1>2, <1>10
  <2>2. ASSUME NEW n \in 1..last, n - 1 \in T PROVE n \in T
    <3>1. sum[n] = Add(n, sum[n - 1]) /\ sum[n - 1] \in Nat /\ n \in 0..last
      BY <1>10, <2>2
    <3> HIDE DEF Add
    <3>2. QED
      BY <1>3, <3>1
  <2> HIDE DEF T
  <2>3. \A n \in 0..last : n \in T
    BY <1>2, <2>1, <2>2, UpTo
  <2>4. QED
    BY <2>3 DEF T
<1>12. sum \in [0..last -> Nat]
  <2> HIDE DEF Add
  <2>1. QED
    BY <1>9, <1>11
<1>13. QED
  BY <1>1, <1>10, <1>12

\* The sum of a set and of the other themes make the sum of all.
LEMMA SumOfParts ==
  ASSUME NEW a \in Area, NEW on \in SUBSET Class
  PROVE  \A n \in 0..Len(Theme) :
           Sums(a, Class)[n] = Sums(a, on)[n] + Sums(a, Class \ on)[n]
<1> DEFINE f == Sums(a, Class)
           g == Sums(a, on)
           h == Sums(a, Class \ on)
           T == {n \in 0..Len(Theme) : f[n] = g[n] + h[n]}
<1>1. Len(Theme) \in Nat /\ \A n \in 1..Len(Theme) : Theme[n] \in Class
  BY ThemeFacts
<1>2. \A n \in 0..Len(Theme) : f[n] \in Nat /\ g[n] \in Nat /\ h[n] \in Nat
  BY SumsEquation
<1>3. 0 \in T
  BY <1>1, SumsEquation
<1>4. ASSUME NEW n \in 1..Len(Theme), n - 1 \in T PROVE n \in T
  <2>1. n \in 0..Len(Theme) /\ n - 1 \in 0..Len(Theme) /\ f[n - 1] = g[n - 1] + h[n - 1]
    BY <1>4
  <2>2. Theme[n] \in Class
    BY <1>1
  <2>3. Present(a, Theme[n]) => Amount[a][Theme[n]] \in Nat
    BY <2>2, ServerAssumption DEF Present
  <2>4. /\ f[n] = IF Present(a, Theme[n]) THEN f[n - 1] + Amount[a][Theme[n]] ELSE f[n - 1]
        /\ g[n] = IF Theme[n] \in on /\ Present(a, Theme[n])
                    THEN g[n - 1] + Amount[a][Theme[n]] ELSE g[n - 1]
        /\ h[n] = IF Theme[n] \notin on /\ Present(a, Theme[n])
                    THEN h[n - 1] + Amount[a][Theme[n]] ELSE h[n - 1]
    BY <2>2, SumsEquation
  <2> HIDE DEF f, g, h
  <2>5. f[n] = g[n] + h[n]
    BY <1>2, <2>1, <2>3, <2>4
  <2>6. QED
    BY <2>1, <2>5
<1>5. \A n \in 0..Len(Theme) : n \in T
  <2> HIDE DEF T
  <2>1. QED
    BY <1>1, <1>3, <1>4, UpTo
<1>6. QED
  BY <1>5

\* One theme more adds its number, if there is one.
LEMMA SumOfOneMore ==
  ASSUME NEW a \in Area, NEW on \in SUBSET Class, NEW c \in Class, c \notin on
  PROVE  Sum(a, on \cup {c}) =
           IF Present(a, c) THEN Sum(a, on) + Amount[a][c] ELSE Sum(a, on)
<1> DEFINE f == Sums(a, on \cup {c})
           g == Sums(a, on)
           d == IF Present(a, c) THEN Amount[a][c] ELSE 0
<1>1. Len(Theme) \in Nat /\ \A n \in 1..Len(Theme) : Theme[n] \in Class
  BY ThemeFacts
<1>2. PICK k \in 1..Len(Theme) : Theme[k] = c
  BY ThemeFacts
<1>3. \A n \in 1..Len(Theme) : Theme[n] = c => n = k
  BY <1>2, ThemeFacts
<1>4. d \in Nat
  BY ServerAssumption DEF Present
<1>5. \A n \in 0..Len(Theme) : f[n] \in Nat /\ g[n] \in Nat
  BY SumsEquation
<1> DEFINE T == {n \in 0..Len(Theme) : f[n] = IF k <= n THEN g[n] + d ELSE g[n]}
<1>6. 0 \in T
  BY <1>1, <1>2, SumsEquation
<1>7. ASSUME NEW n \in 1..Len(Theme), n - 1 \in T PROVE n \in T
  <2>1. /\ n \in 0..Len(Theme) /\ n - 1 \in 0..Len(Theme)
        /\ f[n - 1] = IF k <= n - 1 THEN g[n - 1] + d ELSE g[n - 1]
    BY <1>7
  <2>2. Theme[n] \in Class
    BY <1>1
  <2>3. Present(a, Theme[n]) => Amount[a][Theme[n]] \in Nat
    BY <2>2, ServerAssumption DEF Present
  <2>4. /\ f[n] = IF Theme[n] \in on \cup {c} /\ Present(a, Theme[n])
                    THEN f[n - 1] + Amount[a][Theme[n]] ELSE f[n - 1]
        /\ g[n] = IF Theme[n] \in on /\ Present(a, Theme[n])
                    THEN g[n - 1] + Amount[a][Theme[n]] ELSE g[n - 1]
    BY SumsEquation
  <2>5. CASE n = k
    <3>1. d = IF Present(a, Theme[n]) THEN Amount[a][Theme[n]] ELSE 0
      BY <1>2, <2>5
    <3>2. ~(k <= n - 1) /\ k <= n /\ Theme[n] \notin on /\ Theme[n] \in on \cup {c}
      BY <1>2, <2>5
    <3> HIDE DEF f, g, d
    <3>3. f[n] = g[n] + d
      BY <1>5, <2>1, <2>3, <2>4, <3>1, <3>2
    <3>4. QED
      BY <2>1, <3>2, <3>3
  <2>6. CASE n # k
    <3>1. Theme[n] \in on \cup {c} <=> Theme[n] \in on
      BY <1>3, <2>6
    <3>2. k <= n - 1 <=> k <= n
      BY <2>6
    <3> HIDE DEF f, g, d
    <3>3. f[n] = IF k <= n THEN g[n] + d ELSE g[n]
      BY <1>4, <1>5, <2>1, <2>3, <2>4, <3>1, <3>2
    <3>4. QED
      BY <2>1, <3>3
  <2>7. QED
    BY <2>5, <2>6
<1>8. \A n \in 0..Len(Theme) : n \in T
  <2> HIDE DEF T
  <2>1. QED
    BY <1>1, <1>6, <1>7, UpTo
<1>9. Len(Theme) \in 0..Len(Theme) /\ k <= Len(Theme)
  BY <1>1
<1>10. f[Len(Theme)] = g[Len(Theme)] + d
  BY <1>8, <1>9
<1>11. g[Len(Theme)] \in Nat
  BY <1>5, <1>9
<1> HIDE DEF f, g
<1>12. f[Len(Theme)] = IF Present(a, c) THEN g[Len(Theme)] + Amount[a][c] ELSE g[Len(Theme)]
  BY <1>10, <1>11
<1>13. QED
  BY <1>12 DEF f, g, Sum

-----------------------------------------------------------------------------
(* An area that arrives.                                                   *)

LegendOK == legend \in [Class -> BOOLEAN]
On == {c \in Class : legend[c]}

\* An area while its themes are gone through.
Counted == [count : Int, styled : BOOLEAN]

\* A theme that is switched changes the count by its number, and zero is the
\* only count that is hidden.
LEMMA UpdateOK ==
  ASSUME NEW a \in Area, NEW f \in Counted, f.styled => f.count = 0,
         NEW c \in Class, NEW visible \in BOOLEAN, NEW only \in BOOLEAN
  PROVE  /\ Update(a, f, c, visible, only) \in Counted
         /\ Update(a, f, c, visible, only).count =
              IF ~Present(a, c) THEN f.count
              ELSE IF visible THEN IF only THEN f.count ELSE f.count + Amount[a][c]
                              ELSE f.count - Amount[a][c]
         /\ Update(a, f, c, visible, only).styled =>
              Update(a, f, c, visible, only).count = 0
<1>1. f.count \in Int /\ f.styled \in BOOLEAN
  BY DEF Counted
<1>2. CASE ~Present(a, c)
  BY <1>1, <1>2 DEF Update
<1>3. CASE Present(a, c)
  <2> DEFINE n == NewCount(a, f.count, c, visible, only)
  <2>1. Amount[a][c] \in Nat
    BY <1>3, ServerAssumption DEF Present
  <2>2. n = IF visible THEN IF only THEN f.count ELSE f.count + Amount[a][c]
                       ELSE f.count - Amount[a][c]
    BY DEF NewCount
  <2>3. n \in Int
    BY <1>1, <2>1, <2>2
  <2>4. Update(a, f, c, visible, only) = [count |-> n, styled |-> ~f.styled /\ n = 0]
    BY <1>3 DEF Update
  <2> HIDE DEF n
  <2>5. QED
    BY <1>3, <2>2, <2>3, <2>4 DEF Counted
<1>4. QED
  BY <1>2, <1>3

\* Arriving is what its recursion says.
LEMMA ArrivingEquation ==
  ASSUME NEW a \in Area, LegendOK, Total(a) \in Int
  PROVE  /\ Arriving(a)[0] = [count |-> Total(a), styled |-> FALSE]
         /\ \A n \in 1..Len(Theme) :
              Arriving(a)[n] = Update(a, Arriving(a)[n - 1], Theme[n],
                                      legend[Theme[n]], TRUE)
<1> DEFINE last == Len(Theme)
           base == [count |-> Total(a), styled |-> FALSE]
           Add(n, x) == Update(a, x, Theme[n], legend[Theme[n]], TRUE)
           step == [n \in 1..last |-> [x \in Counted |-> Add(n, x)]]
           after == CHOOSE f : f = [n \in 0..Len(Theme) |->
                      IF n = 0 THEN [count |-> Total(a), styled |-> FALSE]
                      ELSE Update(a, f[n - 1], Theme[n], legend[Theme[n]], TRUE)]
<1>1. Arriving(a) = after
  BY DEF Arriving
<1>2. last \in Nat
  BY ThemeFacts
<1>3. ASSUME NEW n \in 1..last, NEW x \in Counted PROVE Add(n, x) \in Counted
  <2>1. Theme[n] \in Class
    BY ThemeFacts
  <2>2. x.count \in Int /\ x.styled \in BOOLEAN
    BY DEF Counted
  <2>3. CASE ~Present(a, Theme[n])
    BY <2>3 DEF Update
  <2>4. CASE Present(a, Theme[n])
    <3>1. Amount[a][Theme[n]] \in Nat
      BY <2>1, <2>4, ServerAssumption DEF Present
    <3>2. NewCount(a, x.count, Theme[n], legend[Theme[n]], TRUE) \in Int
      BY <2>1, <2>2, <3>1 DEF NewCount, LegendOK
    <3>3. QED
      BY <2>4, <3>2 DEF Update, Counted
  <2>5. QED
    BY <2>3, <2>4
<1>4. step \in [1..last -> [Counted -> Counted]]
  <2> HIDE DEF Add
  <2>1. QED
    BY <1>3
<1>5. base \in Counted
  BY DEF Counted
<1>6. PICK f \in [0..last -> Counted] :
        f[0] = base /\ \A n \in 1..last : f[n] = step[n][f[n - 1]]
  <2>1. base \in Counted /\ last \in Nat /\ step \in [1..last -> [Counted -> Counted]]
    BY <1>2, <1>4, <1>5
  <2> HIDE DEF step, last, base
  <2>2. QED
    BY ONLY <2>1, Recursion
<1>7. ASSUME NEW n \in 1..last
      PROVE  step[n][f[n - 1]] = Add(n, f[n - 1])
  <2>1. n - 1 \in 0..last
    OBVIOUS
  <2>2. f[n - 1] \in Counted
    BY <2>1
  <2> HIDE DEF Add
  <2>3. QED
    BY <2>2
<1>8. ASSUME NEW n \in 0..last
      PROVE  f[n] = IF n = 0 THEN base ELSE Add(n, f[n - 1])
  <2>1. n = 0 \/ n \in 1..last
    OBVIOUS
  <2> HIDE DEF step, Add, base
  <2>2. QED
    BY <1>6, <1>7, <2>1
<1>9. f = [n \in 0..last |-> IF n = 0 THEN base ELSE Add(n, f[n - 1])]
  <2> HIDE DEF Add, base
  <2>1. f = [n \in 0..last |-> f[n]]
    OBVIOUS
  <2>2. QED
    BY <1>8, <2>1
<1>10. after = [n \in 0..last |-> IF n = 0 THEN base ELSE Add(n, after[n - 1])]
  BY <1>9
<1> HIDE DEF after
<1>11. /\ after[0] = base
       /\ \A n \in 1..last : after[n] = Add(n, after[n - 1])
  <2> HIDE DEF Add, base
  <2>1. 0 \in 0..last /\ \A n \in 1..last : n \in 0..last /\ n # 0
    BY <1>2
  <2>2. QED
    BY <1>10, <2>1
<1>12. QED
  BY <1>1, <1>11

\* An area arrives with the sum of the themes that are on, whatever they are.
LEMMA ArriveOK ==
  ASSUME NEW a \in Area, LegendOK
  PROVE  /\ Arrive(a).count = Other[a] + Sum(a, On)
         /\ Arrive(a).styled \in BOOLEAN
         /\ Arrive(a).styled => Arrive(a).count = 0
<1> DEFINE last == Len(Theme)
           f == Arriving(a)
           off == Sums(a, Class \ On)
           T == {n \in 0..last : /\ f[n] \in Counted
                                 /\ f[n].count = Total(a) - off[n]
                                 /\ f[n].styled => f[n].count = 0}
<1>1. last \in Nat /\ \A n \in 1..last : Theme[n] \in Class
  BY ThemeFacts
<1>2. \A n \in 0..last : /\ off[n] \in Nat /\ Sums(a, On)[n] \in Nat
                         /\ Sums(a, Class)[n] = Sums(a, On)[n] + off[n]
  <2>1. On \in SUBSET Class
    BY DEF On
  <2>2. QED
    BY <2>1, SumsEquation, SumOfParts
<1>3. last \in 0..last
  BY <1>1
<1>4. Total(a) = Other[a] + Sums(a, On)[last] + off[last] /\ Total(a) \in Nat
  <2>1. Other[a] \in Nat
    BY ServerAssumption
  <2>2. Total(a) = Other[a] + Sums(a, Class)[last]
    BY DEF Total, Sum
  <2>3. /\ Sums(a, Class)[last] = Sums(a, On)[last] + off[last]
        /\ Sums(a, On)[last] \in Nat /\ off[last] \in Nat
    BY <1>2, <1>3
  <2> HIDE DEF off, last
  <2>4. QED
    BY <2>1, <2>2, <2>3
<1>5. /\ f[0] = [count |-> Total(a), styled |-> FALSE]
      /\ \A n \in 1..last :
           f[n] = Update(a, f[n - 1], Theme[n], legend[Theme[n]], TRUE)
  <2>1. Total(a) \in Int
    BY <1>4
  <2>2. QED
    BY <2>1, ArrivingEquation
<1>6. off[0] = 0 /\ \A n \in 1..last :
         off[n] = IF Theme[n] \in Class \ On /\ Present(a, Theme[n])
                    THEN off[n - 1] + Amount[a][Theme[n]] ELSE off[n - 1]
  BY SumsEquation
<1> HIDE DEF f, off
<1>7. 0 \in T
  <2>1. f[0] \in Counted /\ f[0].count = Total(a) - off[0] /\ ~f[0].styled
    BY <1>4, <1>5, <1>6 DEF Counted
  <2>2. QED
    BY <1>1, <2>1
<1>8. ASSUME NEW n \in 1..last, n - 1 \in T PROVE n \in T
  <2>1. /\ n \in 0..last /\ n - 1 \in 0..last
        /\ f[n - 1] \in Counted
        /\ f[n - 1].count = Total(a) - off[n - 1]
        /\ f[n - 1].styled => f[n - 1].count = 0
    BY <1>8
  <2>2. Theme[n] \in Class /\ legend[Theme[n]] \in BOOLEAN
    BY <1>1 DEF LegendOK
  <2>3. /\ f[n] \in Counted
        /\ f[n].count = IF ~Present(a, Theme[n]) THEN f[n - 1].count
                        ELSE IF legend[Theme[n]] THEN f[n - 1].count
                             ELSE f[n - 1].count - Amount[a][Theme[n]]
        /\ f[n].styled => f[n].count = 0
    <3>1. f[n] = Update(a, f[n - 1], Theme[n], legend[Theme[n]], TRUE)
      BY <1>5
    <3> DEFINE x == f[n - 1]
               c == Theme[n]
               on == legend[c]
    <3>2. x \in Counted /\ (x.styled => x.count = 0) /\ c \in Class /\ on \in BOOLEAN
      BY <2>1, <2>2
    <3> HIDE DEF x, c, on
    <3>3. /\ Update(a, x, c, on, TRUE) \in Counted
          /\ Update(a, x, c, on, TRUE).count =
               IF ~Present(a, c) THEN x.count
               ELSE IF on THEN x.count ELSE x.count - Amount[a][c]
          /\ Update(a, x, c, on, TRUE).styled => Update(a, x, c, on, TRUE).count = 0
      BY <3>2, UpdateOK
    <3>4. QED
      BY <3>1, <3>3 DEF x, c, on
  <2>4. Present(a, Theme[n]) => Amount[a][Theme[n]] \in Nat
    BY <2>2, ServerAssumption DEF Present
  <2>5. Theme[n] \in Class \ On <=> ~legend[Theme[n]]
    BY <2>2 DEF On
  <2>6. f[n].count = Total(a) - off[n]
    <3>1. off[n] = IF Theme[n] \in Class \ On /\ Present(a, Theme[n])
                     THEN off[n - 1] + Amount[a][Theme[n]] ELSE off[n - 1]
      BY <1>6
    <3>2. off[n - 1] \in Nat
      BY <1>2, <2>1
    <3>3. QED
      BY <1>4, <2>1, <2>3, <2>4, <2>5, <3>1, <3>2
  <2>7. QED
    BY <2>1, <2>3, <2>6
<1>9. last \in T
  <2> HIDE DEF T
  <2>1. \A n \in 1..last : n - 1 \in T => n \in T
    BY <1>8
  <2>2. \A n \in 0..last : n \in T
    BY <1>1, <1>7, <2>1, UpTo
  <2>3. QED
    BY <1>3, <2>2
<1>10. /\ f[last] \in Counted
       /\ f[last].count = Total(a) - off[last]
       /\ f[last].styled => f[last].count = 0
  BY <1>9
<1>11. f[last].count = Other[a] + Sums(a, On)[last]
  <2>1. Other[a] \in Nat /\ Sums(a, On)[last] \in Nat /\ off[last] \in Nat
    BY <1>2, <1>3, ServerAssumption
  <2>2. QED
    BY <1>4, <1>10, <2>1
<1>12. f[last].styled \in BOOLEAN
  BY <1>10 DEF Counted
<1>13. QED
  BY <1>10, <1>11, <1>12 DEF Arrive, Sum, f

-----------------------------------------------------------------------------
(* The layer of areas.                                                     *)

\* The inductive invariant of the areas.
ServerInv ==
  /\ LegendOK
  /\ ServerTypeOK
  /\ CountIsVisibleSum
  /\ loaded => \A a \in Area : styled[a] => count[a] = 0
  /\ ScreenIsCurrent

\* The anchor of an area is there when it should be, with the count of now.
LEMMA DrawOK ==
  ASSUME NEW n \in AreaNode \cup {NoNode}, NEW a \in Area, NEW f,
         f.count \in Nat, NEW view
  PROVE  /\ Draw(n, a, f, view) \in AreaNode \cup {NoNode}
         /\ Draw(n, a, f, view) # NoNode <=> ~f.styled /\ a \in view
         /\ Draw(n, a, f, view) # NoNode /\ f.count # 0 =>
              Draw(n, a, f, view).text = f.count
<1> DEFINE new == [title |-> IF n = NoNode THEN f.count ELSE n.title,
                   look |-> "cluster", text |-> DrawText(n, f.count)]
<1>1. Draw(n, a, f, view) = IF ~(~f.styled /\ a \in view) THEN NoNode ELSE new
  BY DEF Draw, DrawFeature
<1>2. n # NoNode => n.title \in Nat /\ n.text \in Nat
  BY DEF AreaNode
<1>3. DrawText(n, f.count) \in Nat /\ (f.count # 0 => DrawText(n, f.count) = f.count)
  BY <1>2 DEF DrawText, NoText
<1>4. new \in AreaNode
  BY <1>2, <1>3 DEF AreaNode
<1>5. new # NoNode
  BY <1>4, ServerAssumption DEF AreaNode
<1>6. new.text = DrawText(n, f.count)
  OBVIOUS
<1> HIDE DEF new
<1>7. QED
  BY <1>1, <1>3, <1>4, <1>5, <1>6

\* Nothing is loaded at first.
LEMMA ServerInitOK == LegendInit /\ ServerInit => ServerInv
<1> SUFFICES ASSUME LegendInit, ServerInit PROVE ServerInv
  OBVIOUS
<1>1. LegendOK
  BY DEF LegendInit, LegendOK
<1>2. ServerTypeOK
  BY DEF ServerInit, ServerTypeOK
<1>3. ~loaded
  BY DEF ServerInit
<1>4. QED
  BY <1>1, <1>2, <1>3 DEF ServerInv, CountIsVisibleSum, ScreenIsCurrent

\* A layer that comes into range is drawn as it is now.
LEMMA ServerMoveOK ==
  ASSUME ServerInv, NEW range \in BOOLEAN, NEW read \in BOOLEAN,
         NEW view \in SUBSET Area, ServerMove(range, read, view)
  PROVE  ServerInv'
<1>1. /\ LegendOK /\ ServerTypeOK /\ CountIsVisibleSum
      /\ loaded => \A a \in Area : styled[a] => count[a] = 0
  BY DEF ServerInv
<1>2. LegendOK' /\ CountIsVisibleSum'
      /\ (loaded => \A a \in Area : styled[a] => count[a] = 0)'
  BY <1>1 DEF ServerMove, LegendOK, CountIsVisibleSum, Sum, Sums, Present
<1>3. CASE range
  <2>1. ASSUME NEW a \in Area
        PROVE  /\ Draw(drawn[a], a, Now(a), view) \in AreaNode \cup {NoNode}
               /\ Draw(drawn[a], a, Now(a), view) # NoNode <=> ~styled[a] /\ a \in view
               /\ Draw(drawn[a], a, Now(a), view) # NoNode /\ count[a] # 0 =>
                    Draw(drawn[a], a, Now(a), view).text = count[a]
    <3> DEFINE f == Now(a)
    <3>1. drawn[a] \in AreaNode \cup {NoNode}
      BY <1>1 DEF ServerTypeOK, AreaNode
    <3>2. f.count = count[a] /\ f.styled = styled[a] /\ f.count \in Nat
      BY <1>1 DEF ServerTypeOK, Now
    <3> HIDE DEF f
    <3>3. QED
      BY <3>1, <3>2, DrawOK DEF f
  <2>2. /\ inRange' = range /\ sight' = view /\ asked' = (asked \/ read)
        /\ UNCHANGED <<legend, loaded, count, styled>>
        /\ drawn' = [a \in Area |-> IF loaded THEN Draw(drawn[a], a, Now(a), view)
                                    ELSE NoNode]
    BY <1>3 DEF ServerMove
  <2>3. drawn' \in [Area -> AreaNode \cup {NoNode}]
    BY <2>1, <2>2
  <2>4. ServerTypeOK'
    BY <1>1, <2>2, <2>3 DEF ServerTypeOK, AreaNode
  <2>5. ScreenIsCurrent'
    <3>1. SUFFICES ASSUME loaded, NEW a \in Area
          PROVE  /\ drawn'[a] # NoNode <=> ~styled[a] /\ a \in view
                 /\ a \in view /\ count[a] # 0 =>
                      drawn'[a] # NoNode /\ drawn'[a].text = count[a]
      BY <2>2 DEF ScreenIsCurrent
    <3>2. drawn'[a] = Draw(drawn[a], a, Now(a), view)
      BY <2>2, <3>1
    <3>3. count[a] # 0 => ~styled[a]
      BY <1>1, <3>1
    <3>4. QED
      BY <2>1, <3>2, <3>3
  <2>6. QED
    BY <1>2, <2>4, <2>5 DEF ServerInv
<1>4. CASE ~range
  <2>1. ServerTypeOK' /\ ScreenIsCurrent'
    BY <1>1, <1>4 DEF ServerMove, ServerTypeOK, ScreenIsCurrent
  <2>2. QED
    BY <1>2, <2>1 DEF ServerInv
<1>5. QED
  BY <1>3, <1>4

\* The areas arrive, under whatever legend there is by then.
LEMMA ServerMergeOK ==
  ASSUME ServerInv, ServerMerge
  PROVE  ServerInv'
<1>1. LegendOK /\ ServerTypeOK
  BY DEF ServerInv
<1>2. /\ loaded' = TRUE /\ asked' = FALSE /\ UNCHANGED <<legend, inRange, sight>>
      /\ count'  = [a \in Area |-> Arrive(a).count]
      /\ styled' = [a \in Area |-> Arrive(a).styled]
      /\ drawn'  = [a \in Area |-> Draw(NoNode, a, Arrive(a), sight)]
  BY DEF ServerMerge
<1>3. On \in SUBSET Class
  BY DEF On
<1>4. ASSUME NEW a \in Area
      PROVE  /\ Arrive(a).count = Other[a] + Sum(a, On) /\ Arrive(a).count \in Nat
             /\ Arrive(a).styled \in BOOLEAN
             /\ Arrive(a).styled => Arrive(a).count = 0
  <2>1. Other[a] \in Nat
    BY ServerAssumption
  <2>2. Sum(a, On) \in Nat
    <3>1. Len(Theme) \in 0..Len(Theme)
      BY ThemeFacts
    <3>2. QED
      BY <3>1, SumsEquation DEF Sum
  <2>3. QED
    BY <1>1, <2>1, <2>2, ArriveOK
<1>5. ASSUME NEW a \in Area
      PROVE  /\ drawn'[a] \in AreaNode \cup {NoNode}
             /\ drawn'[a] # NoNode <=> ~Arrive(a).styled /\ a \in sight
             /\ drawn'[a] # NoNode /\ Arrive(a).count # 0 =>
                  drawn'[a].text = Arrive(a).count
  <2> DEFINE f == Arrive(a)
  <2>1. f.count \in Nat /\ drawn'[a] = Draw(NoNode, a, f, sight)
    BY <1>2, <1>4
  <2> HIDE DEF f
  <2>2. QED
    BY <2>1, DrawOK DEF f
<1>6. ServerTypeOK'
  BY <1>1, <1>2, <1>4, <1>5 DEF ServerTypeOK, AreaNode
<1>7. LegendOK'
  BY <1>1, <1>2 DEF LegendOK
<1>8. CountIsVisibleSum'
  <2>1. ASSUME NEW a \in Area
        PROVE  count'[a] = Other[a] + Sum(a, {c \in Class : legend'[c]})
    BY <1>2, <1>4 DEF On
  <2>2. QED
    BY <2>1 DEF CountIsVisibleSum, Sum, Sums, Present
<1>9. (loaded => \A a \in Area : styled[a] => count[a] = 0)'
  BY <1>2, <1>4
<1>10. ScreenIsCurrent'
  <2>1. ASSUME NEW a \in Area
        PROVE  /\ drawn'[a] # NoNode <=> ~styled'[a] /\ a \in sight'
               /\ a \in sight' /\ count'[a] # 0 =>
                    drawn'[a] # NoNode /\ drawn'[a].text = count'[a]
    <3>1. styled'[a] = Arrive(a).styled /\ count'[a] = Arrive(a).count
      BY <1>2
    <3>2. QED
      BY <1>2, <1>4, <1>5, <3>1
  <2>2. QED
    BY <2>1 DEF ScreenIsCurrent
<1>11. QED
  BY <1>6, <1>7, <1>8, <1>9, <1>10 DEF ServerInv

\* A failed read leaves no areas.
LEMMA ServerMergeNothingOK ==
  ASSUME ServerInv, ServerMergeNothing
  PROVE  ServerInv'
<1>1. LegendOK /\ ServerTypeOK
  BY DEF ServerInv
<1>2. LegendOK' /\ ServerTypeOK' /\ ~loaded'
  BY <1>1 DEF ServerMergeNothing, LegendOK, ServerTypeOK
<1>3. QED
  BY <1>2 DEF ServerInv, CountIsVisibleSum, ScreenIsCurrent

\* A click adds or takes off one theme, on screen or not.
LEMMA ServerToggleOK ==
  ASSUME ServerInv, NEW c \in Class, HandleClick(c), ServerToggle(c)
  PROVE  ServerInv'
<1> DEFINE new(a) == IF loaded THEN Update(a, Now(a), c, ~legend[c], FALSE)
                               ELSE Now(a)
<1>1. /\ LegendOK /\ ServerTypeOK /\ CountIsVisibleSum /\ ScreenIsCurrent
      /\ loaded => \A a \in Area : styled[a] => count[a] = 0
  BY DEF ServerInv
<1>2. /\ legend' = [legend EXCEPT ![c] = ~@]
      /\ count'  = [a \in Area |-> new(a).count]
      /\ styled' = [a \in Area |-> new(a).styled]
      /\ drawn'  = [a \in Area |-> IF loaded /\ Present(a, c) /\ inRange
                                     THEN Draw(drawn[a], a, new(a), sight)
                                     ELSE drawn[a]]
      /\ UNCHANGED <<inRange, asked, loaded, sight>>
  BY DEF HandleClick, ServerToggle
<1>3. LegendOK' /\ legend'[c] = ~legend[c]
      /\ \A d \in Class : d # c => legend'[d] = legend[d]
  BY <1>1, <1>2 DEF LegendOK
<1>4. ASSUME NEW a \in Area
      PROVE  /\ Sum(a, On) \in Nat /\ Sum(a, On \ {c}) \in Nat /\ Other[a] \in Nat
             /\ Present(a, c) => Amount[a][c] \in Nat
             /\ Sum(a, {d \in Class : legend'[d]}) =
                  IF ~Present(a, c) THEN Sum(a, On)
                  ELSE IF legend[c] THEN Sum(a, On) - Amount[a][c]
                                    ELSE Sum(a, On) + Amount[a][c]
  <2>1. On \in SUBSET Class
    BY DEF On
  <2>2. Len(Theme) \in 0..Len(Theme)
    BY ThemeFacts
  <2>3. Sum(a, On) \in Nat /\ Sum(a, On \ {c}) \in Nat
    BY <2>2, SumsEquation DEF Sum
  <2>4. Other[a] \in Nat /\ (Present(a, c) => Amount[a][c] \in Nat)
    BY ServerAssumption DEF Present
  <2>5. CASE legend[c]
    <3>1. {d \in Class : legend'[d]} = On \ {c} /\ On = (On \ {c}) \cup {c}
      BY <1>3, <2>5 DEF On
    <3> DEFINE off == On \ {c}
    <3>2. off \in SUBSET Class /\ c \notin off
      BY <2>1
    <3> HIDE DEF off
    <3>3. Sum(a, off \cup {c}) =
            IF Present(a, c) THEN Sum(a, off) + Amount[a][c] ELSE Sum(a, off)
      BY ONLY <3>2, SumOfOneMore, a \in Area, c \in Class
    <3>4. Sum(a, On) =
            IF Present(a, c) THEN Sum(a, On \ {c}) + Amount[a][c] ELSE Sum(a, On \ {c})
      BY <3>1, <3>3 DEF off
    <3>5. Sum(a, {d \in Class : legend'[d]}) = Sum(a, On \ {c})
      BY <3>1
    <3>6. Present(a, c) => Sum(a, On \ {c}) = Sum(a, On) - Amount[a][c]
      BY <2>3, <2>4, <3>4
    <3>7. QED
      BY <2>3, <2>4, <2>5, <3>4, <3>5, <3>6
  <2>6. CASE ~legend[c]
    <3>1. {d \in Class : legend'[d]} = On \cup {c} /\ c \notin On
      BY <1>3, <2>6 DEF On
    <3>2. QED
      BY <2>1, <2>3, <2>4, <2>6, <3>1, SumOfOneMore
  <2>7. QED
    BY <2>5, <2>6
<1>5. ASSUME NEW a \in Area
      PROVE  /\ count'[a] = new(a).count /\ styled'[a] = new(a).styled
             /\ new(a).count \in Nat /\ new(a).styled \in BOOLEAN
             /\ ~loaded => new(a) = Now(a)
             /\ ~Present(a, c) => new(a) = Now(a)
             /\ loaded => /\ new(a).count = Other[a] + Sum(a, {d \in Class : legend'[d]})
                          /\ new(a).styled => new(a).count = 0
  <2>1. /\ Now(a) \in Counted /\ Now(a).count = count[a] /\ Now(a).styled = styled[a]
        /\ count[a] \in Nat /\ styled[a] \in BOOLEAN
    BY <1>1 DEF ServerTypeOK, Now, Counted
  <2>2. count'[a] = new(a).count /\ styled'[a] = new(a).styled
    BY <1>2
  <2>3. CASE loaded
    <3> DEFINE f == Now(a)
               on == ~legend[c]
               u == Update(a, f, c, on, FALSE)
    <3>1. new(a) = u
      BY <2>3
    <3>2. f \in Counted /\ (f.styled => f.count = 0) /\ on \in BOOLEAN
      BY <1>1, <2>1, <2>3
    <3>3. /\ f.count = count[a] /\ count[a] = Other[a] + Sum(a, On)
          /\ (on <=> ~legend[c])
      BY <1>1, <2>1, <2>3 DEF CountIsVisibleSum, On
    <3>4. ~Present(a, c) => u = f
      BY DEF Update
    <3> HIDE DEF f, on
    <3>5. /\ u \in Counted
          /\ u.count = IF ~Present(a, c) THEN f.count
                       ELSE IF on THEN f.count + Amount[a][c]
                                  ELSE f.count - Amount[a][c]
          /\ u.styled => u.count = 0
      BY <3>2, UpdateOK
    <3> HIDE DEF u
    <3>6. u.count = Other[a] + Sum(a, {d \in Class : legend'[d]})
      BY <1>4, <3>3, <3>5
    <3>7. u.count \in Nat /\ u.styled \in BOOLEAN
      <4>1. Sum(a, {d \in Class : legend'[d]}) \in Nat
        <5>1. Len(Theme) \in 0..Len(Theme)
          BY ThemeFacts
        <5>2. QED
          BY <5>1, SumsEquation DEF Sum
      <4>2. QED
        BY <1>4, <3>5, <3>6, <4>1 DEF Counted
    <3> HIDE DEF new
    <3>8. QED
      BY <2>2, <2>3, <3>1, <3>4, <3>5, <3>6, <3>7 DEF f
  <2>4. CASE ~loaded
    BY <2>1, <2>2, <2>4
  <2>5. QED
    BY <2>3, <2>4
<1> HIDE DEF new
<1>6. ASSUME NEW a \in Area
      PROVE  /\ drawn'[a] \in AreaNode \cup {NoNode}
             /\ loaded /\ inRange =>
                  /\ drawn'[a] # NoNode <=> ~new(a).styled /\ a \in sight
                  /\ a \in sight /\ new(a).count # 0 =>
                       drawn'[a] # NoNode /\ drawn'[a].text = new(a).count
  <2>1. drawn[a] \in AreaNode \cup {NoNode}
    BY <1>1 DEF ServerTypeOK, AreaNode
  <2>2. CASE loaded /\ Present(a, c) /\ inRange
    <3>1. drawn'[a] = Draw(drawn[a], a, new(a), sight)
      BY <1>2, <2>2
    <3>2. new(a).count \in Nat /\ (new(a).styled => new(a).count = 0)
      BY <1>5, <2>2
    <3> DEFINE f == new(a)
    <3> HIDE DEF f
    <3>3. /\ Draw(drawn[a], a, f, sight) \in AreaNode \cup {NoNode}
          /\ Draw(drawn[a], a, f, sight) # NoNode <=> ~f.styled /\ a \in sight
          /\ Draw(drawn[a], a, f, sight) # NoNode /\ f.count # 0 =>
               Draw(drawn[a], a, f, sight).text = f.count
      BY <2>1, <3>2, DrawOK DEF f
    <3>4. QED
      BY <3>1, <3>2, <3>3 DEF f
  <2>3. CASE ~(loaded /\ Present(a, c) /\ inRange)
    <3>1. drawn'[a] = drawn[a]
      BY <1>2, <2>3
    <3>2. loaded /\ inRange => new(a) = Now(a)
      BY <1>5, <2>3
    <3>3. Now(a).styled = styled[a] /\ Now(a).count = count[a]
      BY DEF Now
    <3>4. QED
      BY <1>1, <2>1, <3>1, <3>2, <3>3 DEF ScreenIsCurrent
  <2>4. QED
    BY <2>2, <2>3
<1>7. ServerTypeOK'
  <2>1. /\ count' \in [Area -> Nat] /\ styled' \in [Area -> BOOLEAN]
        /\ drawn' \in [Area -> AreaNode \cup {NoNode}]
    BY <1>2, <1>5, <1>6
  <2>2. QED
    BY <1>1, <1>2, <2>1 DEF ServerTypeOK, AreaNode
<1>8. CountIsVisibleSum'
  <2>1. ASSUME loaded', NEW a \in Area
        PROVE  count'[a] = Other[a] + Sum(a, {d \in Class : legend'[d]})
    BY <1>2, <1>5, <2>1
  <2>2. QED
    BY <2>1 DEF CountIsVisibleSum, Sum, Sums, Present
<1>9. (loaded => \A a \in Area : styled[a] => count[a] = 0)'
  BY <1>2, <1>5
<1>10. ScreenIsCurrent'
  <2>1. ASSUME loaded', inRange', NEW a \in Area
        PROVE  /\ drawn'[a] # NoNode <=> ~styled'[a] /\ a \in sight'
               /\ a \in sight' /\ count'[a] # 0 =>
                    drawn'[a] # NoNode /\ drawn'[a].text = count'[a]
    BY <1>2, <1>5, <1>6, <2>1
  <2>2. QED
    BY <2>1 DEF ScreenIsCurrent
<1>11. QED
  BY <1>3, <1>7, <1>8, <1>9, <1>10 DEF ServerInv

-----------------------------------------------------------------------------
(* The cluster marker.                                                     *)

\* The marker m is what members of which those in hid are hidden ask for ...
Right(m, hid) ==
  /\ m.count = Count(hid)
  /\ m.styled <=> m.count = 0
  /\ m.count = 1 => m.info # None /\ \A n \in News \ hid : Cat[n] = m.cat
  /\ m.count # 1 => m.cat = ClusterCat

\* ... or is a new one, before any theme was applied.
Fresh(m) == m.count >= 2 /\ m.cat = ClusterCat /\ ~m.styled

\* The anchor n shows the marker m.
Shows(n, m, view) ==
  /\ n # NoNode <=> ~m.styled /\ view
  /\ n # NoNode => n.text = m.count /\ n.look = m.cat

\* The states that the calls for the themes go through.
Stage == [hidden : SUBSET News, marker : Marker, node : Node \cup {NoNode},
          view : BOOLEAN]
Sound == {s \in Stage : /\ Right(s.marker, s.hidden) \/ Fresh(s.marker)
                        /\ Shows(s.node, s.marker, s.view)}

\* There is a member, and there are finitely many.
LEMMA NewsFacts ==
  /\ IsFiniteSet(News)
  /\ Members[1] \in News
  /\ \A S \in SUBSET News : IsFiniteSet(S) /\ Cardinality(S) \in Nat
<1>1. Members \in Seq(News) /\ Members # <<>>
  BY MarkerAssumption
<1>2. /\ Len(Members) \in Nat /\ DOMAIN Members = 1..Len(Members)
      /\ Members \in [1..Len(Members) -> News] /\ 1 \in 1..Len(Members)
  BY <1>1, LenProperties, EmptySeq
<1>3. \A n \in News : \E i \in 1..Len(Members) : Members[i] = n
  BY <1>2 DEF News, ToSet
<1>4. Members \in Surjection(1..Len(Members), News)
  BY <1>2, <1>3 DEF Surjection
<1>5. IsFiniteSet(1..Len(Members))
  BY <1>2, FS_Interval
<1>6. IsFiniteSet(News)
  BY <1>4, <1>5, FS_Surjection
<1>7. QED
  BY <1>2, <1>6, FS_Subset, FS_CardinalityType

\* When one member is visible it is the last that was seen.
LEMMA LastSeenOK ==
  ASSUME NEW hid \in SUBSET News, Count(hid) = 1
  PROVE  News \ hid = {LastSeen(hid)} /\ LastSeen(hid) \in News
<1>1. PICK x : News \ hid = {x}
  <2>1. News \ hid \in SUBSET News
    OBVIOUS
  <2>2. IsFiniteSet(News \ hid)
    BY <2>1, NewsFacts
  <2>3. QED
    BY <2>2, FS_Singleton DEF Count
<1> DEFINE I == {i \in DOMAIN Members : Members[i] \notin hid}
<1>2. /\ Len(Members) \in Nat /\ DOMAIN Members = 1..Len(Members)
      /\ \A i \in 1..Len(Members) : Members[i] \in News
  BY MarkerAssumption, LenProperties, ElementOfSeq
<1>3. PICK k \in I : Members[k] = x
  BY <1>1 DEF News, ToSet
<1>4. ASSUME NEW i \in I, NEW j \in I PROVE i = j
  <2>1. Members[i] = x /\ Members[j] = x
    BY <1>1, <1>2
  <2>2. QED
    BY <2>1, MarkerAssumption DEF IsInjective
<1>5. I = {k} /\ k \in Nat
  BY <1>2, <1>3, <1>4
<1>6. Max(I) = k
  <2>1. Max(I) = CHOOSE m \in I : \A y \in I : m >= y
    BY DEF Max
  <2>2. k \in I /\ \A y \in I : k >= y
    BY <1>5
  <2>3. Max(I) \in I
    BY <2>1, <2>2
  <2>4. QED
    BY <1>5, <2>3
<1>7. LastSeen(hid) = x
  BY <1>3, <1>6 DEF LastSeen
<1>8. QED
  BY <1>1, <1>7

\* One call makes a marker right: one that was right for members of which
\* more, or fewer, were hidden, or a new one.
LEMMA UpdatedOK ==
  ASSUME NEW m \in Marker, NEW hid \in SUBSET News, NEW old \in SUBSET News,
         \/ Right(m, old) /\ (hid \subseteq old \/ old \subseteq hid)
         \/ Fresh(m)
  PROVE  Updated(m, hid) \in Marker /\ Right(Updated(m, hid), hid)
<1> DEFINE cnt == Count(hid)
           r == [count  |-> cnt,
                 cat    |-> IF cnt = 1 THEN Cat[LastSeen(hid)] ELSE ClusterCat,
                 info   |-> IF cnt = 1 /\ m.info = None THEN LastSeen(hid)
                                                        ELSE m.info,
                 styled |-> cnt = 0]
<1>1. cnt \in Nat
  <2>1. News \ hid \in SUBSET News
    OBVIOUS
  <2>2. QED
    BY <2>1, NewsFacts DEF Count
<1>2. m.count \in Nat /\ m.info \in News \cup {None} /\ m.styled \in BOOLEAN
  BY DEF Marker
<1>3. CASE cnt = m.count
  <2>1. Updated(m, hid) = m
    BY <1>3 DEF Updated
  <2>2. CASE Fresh(m)
    BY <1>2, <1>3, <2>1, <2>2 DEF Fresh, Right
  <2>3. CASE Right(m, old) /\ (hid \subseteq old \/ old \subseteq hid)
    <3>1. Cardinality(News \ old) = Cardinality(News \ hid)
      BY <1>3, <2>3 DEF Right, Count
    <3>2. IsFiniteSet(News \ old) /\ IsFiniteSet(News \ hid)
      <4>1. News \ old \in SUBSET News /\ News \ hid \in SUBSET News
        OBVIOUS
      <4>2. QED
        BY <4>1, NewsFacts
    <3>3. CASE hid \subseteq old
      <4>1. News \ old \in SUBSET (News \ hid)
        BY <3>3
      <4>2. News \ old = News \ hid
        BY <3>1, <3>2, <4>1, FS_Subset
      <4>3. QED
        BY <2>1, <2>3, <4>2 DEF Right, Count
    <3>4. CASE old \subseteq hid
      <4>1. News \ hid \in SUBSET (News \ old)
        BY <3>4
      <4>2. News \ old = News \ hid
        BY <3>1, <3>2, <4>1, FS_Subset
      <4>3. QED
        BY <2>1, <2>3, <4>2 DEF Right, Count
    <3>5. QED
      BY <2>3, <3>3, <3>4
  <2>4. QED
    BY <2>2, <2>3
<1>4. CASE cnt # m.count
  <2>1. Updated(m, hid) = r
    BY <1>4 DEF Updated
  <2>2. cnt = 1 => LastSeen(hid) \in News /\ News \ hid = {LastSeen(hid)}
    BY LastSeenOK
  <2>3. r \in Marker
    BY <1>1, <1>2, <2>2, MarkerAssumption DEF Marker
  <2>4. /\ r.count = cnt /\ (r.styled <=> cnt = 0)
        /\ cnt = 1 => r.cat = Cat[LastSeen(hid)] /\ r.info # None
        /\ cnt # 1 => r.cat = ClusterCat
    BY <2>2, MarkerAssumption
  <2> HIDE DEF r
  <2>5. Right(r, hid)
    BY <2>2, <2>4 DEF Right
  <2>6. QED
    BY <2>1, <2>3, <2>5
<1>5. QED
  BY <1>3, <1>4

\* A marker that is drawn is shown, as it is.
LEMMA DrawnOK ==
  ASSUME NEW n \in Node \cup {NoNode}, NEW m \in Marker, NEW view \in BOOLEAN,
         ~m.styled => m.count # 0
  PROVE  Drawn(n, m, view) \in Node \cup {NoNode} /\ Shows(Drawn(n, m, view), m, view)
<1> DEFINE new == [title |-> IF n = NoNode THEN Title(m) ELSE n.title,
                   look |-> m.cat, text |-> DrawText(n, m.count)]
<1>1. Drawn(n, m, view) = IF ~(~m.styled /\ view) THEN NoNode ELSE new
  BY DEF Drawn, DrawFeature
<1>2. /\ m.count \in Nat /\ m.info \in News \cup {None}
      /\ m.cat \in Class \cup {ClusterCat}
  BY DEF Marker
<1>3. n # NoNode => /\ n.title \in ({"one"} \X (News \cup {None})) \cup ({"many"} \X Nat)
                    /\ n.text \in Nat
  BY DEF Node
<1>4. Title(m) \in ({"one"} \X (News \cup {None})) \cup ({"many"} \X Nat)
  BY <1>2 DEF Title
<1>5. DrawText(n, m.count) \in Nat
      /\ (m.count # 0 => DrawText(n, m.count) = m.count)
  BY <1>2, <1>3 DEF DrawText, NoText
<1>6. new \in Node
  BY <1>2, <1>3, <1>4, <1>5 DEF Node
<1>7. new # NoNode
  BY <1>6, MarkerAssumption
<1>8. new.text = DrawText(n, m.count) /\ new.look = m.cat
  OBVIOUS
<1> HIDE DEF new
<1>9. QED
  BY <1>1, <1>5, <1>6, <1>7, <1>8 DEF Shows

\* One call keeps the stage sound and makes the marker right.
LEMMA CallOK ==
  ASSUME NEW s \in Sound, NEW c \in Class, NEW visible \in BOOLEAN
  PROVE  /\ Call(s, c, visible) \in Sound
         /\ Call(s, c, visible).view = s.view
         /\ Call(s, c, visible).hidden = HiddenAfter(s.hidden, c, visible)
         /\ Right(Call(s, c, visible).marker, Call(s, c, visible).hidden)
<1> DEFINE hid == HiddenAfter(s.hidden, c, visible)
           m == Updated(s.marker, hid)
           n == IF m = s.marker THEN s.node ELSE Drawn(s.node, m, s.view)
<1>1. /\ s.hidden \in SUBSET News /\ s.marker \in Marker
      /\ s.node \in Node \cup {NoNode} /\ s.view \in BOOLEAN
      /\ s = [hidden |-> s.hidden, marker |-> s.marker, node |-> s.node,
              view |-> s.view]
      /\ Right(s.marker, s.hidden) \/ Fresh(s.marker)
      /\ Shows(s.node, s.marker, s.view)
  BY DEF Sound, Stage
<1>2. Call(s, c, visible) = [hidden |-> hid, marker |-> m, node |-> n,
                             view |-> s.view]
  <2>1. Call(s, c, visible) = [s EXCEPT !.hidden = hid, !.marker = m, !.node = n]
    BY DEF Call
  <2> HIDE DEF hid, m, n
  <2>2. s \in Stage
    BY DEF Sound
  <2>3. QED
    BY <2>1, <2>2 DEF Stage
<1>3. /\ hid \in SUBSET News
      /\ hid \subseteq s.hidden \/ s.hidden \subseteq hid
  BY <1>1 DEF HiddenAfter
<1> HIDE DEF hid
<1>4. m \in Marker /\ Right(m, hid)
  BY <1>1, <1>3, UpdatedOK
<1> HIDE DEF m
<1>5. ~m.styled => m.count # 0
  BY <1>4 DEF Right
<1>6. n \in Node \cup {NoNode} /\ Shows(n, m, s.view)
  BY <1>1, <1>4, <1>5, DrawnOK
<1> HIDE DEF n
<1>7. [hidden |-> hid, marker |-> m, node |-> n, view |-> s.view] \in Sound
  BY <1>1, <1>3, <1>4, <1>6 DEF Sound, Stage
<1>8. QED
  BY <1>2, <1>4, <1>7 DEF hid

\* Calling is what its recursion says.
LEMMA CallingEquation ==
  ASSUME NEW s \in Sound, LegendOK
  PROVE  /\ Calling(s)[0] = s
         /\ \A n \in 1..Len(Theme) :
              Calling(s)[n] = Call(Calling(s)[n - 1], Theme[n], legend[Theme[n]])
<1> DEFINE last == Len(Theme)
           Add(n, x) == Call(x, Theme[n], legend[Theme[n]])
           step == [n \in 1..last |-> [x \in Sound |-> Add(n, x)]]
           after == CHOOSE f : f = [n \in 0..Len(Theme) |->
                      IF n = 0 THEN s
                      ELSE Call(f[n - 1], Theme[n], legend[Theme[n]])]
<1>1. Calling(s) = after
  BY DEF Calling
<1>2. last \in Nat
  BY ThemeFacts
<1>3. ASSUME NEW n \in 1..last, NEW x \in Sound PROVE Add(n, x) \in Sound
  <2>1. Theme[n] \in Class /\ legend[Theme[n]] \in BOOLEAN
    BY ThemeFacts DEF LegendOK
  <2>2. QED
    BY <2>1, CallOK
<1>4. step \in [1..last -> [Sound -> Sound]]
  <2> HIDE DEF Add
  <2>1. QED
    BY <1>3
<1>5. PICK f \in [0..last -> Sound] :
        f[0] = s /\ \A n \in 1..last : f[n] = step[n][f[n - 1]]
  <2>1. s \in Sound /\ last \in Nat /\ step \in [1..last -> [Sound -> Sound]]
    BY <1>2, <1>4
  <2> HIDE DEF step, last
  <2>2. QED
    BY ONLY <2>1, Recursion
<1>6. ASSUME NEW n \in 1..last
      PROVE  step[n][f[n - 1]] = Add(n, f[n - 1])
  <2>1. n - 1 \in 0..last
    OBVIOUS
  <2>2. f[n - 1] \in Sound
    BY <2>1
  <2> HIDE DEF Add
  <2>3. QED
    BY <2>2
<1>7. ASSUME NEW n \in 0..last
      PROVE  f[n] = IF n = 0 THEN s ELSE Add(n, f[n - 1])
  <2>1. n = 0 \/ n \in 1..last
    OBVIOUS
  <2> HIDE DEF step, Add
  <2>2. QED
    BY <1>5, <1>6, <2>1
<1>8. f = [n \in 0..last |-> IF n = 0 THEN s ELSE Add(n, f[n - 1])]
  <2> HIDE DEF Add
  <2>1. f = [n \in 0..last |-> f[n]]
    OBVIOUS
  <2>2. QED
    BY <1>7, <2>1
<1>9. after = [n \in 0..last |-> IF n = 0 THEN s ELSE Add(n, after[n - 1])]
  BY <1>8
<1> HIDE DEF after
<1>10. /\ after[0] = s
       /\ \A n \in 1..last : after[n] = Add(n, after[n - 1])
  <2> HIDE DEF Add
  <2>1. 0 \in 0..last /\ \A n \in 1..last : n \in 0..last /\ n # 0
    BY <1>2
  <2>2. QED
    BY <1>9, <2>1
<1>11. QED
  BY <1>1, <1>10

\* The members that the legend hides.
Off == {n \in News : ~legend[Cat[n]]}

\* The calls for all themes end with the marker that the legend asks for,
\* whatever legend the members followed before.
LEMMA CallsOK ==
  ASSUME NEW s \in Sound, LegendOK
  PROVE  /\ Calls(s) \in Sound
         /\ Calls(s).view = s.view
         /\ Calls(s).hidden = Off
         /\ Right(Calls(s).marker, Calls(s).hidden)
<1> DEFINE last == Len(Theme)
           f == Calling(s)
           T == {k \in 0..last :
                   /\ f[k] \in Sound
                   /\ f[k].view = s.view
                   /\ \A n \in News, i \in 1..k :
                        Cat[n] = Theme[i] => (n \in f[k].hidden <=> ~legend[Cat[n]])
                   /\ k # 0 => Right(f[k].marker, f[k].hidden)}
<1>1. last \in Nat /\ \A n \in 1..last : Theme[n] \in Class
  BY ThemeFacts
<1>2. /\ f[0] = s
      /\ \A n \in 1..last : f[n] = Call(f[n - 1], Theme[n], legend[Theme[n]])
  BY CallingEquation
<1> HIDE DEF f
<1>3. 0 \in T
  BY <1>1, <1>2
<1>4. ASSUME NEW k \in 1..last, k - 1 \in T PROVE k \in T
  <2> DEFINE t == f[k - 1]
             c == Theme[k]
             on == legend[c]
             u == Call(t, c, on)
  <2>1. /\ t \in Sound /\ t.view = s.view
        /\ \A n \in News, i \in 1..(k - 1) :
             Cat[n] = Theme[i] => (n \in t.hidden <=> ~legend[Cat[n]])
    BY <1>4
  <2>2. c \in Class /\ on \in BOOLEAN /\ on = legend[c] /\ c = Theme[k]
    BY <1>1 DEF LegendOK
  <2>3. f[k] = u
    BY <1>2
  <2> HIDE DEF t, c, on
  <2>4. /\ u \in Sound /\ u.view = t.view
        /\ u.hidden = HiddenAfter(t.hidden, c, on)
        /\ Right(u.marker, u.hidden)
    BY <2>1, <2>2, CallOK
  <2> HIDE DEF u
  <2>5. ASSUME NEW n \in News, NEW i \in 1..k, Cat[n] = Theme[i]
        PROVE  n \in u.hidden <=> ~legend[Cat[n]]
    <3>1. CASE Cat[n] = c
      BY <2>2, <2>4, <3>1 DEF HiddenAfter
    <3>2. CASE Cat[n] # c
      <4>1. i \in 1..(k - 1)
        BY <2>2, <2>5, <3>2
      <4>2. n \in t.hidden <=> ~legend[Cat[n]]
        BY <2>1, <2>5, <4>1
      <4>3. QED
        BY <2>4, <3>2, <4>2 DEF HiddenAfter
    <3>3. QED
      BY <3>1, <3>2
  <2>6. k \in 0..last
    OBVIOUS
  <2>7. QED
    BY <2>1, <2>3, <2>4, <2>5, <2>6
<1>5. \A k \in 0..last : k \in T
  <2> HIDE DEF T
  <2>1. \A k \in 1..last : k - 1 \in T => k \in T
    BY <1>4
  <2>2. QED
    BY <1>1, <1>3, <2>1, UpTo
<1>6. last # 0
  <2>1. Cat[Members[1]] \in Class
    BY NewsFacts, MarkerAssumption
  <2>2. QED
    BY <1>1, <2>1, ThemeFacts
<1>7. /\ f[last] \in Sound /\ f[last].view = s.view
      /\ Right(f[last].marker, f[last].hidden)
      /\ \A n \in News, i \in 1..last :
           Cat[n] = Theme[i] => (n \in f[last].hidden <=> ~legend[Cat[n]])
  BY <1>1, <1>5, <1>6
<1>8. f[last].hidden = Off
  <2>1. f[last].hidden \subseteq News
    BY <1>7 DEF Sound, Stage
  <2>2. ASSUME NEW n \in News PROVE n \in f[last].hidden <=> ~legend[Cat[n]]
    <3>1. Cat[n] \in Class
      BY MarkerAssumption
    <3>2. PICK i \in 1..last : Theme[i] = Cat[n]
      BY <3>1, ThemeFacts
    <3>3. QED
      BY <1>7, <3>2
  <2>3. QED
    BY <2>1, <2>2 DEF Off
<1>9. QED
  BY <1>7, <1>8 DEF Calls, f

\* The inductive invariant of the marker.
MarkerInv ==
  /\ LegendOK
  /\ MarkerTypeOK
  /\ marker # None => hidden = Off /\ Right(marker, hidden)
  /\ AnchorIsCurrent

\* What a clustering leaves, of members that follow any legend.
LEMMA ClusteredOK ==
  ASSUME LegendOK, NEW hid \in SUBSET News, NEW view \in BOOLEAN
  PROVE  LET s == Clustered(hid, view)
         IN  /\ s.hidden = Off /\ s.hidden \in SUBSET News /\ s.view = view
             /\ \/ s.marker = None /\ s.node = NoNode
                \/ /\ s.marker \in Marker /\ s.marker # None
                   /\ Right(s.marker, s.hidden)
                   /\ s.node \in Node \cup {NoNode}
                   /\ Shows(s.node, s.marker, view)
<1> DEFINE m == Created(hid)
           s == [hidden |-> hid, marker |-> m, view |-> view,
                 node |-> Drawn(NoNode, m, view)]
<1>1. m.count \in Nat
  <2>1. (News \ {Members[1]}) \ hid \in SUBSET News
    OBVIOUS
  <2>2. Cardinality((News \ {Members[1]}) \ hid) \in Nat
    BY <2>1, NewsFacts
  <2>3. QED
    BY <2>2 DEF Created
<1>2. m.cat = ClusterCat /\ ~m.styled
  BY DEF Created
<1>3. CASE m.count >= 2
  <2>1. Clustered(hid, view) = Calls(s)
    BY <1>3 DEF Clustered
  <2>2. m \in Marker
    BY <1>1 DEF Created, Marker
  <2> HIDE DEF m
  <2>3. Fresh(m)
    BY <1>2, <1>3 DEF Fresh
  <2>4. Drawn(NoNode, m, view) \in Node \cup {NoNode}
        /\ Shows(Drawn(NoNode, m, view), m, view)
    <3>1. m.count # 0
      BY <1>3
    <3>2. QED
      BY <2>2, <3>1, DrawnOK
  <2>5. s \in Sound /\ s.view = view
    BY <2>2, <2>3, <2>4 DEF Sound, Stage
  <2> HIDE DEF s
  <2>6. /\ Calls(s) \in Sound /\ Calls(s).view = view
        /\ Calls(s).hidden = Off /\ Right(Calls(s).marker, Calls(s).hidden)
    BY <2>5, CallsOK
  <2>7. /\ Calls(s).marker \in Marker /\ Calls(s).hidden \in SUBSET News
        /\ Calls(s).node \in Node \cup {NoNode}
        /\ Shows(Calls(s).node, Calls(s).marker, view)
    BY <2>6 DEF Sound, Stage
  <2>8. Calls(s).marker # None
    BY <2>7, MarkerAssumption
  <2>9. QED
    BY <2>1, <2>6, <2>7, <2>8
<1>4. CASE ~(m.count >= 2)
  <2>1. Clustered(hid, view) = [hidden |-> Off, marker |-> None, view |-> view,
                                node |-> NoNode]
    BY <1>4 DEF Clustered, Off
  <2>2. Off \in SUBSET News
    BY DEF Off
  <2>3. QED
    BY <2>1, <2>2
<1>5. QED
  BY <1>3, <1>4

\* The first batch is clustered.
LEMMA MarkerInitOK == LegendInit /\ MarkerInit => MarkerInv
<1> SUFFICES ASSUME LegendInit, MarkerInit PROVE MarkerInv
  OBVIOUS
<1> DEFINE s == Clustered({}, inView)
<1>1. LegendOK
  BY DEF LegendInit, LegendOK
<1>2. /\ onLayer \in BOOLEAN /\ inView \in BOOLEAN
      /\ hidden = s.hidden /\ marker = s.marker /\ node = s.node
  BY DEF MarkerInit
<1>3. {} \in SUBSET News
  OBVIOUS
<1>4. /\ s.hidden = Off /\ s.hidden \in SUBSET News
      /\ \/ s.marker = None /\ s.node = NoNode
         \/ /\ s.marker \in Marker /\ s.marker # None
            /\ Right(s.marker, s.hidden)
            /\ s.node \in Node \cup {NoNode}
            /\ Shows(s.node, s.marker, inView)
  BY <1>1, <1>2, <1>3, ClusteredOK
<1> HIDE DEF s
<1>5. MarkerTypeOK
  BY <1>1, <1>2, <1>4 DEF MarkerTypeOK, LegendOK
<1>6. AnchorIsCurrent
  BY <1>2, <1>4 DEF AnchorIsCurrent, Shows
<1>7. QED
  BY <1>1, <1>2, <1>4, <1>5, <1>6 DEF MarkerInv

\* The members are clustered, by an answer or by a zoom.
LEMMA BecomeOK ==
  ASSUME MarkerInv, NEW hid \in SUBSET News, NEW view \in BOOLEAN,
         Become(Clustered(hid, view)), onLayer' \in BOOLEAN, legend' = legend
  PROVE  MarkerInv'
<1> DEFINE s == Clustered(hid, view)
<1>1. LegendOK
  BY DEF MarkerInv
<1>2. /\ s.hidden = Off /\ s.hidden \in SUBSET News /\ s.view = view
      /\ \/ s.marker = None /\ s.node = NoNode
         \/ /\ s.marker \in Marker /\ s.marker # None
            /\ Right(s.marker, s.hidden)
            /\ s.node \in Node \cup {NoNode}
            /\ Shows(s.node, s.marker, view)
  BY <1>1, ClusteredOK
<1>3. hidden' = s.hidden /\ marker' = s.marker /\ node' = s.node /\ inView' = s.view
  BY DEF Become
<1> HIDE DEF s
<1>4. LegendOK' /\ Off' = Off
  BY <1>1 DEF LegendOK, Off
<1>5. MarkerTypeOK'
  BY <1>1, <1>2, <1>3 DEF MarkerTypeOK, LegendOK
<1>6. AnchorIsCurrent'
  BY <1>2, <1>3 DEF AnchorIsCurrent, Shows
<1>7. marker' # None => hidden' = Off' /\ Right(marker', hidden')
  BY <1>2, <1>3, <1>4
<1>8. QED
  BY <1>4, <1>5, <1>6, <1>7 DEF MarkerInv, Right, Count

\* Moved without a zoom, the marker is drawn again.
LEMMA MarkerPanOK ==
  ASSUME MarkerInv, NEW view \in BOOLEAN, MarkerPan(view)
  PROVE  MarkerInv'
<1>1. /\ LegendOK /\ MarkerTypeOK /\ AnchorIsCurrent
      /\ marker # None => hidden = Off /\ Right(marker, hidden)
  BY DEF MarkerInv
<1>2. /\ inView' = view /\ UNCHANGED <<legend, onLayer, hidden, marker>>
      /\ node' = IF marker = None THEN node ELSE Drawn(node, marker, view)
  BY DEF MarkerPan
<1>3. LegendOK' /\ (marker' # None => hidden' = Off' /\ Right(marker', hidden'))
  BY <1>1, <1>2 DEF LegendOK, Off
<1>4. CASE marker = None
  <2>1. MarkerTypeOK' /\ AnchorIsCurrent'
    BY <1>1, <1>2, <1>4 DEF MarkerTypeOK, AnchorIsCurrent
  <2>2. QED
    BY <1>3, <2>1 DEF MarkerInv, Right, Count
<1>5. CASE marker # None
  <2>1. marker \in Marker /\ node \in Node \cup {NoNode}
    BY <1>1, <1>5 DEF MarkerTypeOK
  <2>2. ~marker.styled => marker.count # 0
    BY <1>1, <1>5 DEF Right
  <2>3. node' \in Node \cup {NoNode} /\ Shows(node', marker, view)
    BY <1>2, <1>5, <2>1, <2>2, DrawnOK
  <2>4. MarkerTypeOK' /\ AnchorIsCurrent'
    BY <1>1, <1>2, <1>5, <2>3 DEF MarkerTypeOK, AnchorIsCurrent, Shows
  <2>5. QED
    BY <1>3, <2>4 DEF MarkerInv, Right, Count
<1>6. QED
  BY <1>4, <1>5

\* A failed read leaves no marker.
LEMMA MarkerMergeNothingOK ==
  ASSUME MarkerInv, MarkerMergeNothing
  PROVE  MarkerInv'
<1>1. LegendOK /\ MarkerTypeOK
  BY DEF MarkerInv
<1>2. LegendOK' /\ MarkerTypeOK' /\ AnchorIsCurrent' /\ marker' = None
  BY <1>1 DEF MarkerMergeNothing, MarkerTypeOK, AnchorIsCurrent, LegendOK
<1>3. QED
  BY <1>2 DEF MarkerInv

\* A click is one call.
LEMMA MarkerToggleOK ==
  ASSUME MarkerInv, NEW c \in Class, HandleClick(c), MarkerToggle(c)
  PROVE  MarkerInv'
<1>1. /\ LegendOK /\ MarkerTypeOK /\ AnchorIsCurrent
      /\ marker # None => hidden = Off /\ Right(marker, hidden)
  BY DEF MarkerInv
<1>2. /\ legend' \in [Class -> BOOLEAN] /\ (legend'[c] <=> ~legend[c])
      /\ \A d \in Class : d # c => legend'[d] = legend[d]
      /\ legend[c] \in BOOLEAN
  BY <1>1 DEF HandleClick, LegendOK
<1>3. /\ hidden \in SUBSET News /\ inView \in BOOLEAN /\ onLayer \in BOOLEAN
      /\ node \in Node \cup {NoNode} /\ marker \in Marker \cup {None}
  BY <1>1 DEF MarkerTypeOK
<1>4. CASE marker # None
  <2> DEFINE s == [hidden |-> hidden, marker |-> marker,
                   node |-> node, view |-> inView]
             on == ~legend[c]
             t == Call(s, c, on)
  <2>1. s \in Sound
    <3>1. Right(s.marker, s.hidden) /\ Shows(s.node, s.marker, s.view)
      BY <1>1, <1>4 DEF AnchorIsCurrent, Shows
    <3>2. s \in Stage
      BY <1>3, <1>4 DEF Stage
    <3>3. QED
      BY <3>1, <3>2 DEF Sound
  <2>2. s.hidden = hidden /\ s.view = inView /\ on \in BOOLEAN /\ on = ~legend[c]
    OBVIOUS
  <2>3. hidden' = t.hidden /\ marker' = t.marker /\ node' = t.node
        /\ inView' = t.view /\ onLayer' = onLayer
    BY <1>4 DEF MarkerToggle, Become
  <2> HIDE DEF s, on
  <2>4. /\ t \in Sound /\ t.view = s.view
        /\ t.hidden = HiddenAfter(s.hidden, c, on) /\ Right(t.marker, t.hidden)
    BY <2>1, <2>2, CallOK
  <2>5. /\ t.hidden \in SUBSET News /\ t.marker \in Marker
        /\ t.node \in Node \cup {NoNode} /\ Shows(t.node, t.marker, t.view)
    BY <2>4 DEF Sound, Stage
  <2>6. t.marker # None
    BY <2>5, MarkerAssumption
  <2> HIDE DEF t
  <2>7. hidden' = Off'
    <3>1. ASSUME NEW n \in News PROVE n \in t.hidden <=> ~legend'[Cat[n]]
      <4>1. Cat[n] \in Class /\ hidden = Off
        BY <1>1, <1>4, MarkerAssumption
      <4>2. CASE Cat[n] = c
        BY <1>2, <2>2, <2>4, <4>2 DEF HiddenAfter
      <4>3. CASE Cat[n] # c
        BY <1>2, <2>2, <2>4, <4>1, <4>3 DEF HiddenAfter, Off
      <4>4. QED
        BY <4>2, <4>3
    <3>2. QED
      BY <2>3, <2>5, <3>1 DEF Off
  <2>8. MarkerTypeOK'
    BY <1>2, <1>3, <2>2, <2>3, <2>4, <2>5 DEF MarkerTypeOK
  <2>9. AnchorIsCurrent'
    BY <2>3, <2>5, <2>6 DEF AnchorIsCurrent, Shows
  <2>10. Right(marker', hidden')
    BY <2>3, <2>4
  <2>11. QED
    BY <1>2, <2>7, <2>8, <2>9, <2>10 DEF MarkerInv, LegendOK, Right, Count
<1>5. CASE marker = None
  <2>1. /\ hidden' = IF onLayer THEN HiddenAfter(hidden, c, ~legend[c]) ELSE hidden
        /\ UNCHANGED <<onLayer, marker, node, inView>>
    BY <1>5 DEF MarkerToggle
  <2>2. hidden' \in SUBSET News
    BY <1>3, <2>1 DEF HiddenAfter
  <2>3. MarkerTypeOK' /\ AnchorIsCurrent'
    BY <1>1, <1>2, <1>3, <1>5, <2>1, <2>2 DEF MarkerTypeOK, AnchorIsCurrent
  <2>4. QED
    BY <1>2, <1>5, <2>1, <2>3 DEF MarkerInv, LegendOK
<1>6. QED
  BY <1>4, <1>5

-----------------------------------------------------------------------------
(* Both layers behind the legend.                                          *)

Inv == ServerInv /\ MarkerInv

\* What the areas or the marker do not touch stays as it was.
LEMMA ServerSame ==
  ASSUME ServerInv, UNCHANGED legend, UNCHANGED serverVars
  PROVE  ServerInv'
  BY DEF ServerInv, serverVars, LegendOK, ServerTypeOK, CountIsVisibleSum,
         ScreenIsCurrent, Sum, Sums, Present

\* The same for the marker.
LEMMA MarkerSame ==
  ASSUME MarkerInv, UNCHANGED legend, UNCHANGED markerVars
  PROVE  MarkerInv'
  BY DEF MarkerInv, markerVars, LegendOK, MarkerTypeOK, AnchorIsCurrent, Off,
         Right, Count

\* A move of the map clusters again or draws again.
LEMMA MarkerMoveOK ==
  ASSUME MarkerInv, NEW view \in BOOLEAN, MarkerZoom(view) \/ MarkerPan(view)
  PROVE  MarkerInv'
<1>1. CASE MarkerZoom(view)
  <2>1. hidden \in SUBSET News
    BY DEF MarkerInv, MarkerTypeOK
  <2>2. /\ Become(Clustered(hidden, view))
        /\ onLayer' \in BOOLEAN /\ legend' = legend
    BY <1>1 DEF MarkerZoom
  <2>3. QED
    BY <2>1, <2>2, BecomeOK
<1>2. CASE MarkerPan(view)
  BY <1>2, MarkerPanOK
<1>3. QED
  BY <1>1, <1>2

\* An answer brings a new marker or takes the old one away.
LEMMA MarkerAnswerOK ==
  ASSUME MarkerInv, MarkerMerge \/ MarkerMergeNothing
  PROVE  MarkerInv'
<1>1. CASE MarkerMerge
  <2> DEFINE hid == {n \in News : ~legend[Cat[n]]}
  <2>1. /\ Become(Clustered(hid, inView))
        /\ onLayer' \in BOOLEAN /\ legend' = legend
    BY <1>1 DEF MarkerMerge
  <2>2. hid \in SUBSET News /\ inView \in BOOLEAN
    BY DEF MarkerInv, MarkerTypeOK
  <2> HIDE DEF hid
  <2>3. QED
    BY <2>1, <2>2, BecomeOK
<1>2. CASE MarkerMergeNothing
  BY <1>2, MarkerMergeNothingOK
<1>3. QED
  BY <1>1, <1>2

\* Every step keeps both.
LEMMA StepOK == Inv /\ [Next]_vars => Inv'
<1> SUFFICES ASSUME Inv, [Next]_vars PROVE Inv'
  OBVIOUS
<1>1. ServerInv /\ MarkerInv
  BY DEF Inv
<1>2. ASSUME NEW c \in Class, Toggle(c) PROVE Inv'
  BY <1>1, <1>2, ServerToggleOK, MarkerToggleOK DEF Toggle, Inv
<1>3. CASE MoveToAreas
  <2>1. PICK read \in BOOLEAN, view \in SUBSET Area : ServerMove(TRUE, read, view)
    BY <1>3 DEF MoveToAreas
  <2>2. UNCHANGED markerVars /\ UNCHANGED legend
    BY <1>3, <2>1 DEF MoveToAreas, ServerMove
  <2>3. QED
    BY <1>1, <2>1, <2>2, ServerMoveOK, MarkerSame DEF Inv
<1>4. ASSUME ServerMove(FALSE, FALSE, {}) PROVE ServerInv'
  <2>1. FALSE \in BOOLEAN /\ {} \in SUBSET Area
    OBVIOUS
  <2>2. QED
    BY <1>1, <1>4, <2>1, ServerMoveOK
<1>5. CASE MoveToMarkers
  BY <1>1, <1>4, <1>5, MarkerMoveOK DEF MoveToMarkers, Inv
<1>6. CASE MoveElsewhere
  <2>1. UNCHANGED markerVars /\ UNCHANGED legend /\ ServerMove(FALSE, FALSE, {})
    BY <1>6 DEF MoveElsewhere, ServerMove
  <2>2. QED
    BY <1>1, <1>4, <2>1, MarkerSame DEF Inv
<1>7. CASE AreasAnswer
  <2>1. UNCHANGED markerVars /\ UNCHANGED legend
    BY <1>7 DEF AreasAnswer, ServerMerge, ServerMergeNothing
  <2>2. QED
    BY <1>1, <1>7, <2>1, ServerMergeOK, ServerMergeNothingOK, MarkerSame
    DEF AreasAnswer, Inv
<1>8. CASE MarkerAnswer
  <2>1. UNCHANGED serverVars /\ UNCHANGED legend
    BY <1>8 DEF MarkerAnswer, MarkerMerge, MarkerMergeNothing
  <2>2. QED
    BY <1>1, <1>8, <2>1, MarkerAnswerOK, ServerSame DEF MarkerAnswer, Inv
<1>9. CASE UNCHANGED vars
  BY <1>1, <1>9, ServerSame, MarkerSame DEF vars, Inv
<1>10. QED
  BY <1>2, <1>3, <1>5, <1>6, <1>7, <1>8, <1>9 DEF Next

\* Both invariants, always.
THEOREM MarkersInvariant == Spec => []Inv
<1>1. Init => Inv
  BY ServerInitOK, MarkerInitOK DEF Init, Inv
<1>2. QED
  BY <1>1, StepOK, PTL DEF Spec

\* The variables of the areas and the marker keep their types, counts that
\* are added to and subtracted from among them.
THEOREM TypeCorrect == Spec => []TypeOK
<1>1. Inv => TypeOK
  BY DEF Inv, ServerInv, MarkerInv, TypeOK
<1>2. QED
  BY <1>1, MarkersInvariant, PTL

\* However often the themes are switched, an area counts what is on
\* (ServerSideCluster.onUpdateThemeVisibility, updateVisibility).
THEOREM CountAlwaysSum == Spec => []CountIsVisibleSum
<1>1. Inv => CountIsVisibleSum
  BY DEF Inv, ServerInv
<1>2. QED
  BY <1>1, MarkersInvariant, PTL

\* The layer of areas on screen shows the counts of this moment.
THEOREM ScreenAlwaysCurrent == Spec => []ScreenIsCurrent
<1>1. Inv => ScreenIsCurrent
  BY DEF Inv, ServerInv
<1>2. QED
  BY <1>1, MarkersInvariant, PTL

\* The anchor of the marker shows it as it is (Renderer.Anchor).
THEOREM AnchorAlwaysCurrent == Spec => []AnchorIsCurrent
<1>1. Inv => AnchorIsCurrent
  BY DEF Inv, MarkerInv
<1>2. QED
  BY <1>1, MarkersInvariant, PTL

\* One call after another ends with the marker the legend asks for
\* (Cluster.onUpdateThemeVisibility).
THEOREM MarkerAlwaysMatches == Spec => []MarkerMatchesLegend
<1>1. Inv => MarkerMatchesLegend
  <2> SUFFICES ASSUME Inv, marker # None
               PROVE  /\ marker.count = Cardinality(Visible)
                      /\ marker.styled <=> Visible = {}
                      /\ marker.cat = IF marker.count = 1
                                        THEN Cat[CHOOSE n \in Visible : TRUE]
                                        ELSE ClusterCat
                      /\ marker.count = 1 => marker.info # None
    BY DEF MarkerMatchesLegend
  <2>1. hidden = Off /\ Right(marker, hidden)
    BY DEF Inv, MarkerInv
  <2>2. News \ hidden = Visible
    BY <2>1 DEF Off, Visible
  <2>3. Visible \in SUBSET News
    BY DEF Visible
  <2>4. IsFiniteSet(Visible) /\ Cardinality(Visible) \in Nat
    BY <2>3, NewsFacts
  <2>5. marker.count = Cardinality(Visible) /\ (marker.styled <=> marker.count = 0)
    BY <2>1, <2>2 DEF Right, Count
  <2>6. marker.styled <=> Visible = {}
    BY <2>4, <2>5, FS_EmptySet
  <2>7. ASSUME marker.count = 1
        PROVE  marker.cat = Cat[CHOOSE n \in Visible : TRUE] /\ marker.info # None
    <3>1. Visible # {}
      BY <2>5, <2>6, <2>7
    <3>2. (CHOOSE n \in Visible : TRUE) \in Visible
      BY <3>1
    <3>3. QED
      BY <2>1, <2>2, <2>7, <3>2 DEF Right
  <2>8. marker.count # 1 => marker.cat = ClusterCat
    BY <2>1 DEF Right
  <2>9. QED
    BY <2>5, <2>6, <2>7, <2>8
<1>2. QED
  BY <1>1, MarkersInvariant, PTL

-----------------------------------------------------------------------------
(* The steps of ClusterLayer.                                              *)

\* The rest of a layer that has these members in one cluster; what happens to
\* a marker does not depend on it.
CONSTANTS Pos, Centre, Zoom, InRange, Half, Distance, Column
VARIABLES centre, zoom, bounds, response, lost, cached, resolution, singles,
          clusters

Layer == INSTANCE ClusterLayer WITH Feature <- News

\* The marker as ClusterLayer knows it.
AsMarker(m) == [members |-> News, count |-> m.count, cat |-> m.cat,
                shown |-> ~m.styled]

\* Both count sets alike.
LEMMA SameCardinality == \A S : Layer!Cardinality(S) = Cardinality(S)
BY DEF Layer!Cardinality, Cardinality

\* A marker that already counts the visible members is left alone.
LEMMA RecountLeaves ==
  ASSUME NEW m \in Marker, NEW hid, m.count = Count(hid)
  PROVE  Layer!Recount(AsMarker(m), hid) = AsMarker(m)
BY SameCardinality DEF AsMarker, Count, Layer!Recount

\* A marker that counts other members gets its count, look and style anew.
LEMMA RecountAnew ==
  ASSUME NEW m \in Marker, NEW r \in Marker, NEW hid \in SUBSET News,
         m.count # Count(hid), Right(r, hid)
  PROVE  Layer!Recount(AsMarker(m), hid) = AsMarker(r)
<1> DEFINE cnt == Cardinality(News \ hid)
           a == AsMarker(m)
<1>1. a.members = News /\ a.count = m.count
  BY DEF AsMarker
<1>2. cnt # a.count /\ cnt = Count(hid)
  BY <1>1 DEF Count
<1>3. Layer!Recount(a, hid) =
        [members |-> News, count |-> cnt,
         cat |-> IF cnt = 1 THEN Cat[Layer!OnlyChild(a, hid)] ELSE ClusterCat,
         shown |-> cnt # 0]
  <2> HIDE DEF a
  <2>1. QED
    BY <1>1, <1>2, SameCardinality DEF Layer!Recount, Layer!ClusterCat, ClusterCat
<1>4. r.count = cnt /\ r.styled \in BOOLEAN /\ (r.styled <=> cnt = 0)
  BY <1>2 DEF Right, Marker
<1>5. r.cat = IF cnt = 1 THEN Cat[Layer!OnlyChild(a, hid)] ELSE ClusterCat
  <2>1. CASE cnt = 1
    <3>1. News \ hid = {LastSeen(hid)}
      BY <1>2, <2>1, LastSeenOK
    <3>2. Layer!OnlyChild(a, hid) = CHOOSE f \in News : f \notin hid
      BY <1>1 DEF Layer!OnlyChild
    <3>3. Layer!OnlyChild(a, hid) \in News \ hid
      BY <3>1, <3>2
    <3>4. QED
      BY <1>2, <1>4, <2>1, <3>3 DEF Right
  <2>2. CASE cnt # 1
    BY <1>2, <1>4, <2>2 DEF Right
  <2>3. QED
    BY <2>1, <2>2
<1>6. (~r.styled) = (cnt # 0)
  BY <1>4
<1> HIDE DEF cnt, a
<1>7. QED
  BY <1>3, <1>4, <1>5, <1>6 DEF AsMarker, a

\* A click in the legend does to a marker and its members what one call of
\* onUpdateThemeVisibility does: the step of ClusterLayer is that call.
THEOREM CallIsRecount ==
  ASSUME NEW s \in Sound, NEW c \in Class, NEW visible \in BOOLEAN
  PROVE  LET t == Call(s, c, visible)
         IN  /\ t.hidden = Layer!HideTheme(s.hidden, c, visible, News)
             /\ AsMarker(t.marker) = Layer!Recount(AsMarker(s.marker), t.hidden)
<1> DEFINE t == Call(s, c, visible)
<1>1. /\ t \in Sound /\ t.hidden = HiddenAfter(s.hidden, c, visible)
      /\ Right(t.marker, t.hidden)
  BY CallOK
<1>2. /\ s \in Stage /\ s.marker \in Marker
      /\ t.marker \in Marker /\ t.hidden \in SUBSET News
  BY <1>1 DEF Sound, Stage
<1>3. t.hidden = Layer!HideTheme(s.hidden, c, visible, News)
  BY <1>1 DEF HiddenAfter, Layer!HideTheme
<1>4. t.marker = Updated(s.marker, t.hidden)
  <2> DEFINE m == Updated(s.marker, HiddenAfter(s.hidden, c, visible))
             n == IF m = s.marker THEN s.node ELSE Drawn(s.node, m, s.view)
             h == HiddenAfter(s.hidden, c, visible)
  <2>1. t = [s EXCEPT !.hidden = h, !.marker = m, !.node = n]
    BY DEF Call
  <2>2. t.hidden = h
    BY <1>1
  <2>3. m = Updated(s.marker, h)
    OBVIOUS
  <2> HIDE DEF m, n, h, t
  <2>4. t.marker = m
    BY <1>2, <2>1 DEF Stage
  <2>5. QED
    BY <2>2, <2>3, <2>4
<1> HIDE DEF t
<1>5. AsMarker(t.marker) = Layer!Recount(AsMarker(s.marker), t.hidden)
  <2>1. CASE s.marker.count = Count(t.hidden)
    <3>1. t.marker = s.marker
      BY <1>4, <2>1 DEF Updated
    <3>2. QED
      BY <1>2, <2>1, <3>1, RecountLeaves
  <2>2. CASE s.marker.count # Count(t.hidden)
    BY <1>1, <1>2, <2>2, RecountAnew
  <2>3. QED
    BY <2>1, <2>2
<1>6. QED
  BY <1>3, <1>5 DEF t

\* The calls for all themes, one after another, after a clustering (of new
\* markers) or when the clusters are kept (of members that follow the legend),
\* come to one recount at the end: ClusterLayer may take them as one step,
\* although the counts in between are others (Cluster.cluster).
THEOREM CallsAreRecount ==
  ASSUME NEW s \in Sound, LegendOK, Fresh(s.marker) \/ s.hidden = Off
  PROVE  LET t == Calls(s)
         IN  /\ t.hidden = Layer!HideThemes(s.hidden, News)
             /\ AsMarker(t.marker) = Layer!Recount(AsMarker(s.marker), t.hidden)
<1> DEFINE t == Calls(s)
<1>1. t \in Sound /\ t.hidden = Off /\ Right(t.marker, t.hidden)
  BY CallsOK
<1>2. /\ s.marker \in Marker /\ s.hidden \in SUBSET News
      /\ t.marker \in Marker /\ t.hidden \in SUBSET News
  BY <1>1 DEF Sound, Stage
<1> HIDE DEF t
<1>3. t.hidden = Layer!HideThemes(s.hidden, News)
  BY <1>1, <1>2 DEF Off, Layer!HideThemes
<1>4. AsMarker(t.marker) = Layer!Recount(AsMarker(s.marker), t.hidden)
  <2>1. CASE s.marker.count # Count(t.hidden)
    BY <1>1, <1>2, <2>1, RecountAnew
  <2>2. CASE s.marker.count = Count(t.hidden)
    <3>1. Right(s.marker, s.hidden) \/ Fresh(s.marker)
      BY DEF Sound
    <3>2. AsMarker(t.marker) = AsMarker(s.marker)
      <4>1. t.marker.count = s.marker.count /\ s.marker.count \in Nat
        BY <1>1, <1>2, <2>2 DEF Right, Marker
      <4>2. /\ t.marker.styled \in BOOLEAN /\ s.marker.styled \in BOOLEAN
            /\ t.marker.styled <=> t.marker.count = 0
            /\ t.marker.count # 1 => t.marker.cat = ClusterCat
        BY <1>1, <1>2 DEF Right, Marker
      <4>3. CASE Fresh(s.marker)
        BY <4>1, <4>2, <4>3 DEF Fresh, AsMarker
      <4>4. CASE ~Fresh(s.marker)
        <5>1. Right(s.marker, t.hidden) /\ Right(t.marker, t.hidden)
          BY <1>1, <3>1, <4>4
        <5>2. t.marker.styled = s.marker.styled
          BY <4>2, <5>1 DEF Right
        <5>3. t.marker.cat = s.marker.cat
          <6>1. CASE t.marker.count = 1
            <7>1. Count(t.hidden) = 1
              BY <2>2, <4>1, <6>1
            <7>2. LastSeen(t.hidden) \in News \ t.hidden
              BY <1>2, <7>1, LastSeenOK
            <7>3. QED
              BY <4>1, <5>1, <6>1, <7>2 DEF Right
          <6>2. CASE t.marker.count # 1
            BY <4>1, <5>1, <6>2 DEF Right
          <6>3. QED
            BY <6>1, <6>2
        <5>4. QED
          BY <4>1, <5>2, <5>3 DEF AsMarker
      <4>5. QED
        BY <4>3, <4>4
    <3>3. QED
      BY <1>2, <2>2, <3>2, RecountLeaves
  <2>3. QED
    BY <2>1, <2>2
<1>5. QED
  BY <1>3, <1>4 DEF t
=============================================================================
