----------------------------- MODULE ChartProofs -----------------------------
(***************************************************************************)
(* Proofs about charts, for any k-lines, lengths and grids: every price    *)
(* finds the nearest level of every grid, as far as the rounding of the    *)
(* interval allows; a value that an indicator has given stays as k-lines   *)
(* arrive; SuperTrend trails, and signals tell the side the close is on;   *)
(* the indicators are what their definitions say; and a chart upside down  *)
(* is told as one. The first two need no arithmetic of fractions; the      *)
(* others rest on it, which is proved in between, from the greatest common *)
(* divisor on.                                                             *)
(***************************************************************************)
EXTENDS Chart, DataLemmas, TLAPS

LEMMA TimesMonotone ==
  ASSUME NEW i \in Nat, NEW a \in Int, NEW b \in Int, a <= b
  PROVE  i * a <= i * b
<1>1. i * (b - a) >= 0 BY SMT
<1> QED BY <1>1, SMT

LEMMA Quotient ==
  ASSUME NEW a \in Int, NEW b \in Nat \ {0}
  PROVE  /\ a \div b \in Int
         /\ b * (a \div b) <= a
         /\ a < b * ((a \div b) + 1)
BY SMT

LEMMA Divided ==
  ASSUME NEW a \in Nat, NEW b \in Nat \ {0}, a % b = 0
  PROVE  a = b * (a \div b)
BY SMT

LEMMA QuotientIs ==
  ASSUME NEW a \in Int, NEW b \in Nat \ {0}, NEW q \in Int, b * q <= a, a < b * (q + 1)
  PROVE  a \div b = q
<1> DEFINE r == a \div b
<1>1. r \in Int /\ b * r <= a /\ a < b * (r + 1) BY Quotient
<1> HIDE DEF r
<1>2. CASE r < q
  <2>1. b * (r + 1) <= b * q BY <1>1, <1>2, TimesMonotone
  <2> QED BY <1>1, <2>1, SMT
<1>3. CASE q < r
  <2>1. b * (q + 1) <= b * r BY <1>1, <1>3, TimesMonotone
  <2> QED BY <1>1, <2>1, SMT
<1>4. r = q BY <1>1, <1>2, <1>3
<1> QED BY <1>4 DEF r

\* A multiple of the tick stays as it is.
LEMMA OnTick ==
  ASSUME NEW tick \in Nat \ {0}, NEW k \in Int
  PROVE  RoundPrice(tick * k, 1, tick) = tick * k
<1>1. tick * k \in Int /\ 2 * tick \in Nat \ {0} BY SMT
<1>2. (2 * tick) * k = 2 * (tick * k) BY SMT
<1>3. (2 * tick) * (k + 1) = 2 * (tick * k) + 2 * tick BY SMT
<1>4. (2 * (tick * k) + tick) \div (2 * tick) = k
  BY <1>1, <1>2, <1>3, QuotientIs, SMT
<1>5. 1 * tick = tick /\ 2 * 1 * tick = 2 * tick BY SMT
<1> QED BY <1>4, <1>5 DEF RoundPrice

\* The interval is a multiple of the tick, and not negative.
LEMMA IntervalType ==
  ASSUME NEW g \in Grids
  PROVE  GridInterval(g) \in Nat /\ \E m \in Int : GridInterval(g) = g.tick * m
<1> DEFINE a == 2 * (g.upper - g.lower) + g.number * g.tick
<1> DEFINE b == 2 * g.number * g.tick
<1>1. /\ g.lower \in Nat /\ g.upper \in Nat /\ g.number \in Nat \ {0} /\ g.tick \in Nat \ {0}
      /\ g.lower < g.upper
  BY DEF Grids
<1>2. g.number * g.tick \in Nat \ {0} BY <1>1, SMT
<1>3. a \in Nat /\ b \in Nat \ {0}
  <2>1. b = 2 * (g.number * g.tick) BY <1>1, SMT
  <2> QED BY <1>1, <1>2, <2>1, SMT
<1> HIDE DEF a, b
<1>4. a \div b \in Int /\ a < b * ((a \div b) + 1) BY <1>3, Quotient
<1>5. a \div b \in Nat
  <2>1. CASE a \div b <= -1
    <3>1. b * ((a \div b) + 1) <= b * 0 BY <1>3, <1>4, <2>1, TimesMonotone
    <3> QED BY <1>3, <1>4, <3>1, SMT
  <2> QED BY <1>4, <2>1, SMT
<1>6. GridInterval(g) = g.tick * (a \div b) BY DEF GridInterval, RoundPrice, a, b
<1> QED BY <1>1, <1>5, <1>6, SMT

\* A level below the last one is exactly its number of intervals above the lower
\* price, when that is on the tick.
LEMMA InnerPrice ==
  ASSUME NEW g \in Grids, g.lower % g.tick = 0, NEW j \in Int, j # g.number
  PROVE  GridPrice(g, j) = g.lower + j * GridInterval(g)
<1>1. g.lower \in Nat /\ g.tick \in Nat \ {0} BY DEF Grids
<1>2. PICK l \in Int : g.lower = g.tick * l
  <2>1. g.lower \div g.tick \in Int BY <1>1, Quotient
  <2> QED BY <1>1, <2>1, Divided
<1>3. PICK m \in Int : GridInterval(g) = g.tick * m BY IntervalType
<1>4. g.lower + j * GridInterval(g) = g.tick * (l + j * m)
  <2>1. j * (g.tick * m) = g.tick * (j * m) BY <1>1, SMT
  <2>2. g.tick * (l + j * m) = g.tick * l + g.tick * (j * m) BY <1>1, SMT
  <2> QED BY <1>2, <1>3, <2>1, <2>2
<1>5. l + j * m \in Int BY SMT
<1> QED BY <1>1, <1>4, <1>5, OnTick DEF GridPrice

\* The index inside the grid is the nearest whole number of intervals.
LEMMA IndexInside ==
  ASSUME NEW g \in Grids, NEW price \in Int, g.lower < price, price < g.upper,
         GridInterval(g) # 0
  PROVE  LET i == NearestIndex(g, price)
             x == GridInterval(g)
         IN  /\ i \in Nat
             /\ (2 * x) * i <= 2 * (price - g.lower) + x
             /\ 2 * (price - g.lower) + x < (2 * x) * (i + 1)
<1> DEFINE x == GridInterval(g)
<1> DEFINE a == 2 * (price - g.lower) + x
<1> DEFINE i == a \div (2 * x)
<1>1. x \in Nat \ {0} BY IntervalType
<1>2. g.lower \in Nat /\ g.upper \in Nat BY DEF Grids
<1>3. a \in Nat \ {0} /\ 2 * x \in Nat \ {0} BY <1>1, <1>2, SMT
<1>4. i \in Int /\ (2 * x) * i <= a /\ a < (2 * x) * (i + 1) BY SMTT(30), <1>3, Quotient
<1>5. i \in Nat
  <2>1. CASE i <= -1
    <3>1. (2 * x) * (i + 1) <= (2 * x) * 0 BY <1>3, <1>4, <2>1, TimesMonotone
    <3> QED BY <1>3, <1>4, <3>1, SMT
  <2> QED BY <1>4, <2>1, SMT
<1>6. NearestIndex(g, price) = i BY <1>1, <1>2 DEF NearestIndex, Round
<1> QED BY <1>4, <1>5, <1>6

\* A point within half an interval is as near as one an interval further.
LEMMA NearerPoint ==
  ASSUME NEW p \in Int, NEW a \in Int, NEW b \in Int, NEW x \in Nat,
         2 * a <= 2 * p + x, 2 * p + x < 2 * a + 2 * x, b <= a - x \/ b >= a + x
  PROVE  Distance(p, a) <= Distance(p, b)
BY SMT DEF Distance

-----------------------------------------------------------------------------
LEMMA FindsLevelAlways ==
  ASSUME NEW g \in Grids, NEW price \in Int
  PROVE  FindsLevel(g, price)
<1> DEFINE x == GridInterval(g)
<1> DEFINE i == NearestIndex(g, price)
<1> SUFFICES ASSUME g.lower < price, price < g.upper
             PROVE  i \in 0..g.number <=> 2 * (price - g.lower) < (2 * g.number + 1) * x
  BY DEF FindsLevel
<1>1. g.lower \in Nat /\ g.upper \in Nat /\ g.number \in Nat \ {0} /\ x \in Nat
  BY IntervalType DEF Grids
<1>2. CASE x = 0
  <2>1. i = g.number + 1 BY <1>1, <1>2 DEF NearestIndex
  <2>2. (2 * g.number + 1) * x = 0 BY <1>1, <1>2, SMT
  <2> QED BY <1>1, <2>1, <2>2, SMT
<1>3. CASE x # 0
  <2>1. /\ i \in Nat
        /\ (2 * x) * i <= 2 * (price - g.lower) + x
        /\ 2 * (price - g.lower) + x < (2 * x) * (i + 1)
    BY <1>3, IndexInside
  <2>2. (2 * x) * (g.number + 1) = (2 * g.number + 1) * x + x BY <1>1, SMT
  <2>3. ASSUME i <= g.number PROVE (2 * x) * (i + 1) <= (2 * x) * (g.number + 1)
    BY <1>1, <2>1, <2>3, TimesMonotone
  <2>4. ASSUME g.number + 1 <= i PROVE (2 * x) * (g.number + 1) <= (2 * x) * i
    BY <1>1, <2>1, <2>4, TimesMonotone
  <2>5. (2 * x) * i \in Int /\ (2 * x) * (i + 1) \in Int /\ (2 * g.number + 1) * x \in Int
    BY <1>1, <2>1, SMT
  <2> HIDE DEF x, i
  <2> QED BY <1>1, <2>1, <2>2, <2>3, <2>4, <2>5, SMT
<1> QED BY <1>2, <1>3

LEMMA FindsNearestAlways ==
  ASSUME NEW g \in Grids, NEW price \in Int
  PROVE  FindsNearest(g, price)
<1> DEFINE x == GridInterval(g)
<1> DEFINE i == NearestIndex(g, price)
<1> SUFFICES ASSUME g.lower % g.tick = 0, i \in 0..g.number, NEW j \in 0..g.number
             PROVE  Distance(price, GridPrice(g, i)) <= Distance(price, GridPrice(g, j)) + Drift(g)
  BY DEF FindsNearest
<1>1. /\ g.lower \in Nat /\ g.upper \in Nat /\ g.number \in Nat \ {0} /\ x \in Nat
      /\ g.lower < g.upper
  BY IntervalType DEF Grids
<1>2. \A k \in 0..g.number : k # g.number => GridPrice(g, k) = g.lower + k * x
  BY InnerPrice
<1>3. GridPrice(g, g.number) = g.upper BY DEF GridPrice
<1>4. \A k \in 0..g.number : k * x \in Nat /\ k * x <= g.number * x
  <2>1. TAKE k \in 0..g.number
  <2>2. x * k <= x * g.number BY <1>1, TimesMonotone
  <2>3. x * k = k * x /\ x * g.number = g.number * x /\ k * x \in Nat BY <1>1, SMT
  <2> QED BY <2>2, <2>3
<1>5. CASE price <= g.lower
  <2>1. i = 0 /\ 0 # g.number /\ 0 * x = 0 BY <1>1, <1>5, SMT DEF NearestIndex
  <2>2. GridPrice(g, i) = g.lower BY <1>1, <1>2, <2>1, SMT
  <2>3. GridPrice(g, j) \in Int /\ GridPrice(g, j) >= g.lower
    <3>1. CASE j = g.number BY <1>1, <1>3, <3>1, SMT
    <3>2. CASE j # g.number
      <4>1. GridPrice(g, j) = g.lower + j * x BY <1>2, <3>2
      <4> QED BY <1>1, <1>4, <4>1, SMT
    <3> QED BY <3>1, <3>2
  <2>4. Drift(g) \in Nat BY <1>1, <1>4, SMT DEF Drift, Distance
  <2> QED BY <1>1, <1>5, <2>2, <2>3, <2>4, SMT DEF Distance
<1>6. CASE g.upper <= price
  <2>1. i = g.number BY <1>1, <1>6 DEF NearestIndex
  <2>2. CASE j = g.number
    <3>1. Drift(g) \in Nat BY <1>1, <1>4, SMT DEF Drift, Distance
    <3> QED BY <1>1, <1>3, <2>1, <2>2, <3>1, SMT DEF Distance
  <2>3. CASE j # g.number
    <3>1. GridPrice(g, j) = g.lower + j * x BY <1>2, <2>3
    <3> QED BY <1>1, <1>3, <1>4, <1>6, <2>1, <3>1, SMT DEF Distance, Drift
  <2> QED BY <2>2, <2>3
<1>7. CASE g.lower < price /\ price < g.upper
  <2>1. x # 0 BY <1>1, <1>7 DEF NearestIndex
  <2>2. /\ (2 * x) * i <= 2 * (price - g.lower) + x
        /\ 2 * (price - g.lower) + x < (2 * x) * (i + 1)
    BY <1>7, <2>1, IndexInside
  <2>3. (2 * x) * i = 2 * (i * x) /\ (2 * x) * (i + 1) = 2 * (i * x) + 2 * x
    BY <1>1, SMT
  <2>4. j # i => j * x <= i * x - x \/ j * x >= i * x + x
    <3>1. CASE j <= i - 1
      <4>1. x * j <= x * (i - 1) BY <1>1, <3>1, TimesMonotone
      <4> QED BY <1>1, <4>1, SMT
    <3>2. CASE j >= i + 1
      <4>1. x * (i + 1) <= x * j BY <1>1, <3>2, TimesMonotone
      <4> QED BY <1>1, <4>1, SMT
    <3> QED BY <3>1, <3>2, <1>1, SMT
  <2>5. CASE i = j
    <3>1. Drift(g) \in Nat BY <1>1, <1>4, SMT DEF Drift, Distance
    <3>2. GridPrice(g, i) \in Int
      <4> HIDE DEF x, i
      <4>1. CASE i = g.number BY <1>1, <1>3, <4>1
      <4>2. CASE i # g.number BY <1>1, <1>2, <1>4, <4>2
      <4> QED BY <4>1, <4>2
    <3> QED BY <1>7, <2>5, <3>1, <3>2, SMT DEF Distance
  <2>6. CASE i # j
    <3> HIDE DEF x, i
    <3>1. i * x \in Nat /\ j * x \in Nat /\ g.number * x \in Nat BY <1>1, <1>4
    <3>2. CASE i = g.number
      <4>1. GridPrice(g, j) = g.lower + j * x BY <1>2, <2>6, <3>2
      <4> QED BY <1>1, <1>3, <1>7, <2>2, <2>3, <2>4, <2>6, <3>1, <3>2, <4>1, SMT DEF Distance, Drift, x
    <3>3. CASE i # g.number
      <4>1. GridPrice(g, i) = g.lower + i * x BY <1>2, <3>3
      <4>2. CASE j = g.number
        <5>1. GridPrice(g, j) = g.upper BY <1>3, <4>2
        <5> QED BY <1>1, <1>7, <2>2, <2>3, <2>4, <2>6, <3>1, <4>1, <4>2, <5>1, SMT
                DEF Distance, Drift, x
      <4>3. CASE j # g.number
        <5>1. GridPrice(g, j) = g.lower + j * x BY <1>2, <4>3
        <5>2. g.lower + i * x \in Int /\ g.lower + j * x \in Int BY <1>1, <3>1, SMT
        <5>3. Distance(price, g.lower + i * x) <= Distance(price, g.lower + j * x)
          <6>1. 2 * (g.lower + i * x) <= 2 * price + x BY <1>1, <2>2, <2>3, <3>1, SMT
          <6>2. 2 * price + x < 2 * (g.lower + i * x) + 2 * x BY <1>1, <2>2, <2>3, <3>1, SMT
          <6>3. g.lower + j * x <= (g.lower + i * x) - x \/ g.lower + j * x >= (g.lower + i * x) + x
            BY <1>1, <2>4, <2>6, <3>1, SMT
          <6> QED BY <1>1, <5>2, <6>1, <6>2, <6>3, NearerPoint
        <5>4. Drift(g) \in Nat BY <1>1, <3>1, SMT DEF Drift, Distance, x
        <5> QED BY <4>1, <5>1, <5>2, <5>3, <5>4, SMT DEF Distance
      <4> QED BY <4>2, <4>3
    <3> QED BY <3>2, <3>3
  <2> QED BY <2>5, <2>6
<1> QED BY <1>1, <1>5, <1>6, <1>7, SMT

-----------------------------------------------------------------------------
KLinesTyped == kLines \in Seq(KLine)

\* On every chart, the last close finds the level nearest to it in every grid, as far
\* as rounding allows: the index read from the levels is out of their range only in the
\* gap that rounding has left below the upper price.
THEOREM NearestLevel == Spec => []NearestLevelIsFound
<1>1. Init => KLinesTyped BY DEF Init, KLinesTyped
<1>2. KLinesTyped /\ [Next]_kLines => KLinesTyped'
  <2> SUFFICES ASSUME KLinesTyped, [Next]_kLines PROVE KLinesTyped'
    OBVIOUS
  <2>1. CASE Next BY <2>1 DEF Next, KLineArrives, KLinesTyped
  <2>2. CASE UNCHANGED kLines BY <2>2 DEF KLinesTyped
  <2> QED BY <2>1, <2>2
<1>3. KLinesTyped => NearestLevelIsFound
  <2> SUFFICES ASSUME KLinesTyped, kLines # <<>>, NEW g \in Grid
               PROVE  LET price == Last(kLines).close.num
                      IN  FindsLevel(g, price) /\ FindsNearest(g, price)
    BY DEF NearestLevelIsFound
  <2>1. Last(kLines) \in KLine BY SMT DEF KLinesTyped, Last
  <2>2. Last(kLines).close.num \in Int /\ g \in Grids BY <2>1, ChartAssumption DEF ChartAssumption, IsFraction
  <2> QED BY <2>2, FindsLevelAlways, FindsNearestAlways
<1> QED BY <1>1, <1>2, <1>3, PTL DEF Spec
-----------------------------------------------------------------------------
(* Lists: sequences of any values, told by their length and elements.      *)

IsList(s, n) == n \in Nat /\ s = [i \in 1..n |-> s[i]]

LEMMA ListIsSeq ==
  ASSUME NEW s, NEW n, IsList(s, n)
  PROVE  /\ n \in Nat /\ DOMAIN s = 1..n /\ Len(s) = n
         /\ s \in Seq({s[i] : i \in 1..n})
<1>1. n \in Nat /\ s = [i \in 1..n |-> s[i]]
  BY DEF IsList
<1>2. DOMAIN s = 1..n
  BY <1>1
<1> DEFINE S == {s[i] : i \in 1..n}
<1>3. \A i \in 1..n : s[i] \in S
  OBVIOUS
<1> HIDE DEF S
<1>4. s \in [1..n -> S]
  BY <1>1, <1>3
<1>5. s \in Seq(S) /\ Len(s) = n
  BY <1>1, <1>2, <1>4
<1> QED
  BY <1>1, <1>2, <1>5 DEF S

LEMMA ListsEqual ==
  ASSUME NEW s, NEW t, NEW n, IsList(s, n), IsList(t, n), \A i \in 1..n : s[i] = t[i]
  PROVE  s = t
  BY DEF IsList

LEMMA FunctionIsList ==
  ASSUME NEW s, NEW n \in Nat, NEW f, s = [i \in 1..n |-> f[i]]
  PROVE  IsList(s, n) /\ \A i \in 1..n : s[i] = f[i]
  BY DEF IsList

\* A piece of a list.
LEMMA PieceOfList ==
  ASSUME NEW s, NEW n, IsList(s, n), NEW a \in 1..(n + 1), NEW b \in Nat, a - 1 <= b, b <= n
  PROVE  /\ IsList(SubSeq(s, a, b), b - a + 1)
         /\ \A i \in 1..(b - a + 1) : SubSeq(s, a, b)[i] = s[i + a - 1]
<1> DEFINE S == {s[i] : i \in 1..n}
           piece == SubSeq(s, a, b)
<1>1. n \in Nat /\ s \in Seq(S) /\ Len(s) = n
  BY ListIsSeq
<1>2. b - a + 1 \in Nat
  BY <1>1
<1> HIDE DEF S
<1>3. piece = [i \in 1..(b - a + 1) |-> s[a + i - 1]]
  BY <1>1, <1>2
<1>4. \A i \in 1..(b - a + 1) : piece[i] = s[i + a - 1]
  BY <1>1, <1>3
<1>5. piece = [i \in 1..(b - a + 1) |-> piece[i]]
  BY <1>3
<1> QED
  BY <1>2, <1>4, <1>5 DEF IsList

\* The list t goes on where s, of length n, ends.
Grows(s, n, t, m) ==
  /\ IsList(s, n) /\ IsList(t, m) /\ n <= m
  /\ \A i \in 1..n : t[i] = s[i]

LEMMA GrowingExtends ==
  ASSUME NEW s, NEW n, NEW t, NEW m, Grows(s, n, t, m)
  PROVE  Extends(s, t)
<1>1. IsList(s, n) /\ IsList(t, m) /\ n <= m /\ n \in Nat /\ m \in Nat
      /\ \A i \in 1..n : t[i] = s[i]
  BY DEF Grows, IsList
<1>2. Len(s) = n
  BY <1>1, ListIsSeq
<1>3. /\ IsList(SubSeq(t, 1, n), n)
      /\ \A i \in 1..n : SubSeq(t, 1, n)[i] = t[i]
  <2>1. 1 \in 1..(m + 1) /\ 1 - 1 <= n /\ n - 1 + 1 = n /\ \A i \in 1..n : i + 1 - 1 = i
    BY <1>1
  <2>2. /\ IsList(SubSeq(t, 1, n), n - 1 + 1)
        /\ \A i \in 1..(n - 1 + 1) : SubSeq(t, 1, n)[i] = t[i + 1 - 1]
    BY <1>1, <2>1, PieceOfList
  <2> QED
    BY <2>1, <2>2
<1>4. SubSeq(t, 1, n) = s
  BY <1>1, <1>3, ListsEqual
<1> QED
  BY <1>2, <1>4 DEF Extends

\* Pieces of a list that are in it before it grows stay.
LEMMA PieceIsKept ==
  ASSUME NEW s, NEW n, NEW t, NEW m, Grows(s, n, t, m),
         NEW a \in 1..(n + 1), NEW b \in Nat, a - 1 <= b, b <= n
  PROVE  SubSeq(t, a, b) = SubSeq(s, a, b)
<1>1. IsList(s, n) /\ IsList(t, m) /\ n <= m /\ n \in Nat /\ m \in Nat
      /\ \A i \in 1..n : t[i] = s[i]
  BY DEF Grows, IsList
<1> DEFINE k == b - a + 1
<1>2. /\ IsList(SubSeq(s, a, b), k)
      /\ \A i \in 1..k : SubSeq(s, a, b)[i] = s[i + a - 1]
  BY Zenon, <1>1, PieceOfList
<1>3. /\ IsList(SubSeq(t, a, b), k)
      /\ \A i \in 1..k : SubSeq(t, a, b)[i] = t[i + a - 1]
  <2>1. a \in 1..(m + 1) /\ b <= m
    BY <1>1
  <2> QED
    BY SMTT(30), <1>1, <2>1, PieceOfList
<1>4. \A i \in 1..k : i + a - 1 \in 1..n
  BY <1>1
<1>5. \A i \in 1..k : SubSeq(t, a, b)[i] = SubSeq(s, a, b)[i]
  BY <1>1, <1>2, <1>3, <1>4
<1> HIDE DEF k
<1> QED
  BY <1>2, <1>3, <1>5, ListsEqual

-----------------------------------------------------------------------------
(* The loops of the indicators. A loop is a record: the value it starts    *)
(* with, and what it moves on with. Numbers stay opaque: what follows      *)
(* holds for whatever ++, --, ** and // do.                                *)

\* What the loop computes at its j-th value from the one before.
Moved(loop, j, before) ==
  LET series == loop.series
      entering == series[loop.length + j - 1]
  IN  IF loop.kind = "sum" THEN (before -- series[j - 1]) ++ entering
      ELSE IF loop.kind = "smoothed" THEN (entering ** loop.alpha) ++ (before ** (Whole(1) -- loop.alpha))
      ELSE IF loop.kind = "wilder" THEN ((before ** Whole(loop.length - 1)) ++ entering) // Whole(loop.length)
      ELSE IF loop.kind = "total" THEN before ++ series[j - 1]
      ELSE IF loop.kind = "power" THEN loop.alpha ** before
      ELSE NextState(before, loop.basic[j], series[j - 1].close, series[j].close)

ValueOf(f, loop, j) == IF j = 1 THEN loop.first ELSE Moved(loop, j, f[j - 1])

\* f holds the n values of the loop.
IsRun(f, loop, n) == IsList(f, n) /\ \A j \in 1..n : f[j] = ValueOf(f, loop, j)

LEMMA RunExists ==
  ASSUME NEW loop, NEW n \in Nat
  PROVE  \E f : IsRun(f, loop, n)
<1> DEFINE Upto(f, m) == /\ f = [j \in 1..n |-> f[j]]
                         /\ \A j \in 1..n : j <= m => f[j] = ValueOf(f, loop, j)
           N == {m \in Nat : \E f : Upto(f, m)}
<1>1. 0 \in N
  <2> DEFINE f == [j \in 1..n |-> loop.first]
  <2>1. f = [j \in 1..n |-> f[j]]
    OBVIOUS
  <2> HIDE DEF f
  <2>2. Upto(f, 0)
    BY <2>1
  <2> QED
    BY <2>2
<1>2. ASSUME NEW m \in N
      PROVE  m + 1 \in N
  <2>1. PICK g : Upto(g, m)
    OBVIOUS
  <2> DEFINE f == [j \in 1..n |-> IF j = m + 1 THEN ValueOf(g, loop, j) ELSE g[j]]
  <2>2. f = [j \in 1..n |-> f[j]]
    OBVIOUS
  <2>3. \A j \in 1..n : f[j] = IF j = m + 1 THEN ValueOf(g, loop, j) ELSE g[j]
    OBVIOUS
  <2> HIDE DEF f
  <2>4. \A j \in 1..n : j <= m => f[j] = g[j]
    BY <2>3
  <2>5. \A j \in 1..n : j <= m + 1 => ValueOf(f, loop, j) = ValueOf(g, loop, j)
    <3> SUFFICES ASSUME NEW j \in 1..n, j <= m + 1, j # 1
                 PROVE  ValueOf(f, loop, j) = ValueOf(g, loop, j)
      BY DEF ValueOf
    <3>1. j - 1 \in 1..n /\ j - 1 <= m
      OBVIOUS
    <3>2. f[j - 1] = g[j - 1]
      BY <2>4, <3>1
    <3> QED
      BY <3>2 DEF ValueOf
  <2>6. \A j \in 1..n : j <= m + 1 => f[j] = ValueOf(f, loop, j)
    <3> SUFFICES ASSUME NEW j \in 1..n, j <= m + 1
                 PROVE  f[j] = ValueOf(f, loop, j)
      OBVIOUS
    <3>1. CASE j = m + 1
      BY <2>3, <2>5, <3>1
    <3>2. CASE j <= m
      <4>1. f[j] = g[j] /\ g[j] = ValueOf(g, loop, j)
        BY <2>1, <2>4, <3>2
      <4> QED
        BY <2>5, <4>1
    <3> QED
      BY <3>1, <3>2
  <2>7. Upto(f, m + 1)
    BY Zenon, <2>2, <2>6
  <2>8. m + 1 \in Nat
    OBVIOUS
  <2> HIDE DEF Upto
  <2> QED
    BY <2>7, <2>8
<1>3. N = Nat
  <2> HIDE DEF N
  <2>1. N \subseteq Nat
    BY DEF N
  <2> QED
    BY <1>1, <1>2, <2>1, NatSetInduction
<1>4. PICK f : Upto(f, n)
  BY <1>3
<1>5. f = [j \in 1..n |-> f[j]] /\ \A j \in 1..n : f[j] = ValueOf(f, loop, j)
  BY <1>4
<1>6. IsRun(f, loop, n)
  BY Zenon, <1>5 DEF IsRun, IsList
<1> QED
  BY <1>6

\* The same loop as far as its first n values.
SameSteps(loop, other, n) ==
  /\ loop.first = other.first
  /\ \A j \in 2..n : \A v : Moved(loop, j, v) = Moved(other, j, v)

LEMMA RunsAgree ==
  ASSUME NEW f, NEW loop, NEW n, IsRun(f, loop, n),
         NEW g, NEW other, NEW m, IsRun(g, other, m), n <= m, SameSteps(loop, other, n)
  PROVE  Grows(f, n, g, m)
<1> DEFINE N == {k \in Nat : k \in 1..n => g[k] = f[k]}
<1>0. n \in Nat /\ m \in Nat /\ 1..n \subseteq 1..m
  BY DEF IsRun, IsList
<1>1. 0 \in N
  OBVIOUS
<1>2. ASSUME NEW k \in N
      PROVE  k + 1 \in N
  <2> SUFFICES ASSUME k + 1 \in 1..n
               PROVE  g[k + 1] = f[k + 1]
    BY <1>0
  <2>1. f[k + 1] = ValueOf(f, loop, k + 1) /\ g[k + 1] = ValueOf(g, other, k + 1)
    BY <1>0 DEF IsRun
  <2>2. CASE k + 1 = 1
    BY <2>1, <2>2 DEF ValueOf, SameSteps
  <2>3. CASE k + 1 # 1
    <3>1. (k + 1) - 1 = k /\ k \in 1..n /\ k + 1 \in 2..n
      BY <1>0, <2>3
    <3>2. g[k] = f[k]
      BY <3>1
    <3>3. Moved(loop, k + 1, f[k]) = Moved(other, k + 1, f[k])
      BY <3>1 DEF SameSteps
    <3> QED
      BY Zenon, <2>1, <2>3, <3>1, <3>2, <3>3 DEF ValueOf
  <2> QED
    BY <2>2, <2>3
<1>3. N = Nat
  <2> HIDE DEF N
  <2>1. N \subseteq Nat
    BY DEF N
  <2> QED
    BY <1>1, <1>2, <2>1, NatSetInduction
<1>4. \A k \in 1..n : g[k] = f[k]
  BY <1>0, <1>3
<1> QED
  BY <1>4 DEF Grows, IsRun

\* The arrays of a loop that pushes its values.
PushedAt(r, loop, j) ==
  IF j = 1 THEN <<loop.first>>
  ELSE LET before == r[j - 1]
       IN  Append(before, Moved(loop, j, before[j - 1]))

IsPushing(r, loop, n) == r = [j \in 1..n |-> PushedAt(r, loop, j)]

LEMMA OneMore ==
  ASSUME NEW f, NEW n, IsList(f, n), NEW j \in 1..n, j # 1
  PROVE  [i \in 1..j |-> f[i]] = Append([i \in 1..(j - 1) |-> f[i]], f[j])
<1> DEFINE S == {f[i] : i \in 1..n}
           s == [i \in 1..(j - 1) |-> f[i]]
           t == [i \in 1..j |-> f[i]]
<1>1. n \in Nat /\ j \in Nat /\ j - 1 \in Nat /\ \A i \in 1..j : i \in 1..n
  BY DEF IsList
<1>2. \A i \in 1..n : f[i] \in S
  OBVIOUS
<1> HIDE DEF S
<1>3. s \in Seq(S) /\ Len(s) = j - 1 /\ t \in Seq(S) /\ Len(t) = j
  BY <1>1, <1>2
<1>4. Append(s, f[j]) \in Seq(S) /\ Len(Append(s, f[j])) = j
  BY <1>1, <1>2, <1>3
<1>5. \A i \in 1..j : t[i] = Append(s, f[j])[i]
  BY <1>1, <1>2, <1>3
<1> HIDE DEF s, t
<1>6. t = Append(s, f[j])
  BY <1>1, <1>3, <1>4, <1>5
<1> QED
  BY <1>6 DEF s, t

\* The arrays are the beginnings of the loop's values.
Array(f, j) == [i \in 1..j |-> f[i]]

LEMMA ArraysGrow ==
  ASSUME NEW loop, NEW n \in Nat \ {0}, NEW f, IsRun(f, loop, n)
  PROVE  /\ Array(f, 1) = <<loop.first>>
         /\ \A j \in 1..n : j # 1 =>
              Array(f, j) = Append(Array(f, j - 1), Moved(loop, j, Array(f, j - 1)[j - 1]))
         /\ Array(f, n) = f
<1>1. IsList(f, n) /\ \A j \in 1..n : f[j] = ValueOf(f, loop, j)
  BY DEF IsRun
<1>2. Array(f, 1) = <<loop.first>>
  <2>1. f[1] = loop.first
    BY <1>1 DEF ValueOf
  <2> QED
    BY <2>1 DEF Array
<1>3. ASSUME NEW j \in 1..n, j # 1
      PROVE  Array(f, j) = Append(Array(f, j - 1), Moved(loop, j, Array(f, j - 1)[j - 1]))
  <2>1. f[j] = Moved(loop, j, f[j - 1])
    BY <1>1, <1>3 DEF ValueOf
  <2>2. Array(f, j - 1)[j - 1] = f[j - 1]
    BY <1>3 DEF Array
  <2>3. Array(f, j) = Append(Array(f, j - 1), f[j])
    BY <1>1, <1>3, OneMore DEF Array
  <2> QED
    BY Zenon, <2>1, <2>2, <2>3
<1>4. Array(f, n) = f
  BY Zenon, <1>1 DEF Array, IsList
<1> QED
  BY <1>2, <1>3, <1>4

LEMMA PushingExists ==
  ASSUME NEW loop, NEW n \in Nat \ {0}
  PROVE  \E r : IsPushing(r, loop, n)
<1>1. PICK f : IsRun(f, loop, n)
  BY RunExists
<1>1a. /\ Array(f, 1) = <<loop.first>>
       /\ \A j \in 1..n : j # 1 =>
            Array(f, j) = Append(Array(f, j - 1), Moved(loop, j, Array(f, j - 1)[j - 1]))
       /\ Array(f, n) = f
  BY SMTT(30), <1>1, ArraysGrow
<1> DEFINE built == [j \in 1..n |-> Array(f, j)]
<1>2. \A j \in 1..n : built[j] = Array(f, j)
  BY Zenon
<1>3. built = [j \in 1..n |-> built[j]]
  BY Zenon, <1>2
<1> HIDE DEF built
<1>4. ASSUME NEW j \in 1..n
      PROVE  Array(f, j) = PushedAt(built, loop, j)
  <2>1. CASE j = 1
    BY Zenon, <1>1a, <2>1 DEF PushedAt
  <2>2. CASE j # 1
    <3>1. j - 1 \in 1..n
      BY <2>2
    <3>2. built[j - 1] = Array(f, j - 1)
      BY <1>2, <3>1
    <3>3. Array(f, j) = Append(Array(f, j - 1), Moved(loop, j, Array(f, j - 1)[j - 1]))
      BY Zenon, <1>1a, <2>2
    <3> QED
      BY Zenon, <2>2, <3>2, <3>3 DEF PushedAt
  <2> QED
    BY <2>1, <2>2
<1>5. \A j \in 1..n : built[j] = PushedAt(built, loop, j)
  BY Zenon, <1>2, <1>4
<1>6. built = [j \in 1..n |-> PushedAt(built, loop, j)]
  BY <1>3, <1>5
<1>7. IsPushing(built, loop, n)
  BY Zenon, <1>6 DEF IsPushing
<1> QED
  BY <1>7

\* The last array has the values of the loop.
LEMMA PushingEnds ==
  ASSUME NEW loop, NEW n \in Nat \ {0}, NEW r, IsPushing(r, loop, n)
  PROVE  IsRun(r[n], loop, n)
<1>1. PICK f : IsRun(f, loop, n)
  BY RunExists
<1>1a. /\ Array(f, 1) = <<loop.first>>
       /\ \A j \in 1..n : j # 1 =>
            Array(f, j) = Append(Array(f, j - 1), Moved(loop, j, Array(f, j - 1)[j - 1]))
       /\ Array(f, n) = f
  BY SMTT(30), <1>1, ArraysGrow
<1>2. \A j \in 1..n : r[j] = PushedAt(r, loop, j)
  BY DEF IsPushing
<1> DEFINE N == {j \in Nat : j \in 1..n => r[j] = Array(f, j)}
<1>3. 0 \in N
  OBVIOUS
<1>4. ASSUME NEW j \in N
      PROVE  j + 1 \in N
  <2> SUFFICES ASSUME j + 1 \in 1..n
               PROVE  r[j + 1] = Array(f, j + 1)
    OBVIOUS
  <2>1. r[j + 1] = PushedAt(r, loop, j + 1)
    BY <1>2
  <2>2. CASE j + 1 = 1
    BY Zenon, <1>1a, <2>1, <2>2 DEF PushedAt
  <2>3. CASE j + 1 # 1
    <3>1. (j + 1) - 1 = j /\ j \in 1..n
      BY <2>3
    <3>2. r[j] = Array(f, j)
      BY <3>1
    <3>3. Array(f, j + 1)
            = Append(Array(f, (j + 1) - 1), Moved(loop, j + 1, Array(f, (j + 1) - 1)[(j + 1) - 1]))
      BY Zenon, <1>1a, <2>3
    <3> QED
      BY Zenon, <2>1, <2>3, <3>1, <3>2, <3>3 DEF PushedAt
  <2> QED
    BY <2>2, <2>3
<1>5. N = Nat
  <2> HIDE DEF N
  <2>1. N \subseteq Nat
    BY DEF N
  <2> QED
    BY <1>3, <1>4, <2>1, NatSetInduction
<1>6. r[n] = Array(f, n)
  BY <1>5
<1> QED
  BY Zenon, <1>1, <1>1a, <1>6

-----------------------------------------------------------------------------
(* The loops, one by one.                                                  *)

SumLoop(s, length) ==
  [kind |-> "sum", first |-> Total(First(s, length)), series |-> s, length |-> length]

SmoothedLoop(s, length, alpha) ==
  [kind |-> "smoothed", first |-> Mean(First(s, length)), series |-> s, length |-> length,
   alpha |-> alpha]

WilderLoop(s, length) ==
  [kind |-> "wilder", first |-> Mean(First(s, length)), series |-> s, length |-> length]

StatesLoop(candles, basic) ==
  [kind |-> "trend", first |-> FirstState(basic[1], candles[1].close), series |-> candles,
   length |-> 1, basic |-> basic]

\* A series that is longer than the length.
LEMMA LengthOfAverages ==
  ASSUME NEW s, NEW n, IsList(s, n), NEW length \in Nat \ {0}, length <= n
  PROVE  /\ Len(s) = n /\ n \in Nat
         /\ n - length + 1 \in Nat \ {0}
  BY ListIsSeq DEF IsList

LEMMA SmoothedRuns ==
  ASSUME NEW s, NEW n, IsList(s, n), NEW length \in Nat \ {0}, length < n, NEW alpha
  PROVE  IsRun(Smoothed(s, length, alpha), SmoothedLoop(s, length, alpha), n - length + 1)
<1> DEFINE loop == SmoothedLoop(s, length, alpha)
           many == n - length + 1
<1>1. Len(s) = n /\ n \in Nat /\ many \in Nat \ {0}
  <2>1. length <= n
    BY DEF IsList
  <2> QED
    BY <2>1, LengthOfAverages
<1>2. ASSUME NEW j, NEW v
      PROVE  Moved(loop, j, v) = (s[length + j - 1] ** alpha) ++ (v ** (Whole(1) -- alpha))
  BY DEF Moved, SmoothedLoop
<1>3. loop.first = Mean(First(s, length))
  BY DEF SmoothedLoop
<1> HIDE DEF loop, many
<1> DEFINE At(r, j) ==
             IF j = 1 THEN <<Mean(First(s, length))>>
             ELSE LET before == r[j - 1]
                  IN  Append(before, (s[length + j - 1] ** alpha)
                                       ++ (before[j - 1] ** (Whole(1) -- alpha)))
           result == CHOOSE r : r = [j \in 1..many |-> At(r, j)]
<1>4. ASSUME NEW r, NEW j
      PROVE  At(r, j) = PushedAt(r, loop, j)
  BY Zenon, <1>2, <1>3 DEF PushedAt
<1>5. Smoothed(s, length, alpha) = result[many]
  BY <1>1 DEF Smoothed, many
<1> HIDE DEF At
<1>6. IsPushing(result, loop, many)
  <2>1. PICK r : IsPushing(r, loop, many)
    BY <1>1, PushingExists
  <2>2. r = [j \in 1..many |-> At(r, j)]
    BY <1>4, <2>1 DEF IsPushing
  <2>3. result = [j \in 1..many |-> At(result, j)]
    BY Zenon, <2>2
  <2> HIDE DEF result
  <2> QED
    BY <1>4, <2>3 DEF IsPushing
<1> HIDE DEF result
<1>7. IsRun(result[many], loop, many)
  BY <1>1, <1>6, PushingEnds
<1> QED
  BY Zenon, <1>5, <1>7 DEF loop, many

LEMMA WilderRuns ==
  ASSUME NEW s, NEW n, IsList(s, n), NEW length \in Nat \ {0}, length <= n
  PROVE  IsRun(Wilder(s, length), WilderLoop(s, length), n - length + 1)
<1> DEFINE loop == WilderLoop(s, length)
           many == n - length + 1
<1>1. Len(s) = n /\ n \in Nat /\ many \in Nat \ {0}
  BY LengthOfAverages
<1>2. ASSUME NEW j, NEW v
      PROVE  Moved(loop, j, v)
               = ((v ** Whole(length - 1)) ++ s[length + j - 1]) // Whole(length)
  BY DEF Moved, WilderLoop
<1>3. loop.first = Mean(First(s, length))
  BY DEF WilderLoop
<1> HIDE DEF loop, many
<1> DEFINE At(r, j) ==
             IF j = 1 THEN <<Mean(First(s, length))>>
             ELSE LET before == r[j - 1]
                  IN  Append(before, ((before[j - 1] ** Whole(length - 1)) ++ s[length + j - 1])
                                       // Whole(length))
           result == CHOOSE r : r = [j \in 1..many |-> At(r, j)]
<1>4. ASSUME NEW r, NEW j
      PROVE  At(r, j) = PushedAt(r, loop, j)
  BY Zenon, <1>2, <1>3 DEF PushedAt
<1>5. Wilder(s, length) = result[many]
  BY <1>1 DEF Wilder, many
<1> HIDE DEF At
<1>6. IsPushing(result, loop, many)
  <2>1. PICK r : IsPushing(r, loop, many)
    BY <1>1, PushingExists
  <2>2. r = [j \in 1..many |-> At(r, j)]
    BY <1>4, <2>1 DEF IsPushing
  <2>3. result = [j \in 1..many |-> At(result, j)]
    BY Zenon, <2>2
  <2> HIDE DEF result
  <2> QED
    BY <1>4, <2>3 DEF IsPushing
<1> HIDE DEF result
<1>7. IsRun(result[many], loop, many)
  BY <1>1, <1>6, PushingEnds
<1> QED
  BY Zenon, <1>5, <1>7 DEF loop, many

LEMMA StatesRun ==
  ASSUME NEW candles, NEW n, IsList(candles, n), n # 0, NEW basic
  PROVE  IsRun(TrendLoop(candles, basic), StatesLoop(candles, basic), n)
<1> DEFINE loop == StatesLoop(candles, basic)
<1>1. Len(candles) = n /\ n \in Nat \ {0} /\ DOMAIN candles = 1..n
  BY ListIsSeq
<1>2. ASSUME NEW j, NEW v
      PROVE  Moved(loop, j, v)
               = NextState(v, basic[j], candles[j - 1].close, candles[j].close)
  BY DEF Moved, StatesLoop
<1>3. loop.first = FirstState(basic[1], candles[1].close)
  BY DEF StatesLoop
<1> HIDE DEF loop
<1> DEFINE At(r, j) ==
             IF j = 1 THEN <<FirstState(basic[1], candles[1].close)>>
             ELSE LET before == r[j - 1]
                  IN  Append(before, NextState(before[j - 1], basic[j], candles[j - 1].close,
                                               candles[j].close))
           result == CHOOSE r : r = [j \in 1..n |-> At(r, j)]
<1>4. ASSUME NEW r, NEW j
      PROVE  At(r, j) = PushedAt(r, loop, j)
  BY Zenon, <1>2, <1>3 DEF PushedAt
<1>5. TrendLoop(candles, basic) = result[n]
  BY Zenon, <1>1 DEF TrendLoop
<1> HIDE DEF At
<1>6. IsPushing(result, loop, n)
  <2>1. PICK r : IsPushing(r, loop, n)
    BY <1>1, PushingExists
  <2>2. r = [j \in 1..n |-> At(r, j)]
    BY <1>4, <2>1 DEF IsPushing
  <2>3. result = [j \in 1..n |-> At(result, j)]
    BY Zenon, <2>2
  <2> HIDE DEF result
  <2> QED
    BY <1>4, <2>3 DEF IsPushing
<1> HIDE DEF result
<1>7. IsRun(result[n], loop, n)
  BY <1>1, <1>6, PushingEnds
<1> QED
  BY Zenon, <1>5, <1>7 DEF loop

\* The sums of SMA are counted from length on.
LEMMA SumRuns ==
  ASSUME NEW s, NEW n, IsList(s, n), NEW length \in Nat \ {0}, length < n
  PROVE  \E f : /\ IsRun(f, SumLoop(s, length), n - length + 1)
                /\ SMA(s, length) = [j \in 1..(n - length + 1) |-> f[j] // Whole(length)]
<1> DEFINE loop == SumLoop(s, length)
           many == n - length + 1
           At(g, i) == IF i = length THEN Total(First(s, length))
                       ELSE (g[i - 1] -- s[i - length]) ++ s[i]
           sum == CHOOSE g : g = [i \in length..n |-> At(g, i)]
<1>1. Len(s) = n /\ n \in Nat /\ many \in Nat \ {0}
  <2>1. length <= n
    BY DEF IsList
  <2> QED
    BY <2>1, LengthOfAverages
<1>2. SMA(s, length) = [j \in 1..many |-> sum[j + length - 1] // Whole(length)]
  BY <1>1 DEF SMA
<1>3. ASSUME NEW j \in Int, NEW v
      PROVE  Moved(loop, j, v) = (v -- s[j - 1]) ++ s[length + j - 1]
  BY DEF Moved, SumLoop
<1>4. loop.first = Total(First(s, length))
  BY DEF SumLoop
<1> HIDE DEF loop
<1>5. sum = [i \in length..n |-> At(sum, i)]
  <2>1. PICK f : IsRun(f, loop, many)
    BY <1>1, RunExists
  <2>2. \A j \in 1..many : f[j] = ValueOf(f, loop, j)
    BY <2>1 DEF IsRun
  <2> DEFINE g == [i \in length..n |-> f[i - length + 1]]
  <2>3. \A i \in length..n : g[i] = f[i - length + 1]
    OBVIOUS
  <2>4. g = [i \in length..n |-> g[i]]
    OBVIOUS
  <2> HIDE DEF g
  <2>5. ASSUME NEW i \in length..n
        PROVE  g[i] = At(g, i)
    <3>1. i - length + 1 \in 1..many /\ length + (i - length + 1) - 1 = i
          /\ (i - length + 1) - 1 = i - length
      BY <1>1
    <3>2. g[i] = ValueOf(f, loop, i - length + 1)
      BY <2>2, <2>3, <3>1
    <3>3. CASE i = length
      <4>1. i - length + 1 = 1
        BY <1>1, <3>3
      <4> QED
        BY Zenon, <1>4, <3>2, <3>3, <4>1 DEF ValueOf
    <3>4. CASE i # length
      <4>1. i - length + 1 # 1 /\ i - 1 \in length..n /\ (i - 1) - length + 1 = i - length
            /\ i - length + 1 \in Int
        BY <1>1, <3>4
      <4>2. g[i - 1] = f[i - length]
        BY <2>3, <4>1
      <4>3. ValueOf(f, loop, i - length + 1) = Moved(loop, i - length + 1, f[i - length])
        BY Zenon, <3>1, <4>1 DEF ValueOf
      <4>4. Moved(loop, i - length + 1, f[i - length]) = (f[i - length] -- s[i - length]) ++ s[i]
        BY Zenon, <1>3, <3>1, <4>1
      <4> QED
        BY Zenon, <3>2, <3>4, <4>2, <4>3, <4>4
    <3> QED
      BY <3>3, <3>4
  <2> HIDE DEF At
  <2>6. g = [i \in length..n |-> At(g, i)]
    BY <2>4, <2>5
  <2> QED
    BY Zenon, <2>6
<1> HIDE DEF sum
<1> DEFINE f == [j \in 1..many |-> sum[j + length - 1]]
<1>6. \A i \in length..n : sum[i] = At(sum, i)
  <2> HIDE DEF At
  <2> QED
    BY <1>5
<1>7. IsList(f, many) /\ \A j \in 1..many : f[j] = sum[j + length - 1]
  BY <1>1 DEF IsList
<1> HIDE DEF f, many
<1>8. ASSUME NEW j \in 1..many
      PROVE  f[j] = ValueOf(f, loop, j)
  <2>1. j + length - 1 \in length..n /\ (j + length - 1) - length = j - 1 /\ j \in Int
        /\ length + j - 1 = j + length - 1
    BY <1>1 DEF many
  <2>2. f[j] = At(sum, j + length - 1)
    BY <1>6, <1>7, <2>1
  <2>3. CASE j = 1
    <3>1. j + length - 1 = length
      BY <2>3
    <3> QED
      BY Zenon, <1>4, <2>2, <2>3, <3>1 DEF ValueOf
  <2>4. CASE j # 1
    <3>1. j + length - 1 # length /\ j - 1 \in 1..many
          /\ (j + length - 1) - 1 = (j - 1) + length - 1
      BY <1>1, <2>4
    <3>2. f[j - 1] = sum[(j + length - 1) - 1]
      BY <1>7, <3>1
    <3>3. f[j] = (sum[(j + length - 1) - 1] -- s[(j + length - 1) - length]) ++ s[j + length - 1]
      BY Zenon, <2>2, <3>1
    <3>4. Moved(loop, j, f[j - 1]) = (f[j - 1] -- s[j - 1]) ++ s[length + j - 1]
      BY <1>3, <2>1
    <3> QED
      BY Zenon, <2>1, <2>4, <3>2, <3>3, <3>4 DEF ValueOf
  <2> QED
    BY <2>3, <2>4
<1>9. IsRun(f, loop, many)
  BY <1>7, <1>8 DEF IsRun
<1>10. SMA(s, length) = [j \in 1..many |-> f[j] // Whole(length)]
  BY <1>2, <1>7
<1> QED
  BY Zenon, <1>9, <1>10 DEF loop, many

-----------------------------------------------------------------------------
(* What is computed from a list grows as the list grows.                   *)

\* Lists of values that are computed each from a prefix, or an element.
LEMMA MapsGrow ==
  ASSUME NEW n \in Nat, NEW m \in Nat, n <= m, NEW f, NEW g, \A i \in 1..n : g[i] = f[i]
  PROVE  Grows([i \in 1..n |-> f[i]], n, [i \in 1..m |-> g[i]], m)
<1> DEFINE s == [i \in 1..n |-> f[i]]
           t == [i \in 1..m |-> g[i]]
<1>1. IsList(s, n) /\ IsList(t, m)
  BY DEF IsList
<1>2. \A i \in 1..n : t[i] = s[i]
  OBVIOUS
<1> QED
  BY <1>1, <1>2 DEF Grows

LEMMA ListsGrow ==
  ASSUME NEW s, NEW n, NEW t, NEW m, Grows(s, n, t, m)
  PROVE  /\ IsList(s, n) /\ IsList(t, m) /\ n <= m /\ n \in Nat /\ m \in Nat
         /\ \A i \in 1..n : t[i] = s[i] /\ i \in 1..m
         /\ Len(s) = n /\ Len(t) = m /\ DOMAIN s = 1..n /\ DOMAIN t = 1..m
<1>1. IsList(s, n) /\ IsList(t, m) /\ n <= m /\ \A i \in 1..n : t[i] = s[i]
  BY DEF Grows
<1>2. /\ n \in Nat /\ DOMAIN s = 1..n /\ Len(s) = n
      /\ m \in Nat /\ DOMAIN t = 1..m /\ Len(t) = m
  BY <1>1, ListIsSeq
<1> QED
  BY <1>1, <1>2

LEMMA FirstIsKept ==
  ASSUME NEW s, NEW n, NEW t, NEW m, Grows(s, n, t, m), NEW length \in Nat, length <= n
  PROVE  First(t, length) = First(s, length)
<1>1. 1 \in 1..(n + 1) /\ 1 - 1 <= length
  BY ListsGrow
<1> QED
  BY <1>1, PieceIsKept DEF First

LEMMA RestGrows ==
  ASSUME NEW s, NEW n, NEW t, NEW m, Grows(s, n, t, m), NEW a \in 1..(n + 1)
  PROVE  /\ Grows(From(s, a), n - a + 1, From(t, a), m - a + 1)
         /\ \A i \in 1..(n - a + 1) : From(s, a)[i] = s[i + a - 1]
<1>1. /\ IsList(s, n) /\ IsList(t, m) /\ n <= m /\ n \in Nat /\ m \in Nat
      /\ \A i \in 1..n : t[i] = s[i]
      /\ Len(s) = n /\ Len(t) = m
  BY ListsGrow
<1>2. /\ IsList(From(s, a), n - a + 1)
      /\ \A i \in 1..(n - a + 1) : From(s, a)[i] = s[i + a - 1]
  <2>1. a - 1 <= n /\ n <= n
    BY <1>1
  <2>2. From(s, a) = SubSeq(s, a, n)
    BY <1>1 DEF From
  <2> QED
    BY SMTT(30), <1>1, <2>1, <2>2, PieceOfList
<1>3. /\ IsList(From(t, a), m - a + 1)
      /\ \A i \in 1..(m - a + 1) : From(t, a)[i] = t[i + a - 1]
  <2>1. a - 1 <= m /\ a \in 1..(m + 1) /\ m <= m
    BY <1>1
  <2>2. From(t, a) = SubSeq(t, a, m)
    BY <1>1 DEF From
  <2> QED
    BY SMTT(30), <1>1, <2>1, <2>2, PieceOfList
<1>4. n - a + 1 <= m - a + 1
  BY <1>1
<1>5. \A i \in 1..(n - a + 1) : From(t, a)[i] = From(s, a)[i]
  <2> SUFFICES ASSUME NEW i \in 1..(n - a + 1)
               PROVE  From(t, a)[i] = From(s, a)[i]
    OBVIOUS
  <2>1. i \in 1..(m - a + 1) /\ i + a - 1 \in 1..n
    BY <1>1
  <2> QED
    BY <1>1, <1>2, <1>3, <2>1
<1> QED
  BY <1>2, <1>3, <1>4, <1>5 DEF Grows

LEMMA SmoothedGrows ==
  ASSUME NEW s, NEW n, NEW t, NEW m, Grows(s, n, t, m),
         NEW length \in Nat \ {0}, length < n, NEW alpha
  PROVE  Grows(Smoothed(s, length, alpha), n - length + 1,
               Smoothed(t, length, alpha), m - length + 1)
<1> DEFINE loop == SmoothedLoop(s, length, alpha)
           other == SmoothedLoop(t, length, alpha)
<1>1. /\ IsList(s, n) /\ IsList(t, m) /\ n <= m /\ n \in Nat /\ m \in Nat
      /\ \A i \in 1..n : t[i] = s[i]
  BY ListsGrow
<1>2. length < m /\ n - length + 1 <= m - length + 1
  BY <1>1
<1>3. IsRun(Smoothed(s, length, alpha), loop, n - length + 1)
  BY <1>1, SmoothedRuns
<1>4. IsRun(Smoothed(t, length, alpha), other, m - length + 1)
  BY <1>1, <1>2, SmoothedRuns
<1>5. loop.first = other.first
  <2>1. length <= n
    BY <1>1
  <2>2. First(t, length) = First(s, length)
    BY <2>1, FirstIsKept
  <2> QED
    BY Zenon, <2>2 DEF SmoothedLoop
<1>6. ASSUME NEW j \in 2..(n - length + 1), NEW v
      PROVE  Moved(loop, j, v) = Moved(other, j, v)
  <2>1. length + j - 1 \in 1..n
    BY <1>1
  <2>2. t[length + j - 1] = s[length + j - 1]
    BY <1>1, <2>1
  <2> QED
    BY <2>2 DEF Moved, SmoothedLoop
<1>7. SameSteps(loop, other, n - length + 1)
  BY Zenon, <1>5, <1>6 DEF SameSteps
<1> HIDE DEF loop, other
<1> QED
  BY <1>2, <1>3, <1>4, <1>7, RunsAgree

LEMMA WilderGrows ==
  ASSUME NEW s, NEW n, NEW t, NEW m, Grows(s, n, t, m),
         NEW length \in Nat \ {0}, length <= n
  PROVE  Grows(Wilder(s, length), n - length + 1, Wilder(t, length), m - length + 1)
<1> DEFINE loop == WilderLoop(s, length)
           other == WilderLoop(t, length)
<1>1. /\ IsList(s, n) /\ IsList(t, m) /\ n <= m /\ n \in Nat /\ m \in Nat
      /\ \A i \in 1..n : t[i] = s[i]
  BY ListsGrow
<1>2. length <= m /\ n - length + 1 <= m - length + 1
  BY <1>1
<1>3. IsRun(Wilder(s, length), loop, n - length + 1)
  BY <1>1, WilderRuns
<1>4. IsRun(Wilder(t, length), other, m - length + 1)
  BY <1>1, <1>2, WilderRuns
<1>5. loop.first = other.first
  <2>1. First(t, length) = First(s, length)
    BY FirstIsKept
  <2> QED
    BY Zenon, <2>1 DEF WilderLoop
<1>6. ASSUME NEW j \in 2..(n - length + 1), NEW v
      PROVE  Moved(loop, j, v) = Moved(other, j, v)
  <2>1. length + j - 1 \in 1..n
    BY <1>1
  <2>2. t[length + j - 1] = s[length + j - 1]
    BY <1>1, <2>1
  <2> QED
    BY <2>2 DEF Moved, WilderLoop
<1>7. SameSteps(loop, other, n - length + 1)
  BY Zenon, <1>5, <1>6 DEF SameSteps
<1> HIDE DEF loop, other
<1> QED
  BY <1>2, <1>3, <1>4, <1>7, RunsAgree

LEMMA SMAGrows ==
  ASSUME NEW s, NEW n, NEW t, NEW m, Grows(s, n, t, m),
         NEW length \in Nat \ {0}, length < n
  PROVE  Grows(SMA(s, length), n - length + 1, SMA(t, length), m - length + 1)
<1> DEFINE loop == SumLoop(s, length)
           other == SumLoop(t, length)
<1>1. /\ IsList(s, n) /\ IsList(t, m) /\ n <= m /\ n \in Nat /\ m \in Nat
      /\ \A i \in 1..n : t[i] = s[i]
  BY ListsGrow
<1>2. /\ length < m /\ n - length + 1 <= m - length + 1
      /\ n - length + 1 \in Nat /\ m - length + 1 \in Nat
  BY <1>1
<1>3. PICK f : /\ IsRun(f, loop, n - length + 1)
               /\ SMA(s, length) = [j \in 1..(n - length + 1) |-> f[j] // Whole(length)]
  BY <1>1, SumRuns
<1>4. PICK g : /\ IsRun(g, other, m - length + 1)
               /\ SMA(t, length) = [j \in 1..(m - length + 1) |-> g[j] // Whole(length)]
  BY <1>1, <1>2, SumRuns
<1>5. loop.first = other.first
  <2>1. length <= n
    BY <1>1
  <2>2. First(t, length) = First(s, length)
    BY <2>1, FirstIsKept
  <2> QED
    BY Zenon, <2>2 DEF SumLoop
<1>6. ASSUME NEW j \in 2..(n - length + 1), NEW v
      PROVE  Moved(loop, j, v) = Moved(other, j, v)
  <2>1. length + j - 1 \in 1..n /\ j - 1 \in 1..n
    BY <1>1
  <2>2. t[length + j - 1] = s[length + j - 1] /\ t[j - 1] = s[j - 1]
    BY <1>1, <2>1
  <2> QED
    BY <2>2 DEF Moved, SumLoop
<1>7. SameSteps(loop, other, n - length + 1)
  BY Zenon, <1>5, <1>6 DEF SameSteps
<1> HIDE DEF loop, other
<1>8. Grows(f, n - length + 1, g, m - length + 1)
  BY <1>2, <1>3, <1>4, <1>7, RunsAgree
<1>9. \A j \in 1..(n - length + 1) : g[j] = f[j] /\ j \in 1..(m - length + 1)
  BY <1>8, ListsGrow
<1>10. /\ IsList(SMA(s, length), n - length + 1) /\ IsList(SMA(t, length), m - length + 1)
       /\ \A j \in 1..(n - length + 1) : SMA(t, length)[j] = SMA(s, length)[j]
  BY <1>2, <1>3, <1>4, <1>9 DEF IsList
<1> QED
  BY <1>2, <1>10 DEF Grows

-----------------------------------------------------------------------------
(* The indicators.                                                         *)

LEMMA BandsGrow ==
  ASSUME NEW s, NEW n, NEW t, NEW m, Grows(s, n, t, m), NEW length \in Nat \ {0}, NEW multiplier
  PROVE  Extends(BollingerBands(s, length, multiplier), BollingerBands(t, length, multiplier))
<1> DEFINE Square(a) == a ** a
           Variance(w, mean) == Total([i \in DOMAIN w |-> Square(w[i] -- mean)]) // Whole(length - 1)
           Band(w) == [basis |-> Mean(w), width2 |-> Square(multiplier) ** Variance(w, Mean(w))]
           f == [j \in 1..(n - length + 1) |-> Band(SubSeq(s, j, j + length - 1))]
           g == [j \in 1..(m - length + 1) |-> Band(SubSeq(t, j, j + length - 1))]
           many == IF n - length + 1 \in Nat THEN n - length + 1 ELSE 0
           more == IF m - length + 1 \in Nat THEN m - length + 1 ELSE 0
<1>1. /\ n <= m /\ n \in Nat /\ m \in Nat /\ Len(s) = n /\ Len(t) = m
  BY ListsGrow
<1>2. BollingerBands(s, length, multiplier) = f /\ BollingerBands(t, length, multiplier) = g
  BY <1>1 DEF BollingerBands
<1>3. /\ many \in Nat /\ more \in Nat /\ many <= more
      /\ 1..(n - length + 1) = 1..many /\ 1..(m - length + 1) = 1..more
  BY <1>1
<1>4. ASSUME NEW j \in 1..many
      PROVE  SubSeq(t, j, j + length - 1) = SubSeq(s, j, j + length - 1)
  <2>1. j \in 1..(n + 1) /\ j + length - 1 \in Nat /\ j - 1 <= j + length - 1 /\ j + length - 1 <= n
    BY <1>1
  <2> QED
    BY <2>1, PieceIsKept
<1>5. /\ \A j \in 1..many : f[j] = Band(SubSeq(s, j, j + length - 1))
      /\ \A j \in 1..more : g[j] = Band(SubSeq(t, j, j + length - 1))
  BY Zenon, <1>3
<1>6. f = [j \in 1..many |-> f[j]] /\ g = [j \in 1..more |-> g[j]]
  BY Zenon, <1>3, <1>5
<1> HIDE DEF Band, f, g, many, more
<1>7. \A j \in 1..many : j \in 1..more
  BY <1>3
<1>8. \A j \in 1..many : g[j] = f[j]
  BY Zenon, <1>4, <1>5, <1>7
<1>9. Grows(f, many, g, more)
  BY Zenon, <1>3, <1>6, <1>8 DEF Grows, IsList
<1> QED
  BY Zenon, <1>2, <1>9, GrowingExtends

LEMMA RSIGrows ==
  ASSUME NEW s, NEW n, NEW t, NEW m, Grows(s, n, t, m), NEW length \in Nat \ {0}
  PROVE  Extends(RSI(s, length), RSI(t, length))
<1>1. /\ n <= m /\ n \in Nat /\ m \in Nat /\ Len(s) = n /\ Len(t) = m
      /\ \A i \in 1..n : t[i] = s[i]
  BY ListsGrow
<1>2. CASE n <= length
  <2>1. RSI(s, length) = <<>> /\ Len(<<>>) = 0
    BY <1>1, <1>2 DEF RSI
  <2>2. SubSeq(RSI(t, length), 1, 0) = <<>>
    OBVIOUS
  <2> QED
    BY Zenon, <2>1, <2>2 DEF Extends
<1>3. CASE ~(n <= length)
  <2> DEFINE gains(c, k) == [i \in 1..(k - 1) |-> Gain(c, i)]
             losses(c, k) == [i \in 1..(k - 1) |-> Loss(c, i)]
             many == n - length
             more == m - length
             Strength(c, k) == [j \in DOMAIN Wilder(gains(c, k), length) |->
                                  CalculateRSI(Wilder(gains(c, k), length)[j],
                                               Wilder(losses(c, k), length)[j])]
  <2>1. n - 1 \in Nat /\ m - 1 \in Nat /\ n - 1 <= m - 1 /\ length <= n - 1
        /\ (n - 1) - length + 1 = many /\ (m - 1) - length + 1 = more
    BY <1>1, <1>3
  <2>2. ASSUME NEW i \in 1..(n - 1)
        PROVE  Gain(t, i) = Gain(s, i) /\ Loss(t, i) = Loss(s, i)
    <3>1. i \in 1..n /\ i + 1 \in 1..n
      BY <1>1
    <3> QED
      BY Zenon, <1>1, <3>1 DEF Gain, Loss
  <2>3. /\ Grows(gains(s, n), n - 1, gains(t, m), m - 1)
        /\ Grows(losses(s, n), n - 1, losses(t, m), m - 1)
    <3>1. /\ IsList(gains(s, n), n - 1) /\ IsList(gains(t, m), m - 1)
          /\ IsList(losses(s, n), n - 1) /\ IsList(losses(t, m), m - 1)
      BY <2>1 DEF IsList
    <3>2. \A i \in 1..(n - 1) : /\ gains(t, m)[i] = gains(s, n)[i]
                                /\ losses(t, m)[i] = losses(s, n)[i]
      BY <2>1, <2>2
    <3> HIDE DEF gains, losses
    <3> QED
      BY <2>1, <3>1, <3>2 DEF Grows
  <2>4. /\ RSI(s, length) = Strength(s, n)
        /\ RSI(t, length) = Strength(t, m)
    <3>1. ~(Len(s) <= length) /\ ~(Len(t) <= length)
      BY <1>1, <1>3
    <3> QED
      BY Zenon, <1>1, <3>1 DEF RSI
  <2> HIDE DEF gains, losses
  <2>5. /\ Grows(Wilder(gains(s, n), length), (n - 1) - length + 1,
                 Wilder(gains(t, m), length), (m - 1) - length + 1)
        /\ Grows(Wilder(losses(s, n), length), (n - 1) - length + 1,
                 Wilder(losses(t, m), length), (m - 1) - length + 1)
    BY <2>1, <2>3, WilderGrows
  <2> DEFINE up == Wilder(gains(s, n), length)
             upAfter == Wilder(gains(t, m), length)
             down == Wilder(losses(s, n), length)
             downAfter == Wilder(losses(t, m), length)
  <2>6. Strength(s, n) = [j \in DOMAIN up |-> CalculateRSI(up[j], down[j])]
        /\ Strength(t, m) = [j \in DOMAIN upAfter |-> CalculateRSI(upAfter[j], downAfter[j])]
    BY Zenon
  <2>7. Grows(up, many, upAfter, more) /\ Grows(down, many, downAfter, more)
    BY Zenon, <2>1, <2>5
  <2> HIDE DEF up, upAfter, down, downAfter, Strength, many, more
  <2>8. /\ many \in Nat /\ more \in Nat /\ many <= more
        /\ DOMAIN up = 1..many /\ DOMAIN upAfter = 1..more
        /\ \A j \in 1..many : upAfter[j] = up[j] /\ downAfter[j] = down[j] /\ j \in 1..more
    BY <2>7, ListsGrow
  <2>9. Grows(Strength(s, n), many, Strength(t, m), more)
    <3>1. IsList(Strength(s, n), many) /\ IsList(Strength(t, m), more)
      BY <2>6, <2>8 DEF IsList
    <3>2. \A j \in 1..many : Strength(t, m)[j] = Strength(s, n)[j]
      BY <2>6, <2>8
    <3> QED
      BY <2>8, <3>1, <3>2 DEF Grows
  <2> QED
    BY Zenon, <2>4, <2>9, GrowingExtends
<1> QED
  BY <1>2, <1>3

\* Ranges of the candles, and directions of the moves from one to the next.
LEMMA ATRGrows ==
  ASSUME NEW s, NEW n, NEW t, NEW m, Grows(s, n, t, m), NEW length \in Nat \ {0}, length <= n
  PROVE  Grows(ATR(s, length), n - length + 1, ATR(t, length), m - length + 1)
<1>1. /\ n <= m /\ n \in Nat /\ m \in Nat /\ DOMAIN s = 1..n /\ DOMAIN t = 1..m
      /\ \A i \in 1..n : t[i] = s[i]
  BY ListsGrow
<1> DEFINE Reach(c, i) == IF i = 1 THEN c[1].high -- c[1].low ELSE TrueRange(c, i)
           ranges == [i \in 1..n |-> Reach(s, i)]
           after == [i \in 1..m |-> Reach(t, i)]
<1>2. ATR(s, length) = Wilder(ranges, length) /\ ATR(t, length) = Wilder(after, length)
  BY Zenon, <1>1 DEF ATR
<1>3. ASSUME NEW i \in 1..n
      PROVE  Reach(t, i) = Reach(s, i)
  <2>1. CASE i = 1
    BY Zenon, <1>1, <2>1
  <2>2. CASE i # 1
    <3>1. i - 1 \in 1..n
      BY <1>1, <2>2
    <3>2. t[i] = s[i] /\ t[i - 1] = s[i - 1]
      BY <1>1, <3>1
    <3>3. TrueRange(t, i) = TrueRange(s, i)
      BY <3>2 DEF TrueRange
    <3> QED
      BY Zenon, <2>2, <3>3
  <2> QED
    BY <2>1, <2>2
<1> HIDE DEF Reach
<1>4. Grows(ranges, n, after, m)
  <2>1. IsList(ranges, n) /\ IsList(after, m)
    BY <1>1 DEF IsList
  <2>2. \A i \in 1..n : after[i] = ranges[i]
    BY <1>1, <1>3
  <2> HIDE DEF ranges, after
  <2> QED
    BY <1>1, <2>1, <2>2 DEF Grows
<1> HIDE DEF ranges, after
<1>5. Grows(Wilder(ranges, length), n - length + 1, Wilder(after, length), m - length + 1)
  BY <1>4, WilderGrows
<1> QED
  BY Zenon, <1>2, <1>5

LEMMA SuperTrendGrows ==
  ASSUME NEW s, NEW n, NEW t, NEW m, Grows(s, n, t, m), NEW factor,
         NEW length \in Nat \ {0}, length <= n
  PROVE  Extends(SuperTrend(s, factor, length), SuperTrend(t, factor, length))
<1> DEFINE many == n - length + 1
           more == m - length + 1
           candles == From(s, length)
           candlesAfter == From(t, length)
           atr == ATR(s, length)
           atrAfter == ATR(t, length)
           basic == [j \in DOMAIN atr |-> BasicBands(candles[j], factor ** atr[j])]
           basicAfter == [j \in DOMAIN atrAfter |->
                            BasicBands(candlesAfter[j], factor ** atrAfter[j])]
           states == TrendLoop(candles, basic)
           statesAfter == TrendLoop(candlesAfter, basicAfter)
<1>1. SuperTrend(s, factor, length) = [j \in DOMAIN states |-> Line(states[j])]
      /\ SuperTrend(t, factor, length) = [j \in DOMAIN statesAfter |-> Line(statesAfter[j])]
  BY Zenon DEF SuperTrend, TrendStates
<1>2. /\ n <= m /\ n \in Nat /\ m \in Nat
  BY ListsGrow
<1>3. many \in Nat \ {0} /\ more \in Nat \ {0} /\ many <= more /\ length \in 1..(n + 1)
  BY <1>2
<1>4. Grows(atr, many, atrAfter, more)
  BY Zenon, ATRGrows
<1>5. Grows(candles, many, candlesAfter, more)
  BY <1>3, RestGrows
<1> HIDE DEF many, more, candles, candlesAfter, atr, atrAfter
<1>6. /\ IsList(candles, many) /\ IsList(candlesAfter, more)
      /\ DOMAIN atr = 1..many /\ DOMAIN atrAfter = 1..more
      /\ \A j \in 1..many : /\ candlesAfter[j] = candles[j] /\ atrAfter[j] = atr[j]
                            /\ j \in 1..more
  BY <1>4, <1>5, ListsGrow
<1>7. \A j \in 1..many : basicAfter[j] = basic[j]
  BY <1>6
<1> DEFINE loop == StatesLoop(candles, basic)
           other == StatesLoop(candlesAfter, basicAfter)
<1> HIDE DEF basic, basicAfter
<1>8. IsRun(states, loop, many) /\ IsRun(statesAfter, other, more)
  BY <1>3, <1>6, StatesRun
<1>9. SameSteps(loop, other, many)
  <2>1. 1 \in 1..many
    BY <1>3
  <2>2. loop.first = other.first
    BY Zenon, <1>6, <1>7, <2>1 DEF StatesLoop
  <2>3. ASSUME NEW j \in 2..many, NEW v
        PROVE  Moved(loop, j, v) = Moved(other, j, v)
    <3>1. j \in 1..many /\ j - 1 \in 1..many
      BY <1>3
    <3>2. /\ candlesAfter[j] = candles[j] /\ candlesAfter[j - 1] = candles[j - 1]
          /\ basicAfter[j] = basic[j]
      BY <1>6, <1>7, <3>1
    <3> QED
      BY <3>2 DEF Moved, StatesLoop
  <2> QED
    BY Zenon, <2>2, <2>3 DEF SameSteps
<1> HIDE DEF loop, other, states, statesAfter
<1>10. Grows(states, many, statesAfter, more)
  BY Zenon, <1>3, <1>8, <1>9, RunsAgree
<1>11. /\ DOMAIN states = 1..many /\ DOMAIN statesAfter = 1..more
       /\ \A j \in 1..many : statesAfter[j] = states[j] /\ j \in 1..more
  BY <1>10, ListsGrow
<1> DEFINE line == [j \in DOMAIN states |-> Line(states[j])]
           lineAfter == [j \in DOMAIN statesAfter |-> Line(statesAfter[j])]
<1>12. IsList(line, many) /\ IsList(lineAfter, more)
  BY <1>3, <1>11 DEF IsList
<1>13. \A j \in 1..many : lineAfter[j] = line[j]
  BY <1>11
<1> HIDE DEF line, lineAfter
<1>14. Grows(line, many, lineAfter, more)
  BY <1>3, <1>12, <1>13 DEF Grows
<1> QED
  BY Zenon, <1>1, <1>14, GrowingExtends DEF line, lineAfter

\* An average of what each two candles after one another say.
LEMMA DirectionsGrow ==
  ASSUME NEW f, NEW g, NEW n \in Nat, NEW m \in Nat, n <= m,
         NEW length \in Nat \ {0}, length <= n, \A i \in 1..n : g[i] = f[i],
         f = [i \in 1..n |-> f[i]], g = [i \in 1..m |-> g[i]]
  PROVE  Grows(Wilder(f, length), n - length + 1, Wilder(g, length), m - length + 1)
<1>1. Grows(f, n, g, m)
  BY Zenon DEF Grows, IsList
<1> QED
  BY <1>1, WilderGrows

LEMMA ADXGrows ==
  ASSUME NEW s, NEW n, NEW t, NEW m, Grows(s, n, t, m), NEW length \in Nat \ {0}, 2 * length <= n
  PROVE  Extends(ADX(s, length), ADX(t, length))
<1>1. /\ n <= m /\ n \in Nat /\ m \in Nat /\ Len(s) = n /\ Len(t) = m
      /\ DOMAIN s = 1..n /\ DOMAIN t = 1..m
      /\ \A i \in 1..n : t[i] = s[i] /\ i \in 1..m
  BY ListsGrow
<1> DEFINE many == n - length
           more == m - length
           ranges(c, k) == [i \in 1..(k - 1) |-> TrueRange(c, i + 1)]
           ups(c, k) == [i \in 1..(k - 1) |-> DirectionalMove(UpMove(c, i), DownMove(c, i))]
           downs(c, k) == [i \in 1..(k - 1) |-> DirectionalMove(DownMove(c, i), UpMove(c, i))]
           range(c, k) == Wilder(ranges(c, k), length)
           plus(c, k) == Wilder(ups(c, k), length)
           minus(c, k) == Wilder(downs(c, k), length)
           dx(c, k) == [j \in 1..(k - length) |-> DX(plus(c, k)[j], minus(c, k)[j], range(c, k)[j])]
           adx(c, k) == Wilder(dx(c, k), length)
           At(c, k, i) == IF i < 2 * length THEN Zero ELSE adx(c, k)[i - 2 * length + 1]
<1>2. /\ ADX(s, length) = [i \in 1..n |-> At(s, n, i)]
      /\ ADX(t, length) = [i \in 1..m |-> At(t, m, i)]
  BY Zenon, <1>1 DEF ADX
<1>3. /\ n - 1 \in Nat /\ m - 1 \in Nat /\ n - 1 <= m - 1 /\ length <= n - 1
      /\ (n - 1) - length + 1 = many /\ (m - 1) - length + 1 = more
      /\ many \in Nat /\ more \in Nat /\ many <= more /\ length <= many
  BY <1>1
<1>4. ASSUME NEW i \in 1..(n - 1)
      PROVE  /\ TrueRange(t, i + 1) = TrueRange(s, i + 1)
             /\ UpMove(t, i) = UpMove(s, i) /\ DownMove(t, i) = DownMove(s, i)
  <2>1. i \in 1..n /\ i + 1 \in 1..n /\ (i + 1) - 1 = i
    BY <1>1
  <2>2. t[i] = s[i] /\ t[i + 1] = s[i + 1]
    BY <1>1, <2>1
  <2> QED
    BY <2>1, <2>2 DEF TrueRange, UpMove, DownMove
<1>5. \A i \in 1..(n - 1) : i \in 1..(m - 1)
  BY <1>1
<1>6. /\ Grows(range(s, n), many, range(t, m), more)
      /\ Grows(plus(s, n), many, plus(t, m), more)
      /\ Grows(minus(s, n), many, minus(t, m), more)
  <2>1. \A i \in 1..(n - 1) : /\ ranges(t, m)[i] = ranges(s, n)[i]
                              /\ ups(t, m)[i] = ups(s, n)[i]
                              /\ downs(t, m)[i] = downs(s, n)[i]
    BY Zenon, <1>4, <1>5
  <2>2. /\ ranges(s, n) = [i \in 1..(n - 1) |-> ranges(s, n)[i]]
        /\ ranges(t, m) = [i \in 1..(m - 1) |-> ranges(t, m)[i]]
        /\ ups(s, n) = [i \in 1..(n - 1) |-> ups(s, n)[i]]
        /\ ups(t, m) = [i \in 1..(m - 1) |-> ups(t, m)[i]]
        /\ downs(s, n) = [i \in 1..(n - 1) |-> downs(s, n)[i]]
        /\ downs(t, m) = [i \in 1..(m - 1) |-> downs(t, m)[i]]
    BY Zenon
  <2> HIDE DEF ranges, ups, downs, many, more
  <2>3. Grows(range(s, n), (n - 1) - length + 1, range(t, m), (m - 1) - length + 1)
    BY <1>3, <2>1, <2>2, DirectionsGrow
  <2>4. Grows(plus(s, n), (n - 1) - length + 1, plus(t, m), (m - 1) - length + 1)
    BY <1>3, <2>1, <2>2, DirectionsGrow
  <2>5. Grows(minus(s, n), (n - 1) - length + 1, minus(t, m), (m - 1) - length + 1)
    BY <1>3, <2>1, <2>2, DirectionsGrow
  <2> QED
    BY Zenon, <1>3, <2>3, <2>4, <2>5
<1> HIDE DEF range, plus, minus, ranges, ups, downs
<1>7. \A j \in 1..many : /\ range(t, m)[j] = range(s, n)[j] /\ plus(t, m)[j] = plus(s, n)[j]
                         /\ minus(t, m)[j] = minus(s, n)[j] /\ j \in 1..more
  <2> HIDE DEF many, more
  <2> QED
    BY <1>6, ListsGrow
<1>8. /\ dx(s, n) = [j \in 1..many |-> dx(s, n)[j]] /\ dx(t, m) = [j \in 1..more |-> dx(t, m)[j]]
      /\ \A j \in 1..many : dx(t, m)[j] = dx(s, n)[j]
  BY Zenon, <1>7
<1> HIDE DEF dx
<1>9. Grows(adx(s, n), many - length + 1, adx(t, m), more - length + 1)
  <2> HIDE DEF many, more
  <2> QED
    BY <1>3, <1>8, DirectionsGrow
<1> HIDE DEF adx
<1>10. \A j \in 1..(many - length + 1) : adx(t, m)[j] = adx(s, n)[j]
  BY <1>9, ListsGrow
<1>11. ASSUME NEW i \in 1..n
       PROVE  At(t, m, i) = At(s, n, i)
  <2>1. CASE i < 2 * length
    BY Zenon, <2>1
  <2>2. CASE ~(i < 2 * length)
    <3>1. i - 2 * length + 1 \in 1..(many - length + 1)
      BY <1>1, <2>2
    <3>2. adx(t, m)[i - 2 * length + 1] = adx(s, n)[i - 2 * length + 1]
      BY <1>10, <3>1
    <3> QED
      BY Zenon, <2>2, <3>2
  <2> QED
    BY <2>1, <2>2
<1> DEFINE f == [i \in 1..n |-> At(s, n, i)]
           g == [i \in 1..m |-> At(t, m, i)]
<1>12. \A i \in 1..n : g[i] = f[i]
  BY Zenon, <1>1, <1>11
<1>13. f = [i \in 1..n |-> f[i]] /\ g = [i \in 1..m |-> g[i]]
  BY Zenon
<1> HIDE DEF f, g
<1>14. Grows(f, n, g, m)
  BY Zenon, <1>1, <1>12, <1>13 DEF Grows, IsList
<1> QED
  BY Zenon, <1>2, <1>14, GrowingExtends DEF f, g

\* The difference of the averages, both of which the line needs at each of its values.
LEMMA MacdLineGrows ==
  ASSUME NEW s, NEW n, NEW t, NEW m, Grows(s, n, t, m), NEW fast \in Nat \ {0},
         NEW slow \in Nat, fast < slow, slow < n
  PROVE  Grows(MacdLine(s, fast, slow), n - slow + 1, MacdLine(t, fast, slow), m - slow + 1)
<1> DEFINE k == slow - fast + 1
           many == n - slow + 1
           more == m - slow + 1
           quick == From(EMA(s, fast), k)
           quickAfter == From(EMA(t, fast), k)
           calm == EMA(s, slow)
           calmAfter == EMA(t, slow)
<1>1. MacdLine(s, fast, slow) = [i \in DOMAIN calm |-> Minus(quick, calm, i)]
      /\ MacdLine(t, fast, slow) = [i \in DOMAIN calmAfter |-> Minus(quickAfter, calmAfter, i)]
  BY Zenon DEF MacdLine
<1>2. n <= m /\ n \in Nat /\ m \in Nat
  BY ListsGrow
<1>3. /\ fast < n /\ slow \in Nat \ {0} /\ many \in Nat /\ more \in Nat /\ many <= more
      /\ k \in 1..((n - fast + 1) + 1)
      /\ (n - fast + 1) - k + 1 = many /\ (m - fast + 1) - k + 1 = more
  BY <1>2
<1>4. Grows(EMA(s, fast), n - fast + 1, EMA(t, fast), m - fast + 1)
  BY <1>3, SmoothedGrows DEF EMA
<1>5. Grows(calm, many, calmAfter, more)
  BY <1>3, SmoothedGrows DEF EMA
<1>6. Grows(quick, many, quickAfter, more)
  <2> HIDE DEF many, more, k
  <2>1. Grows(From(EMA(s, fast), k), (n - fast + 1) - k + 1,
              From(EMA(t, fast), k), (m - fast + 1) - k + 1)
    BY <1>3, <1>4, RestGrows
  <2> QED
    BY Zenon, <1>3, <2>1
<1> HIDE DEF quick, quickAfter, calm, calmAfter, many, more
<1>7. /\ DOMAIN calm = 1..many /\ DOMAIN calmAfter = 1..more
      /\ DOMAIN quick = 1..many /\ DOMAIN quickAfter = 1..more
      /\ \A i \in 1..many : calmAfter[i] = calm[i] /\ quickAfter[i] = quick[i] /\ i \in 1..more
  BY <1>5, <1>6, ListsGrow
<1> DEFINE f == [i \in DOMAIN calm |-> Minus(quick, calm, i)]
           g == [i \in DOMAIN calmAfter |-> Minus(quickAfter, calmAfter, i)]
<1>8. \A i \in 1..many : g[i] = f[i]
  BY Zenon, <1>7 DEF Minus
<1>9. f = [i \in 1..many |-> f[i]] /\ g = [i \in 1..more |-> g[i]]
  BY Zenon, <1>7
<1> HIDE DEF f, g
<1>10. Grows(f, many, g, more)
  BY Zenon, <1>3, <1>8, <1>9 DEF Grows, IsList
<1> QED
  BY Zenon, <1>1, <1>10 DEF f, g, many, more

LEMMA HistGrows ==
  ASSUME NEW s, NEW n, NEW t, NEW m, Grows(s, n, t, m), NEW fast \in Nat \ {0},
         NEW slow \in Nat, fast < slow, NEW length \in Nat \ {0}, slow + length <= n
  PROVE  Extends(MACD(s, fast, slow, length).hist, MACD(t, fast, slow, length).hist)
<1> DEFINE line == MacdLine(s, fast, slow)
           lineAfter == MacdLine(t, fast, slow)
           macd == From(line, length)
           macdAfter == From(lineAfter, length)
           signal == EMA(line, length)
           signalAfter == EMA(lineAfter, length)
           k == n - slow + 1
           l == m - slow + 1
           many == k - length + 1
           more == l - length + 1
           f == [i \in DOMAIN signal |-> Minus(macd, signal, i)]
           g == [i \in DOMAIN signalAfter |-> Minus(macdAfter, signalAfter, i)]
<1>1. MACD(s, fast, slow, length).hist = f /\ MACD(t, fast, slow, length).hist = g
  BY DEF MACD
<1>2. n <= m /\ n \in Nat /\ m \in Nat
  BY ListsGrow
<1>3. /\ slow < n /\ k \in Nat /\ length < k /\ length \in 1..(k + 1)
      /\ many \in Nat /\ more \in Nat /\ many <= more
  BY <1>2
<1>4. Grows(line, k, lineAfter, l)
  BY <1>3, MacdLineGrows
<1> HIDE DEF k, l, line, lineAfter
<1>5. Grows(signal, many, signalAfter, more)
  BY <1>3, <1>4, SmoothedGrows DEF EMA
<1>6. Grows(macd, many, macdAfter, more)
  BY <1>3, <1>4, RestGrows
<1> HIDE DEF macd, macdAfter, signal, signalAfter, many, more
<1>7. /\ DOMAIN signal = 1..many /\ DOMAIN signalAfter = 1..more
      /\ DOMAIN macd = 1..many /\ DOMAIN macdAfter = 1..more
      /\ \A i \in 1..many : /\ signalAfter[i] = signal[i] /\ macdAfter[i] = macd[i]
                            /\ i \in 1..more
  BY <1>5, <1>6, ListsGrow
<1>8. \A i \in 1..many : g[i] = f[i]
  BY Zenon, <1>7 DEF Minus
<1>9. f = [i \in 1..many |-> f[i]] /\ g = [i \in 1..more |-> g[i]]
  BY Zenon, <1>7
<1> HIDE DEF f, g
<1>10. Grows(f, many, g, more)
  BY Zenon, <1>3, <1>8, <1>9 DEF Grows, IsList
<1> QED
  BY Zenon, <1>1, <1>10, GrowingExtends

-----------------------------------------------------------------------------
\* K-lines are kept in the order they have arrived.
LEMMA ChartGrows ==
  ASSUME kLines \in Seq(KLine), KLineArrives
  PROVE  /\ Grows(kLines, Len(kLines), kLines', Len(kLines'))
         /\ Grows(Close(kLines), Len(kLines), Close(kLines'), Len(kLines'))
         /\ kLines' \in Seq(KLine)
<1>1. PICK k \in KLine : kLines' = Append(kLines, k)
  BY DEF KLineArrives
<1> DEFINE n == Len(kLines)
           m == Len(kLines')
<1>2. n \in Nat /\ m = n + 1 /\ DOMAIN kLines = 1..n /\ DOMAIN kLines' = 1..m
  BY <1>1
<1>3. kLines' \in Seq(KLine)
  BY <1>1
<1>4. kLines = [i \in 1..n |-> kLines[i]] /\ kLines' = [i \in 1..m |-> kLines'[i]]
  BY <1>2, <1>3
<1>5. \A i \in 1..n : kLines'[i] = kLines[i] /\ i \in 1..m
  BY <1>1, <1>2
<1> HIDE DEF n, m
<1>6. Grows(kLines, n, kLines', m)
  <2>1. m \in Nat /\ n <= m
    BY <1>2
  <2> QED
    BY Zenon, <1>2, <1>4, <1>5, <2>1 DEF Grows, IsList
<1>7. Grows(Close(kLines), n, Close(kLines'), m)
  <2>1. m \in Nat /\ n <= m
    BY <1>2
  <2>2. /\ \A i \in 1..n : Close(kLines)[i] = kLines[i].close
        /\ \A i \in 1..m : Close(kLines')[i] = kLines'[i].close
    BY Zenon, <1>2 DEF Close
  <2>3. /\ Close(kLines) = [i \in 1..n |-> Close(kLines)[i]]
        /\ Close(kLines') = [i \in 1..m |-> Close(kLines')[i]]
    BY Zenon, <1>2, <2>2 DEF Close
  <2>4. \A i \in 1..n : Close(kLines')[i] = Close(kLines)[i]
    BY Zenon, <1>5, <2>2
  <2> QED
    BY Zenon, <1>2, <2>1, <2>3, <2>4 DEF Grows, IsList
<1> QED
  BY Zenon, <1>3, <1>6, <1>7 DEF n, m

\* What a k-line that arrives leaves of every indicator.
Kept ==
  LET before == Close(kLines)
      after == Close(kLines')
  IN  /\ Len(kLines) > Length =>
           /\ Extends(SMA(before, Length), SMA(after, Length))
           /\ Extends(EMA(before, Length), EMA(after, Length))
           /\ Extends(RMA(before, Length), RMA(after, Length))
           /\ Extends(ATR(kLines, Length), ATR(kLines', Length))
           /\ Extends(SuperTrend(kLines, Factor, Length), SuperTrend(kLines', Factor, Length))
      /\ Len(kLines) >= 2 * Length => Extends(ADX(kLines, Length), ADX(kLines', Length))
      /\ \A signal \in SignalLengths : Len(kLines) >= SlowLength + signal =>
           Extends(MACD(before, Length, SlowLength, signal).hist,
                   MACD(after, Length, SlowLength, signal).hist)
      /\ Extends(RSI(before, Length), RSI(after, Length))
      /\ Extends(BollingerBands(before, Length, Factor), BollingerBands(after, Length, Factor))

LEMMA ArrivalKeeps ==
  ASSUME kLines \in Seq(KLine), KLineArrives
  PROVE  Kept
<1> DEFINE n == Len(kLines)
           m == Len(kLines')
           before == Close(kLines)
           after == Close(kLines')
<1>1. Grows(kLines, n, kLines', m) /\ Grows(before, n, after, m)
  BY ChartGrows
<1>2. Length \in Nat \ {0} /\ SlowLength \in Nat /\ Length < SlowLength /\ n \in Nat
  BY ChartAssumption
<1> HIDE DEF n, m, before, after
<1>3. ASSUME n > Length
      PROVE  /\ Extends(SMA(before, Length), SMA(after, Length))
             /\ Extends(EMA(before, Length), EMA(after, Length))
             /\ Extends(RMA(before, Length), RMA(after, Length))
             /\ Extends(ATR(kLines, Length), ATR(kLines', Length))
             /\ Extends(SuperTrend(kLines, Factor, Length), SuperTrend(kLines', Factor, Length))
  <2>1. Length < n /\ Length <= n
    BY <1>2, <1>3
  <2>2. Grows(SMA(before, Length), n - Length + 1, SMA(after, Length), m - Length + 1)
    BY <1>1, <1>2, <2>1, SMAGrows
  <2>3. Grows(EMA(before, Length), n - Length + 1, EMA(after, Length), m - Length + 1)
    BY <1>1, <1>2, <2>1, SmoothedGrows DEF EMA
  <2>4. Grows(RMA(before, Length), n - Length + 1, RMA(after, Length), m - Length + 1)
    BY <1>1, <1>2, <2>1, SmoothedGrows DEF RMA
  <2>5. Grows(ATR(kLines, Length), n - Length + 1, ATR(kLines', Length), m - Length + 1)
    BY <1>1, <1>2, <2>1, ATRGrows
  <2>6. Extends(SuperTrend(kLines, Factor, Length), SuperTrend(kLines', Factor, Length))
    BY <1>1, <1>2, <2>1, SuperTrendGrows
  <2> QED
    BY Zenon, <2>2, <2>3, <2>4, <2>5, <2>6, GrowingExtends
<1>4. ASSUME n >= 2 * Length
      PROVE  Extends(ADX(kLines, Length), ADX(kLines', Length))
  <2>1. 2 * Length <= n
    BY <1>2, <1>4
  <2> QED
    BY <1>1, <1>2, <2>1, ADXGrows
<1>5. ASSUME NEW signal \in SignalLengths, n >= SlowLength + signal
      PROVE  Extends(MACD(before, Length, SlowLength, signal).hist,
                     MACD(after, Length, SlowLength, signal).hist)
  <2>1. signal \in Nat \ {0} /\ SlowLength + signal <= n
    BY <1>2, <1>5, ChartAssumption
  <2> QED
    BY <1>1, <1>2, <2>1, HistGrows
<1>6. Extends(RSI(before, Length), RSI(after, Length))
  BY <1>1, <1>2, RSIGrows
<1>7. Extends(BollingerBands(before, Length, Factor), BollingerBands(after, Length, Factor))
  BY <1>1, <1>2, BandsGrow
<1> QED
  BY Zenon, <1>3, <1>4, <1>5, <1>6, <1>7 DEF Kept, n, before, after

\* No k-line changes a value of an indicator that was given before, whatever the prices
\* are: the repeated computation from all k-lines repaints nothing. (indicator.ts)
THEOREM ValuesAreKept == Spec => HistoryIsKept
<1>1. Spec => [](kLines \in Seq(KLine))
  <2>1. Init => kLines \in Seq(KLine)
    BY DEF Init
  <2>2. kLines \in Seq(KLine) /\ [Next]_kLines => (kLines \in Seq(KLine))'
    BY DEF Next, KLineArrives
  <2> QED
    BY <2>1, <2>2, PTL DEF Spec
<1>2. kLines \in Seq(KLine) /\ [Next]_kLines => [Kept]_kLines
  BY ArrivalKeeps DEF Next
<1>3. HistoryIsKept <=> [][Kept]_kLines
  BY DEF HistoryIsKept, Kept
<1> QED
  BY <1>1, <1>2, <1>3, PTL DEF Spec


-----------------------------------------------------------------------------
(* Greatest common divisors: what Gcd computes, for any two naturals.      *)

Divides(k, n) == \E m \in Nat : n = k * m

Divisors(a, b) == {k \in Nat \ {0} : Divides(k, a) /\ Divides(k, b)}

Greatest(a, b) ==
  IF a = 0 /\ b = 0 THEN 0
  ELSE CHOOSE g \in Divisors(a, b) : \A k \in Divisors(a, b) : k <= g

LEMMA Remainder ==
  ASSUME NEW a \in Nat, NEW b \in Nat \ {0}
  PROVE  /\ a \div b \in Nat /\ a % b \in Nat /\ a % b < b
         /\ a = b * (a \div b) + (a % b)
<1>1. /\ a \div b \in Int
      /\ b * (a \div b) <= a /\ a < b * ((a \div b) + 1)
  BY Quotient
<1>2. a \div b \in Nat
  <2>1. CASE a \div b <= -1
    <3>1. b * ((a \div b) + 1) <= b * 0
      BY <1>1, <2>1, TimesMonotone
    <3> QED
      BY <1>1, <3>1, SMT
  <2> QED
    BY <1>1, <2>1
<1>3. a % b \in Nat /\ a % b < b
  BY SMT
<1>4. a = b * (a \div b) + (a % b)
  BY SMT
<1> QED
  BY <1>2, <1>3, <1>4

LEMMA DivisorSmall ==
  ASSUME NEW k \in Nat \ {0}, NEW n \in Nat \ {0}, Divides(k, n)
  PROVE  k <= n
<1>1. PICK m \in Nat : n = k * m
  BY DEF Divides
<1>2. m # 0
  BY <1>1, SMT
<1>3. 1 <= m
  BY <1>2
<1>4. k * 1 <= k * m
  BY <1>3, TimesMonotone
<1> QED
  BY <1>1, <1>4

LEMMA SameDivisors ==
  ASSUME NEW a \in Nat, NEW b \in Nat \ {0}
  PROVE  Divisors(a, b) = Divisors(b, a % b)
<1> DEFINE q == a \div b
           r == a % b
<1>1. q \in Nat /\ r \in Nat /\ a = b * q + r
  BY Remainder
<1> HIDE DEF q, r
<1> SUFFICES ASSUME NEW k \in Nat \ {0}, Divides(k, b)
             PROVE  Divides(k, a) <=> Divides(k, r)
  BY DEF Divisors, r
<1>2. PICK y \in Nat : b = k * y
  BY DEF Divides
<1>3. y * q \in Nat /\ b * q = k * (y * q)
  BY <1>1, <1>2, SMT
<1>4. ASSUME Divides(k, r) PROVE Divides(k, a)
  <2>1. PICK z \in Nat : r = k * z
    BY <1>4 DEF Divides
  <2>2. a = k * (y * q + z) /\ y * q + z \in Nat
    <3>1. k * (y * q + z) = k * (y * q) + k * z
      BY <1>3, SMT
    <3> QED
      BY <1>1, <1>3, <2>1, <3>1
  <2> QED
    BY <2>2 DEF Divides
<1>5. ASSUME Divides(k, a) PROVE Divides(k, r)
  <2>1. PICK x \in Nat : a = k * x
    BY <1>5 DEF Divides
  <2>2. k * (x - y * q) = k * x - k * (y * q)
    BY <1>3, SMT
  <2>3. r = k * (x - y * q)
    BY <1>1, <1>3, <2>1, <2>2
  <2>4. x - y * q \in Nat
    <3>1. CASE x - y * q <= -1
      <4>1. k * (x - y * q) <= k * (-1)
        BY <1>3, <3>1, TimesMonotone
      <4>2. k * (-1) = -k
        BY SMT
      <4> QED
        BY <1>1, <2>3, <4>1, <4>2
    <3> QED
      BY <1>3, <3>1
  <2> QED
    BY <2>3, <2>4 DEF Divides
<1> QED
  BY <1>4, <1>5

LEMMA GreatestUnfolds ==
  ASSUME NEW a \in Nat, NEW b \in Nat
  PROVE  Greatest(a, b) = IF b = 0 THEN a ELSE Greatest(b, a % b)
<1>1. CASE b = 0 /\ a = 0
  BY <1>1 DEF Greatest
<1>2. CASE b = 0 /\ a # 0
  <2>1. a \in Divisors(a, b)
    <3>1. Divides(a, a) /\ Divides(a, b)
      <4>1. a = a * 1 /\ b = a * 0
        BY <1>2, SMT
      <4> QED
        BY <4>1 DEF Divides
    <3> QED
      BY <1>2, <3>1 DEF Divisors
  <2>2. \A k \in Divisors(a, b) : k <= a
    BY <1>2, DivisorSmall DEF Divisors
  <2>3. ASSUME NEW g \in Divisors(a, b), \A k \in Divisors(a, b) : k <= g
        PROVE  g = a
    BY <2>1, <2>2, <2>3 DEF Divisors
  <2>4. Greatest(a, b) = CHOOSE g \in Divisors(a, b) : \A k \in Divisors(a, b) : k <= g
    BY <1>2 DEF Greatest
  <2>5. Greatest(a, b) = a
    BY <2>1, <2>2, <2>3, <2>4
  <2> QED
    BY <1>2, <2>5
<1>3. CASE b # 0
  <2>1. Divisors(a, b) = Divisors(b, a % b)
    BY <1>3, SameDivisors
  <2> QED
    BY <1>3, <2>1 DEF Greatest
<1> QED
  BY <1>1, <1>2, <1>3

LEMMA GcdUnfolds ==
  ASSUME NEW a \in Nat, NEW b \in Nat
  PROVE  Gcd[<<a, b>>] = IF b = 0 THEN a ELSE Gcd[<<b, a % b>>]
<1> DEFINE At(f, p) == IF p[2] = 0 THEN p[1] ELSE f[<<p[2], p[1] % p[2]>>]
           Is(f) == f = [p \in Nat \X Nat |-> At(f, p)]
<1>1. \E f : Is(f)
  <2> DEFINE f == [p \in Nat \X Nat |-> Greatest(p[1], p[2])]
  <2>1. ASSUME NEW p \in Nat \X Nat
        PROVE  f[p] = At(f, p)
    <3>1. p[1] \in Nat /\ p[2] \in Nat
      OBVIOUS
    <3>2. Greatest(p[1], p[2]) = IF p[2] = 0 THEN p[1] ELSE Greatest(p[2], p[1] % p[2])
      BY <3>1, GreatestUnfolds
    <3>3. ASSUME p[2] # 0
          PROVE  f[<<p[2], p[1] % p[2]>>] = Greatest(p[2], p[1] % p[2])
      <4>1. p[1] % p[2] \in Nat
        BY <3>1, <3>3, Remainder
      <4>2. <<p[2], p[1] % p[2]>> \in Nat \X Nat
        BY <3>1, <4>1
      <4> QED
        BY Zenon, <4>2
    <3> QED
      BY Zenon, <3>2, <3>3
  <2>2. f = [p \in Nat \X Nat |-> f[p]]
    BY Zenon
  <2> HIDE DEF f, At
  <2>3. f = [p \in Nat \X Nat |-> At(f, p)]
    BY Zenon, <2>1, <2>2
  <2> QED
    BY Zenon, <2>3
<1>2. Gcd = CHOOSE f : Is(f)
  BY Zenon DEF Gcd
<1>3. Is(Gcd)
  BY Zenon, <1>1, <1>2
<1>4. <<a, b>> \in Nat \X Nat
  OBVIOUS
<1>5. Gcd[<<a, b>>] = At(Gcd, <<a, b>>)
  <2> HIDE DEF At
  <2> QED
    BY Zenon, <1>3, <1>4
<1> QED
  BY <1>5

\* Every pair comes from the ones with a smaller second number.
LEMMA GcdInduction ==
  ASSUME NEW P, P \subseteq Nat \X Nat, \A a \in Nat : <<a, 0>> \in P,
         \A a \in Nat, b \in Nat \ {0} : <<b, a % b>> \in P => <<a, b>> \in P
  PROVE  P = Nat \X Nat
<1> DEFINE N == {n \in Nat : \A a \in Nat, b \in 0..n : <<a, b>> \in P}
<1>1. 0 \in N
  OBVIOUS
<1>2. ASSUME NEW n \in N
      PROVE  n + 1 \in N
  <2>1. ASSUME NEW a \in Nat, NEW b \in 0..(n + 1)
        PROVE  <<a, b>> \in P
    <3>1. CASE b = 0
      BY <3>1
    <3>2. CASE b # 0
      <4>1. b \in Nat \ {0}
        BY <3>2
      <4>2. a % b \in 0..n
        <5>1. a % b \in Nat /\ a % b < b
          BY <4>1, Remainder
        <5> QED
          BY <5>1
      <4>3. <<b, a % b>> \in P
        BY <4>1, <4>2
      <4> QED
        BY <4>1, <4>3
    <3> QED
      BY <3>1, <3>2
  <2> QED
    BY <2>1
<1>3. N = Nat
  <2> HIDE DEF N
  <2>1. N \subseteq Nat
    BY DEF N
  <2> QED
    BY <1>1, <1>2, <2>1, NatSetInduction
<1>4. \A a, b \in Nat : <<a, b>> \in P
  <2> SUFFICES ASSUME NEW a \in Nat, NEW b \in Nat
               PROVE  <<a, b>> \in P
    OBVIOUS
  <2>1. b \in N /\ b \in 0..b
    BY <1>3
  <2> QED
    BY <2>1
<1> QED
  BY <1>4

\* It divides both, and is zero only when both are.
LEMMA GcdDivides ==
  ASSUME NEW a \in Nat, NEW b \in Nat
  PROVE  /\ Gcd[<<a, b>>] \in Nat
         /\ Divides(Gcd[<<a, b>>], a) /\ Divides(Gcd[<<a, b>>], b)
         /\ a # 0 \/ b # 0 => Gcd[<<a, b>>] # 0
<1> DEFINE Good(x, y, g) == g \in Nat /\ Divides(g, x) /\ Divides(g, y) /\ (x # 0 \/ y # 0 => g # 0)
           P == {p \in Nat \X Nat : Good(p[1], p[2], Gcd[p])}
<1>1. ASSUME NEW x \in Nat
      PROVE  <<x, 0>> \in P
  <2>1. Gcd[<<x, 0>>] = x
    BY GcdUnfolds
  <2>2. x = x * 1 /\ 0 = x * 0
    BY SMT
  <2>3. Divides(x, x) /\ Divides(x, 0)
    BY <2>2 DEF Divides
  <2> QED
    BY <2>1, <2>3
<1>2. ASSUME NEW x \in Nat, NEW y \in Nat \ {0}, <<y, x % y>> \in P
      PROVE  <<x, y>> \in P
  <2> DEFINE g == Gcd[<<y, x % y>>]
             q == x \div y
             r == x % y
  <2>1. Gcd[<<x, y>>] = g
    BY GcdUnfolds
  <2>2. Good(y, r, g)
    BY <1>2
  <2>3. q \in Nat /\ r \in Nat /\ x = y * q + r
    BY Remainder
  <2> HIDE DEF g, q, r
  <2>4. PICK m \in Nat, l \in Nat : y = g * m /\ r = g * l
    BY <2>2 DEF Divides
  <2>5. x = g * (m * q + l)
    <3>1. g \in Nat
      BY <2>2
    <3>2. (g * m) * q + g * l = g * (m * q + l)
      BY <2>3, <3>1, SMT
    <3> QED
      BY Zenon, <2>3, <2>4, <3>2
  <2>6. m * q + l \in Nat
    BY <2>3, SMT
  <2>7. Divides(g, x)
    BY <2>5, <2>6 DEF Divides
  <2> QED
    BY <2>1, <2>2, <2>7
<1>3. P = Nat \X Nat
  <2> HIDE DEF P
  <2>1. P \subseteq Nat \X Nat
    BY DEF P
  <2> QED
    BY <1>1, <1>2, <2>1, GcdInduction
<1>4. <<a, b>> \in P
  BY <1>3
<1> QED
  BY <1>4

\* A factor of both is one of it.
LEMMA GcdScaled ==
  ASSUME NEW k \in Nat \ {0}, NEW a \in Nat, NEW b \in Nat
  PROVE  Gcd[<<k * a, k * b>>] = k * Gcd[<<a, b>>]
<1> DEFINE P == {p \in Nat \X Nat : Gcd[<<k * p[1], k * p[2]>>] = k * Gcd[p]}
<1>0. \A n \in Nat : k * n \in Nat
  BY SMT
<1>1. ASSUME NEW x \in Nat
      PROVE  <<x, 0>> \in P
  <2>1. k * 0 = 0
    BY SMT
  <2>2. Gcd[<<x, 0>>] = x /\ Gcd[<<k * x, 0>>] = k * x
    BY <1>0, GcdUnfolds
  <2> QED
    BY <2>1, <2>2
<1>2. ASSUME NEW x \in Nat, NEW y \in Nat \ {0}, <<y, x % y>> \in P
      PROVE  <<x, y>> \in P
  <2> DEFINE q == x \div y
             r == x % y
  <2>1. q \in Nat /\ r \in Nat /\ r < y /\ x = y * q + r
    BY Remainder
  <2>2. k * y \in Nat \ {0} /\ k * x \in Nat /\ k * r \in Nat
    BY <2>1, SMT
  <2>3. (k * x) % (k * y) = k * r
    <3>1. k * x = (k * y) * q + k * r
      <4> HIDE DEF q, r
      <4>1. k * (y * q + r) = (k * y) * q + k * r
        BY <2>1, SMT
      <4> QED
        BY Zenon, <2>1, <4>1
    <3>2. k * r < k * y
      <4>1. k * (r + 1) <= k * y
        BY <2>1, TimesMonotone
      <4>2. k * (r + 1) = k * r + k
        BY <2>1, SMT
      <4> QED
        BY <2>2, <4>1, <4>2
    <3> DEFINE A == k * x
               B == k * y
               C == k * r
    <3>3. A \in Nat /\ B \in Nat \ {0} /\ C \in Nat /\ A = B * q + C /\ C < B
      BY <2>2, <3>1, <3>2
    <3> HIDE DEF A, B, C, q, r
    <3>4. /\ A \div B \in Nat /\ A % B \in Nat /\ A % B < B
          /\ A = B * (A \div B) + (A % B)
      BY <3>3, Remainder
    <3>5. B * q <= A /\ A < B * (q + 1)
      <4>1. B * (q + 1) = B * q + B
        BY <2>1, <3>3, SMT
      <4> QED
        BY <2>1, <3>3, <4>1
    <3>6. A \div B = q
      BY <2>1, <3>3, <3>5, QuotientIs
    <3>7. A % B = C
      BY <2>1, <3>3, <3>4, <3>6
    <3> QED
      BY <3>7 DEF A, B, C, r
  <2>4. Gcd[<<k * x, k * y>>] = Gcd[<<k * y, k * r>>]
    BY <2>2, <2>3, GcdUnfolds
  <2>5. Gcd[<<x, y>>] = Gcd[<<y, r>>]
    BY GcdUnfolds
  <2>6. Gcd[<<k * y, k * r>>] = k * Gcd[<<y, r>>]
    BY <1>2
  <2> QED
    BY <2>4, <2>5, <2>6
<1>3. P = Nat \X Nat
  <2> HIDE DEF P
  <2>1. P \subseteq Nat \X Nat
    BY DEF P
  <2> QED
    BY <1>1, <1>2, <2>1, GcdInduction
<1>4. <<a, b>> \in P
  BY <1>3
<1> QED
  BY <1>4

-----------------------------------------------------------------------------
(* Fractions: Frac(n, d) is in lowest terms and has the value of n / d, so *)
(* that fractions of one value are one fraction; what the operators do     *)
(* with any numerators and denominators of their arguments.                *)

\* The fraction a has the value n / d.
Shows(a, n, d) == n \in Int /\ d \in Nat \ {0} /\ a = Frac(n, d)

LEMMA ProductType ==
  /\ \A a, b \in Nat \ {0} : a * b \in Nat \ {0}
  /\ \A a, b \in Nat : a * b \in Nat
  /\ \A a, b \in Int : a * b \in Int
BY SMT

LEMMA ExactQuotient ==
  ASSUME NEW g \in Nat \ {0}, NEW m \in Int
  PROVE  (g * m) \div g = m
<1>1. g * m \in Int /\ g * (m + 1) = g * m + g
  BY SMT
<1>2. g * m <= g * m /\ g * m < g * (m + 1)
  BY <1>1
<1> QED
  BY <1>1, <1>2, QuotientIs

\* Both are divided by a common factor.
LEMMA FracReduced ==
  ASSUME NEW n \in Int, NEW d \in Nat \ {0}
  PROVE  \E g \in Nat \ {0}, m \in Int, e \in Nat \ {0} :
           n = g * m /\ d = g * e /\ Frac(n, d) = [num |-> m, den |-> e]
<1> DEFINE g == Gcd[<<Abs(n), Abs(d)>>]
<1>1. Abs(n) \in Nat /\ Abs(d) = d /\ ~(d < 0)
  BY DEF Abs
<1>2. g \in Nat \ {0} /\ Divides(g, Abs(n)) /\ Divides(g, d)
  BY <1>1, GcdDivides
<1>3. Frac(n, d) = [num |-> 1 * (n \div g), den |-> d \div g]
  BY <1>1 DEF Frac
<1> HIDE DEF g
<1>4. PICK l \in Nat : Abs(n) = g * l
  BY <1>2 DEF Divides
<1>5. PICK e \in Nat : d = g * e
  BY <1>2 DEF Divides
<1>6. PICK m \in Int : n = g * m
  <2>1. CASE n < 0
    <3>1. n = -(g * l) /\ g * (-l) = -(g * l)
      BY <1>2, <1>4, <2>1, SMT DEF Abs
    <3> QED
      BY <3>1
  <2>2. CASE ~(n < 0)
    BY <1>4, <2>2 DEF Abs
  <2> QED
    BY <2>1, <2>2
<1>7. e \in Nat \ {0}
  BY <1>2, <1>5, SMT
<1>8. n \div g = m /\ d \div g = e
  BY <1>2, <1>5, <1>6, ExactQuotient
<1>9. 1 * m = m
  OBVIOUS
<1>10. Frac(n, d) = [num |-> m, den |-> e]
  BY Zenon, <1>3, <1>8, <1>9
<1> QED
  BY <1>2, <1>5, <1>6, <1>7, <1>10

LEMMA FracScaled ==
  ASSUME NEW k \in Nat \ {0}, NEW n \in Int, NEW d \in Nat \ {0}
  PROVE  Frac(k * n, k * d) = Frac(n, d)
<1> DEFINE g == Gcd[<<Abs(n), Abs(d)>>]
           h == Gcd[<<Abs(k * n), Abs(k * d)>>]
<1>1. Abs(n) \in Nat /\ Abs(d) = d /\ ~(d < 0)
  BY DEF Abs
<1>2. k * n \in Int /\ k * d \in Nat \ {0}
  BY SMT
<1>3. Abs(k * d) = k * d /\ ~(k * d < 0)
  BY <1>2 DEF Abs
<1>4. Abs(k * n) = k * Abs(n)
  <2>1. CASE n < 0
    <3>1. k * n < 0 /\ k * (-n) = -(k * n)
      BY <2>1, SMT
    <3> QED
      BY <2>1, <3>1 DEF Abs
  <2>2. CASE ~(n < 0)
    <3>1. ~(k * n < 0)
      BY <2>2, SMT
    <3> QED
      BY <2>2, <3>1 DEF Abs
  <2> QED
    BY <2>1, <2>2
<1>5. h = k * g
  BY <1>1, <1>3, <1>4, GcdScaled
<1>6. g \in Nat \ {0} /\ Divides(g, Abs(n)) /\ Divides(g, d)
  BY <1>1, GcdDivides
<1>7. /\ Frac(n, d) = [num |-> 1 * (n \div g), den |-> d \div g]
      /\ Frac(k * n, k * d) = [num |-> 1 * ((k * n) \div h), den |-> (k * d) \div h]
  BY Zenon, <1>1, <1>3 DEF Frac
<1> HIDE DEF g, h
<1>8. PICK m \in Int : n = g * m
  <2>1. PICK l \in Nat : Abs(n) = g * l
    BY <1>6 DEF Divides
  <2>2. CASE n < 0
    <3>1. n = -(g * l) /\ g * (-l) = -(g * l)
      BY <1>6, <2>1, <2>2, SMT DEF Abs
    <3> QED
      BY <3>1
  <2>3. CASE ~(n < 0)
    BY <2>1, <2>3 DEF Abs
  <2> QED
    BY <2>2, <2>3
<1>9. PICK e \in Nat : d = g * e
  BY <1>6 DEF Divides
<1>10. k * n = h * m /\ k * d = h * e /\ h \in Nat \ {0}
  <2>1. k * (g * m) = (k * g) * m /\ k * (g * e) = (k * g) * e /\ k * g \in Nat \ {0}
    BY <1>6, SMT
  <2> QED
    BY Zenon, <1>5, <1>8, <1>9, <2>1
<1>11. (k * n) \div h = n \div g /\ (k * d) \div h = d \div g
  <2>1. n \div g = m /\ d \div g = e
    BY <1>6, <1>8, <1>9, ExactQuotient
  <2>2. (h * m) \div h = m /\ (h * e) \div h = e
    BY <1>10, ExactQuotient
  <2> QED
    BY Zenon, <1>10, <2>1, <2>2
<1> QED
  BY Zenon, <1>7, <1>11

\* Fractions of the same value are the same.
LEMMA FracSame ==
  ASSUME NEW n \in Int, NEW d \in Nat \ {0}, NEW m \in Int, NEW e \in Nat \ {0}, n * e = m * d
  PROVE  Frac(n, d) = Frac(m, e)
<1>1. Frac(e * n, e * d) = Frac(n, d)
  BY FracScaled
<1>2. Frac(d * m, d * e) = Frac(m, e)
  BY FracScaled
<1>3. e * n = d * m /\ e * d = d * e
  BY SMT
<1> QED
  BY Zenon, <1>1, <1>2, <1>3

LEMMA FracType ==
  ASSUME NEW n \in Int, NEW d \in Nat \ {0}
  PROVE  /\ IsFraction(Frac(n, d))
         /\ Frac(n, d).num * d = n * Frac(n, d).den
<1>1. PICK g \in Nat \ {0}, m \in Int, e \in Nat \ {0} :
        n = g * m /\ d = g * e /\ Frac(n, d) = [num |-> m, den |-> e]
  BY FracReduced
<1> DEFINE a == Frac(n, d)
<1>2. a.num = m /\ a.den = e /\ a \in [num : Int, den : Nat \ {0}]
  BY <1>1
<1>3. Frac(g * m, g * e) = Frac(m, e)
  BY FracScaled
<1>4. a = Frac(a.num, a.den)
  BY Zenon, <1>1, <1>2, <1>3
<1>5. m * (g * e) = (g * m) * e
  BY SMT
<1>6. a.num * d = n * a.den
  BY Zenon, <1>1, <1>2, <1>5
<1> QED
  BY Zenon, <1>2, <1>4, <1>6 DEF IsFraction

\* What is known of a fraction.
LEMMA FractionShows ==
  ASSUME NEW a, IsFraction(a)
  PROVE  Shows(a, a.num, a.den) /\ a # NaN
<1>1. a \in [num : Int, den : Nat \ {0}] /\ a = Frac(a.num, a.den)
  BY DEF IsFraction
<1>2. a.num \in Int /\ a.den \in Nat \ {0}
  BY <1>1
<1>3. a # NaN
  BY <1>1, NaNAssumption
<1> QED
  BY Zenon, <1>1, <1>2, <1>3 DEF Shows

LEMMA ShowsType ==
  ASSUME NEW a, NEW n, NEW d, Shows(a, n, d)
  PROVE  /\ IsFraction(a) /\ n \in Int /\ d \in Nat \ {0} /\ a # NaN
         /\ a.num \in Int /\ a.den \in Nat \ {0}
         /\ a.num * d = n * a.den
<1>1. n \in Int /\ d \in Nat \ {0} /\ a = Frac(n, d)
  BY DEF Shows
<1>2. IsFraction(a) /\ a.num * d = n * a.den
  BY Zenon, <1>1, FracType
<1>3. a \in [num : Int, den : Nat \ {0}]
  BY <1>2 DEF IsFraction
<1>4. a.num \in Int /\ a.den \in Nat \ {0}
  BY <1>3
<1>5. a # NaN
  BY <1>3, NaNAssumption
<1> QED
  BY <1>1, <1>2, <1>4, <1>5

\* Numbers that are multiplied across.
LEMMA CrossProducts ==
  ASSUME NEW p \in Int, NEW q \in Int, NEW n \in Int, NEW d \in Int, p * d = n * q,
         NEW r \in Int, NEW s \in Int, NEW m \in Int, NEW e \in Int, r * e = m * s
  PROVE  /\ (p * s) * (d * e) = (n * e) * (q * s)
         /\ (r * q) * (d * e) = (m * d) * (q * s)
         /\ (p * r) * (d * e) = (n * m) * (q * s)
         /\ (p * s) * (d * m) = (n * e) * (q * r)
<1>1. (p * s) * (d * e) = (p * d) * (s * e) /\ (n * q) * (s * e) = (n * e) * (q * s)
  BY SMT
<1>2. (r * q) * (d * e) = (r * e) * (q * d) /\ (m * s) * (q * d) = (m * d) * (q * s)
  BY SMT
<1>3. (p * r) * (d * e) = (p * d) * (r * e) /\ (n * q) * (m * s) = (n * m) * (q * s)
  BY SMT
<1>4. (p * s) * (d * m) = (p * d) * (m * s) /\ (n * q) * (r * e) = (n * e) * (q * r)
  BY SMT
<1> QED
  BY Zenon, <1>1, <1>2, <1>3, <1>4

LEMMA EqualFractions ==
  ASSUME NEW a, NEW n, NEW d, Shows(a, n, d), NEW b, NEW m, NEW e, Shows(b, m, e)
  PROVE  a = b <=> n * e = m * d
<1>1. n \in Int /\ d \in Nat \ {0} /\ a = Frac(n, d) /\ m \in Int /\ e \in Nat \ {0} /\ b = Frac(m, e)
  BY DEF Shows
<1>2. ASSUME n * e = m * d PROVE a = b
  BY ZenonT(30), <1>1, <1>2, FracSame
<1>3. ASSUME a = b PROVE n * e = m * d
  <2>1. /\ a.num \in Int /\ a.den \in Nat \ {0}
        /\ a.num * d = n * a.den /\ a.num * e = m * a.den
    BY <1>3, ShowsType
  <2>2. (n * e) * a.den = (m * d) * a.den
    <3>1. (n * e) * a.den = (n * a.den) * e /\ (m * a.den) * d = (m * d) * a.den
      BY <1>1, <2>1, SMT
    <3>2. (a.num * d) * e = (a.num * e) * d
      BY <1>1, <2>1, SMT
    <3> QED
      BY Zenon, <2>1, <3>1, <3>2
  <2> DEFINE k == a.den
             x == n * e
             y == m * d
  <2>3. k \in Nat \ {0} /\ x \in Int /\ y \in Int /\ x * k = y * k
    BY <1>1, <2>1, <2>2, ProductType
  <2> HIDE DEF k, x, y
  <2>4. k * (x - y) = 0
    BY <2>3, SMT
  <2>5. x = y
    BY <2>3, <2>4, SMT
  <2> QED
    BY <2>5 DEF x, y
<1> QED
  BY <1>2, <1>3

LEMMA AddShows ==
  ASSUME NEW a, NEW n, NEW d, Shows(a, n, d), NEW b, NEW m, NEW e, Shows(b, m, e)
  PROVE  /\ Shows(a ++ b, n * e + m * d, d * e)
         /\ Shows(a -- b, n * e - m * d, d * e)
         /\ Shows(a ** b, n * m, d * e)
<1> DEFINE p == a.num
           q == a.den
           r == b.num
           s == b.den
<1>1. /\ n \in Int /\ d \in Nat \ {0} /\ p \in Int /\ q \in Nat \ {0} /\ p * d = n * q /\ a # NaN
      /\ m \in Int /\ e \in Nat \ {0} /\ r \in Int /\ s \in Nat \ {0} /\ r * e = m * s /\ b # NaN
  BY ShowsType
<1>2. /\ a ++ b = Frac(p * s + r * q, q * s)
      /\ a -- b = Frac(p * s - r * q, q * s)
      /\ a ** b = Frac(p * r, q * s)
  BY Zenon, <1>1 DEF ++, --, **, Lift
<1> HIDE DEF p, q, r, s
<1>3. /\ (p * s) * (d * e) = (n * e) * (q * s)
      /\ (r * q) * (d * e) = (m * d) * (q * s)
      /\ (p * r) * (d * e) = (n * m) * (q * s)
  BY <1>1, CrossProducts
<1>4. /\ p * s \in Int /\ r * q \in Int /\ p * r \in Int /\ n * e \in Int /\ m * d \in Int
      /\ n * m \in Int /\ d * e \in Nat \ {0} /\ q * s \in Nat \ {0}
  BY <1>1, ProductType
<1>5. /\ (p * s + r * q) * (d * e) = (n * e + m * d) * (q * s)
      /\ (p * s - r * q) * (d * e) = (n * e - m * d) * (q * s)
  <2> DEFINE A == p * s
             B == r * q
             C == n * e
             D == m * d
             E == d * e
             F == q * s
  <2>1. A \in Int /\ B \in Int /\ C \in Int /\ D \in Int /\ E \in Int /\ F \in Int
        /\ A * E = C * F /\ B * E = D * F
    BY <1>3, <1>4
  <2> HIDE DEF A, B, C, D, E, F
  <2>2. (A + B) * E = (C + D) * F /\ (A - B) * E = (C - D) * F
    BY <2>1, SMT
  <2> QED
    BY Zenon, <2>2 DEF A, B, C, D, E, F
<1>6. /\ p * s + r * q \in Int /\ n * e + m * d \in Int
      /\ p * s - r * q \in Int /\ n * e - m * d \in Int
  BY <1>4
<1> DEFINE A == p * s + r * q
           B == p * s - r * q
           C == p * r
           D == q * s
           E == n * e + m * d
           F == n * e - m * d
           G == n * m
           H == d * e
<1>7. /\ A \in Int /\ B \in Int /\ C \in Int /\ E \in Int /\ F \in Int /\ G \in Int
      /\ D \in Nat \ {0} /\ H \in Nat \ {0}
      /\ A * H = E * D /\ B * H = F * D /\ C * H = G * D
  BY Zenon, <1>3, <1>4, <1>5, <1>6
<1>8. a ++ b = Frac(A, D) /\ a -- b = Frac(B, D) /\ a ** b = Frac(C, D)
  BY Zenon, <1>2
<1> HIDE DEF A, B, C, D, E, F, G, H
<1>9. Frac(A, D) = Frac(E, H) /\ Frac(B, D) = Frac(F, H) /\ Frac(C, D) = Frac(G, H)
  BY <1>7, FracSame
<1>10. Shows(a ++ b, E, H) /\ Shows(a -- b, F, H) /\ Shows(a ** b, G, H)
  BY Zenon, <1>7, <1>8, <1>9 DEF Shows
<1> QED
  BY Zenon, <1>10 DEF E, F, G, H

LEMMA DivideShows ==
  ASSUME NEW a, NEW n, NEW d, Shows(a, n, d), NEW b, NEW m, NEW e, Shows(b, m, e), m > 0
  PROVE  Shows(a // b, n * e, d * m)
<1> DEFINE p == a.num
           q == a.den
           r == b.num
           s == b.den
<1>1. /\ n \in Int /\ d \in Nat \ {0} /\ p \in Int /\ q \in Nat \ {0} /\ p * d = n * q /\ a # NaN
      /\ m \in Int /\ e \in Nat \ {0} /\ r \in Int /\ s \in Nat \ {0} /\ r * e = m * s /\ b # NaN
  BY ShowsType
<1>2. a // b = Frac(p * s, q * r)
  BY Zenon, <1>1 DEF //, Lift
<1> HIDE DEF p, q, r, s
<1>3. (p * s) * (d * m) = (n * e) * (q * r)
  BY <1>1, CrossProducts
<1>4. r \in Nat \ {0} /\ m \in Nat \ {0}
  <2>1. m * s > 0
    BY <1>1, SMT
  <2>2. r > 0
    <3>1. r * e > 0
      BY Zenon, <1>1, <2>1
    <3> QED
      BY <1>1, <3>1, SMT
  <2> QED
    BY <1>1, <2>2
<1>5. /\ p * s \in Int /\ q * r \in Nat \ {0} /\ n * e \in Int /\ d * m \in Nat \ {0}
  BY <1>1, <1>4, ProductType
<1> DEFINE A == p * s
           B == q * r
           C == n * e
           D == d * m
<1>6. /\ A \in Int /\ B \in Nat \ {0} /\ C \in Int /\ D \in Nat \ {0} /\ A * D = C * B
      /\ a // b = Frac(A, B)
  BY Zenon, <1>2, <1>3, <1>5
<1> HIDE DEF A, B, C, D
<1>7. Frac(A, B) = Frac(C, D)
  BY <1>6, FracSame
<1>8. Shows(a // b, C, D)
  BY Zenon, <1>6, <1>7 DEF Shows
<1> QED
  BY Zenon, <1>8 DEF C, D

LEMMA LessShows ==
  ASSUME NEW a, NEW n, NEW d, Shows(a, n, d), NEW b, NEW m, NEW e, Shows(b, m, e)
  PROVE  Less(a, b) <=> n * e < m * d
<1> DEFINE p == a.num
           q == a.den
           r == b.num
           s == b.den
<1>1. /\ n \in Int /\ d \in Nat \ {0} /\ p \in Int /\ q \in Nat \ {0} /\ p * d = n * q
      /\ m \in Int /\ e \in Nat \ {0} /\ r \in Int /\ s \in Nat \ {0} /\ r * e = m * s
  BY ShowsType
<1> DEFINE A == p * s
           B == r * q
           C == n * e
           D == m * d
           E == d * e
           F == q * s
<1>2. Less(a, b) <=> A < B
  BY DEF Less
<1> HIDE DEF p, q, r, s
<1>3. A * E = C * F /\ B * E = D * F
  BY <1>1, CrossProducts
<1>4. A \in Int /\ B \in Int /\ C \in Int /\ D \in Int /\ E \in Nat \ {0} /\ F \in Nat \ {0}
  BY <1>1, ProductType
<1> HIDE DEF A, B, C, D, E, F
<1>5. (B - A) * E = (D - C) * F
  BY <1>3, <1>4, SMT
<1>6. ASSUME A < B PROVE C < D
  <2>1. (B - A) * E > 0
    BY <1>4, <1>6, SMT
  <2>2. (D - C) * F > 0
    BY Zenon, <1>5, <2>1
  <2> QED
    BY <1>4, <2>2, SMT
<1>7. ASSUME C < D PROVE A < B
  <2>1. (D - C) * F > 0
    BY <1>4, <1>7, SMT
  <2>2. (B - A) * E > 0
    BY Zenon, <1>5, <2>1
  <2> QED
    BY <1>4, <2>2, SMT
<1> QED
  BY <1>2, <1>6, <1>7 DEF C, D

\* Operators on fractions give fractions.
LEMMA FractionsClosed ==
  ASSUME NEW a, IsFraction(a), NEW b, IsFraction(b)
  PROVE  /\ IsFraction(a ++ b) /\ IsFraction(a -- b) /\ IsFraction(a ** b)
         /\ b.num > 0 => IsFraction(a // b)
<1>1. Shows(a, a.num, a.den) /\ Shows(b, b.num, b.den)
  BY FractionShows
<1> DEFINE n == a.num
           d == a.den
           m == b.num
           e == b.den
<1> HIDE DEF n, d, m, e
<1>2. Shows(a, n, d) /\ Shows(b, m, e)
  BY <1>1 DEF n, d, m, e
<1>3. /\ Shows(a ++ b, n * e + m * d, d * e)
      /\ Shows(a -- b, n * e - m * d, d * e)
      /\ Shows(a ** b, n * m, d * e)
  BY Zenon, <1>2, AddShows
<1>4. m > 0 => Shows(a // b, n * e, d * m)
  BY Zenon, <1>2, DivideShows
<1> QED
  BY Zenon, <1>3, <1>4, ShowsType DEF m

LEMMA WholeShows ==
  ASSUME NEW n \in Int
  PROVE  Shows(Whole(n), n, 1) /\ IsFraction(Whole(n)) /\ Whole(n).num = n /\ Whole(n).den = 1
<1>0. 1 \in Nat \ {0}
  OBVIOUS
<1>1. PICK g \in Nat \ {0}, m \in Int, e \in Nat \ {0} :
        n = g * m /\ 1 = g * e /\ Frac(n, 1) = [num |-> m, den |-> e]
  BY Zenon, <1>0, FracReduced
<1>2. g = 1 /\ e = 1
  <2>1. g * 1 <= g * e /\ e * 1 <= e * g /\ e * g = g * e
    <3>1. 1 <= g /\ 1 <= e /\ g * e = e * g
      BY SMT
    <3> QED
      BY <3>1, TimesMonotone
  <2> QED
    BY <1>1, <2>1
<1>3. m = n
  BY <1>1, <1>2, SMT
<1>4. Shows(Whole(n), n, 1)
  BY <1>1, <1>2, <1>3 DEF Whole, Shows
<1> QED
  BY <1>4, ShowsType DEF Whole

-----------------------------------------------------------------------------
(* Fractions over a common denominator: sums, differences and comparisons  *)
(* are those of the numerators.                                            *)

LEMMA Rescaled ==
  ASSUME NEW a, NEW n, NEW d, Shows(a, n, d), NEW k \in Nat \ {0}
  PROVE  Shows(a, n * k, d * k)
<1>1. n \in Int /\ d \in Nat \ {0} /\ a = Frac(n, d)
  BY DEF Shows
<1>2. Frac(k * n, k * d) = Frac(n, d)
  BY <1>1, FracScaled
<1>2a. k * n = n * k /\ k * d = d * k
  BY <1>1, SMT
<1>3. n * k \in Int /\ d * k \in Nat \ {0}
  BY <1>1, ProductType
<1> QED
  BY Zenon, <1>1, <1>2, <1>2a, <1>3 DEF Shows

LEMMA CommonOfTwo ==
  ASSUME NEW a, IsFraction(a), NEW b, IsFraction(b)
  PROVE  \E d \in Nat \ {0} : \E n, m \in Int : Shows(a, n, d) /\ Shows(b, m, d)
<1>1. Shows(a, a.num, a.den) /\ Shows(b, b.num, b.den)
  BY FractionShows
<1>2. PICK n \in Int, d \in Nat \ {0}, m \in Int, e \in Nat \ {0} : Shows(a, n, d) /\ Shows(b, m, e)
  BY Zenon, <1>1 DEF Shows
<1>3. Shows(a, n * e, d * e) /\ Shows(b, m * d, e * d) /\ e * d = d * e
  BY <1>2, Rescaled, SMT
<1>4. n * e \in Int /\ m * d \in Int /\ d * e \in Nat \ {0}
  BY ProductType
<1> QED
  BY Zenon, <1>3, <1>4

LEMMA CommonOfThree ==
  ASSUME NEW a, IsFraction(a), NEW b, IsFraction(b), NEW c, IsFraction(c)
  PROVE  \E d \in Nat \ {0} : \E n, m, l \in Int : Shows(a, n, d) /\ Shows(b, m, d) /\ Shows(c, l, d)
<1>1. PICK d \in Nat \ {0}, n \in Int, m \in Int : Shows(a, n, d) /\ Shows(b, m, d)
  BY CommonOfTwo
<1>2. Shows(c, c.num, c.den)
  BY FractionShows
<1>3. PICK l \in Int, e \in Nat \ {0} : Shows(c, l, e)
  BY Zenon, <1>2 DEF Shows
<1>4. Shows(a, n * e, d * e) /\ Shows(b, m * e, d * e) /\ Shows(c, l * d, e * d) /\ e * d = d * e
  BY <1>1, <1>3, Rescaled, SMT
<1>5. n * e \in Int /\ m * e \in Int /\ l * d \in Int /\ d * e \in Nat \ {0}
  BY ProductType
<1> QED
  BY Zenon, <1>4, <1>5

LEMMA CommonOfFour ==
  ASSUME NEW a, IsFraction(a), NEW b, IsFraction(b), NEW c, IsFraction(c), NEW q, IsFraction(q)
  PROVE  \E d \in Nat \ {0} : \E n, m, l, k \in Int :
           Shows(a, n, d) /\ Shows(b, m, d) /\ Shows(c, l, d) /\ Shows(q, k, d)
<1>1. PICK d \in Nat \ {0}, n \in Int, m \in Int, l \in Int :
        Shows(a, n, d) /\ Shows(b, m, d) /\ Shows(c, l, d)
  BY CommonOfThree
<1>2. Shows(q, q.num, q.den)
  BY FractionShows
<1>3. PICK k \in Int, e \in Nat \ {0} : Shows(q, k, e)
  BY Zenon, <1>2 DEF Shows
<1>4. /\ Shows(a, n * e, d * e) /\ Shows(b, m * e, d * e) /\ Shows(c, l * e, d * e)
      /\ Shows(q, k * d, e * d) /\ e * d = d * e
  BY <1>1, <1>3, Rescaled, SMT
<1>5. n * e \in Int /\ m * e \in Int /\ l * e \in Int /\ k * d \in Int /\ d * e \in Nat \ {0}
  BY ProductType
<1> QED
  BY Zenon, <1>4, <1>5

\* Multiplying by a positive number keeps the order.
LEMMA OrderScaled ==
  ASSUME NEW n \in Int, NEW m \in Int, NEW d \in Nat \ {0}
  PROVE  (n * d = m * d <=> n = m) /\ (n * d < m * d <=> n < m)
<1>1. ASSUME n < m PROVE n * d < m * d
  <2>1. (m - n) * d > 0 /\ (m - n) * d = m * d - n * d
    BY <1>1, SMT
  <2>2. n * d \in Int /\ m * d \in Int
    BY ProductType
  <2> QED
    BY <2>1, <2>2
<1>2. ASSUME m < n PROVE m * d < n * d
  <2>1. (n - m) * d > 0 /\ (n - m) * d = n * d - m * d
    BY <1>2, SMT
  <2>2. n * d \in Int /\ m * d \in Int
    BY ProductType
  <2> QED
    BY <2>1, <2>2
<1>3. n * d \in Int /\ m * d \in Int
  BY ProductType
<1> QED
  BY <1>1, <1>2, <1>3

LEMMA CommonOrder ==
  ASSUME NEW a, NEW n, NEW d, Shows(a, n, d), NEW b, NEW m, Shows(b, m, d)
  PROVE  (Less(a, b) <=> n < m) /\ (AtMost(a, b) <=> n <= m)
<1>1. n \in Int /\ m \in Int /\ d \in Nat \ {0}
  BY DEF Shows
<1>2. (Less(a, b) <=> n * d < m * d) /\ (Less(b, a) <=> m * d < n * d)
  BY LessShows
<1>3. (Less(a, b) <=> n < m) /\ (Less(b, a) <=> m < n)
  BY <1>1, <1>2, OrderScaled
<1> QED
  BY <1>1, <1>3 DEF AtMost

LEMMA CommonEqual ==
  ASSUME NEW a, NEW n, NEW d, Shows(a, n, d), NEW b, NEW m, Shows(b, m, d)
  PROVE  a = b <=> n = m
<1>1. n \in Int /\ m \in Int /\ d \in Nat \ {0}
  BY DEF Shows
<1>2. a = b <=> n * d = m * d
  BY EqualFractions
<1> QED
  BY <1>1, <1>2, OrderScaled

LEMMA CommonSum ==
  ASSUME NEW a, NEW n, NEW d, Shows(a, n, d), NEW b, NEW m, Shows(b, m, d)
  PROVE  Shows(a ++ b, n + m, d) /\ Shows(a -- b, n - m, d)
<1>1. n \in Int /\ m \in Int /\ d \in Nat \ {0}
  BY DEF Shows
<1>2. Shows(a ++ b, n * d + m * d, d * d) /\ Shows(a -- b, n * d - m * d, d * d)
  BY Zenon, AddShows
<1>3. n * d + m * d = d * (n + m) /\ n * d - m * d = d * (n - m)
  BY <1>1, SMT
<1>4. n + m \in Int /\ n - m \in Int
  BY <1>1
<1>5. Frac(d * (n + m), d * d) = Frac(n + m, d) /\ Frac(d * (n - m), d * d) = Frac(n - m, d)
  BY <1>1, <1>4, FracScaled
<1> QED
  BY Zenon, <1>1, <1>2, <1>3, <1>4, <1>5 DEF Shows

LEMMA ZeroShows ==
  /\ IsFraction(Zero) /\ Zero # NaN
  /\ \A d \in Nat \ {0} : Shows(Zero, 0, d)
<1>1. Shows(Zero, 0, 1) /\ IsFraction(Zero)
  BY WholeShows DEF Zero
<1>2. ASSUME NEW d \in Nat \ {0} PROVE Shows(Zero, 0, d)
  <2>1. Shows(Zero, 0 * d, 1 * d)
    BY <1>1, Rescaled
  <2>2. 0 * d = 0 /\ 1 * d = d
    BY SMT
  <2> QED
    BY Zenon, <2>1, <2>2
<1> QED
  BY <1>1, <1>2, ShowsType

-----------------------------------------------------------------------------
(* Order.                                                                  *)

LEMMA LessIsTotal ==
  ASSUME NEW a, IsFraction(a), NEW b, IsFraction(b)
  PROVE  /\ ~Less(a, a) /\ AtMost(a, a)
         /\ Less(a, b) => ~Less(b, a) /\ AtMost(a, b) /\ a # b
         /\ a # b => Less(a, b) \/ Less(b, a)
<1>1. PICK d \in Nat \ {0}, n \in Int, m \in Int : Shows(a, n, d) /\ Shows(b, m, d)
  BY CommonOfTwo
<1>2. (Less(a, a) <=> n < n) /\ (Less(a, b) <=> n < m) /\ (Less(b, a) <=> m < n)
  BY <1>1, CommonOrder
<1>3. a = b <=> n = m
  BY <1>1, CommonEqual
<1> QED
  BY <1>2, <1>3 DEF AtMost

LEMMA LessIsTransitive ==
  ASSUME NEW a, IsFraction(a), NEW b, IsFraction(b), NEW c, IsFraction(c)
  PROVE  /\ Less(a, b) /\ AtMost(b, c) => Less(a, c)
         /\ AtMost(a, b) /\ Less(b, c) => Less(a, c)
         /\ AtMost(a, b) /\ AtMost(b, c) => AtMost(a, c)
<1>1. PICK d \in Nat \ {0}, n \in Int, m \in Int, l \in Int :
        Shows(a, n, d) /\ Shows(b, m, d) /\ Shows(c, l, d)
  BY CommonOfThree
<1>2. /\ Less(a, b) <=> n < m
      /\ Less(b, a) <=> m < n
      /\ Less(b, c) <=> m < l
      /\ Less(c, b) <=> l < m
      /\ Less(a, c) <=> n < l
      /\ Less(c, a) <=> l < n
  BY <1>1, CommonOrder
<1> QED
  BY <1>2 DEF AtMost

\* The sign of a difference.
LEMMA DifferenceSign ==
  ASSUME NEW a, IsFraction(a), NEW b, IsFraction(b)
  PROVE  /\ AtMost(a -- b, Zero) <=> AtMost(a, b)
         /\ AtMost(Zero, a -- b) <=> AtMost(b, a)
         /\ Less(a -- b, Zero) <=> Less(a, b)
         /\ Less(Zero, a -- b) <=> Less(b, a)
         /\ a -- b = Zero <=> a = b
<1>1. PICK d \in Nat \ {0}, n \in Int, m \in Int : Shows(a, n, d) /\ Shows(b, m, d)
  BY CommonOfTwo
<1>2. Shows(a -- b, n - m, d) /\ Shows(Zero, 0, d)
  BY Zenon, <1>1, CommonSum, ZeroShows
<1>3. /\ Less(a -- b, Zero) <=> n - m < 0
      /\ Less(Zero, a -- b) <=> 0 < n - m
      /\ Less(a, b) <=> n < m
      /\ Less(b, a) <=> m < n
  BY <1>1, <1>2, CommonOrder
<1>4. (a -- b = Zero <=> n - m = 0) /\ (a = b <=> n = m)
  BY <1>1, <1>2, CommonEqual
<1> QED
  BY <1>3, <1>4 DEF AtMost

-----------------------------------------------------------------------------
(* Totals and means.                                                       *)

Fractions(s, n) == IsList(s, n) /\ \A i \in 1..n : IsFraction(s[i])

TotalLoop(s) == [kind |-> "total", first |-> Zero, series |-> s]

LEMMA TotalRuns ==
  ASSUME NEW s, NEW n, IsList(s, n)
  PROVE  \E f : IsRun(f, TotalLoop(s), n + 1) /\ Total(s) = f[n + 1]
<1> DEFINE loop == TotalLoop(s)
           At(g, i) == IF i = 0 THEN Zero ELSE g[i - 1] ++ s[i]
           upTo == CHOOSE g : g = [i \in 0..n |-> At(g, i)]
<1>1. Len(s) = n /\ n \in Nat
  BY ListIsSeq
<1>2. Total(s) = upTo[n]
  BY Zenon, <1>1 DEF Total
<1>3. \A j, v : Moved(loop, j, v) = v ++ s[j - 1]
  BY DEF Moved, TotalLoop
<1>4. loop.first = Zero
  BY DEF TotalLoop
<1> HIDE DEF loop
<1>5. \E g : g = [i \in 0..n |-> At(g, i)]
  <2>1. PICK f : IsRun(f, loop, n + 1)
    BY <1>1, RunExists
  <2>2. \A j \in 1..(n + 1) : f[j] = ValueOf(f, loop, j)
    BY <2>1 DEF IsRun
  <2> DEFINE g == [i \in 0..n |-> f[i + 1]]
  <2>3. \A i \in 0..n : g[i] = f[i + 1]
    OBVIOUS
  <2>4. g = [i \in 0..n |-> g[i]]
    OBVIOUS
  <2> HIDE DEF g
  <2>5. ASSUME NEW i \in 0..n
        PROVE  g[i] = At(g, i)
    <3>1. i + 1 \in 1..(n + 1) /\ (i + 1) - 1 = i
      BY <1>1
    <3>2. g[i] = ValueOf(f, loop, i + 1)
      BY <2>2, <2>3, <3>1
    <3>3. CASE i = 0
      <4>1. i + 1 = 1
        BY <3>3
      <4> QED
        BY Zenon, <1>4, <3>2, <3>3, <4>1 DEF ValueOf
    <3>4. CASE i # 0
      <4>1. i + 1 # 1 /\ i - 1 \in 0..n /\ (i - 1) + 1 = i
        BY <1>1, <3>4
      <4>2. g[i - 1] = f[i]
        BY <2>3, <4>1
      <4>3. ValueOf(f, loop, i + 1) = f[i] ++ s[i]
        BY Zenon, <1>3, <3>1, <4>1 DEF ValueOf
      <4> QED
        BY Zenon, <3>2, <3>4, <4>2, <4>3
    <3> QED
      BY <3>3, <3>4
  <2> HIDE DEF At
  <2>6. g = [i \in 0..n |-> At(g, i)]
    BY <2>4, <2>5
  <2> QED
    BY Zenon, <2>6
<1>6. upTo = [i \in 0..n |-> At(upTo, i)]
  <2> HIDE DEF At
  <2> QED
    BY Zenon, <1>5
<1> HIDE DEF upTo
<1>7. \A i \in 0..n : upTo[i] = At(upTo, i)
  <2> HIDE DEF At
  <2> QED
    BY <1>6
<1> DEFINE f == [j \in 1..(n + 1) |-> upTo[j - 1]]
<1>8. IsList(f, n + 1) /\ \A j \in 1..(n + 1) : f[j] = upTo[j - 1]
  BY <1>1 DEF IsList
<1> HIDE DEF f
<1>9. ASSUME NEW j \in 1..(n + 1)
      PROVE  f[j] = ValueOf(f, loop, j)
  <2>1. j - 1 \in 0..n
    BY <1>1
  <2>2. f[j] = At(upTo, j - 1)
    BY <1>7, <1>8, <2>1
  <2>3. CASE j = 1
    BY <1>4, <2>2, <2>3 DEF ValueOf
  <2>4. CASE j # 1
    <3>1. j - 1 # 0 /\ j - 1 \in 1..(n + 1)
      BY <1>1, <2>4
    <3>2. f[j - 1] = upTo[(j - 1) - 1]
      BY <1>8, <3>1
    <3> QED
      BY Zenon, <1>3, <2>2, <2>4, <3>1, <3>2 DEF ValueOf
  <2> QED
    BY <2>3, <2>4
<1>10. IsRun(f, loop, n + 1)
  BY <1>8, <1>9 DEF IsRun
<1>11. Total(s) = f[n + 1]
  <2>1. n + 1 \in 1..(n + 1) /\ (n + 1) - 1 = n
    BY <1>1
  <2> QED
    BY <1>2, <1>8, <2>1
<1> QED
  BY Zenon, <1>10, <1>11 DEF loop

\* The total of a list, from that of the list without its last value.
LEMMA TotalUnfolds ==
  ASSUME NEW s, NEW n, IsList(s, n)
  PROVE  /\ n = 0 => Total(s) = Zero
         /\ n # 0 => Total(s) = Total(First(s, n - 1)) ++ s[n]
<1>1. PICK f : IsRun(f, TotalLoop(s), n + 1) /\ Total(s) = f[n + 1]
  BY TotalRuns
<1>2. n \in Nat /\ IsList(f, n + 1) /\ \A j \in 1..(n + 1) : f[j] = ValueOf(f, TotalLoop(s), j)
  BY <1>1 DEF IsRun, IsList
<1>3. ASSUME n = 0
      PROVE  Total(s) = Zero
  BY <1>1, <1>2, <1>3 DEF ValueOf, TotalLoop
<1>4. ASSUME n # 0
      PROVE  Total(s) = Total(First(s, n - 1)) ++ s[n]
  <2> DEFINE t == First(s, n - 1)
  <2>1. IsList(t, n - 1) /\ \A i \in 1..(n - 1) : t[i] = s[i]
    <3>1. 1 \in 1..(n + 1) /\ n - 1 \in Nat /\ 1 - 1 <= n - 1 /\ n - 1 <= n /\ (n - 1) - 1 + 1 = n - 1
          /\ \A i \in 1..(n - 1) : i + 1 - 1 = i
      BY <1>2, <1>4
    <3>2. /\ IsList(SubSeq(s, 1, n - 1), (n - 1) - 1 + 1)
          /\ \A i \in 1..((n - 1) - 1 + 1) : SubSeq(s, 1, n - 1)[i] = s[i + 1 - 1]
      BY <3>1, PieceOfList
    <3> QED
      BY <3>1, <3>2 DEF First
  <2> HIDE DEF t
  <2>2. PICK g : IsRun(g, TotalLoop(t), (n - 1) + 1) /\ Total(t) = g[(n - 1) + 1]
    BY <2>1, TotalRuns
  <2>3. (n - 1) + 1 = n /\ n <= n + 1 /\ n \in 1..n /\ n + 1 # 1 /\ (n + 1) - 1 = n
        /\ n + 1 \in 1..(n + 1)
    BY <1>2, <1>4
  <2>4. IsRun(g, TotalLoop(t), n) /\ Total(t) = g[n]
    BY Zenon, <2>2, <2>3
  <2>5. SameSteps(TotalLoop(t), TotalLoop(s), n)
    <3>1. TotalLoop(t).first = TotalLoop(s).first
      BY DEF TotalLoop
    <3>2. ASSUME NEW j \in 2..n, NEW v
          PROVE  Moved(TotalLoop(t), j, v) = Moved(TotalLoop(s), j, v)
      <4>1. t[j - 1] = s[j - 1]
        BY <1>2, <2>1
      <4> QED
        BY <4>1 DEF Moved, TotalLoop
    <3> QED
      BY Zenon, <3>1, <3>2 DEF SameSteps
  <2>6. Grows(g, n, f, n + 1)
    BY <1>1, <2>3, <2>4, <2>5, RunsAgree
  <2>7. f[n] = g[n]
    BY <2>3, <2>6, ListsGrow
  <2>8. f[n + 1] = Moved(TotalLoop(s), n + 1, f[n])
    BY Zenon, <1>2, <2>3 DEF ValueOf
  <2>9. Moved(TotalLoop(s), n + 1, f[n]) = f[n] ++ s[n]
    BY <2>3 DEF Moved, TotalLoop
  <2> QED
    BY Zenon, <1>1, <2>4, <2>7, <2>8, <2>9 DEF t
<1> QED
  BY <1>3, <1>4

\* The first values of a list.
LEMMA FirstIs ==
  ASSUME NEW s, NEW n, IsList(s, n), NEW k \in Nat, k <= n
  PROVE  /\ IsList(First(s, k), k)
         /\ \A i \in 1..k : First(s, k)[i] = s[i] /\ i \in 1..n
<1>1. n \in Nat
  BY DEF IsList
<1>2. /\ 1 \in 1..(n + 1) /\ 1 - 1 <= k /\ k - 1 + 1 = k
      /\ \A i \in 1..k : i + 1 - 1 = i /\ i \in 1..n
  BY <1>1
<1>3. /\ IsList(SubSeq(s, 1, k), k - 1 + 1)
      /\ \A i \in 1..(k - 1 + 1) : SubSeq(s, 1, k)[i] = s[i + 1 - 1]
  BY <1>2, PieceOfList
<1> QED
  BY <1>2, <1>3 DEF First

\* Lists are equal when they are as long and have the same values; a list is its own
\* beginning.
LEMMA FirstOfAll ==
  ASSUME NEW s, NEW n, IsList(s, n)
  PROVE  First(s, n) = s
<1>1. n \in Nat /\ n <= n
  BY DEF IsList
<1>2. IsList(First(s, n), n) /\ \A i \in 1..n : First(s, n)[i] = s[i]
  BY <1>1, FirstIs
<1> QED
  BY <1>2, ListsEqual

\* Induction over the length of lists of fractions is induction over their beginnings.
LEMMA FractionsFirst ==
  ASSUME NEW s, NEW n, Fractions(s, n), NEW k \in Nat, k <= n
  PROVE  Fractions(First(s, k), k)
BY FirstIs DEF Fractions

LEMMA TotalOfFirst ==
  ASSUME NEW s, NEW n, IsList(s, n)
  PROVE  /\ Total(First(s, 0)) = Zero
         /\ \A k \in Nat : k + 1 <= n => Total(First(s, k + 1)) = Total(First(s, k)) ++ s[k + 1]
<1>1. n \in Nat
  BY DEF IsList
<1>2. Total(First(s, 0)) = Zero
  <2>1. IsList(First(s, 0), 0)
    BY <1>1, FirstIs
  <2> QED
    BY <2>1, TotalUnfolds
<1>3. ASSUME NEW k \in Nat, k + 1 <= n
      PROVE  Total(First(s, k + 1)) = Total(First(s, k)) ++ s[k + 1]
  <2> DEFINE t == First(s, k + 1)
  <2>1. k + 1 \in Nat /\ k + 1 # 0 /\ (k + 1) - 1 = k /\ k \in Nat /\ k <= n /\ k + 1 \in 1..(k + 1)
        /\ k <= k + 1
    BY <1>1, <1>3
  <2>2. IsList(t, k + 1) /\ \A i \in 1..(k + 1) : t[i] = s[i]
    BY <1>3, <2>1, FirstIs
  <2> HIDE DEF t
  <2>3. Total(t) = Total(First(t, k)) ++ t[k + 1]
    BY <2>1, <2>2, TotalUnfolds
  <2>4. First(t, k) = First(s, k)
    <3>1. IsList(First(t, k), k) /\ \A i \in 1..k : First(t, k)[i] = t[i] /\ i \in 1..(k + 1)
      BY <2>1, <2>2, FirstIs
    <3>2. IsList(First(s, k), k) /\ \A i \in 1..k : First(s, k)[i] = s[i]
      BY <2>1, FirstIs
    <3>3. \A i \in 1..k : First(t, k)[i] = First(s, k)[i]
      BY <2>2, <3>1, <3>2
    <3> QED
      BY <3>1, <3>2, <3>3, ListsEqual
  <2>5. t[k + 1] = s[k + 1]
    BY <2>1, <2>2
  <2> QED
    BY Zenon, <2>3, <2>4, <2>5 DEF t
<1> QED
  BY <1>2, <1>3

LEMMA TotalType ==
  ASSUME NEW s, NEW n, Fractions(s, n)
  PROVE  /\ IsFraction(Total(s))
         /\ \A k \in 0..n : IsFraction(Total(First(s, k)))
<1> DEFINE N == {k \in Nat : k <= n => IsFraction(Total(First(s, k)))}
<1>1. IsList(s, n) /\ n \in Nat /\ \A i \in 1..n : IsFraction(s[i])
  BY DEF Fractions, IsList
<1>2. 0 \in N
  BY <1>1, TotalOfFirst, ZeroShows
<1>3. ASSUME NEW k \in N PROVE k + 1 \in N
  <2> SUFFICES ASSUME k + 1 <= n
               PROVE  IsFraction(Total(First(s, k + 1)))
    OBVIOUS
  <2>1. k <= n /\ k + 1 \in 1..n
    BY <1>1
  <2>2. IsFraction(Total(First(s, k))) /\ IsFraction(s[k + 1])
    BY <1>1, <2>1
  <2>3. Total(First(s, k + 1)) = Total(First(s, k)) ++ s[k + 1]
    BY <1>1, TotalOfFirst
  <2> QED
    BY <2>2, <2>3, FractionsClosed
<1>4. N = Nat
  <2> HIDE DEF N
  <2>1. N \subseteq Nat
    BY DEF N
  <2> QED
    BY <1>2, <1>3, <2>1, NatSetInduction
<1>5. \A k \in 0..n : IsFraction(Total(First(s, k)))
  BY <1>1, <1>4
<1>6. First(s, n) = s /\ n \in 0..n
  BY <1>1, FirstOfAll
<1> QED
  BY <1>5, <1>6

LEMMA MeanType ==
  ASSUME NEW s, NEW n, Fractions(s, n), n # 0
  PROVE  IsFraction(Mean(s)) /\ Mean(s) = Total(s) // Whole(n)
<1>1. Len(s) = n /\ n \in Nat \ {0}
  BY ListIsSeq DEF Fractions
<1>2. IsFraction(Whole(n)) /\ Whole(n).num > 0
  BY <1>1, WholeShows
<1>3. IsFraction(Total(s))
  BY TotalType
<1> QED
  BY <1>1, <1>2, <1>3, FractionsClosed DEF Mean

-----------------------------------------------------------------------------
(* What the indicators compute from fractions are fractions.               *)

LEMMA RangeInduction ==
  ASSUME NEW n \in Nat, NEW S, 1 \in S, \A j \in 2..n : j - 1 \in S => j \in S
  PROVE  \A j \in 1..n : j \in S
<1> DEFINE N == {k \in Nat : k \in 1..n => k \in S}
<1>1. 0 \in N
  OBVIOUS
<1>2. ASSUME NEW k \in N PROVE k + 1 \in N
  <2> SUFFICES ASSUME k + 1 \in 1..n PROVE k + 1 \in S
    OBVIOUS
  <2>1. CASE k = 0
    BY <2>1
  <2>2. CASE k # 0
    <3>1. k \in 1..n /\ k + 1 \in 2..n /\ (k + 1) - 1 = k
      BY <2>2
    <3>2. k \in S
      BY <3>1
    <3> QED
      BY <3>1, <3>2
  <2> QED
    BY <2>1, <2>2
<1>3. N = Nat
  <2> HIDE DEF N
  <2>1. N \subseteq Nat
    BY DEF N
  <2> QED
    BY <1>1, <1>2, <2>1, NatSetInduction
<1> QED
  BY <1>3

Fracs == {a \in [num : Int, den : Nat \ {0}] : a = Frac(a.num, a.den)}

LEMMA FracsAre == \A a : a \in Fracs <=> IsFraction(a)
BY DEF Fracs, IsFraction

LEMMA RunStaysIn ==
  ASSUME NEW f, NEW loop, NEW n, IsRun(f, loop, n), NEW S, loop.first \in S,
         \A j \in 2..n : \A v \in S : Moved(loop, j, v) \in S
  PROVE  \A j \in 1..n : f[j] \in S
<1>1. n \in Nat /\ \A j \in 1..n : f[j] = ValueOf(f, loop, j)
  BY DEF IsRun, IsList
<1> DEFINE T == {j \in 1..n : f[j] \in S} \cup {1}
<1>2. ASSUME NEW j \in 2..n, j - 1 \in T PROVE j \in T
  <2>1. j - 1 \in 1..n /\ j \in 1..n /\ j # 1
    BY <1>1
  <2>2. f[j - 1] \in S
    <3>1. CASE j - 1 = 1
      <4>1. 1 \in 1..n
        BY <2>1, <3>1
      <4>2. f[1] = loop.first
        BY <1>1, <4>1 DEF ValueOf
      <4> QED
        BY <3>1, <4>2
    <3>2. CASE j - 1 # 1
      BY <1>2, <3>2
    <3> QED
      BY <3>1, <3>2
  <2>3. f[j] = Moved(loop, j, f[j - 1])
    BY Zenon, <1>1, <2>1 DEF ValueOf
  <2>4. f[j] \in S
    BY <2>2, <2>3
  <2> QED
    BY <2>1, <2>4
<1>3. \A j \in 1..n : j \in T
  <2> HIDE DEF T
  <2>1. 1 \in T
    BY DEF T
  <2> QED
    BY <1>1, <1>2, <2>1, RangeInduction
<1>4. ASSUME 1 \in 1..n PROVE f[1] \in S
  BY <1>1, <1>4 DEF ValueOf
<1> QED
  BY <1>3, <1>4

LEMMA SmoothedType ==
  ASSUME NEW s, NEW n, Fractions(s, n), NEW length \in Nat \ {0}, length < n,
         NEW alpha, IsFraction(alpha)
  PROVE  Fractions(Smoothed(s, length, alpha), n - length + 1)
<1> DEFINE loop == SmoothedLoop(s, length, alpha)
           f == Smoothed(s, length, alpha)
           m == n - length + 1
<1>1. IsList(s, n) /\ n \in Nat /\ \A i \in 1..n : s[i] \in Fracs
  BY FracsAre DEF Fractions, IsList
<1>2. IsRun(f, loop, m)
  BY <1>1, SmoothedRuns
<1>3. loop.first \in Fracs
  <2>1. Fractions(First(s, length), length)
    BY <1>1, FractionsFirst
  <2>2. IsFraction(Mean(First(s, length)))
    BY <2>1, MeanType
  <2> QED
    BY <2>2, FracsAre DEF SmoothedLoop
<1>4. ASSUME NEW j \in 2..m, NEW v \in Fracs
      PROVE  Moved(loop, j, v) \in Fracs
  <2>1. length + j - 1 \in 1..n
    BY <1>1
  <2>2. Moved(loop, j, v) = (s[length + j - 1] ** alpha) ++ (v ** (Whole(1) -- alpha))
    BY DEF Moved, SmoothedLoop
  <2>3. IsFraction(s[length + j - 1]) /\ IsFraction(v) /\ IsFraction(Whole(1))
    BY <1>1, <2>1, FracsAre, WholeShows
  <2>4. IsFraction(s[length + j - 1] ** alpha) /\ IsFraction(Whole(1) -- alpha)
    BY <2>3, FractionsClosed
  <2>5. IsFraction(v ** (Whole(1) -- alpha))
    BY <2>3, <2>4, FractionsClosed
  <2>6. IsFraction((s[length + j - 1] ** alpha) ++ (v ** (Whole(1) -- alpha)))
    BY <2>4, <2>5, FractionsClosed
  <2> QED
    BY <2>2, <2>6, FracsAre
<1> HIDE DEF loop, f, m
<1>5. \A j \in 1..m : f[j] \in Fracs
  BY <1>2, <1>3, <1>4, RunStaysIn
<1>6. Fractions(f, m)
  BY <1>2, <1>5, FracsAre DEF Fractions, IsRun
<1> QED
  BY <1>6 DEF f, m

LEMMA WilderType ==
  ASSUME NEW s, NEW n, Fractions(s, n), NEW length \in Nat \ {0}, length <= n
  PROVE  Fractions(Wilder(s, length), n - length + 1)
<1> DEFINE loop == WilderLoop(s, length)
           f == Wilder(s, length)
           m == n - length + 1
<1>1. IsList(s, n) /\ n \in Nat /\ \A i \in 1..n : s[i] \in Fracs
  BY FracsAre DEF Fractions, IsList
<1>2. IsRun(f, loop, m)
  BY <1>1, WilderRuns
<1>3. loop.first \in Fracs
  <2>1. Fractions(First(s, length), length)
    BY <1>1, FractionsFirst
  <2>2. IsFraction(Mean(First(s, length)))
    BY <2>1, MeanType
  <2> QED
    BY <2>2, FracsAre DEF WilderLoop
<1>4. ASSUME NEW j \in 2..m, NEW v \in Fracs
      PROVE  Moved(loop, j, v) \in Fracs
  <2>1. length + j - 1 \in 1..n
    BY <1>1
  <2>2. Moved(loop, j, v) = ((v ** Whole(length - 1)) ++ s[length + j - 1]) // Whole(length)
    BY DEF Moved, WilderLoop
  <2>3. /\ IsFraction(s[length + j - 1]) /\ IsFraction(v) /\ IsFraction(Whole(length - 1))
        /\ IsFraction(Whole(length)) /\ Whole(length).num > 0
    BY <1>1, <2>1, FracsAre, WholeShows
  <2>4. IsFraction(v ** Whole(length - 1))
    BY <2>3, FractionsClosed
  <2>5. IsFraction((v ** Whole(length - 1)) ++ s[length + j - 1])
    BY <2>3, <2>4, FractionsClosed
  <2>6. IsFraction(((v ** Whole(length - 1)) ++ s[length + j - 1]) // Whole(length))
    BY <2>3, <2>5, FractionsClosed
  <2> QED
    BY <2>2, <2>6, FracsAre
<1> HIDE DEF loop, f, m
<1>5. \A j \in 1..m : f[j] \in Fracs
  BY <1>2, <1>3, <1>4, RunStaysIn
<1>6. Fractions(f, m)
  BY <1>2, <1>5, FracsAre DEF Fractions, IsRun
<1> QED
  BY <1>6 DEF f, m

LEMMA SMAType ==
  ASSUME NEW s, NEW n, Fractions(s, n), NEW length \in Nat \ {0}, length < n
  PROVE  Fractions(SMA(s, length), n - length + 1)
<1> DEFINE loop == SumLoop(s, length)
           m == n - length + 1
<1>1. IsList(s, n) /\ n \in Nat /\ \A i \in 1..n : s[i] \in Fracs
  BY FracsAre DEF Fractions, IsList
<1>2. PICK f : /\ IsRun(f, loop, m)
               /\ SMA(s, length) = [j \in 1..m |-> f[j] // Whole(length)]
  BY <1>1, SumRuns
<1>3. loop.first \in Fracs
  <2>1. Fractions(First(s, length), length)
    BY <1>1, FractionsFirst
  <2>2. IsFraction(Total(First(s, length)))
    BY <2>1, TotalType
  <2> QED
    BY <2>2, FracsAre DEF SumLoop
<1>4. ASSUME NEW j \in 2..m, NEW v \in Fracs
      PROVE  Moved(loop, j, v) \in Fracs
  <2>1. length + j - 1 \in 1..n /\ j - 1 \in 1..n
    BY <1>1
  <2>2. Moved(loop, j, v) = (v -- s[j - 1]) ++ s[length + j - 1]
    BY DEF Moved, SumLoop
  <2>3. IsFraction(s[length + j - 1]) /\ IsFraction(s[j - 1]) /\ IsFraction(v)
    BY <1>1, <2>1, FracsAre
  <2>4. IsFraction(v -- s[j - 1])
    BY <2>3, FractionsClosed
  <2>5. IsFraction((v -- s[j - 1]) ++ s[length + j - 1])
    BY <2>3, <2>4, FractionsClosed
  <2> QED
    BY <2>2, <2>5, FracsAre
<1> HIDE DEF loop
<1>5. \A j \in 1..m : f[j] \in Fracs
  <2> HIDE DEF m
  <2> QED
    BY <1>2, <1>3, <1>4, RunStaysIn
<1>6. m \in Nat
  BY <1>1
<1> HIDE DEF m
<1>7. ASSUME NEW j \in 1..m
      PROVE  IsFraction(f[j] // Whole(length))
  <2>1. IsFraction(f[j]) /\ IsFraction(Whole(length)) /\ Whole(length).num > 0
    BY <1>5, FracsAre, WholeShows
  <2> QED
    BY <2>1, FractionsClosed
<1>8. IsList(SMA(s, length), m) /\ \A j \in 1..m : SMA(s, length)[j] = f[j] // Whole(length)
  BY <1>2, <1>6 DEF IsList
<1>9. Fractions(SMA(s, length), m)
  BY <1>7, <1>8 DEF Fractions
<1> QED
  BY <1>9 DEF m

LEMMA LargerType ==
  ASSUME NEW a, IsFraction(a), NEW b, IsFraction(b)
  PROVE  IsFraction(Larger(a, b)) /\ IsFraction(Smaller(a, b))
BY DEF Larger, Smaller

LEMMA AbsFracIs ==
  ASSUME NEW a, NEW n, NEW d, Shows(a, n, d)
  PROVE  Shows(AbsFrac(a), Abs(n), d)
<1>1. /\ IsFraction(a) /\ n \in Int /\ d \in Nat \ {0} /\ a = Frac(n, d)
      /\ a.num \in Int /\ a.den \in Nat \ {0} /\ a.num * d = n * a.den
  BY ShowsType DEF Shows
<1>2. a \in [num : Int, den : Nat \ {0}]
  BY <1>1 DEF IsFraction
<1>3. Abs(n) \in Nat /\ (a.num < 0 <=> n < 0)
  <2>1. ASSUME a.num < 0 PROVE n < 0
    <3>1. a.num * d < 0
      BY <1>1, <2>1, SMT
    <3>2. n * a.den < 0
      BY Zenon, <1>1, <3>1
    <3> QED
      BY <1>1, <3>2, SMT
  <2>2. ASSUME n < 0 PROVE a.num < 0
    <3>1. n * a.den < 0
      BY <1>1, <2>2, SMT
    <3>2. a.num * d < 0
      BY Zenon, <1>1, <3>1
    <3> QED
      BY <1>1, <3>2, SMT
  <2> QED
    BY <1>1, <2>1, <2>2 DEF Abs
<1>4. CASE ~(n < 0)
  BY <1>1, <1>3, <1>4 DEF AbsFrac, Abs, Shows
<1>5. CASE n < 0
  <2> DEFINE p == a.num
             q == a.den
  <2>1. AbsFrac(a) = [num |-> -p, den |-> q] /\ Abs(n) = -n
    BY <1>2, <1>3, <1>5 DEF AbsFrac, Abs
  <2>2. Frac(-n, d) = [num |-> -p, den |-> q]
    <3>1. Shows(a, p, q)
      BY <1>1, FractionShows
    <3>2. p \in Int /\ q \in Nat \ {0} /\ -p \in Int /\ -n \in Int /\ p * d = n * q
      BY <1>1
    <3> HIDE DEF p, q
    <3>3. (-n) * q = (-p) * d
      <4>1. (-n) * q = -(n * q) /\ (-p) * d = -(p * d)
        BY <1>1, <3>2, SMT
      <4> QED
        BY <3>2, <4>1
    <3>4. Frac(-n, d) = Frac(-p, q)
      BY <1>1, <3>2, <3>3, FracSame
    <3>5. Frac(p, q) = [num |-> p, den |-> q]
      <4>1. a = [num |-> p, den |-> q]
        BY <1>2 DEF p, q
      <4> QED
        BY <3>1, <4>1 DEF Shows
    <3>6. Frac(-p, q) = [num |-> -p, den |-> q]
      <4>1. Abs(-p) = Abs(p) /\ ~(q < 0)
        BY <3>2 DEF Abs
      <4> DEFINE g == Gcd[<<Abs(p), Abs(q)>>]
      <4>2. /\ Frac(p, q) = [num |-> 1 * (p \div g), den |-> Abs(q) \div g]
            /\ Frac(-p, q) = [num |-> 1 * ((-p) \div g), den |-> Abs(q) \div g]
        BY Zenon, <4>1 DEF Frac
      <4>3. Abs(p) \in Nat /\ Abs(q) = q
        BY <3>2 DEF Abs
      <4>4. g \in Nat \ {0} /\ Divides(g, q)
        BY <3>2, <4>3, GcdDivides
      <4> HIDE DEF g
      <4>5. Abs(q) \div g = q
        BY <3>5, <4>2
      <4>6. PICK e \in Nat : q = g * e
        BY <4>4 DEF Divides
      <4>7. q \div g = e
        BY <4>4, <4>6, ExactQuotient
      <4>8. g = 1
        <5>1. g * q = q
          BY Zenon, <4>3, <4>5, <4>6, <4>7
        <5> QED
          BY <3>2, <4>4, <5>1, SMT
      <4>9. (-p) \div g = -p
        <5>1. g * (-p) = -p
          BY <3>2, <4>8, SMT
        <5>2. (g * (-p)) \div g = -p
          BY <3>2, <4>4, ExactQuotient
        <5> QED
          BY Zenon, <5>1, <5>2
      <4>10. 1 * (-p) = -p
        BY <3>2
      <4> QED
        BY Zenon, <4>2, <4>5, <4>9, <4>10
    <3> QED
      BY Zenon, <3>4, <3>6
  <2>3. AbsFrac(a) = Frac(-n, d)
    BY Zenon, <2>1, <2>2
  <2>4. -n \in Int
    BY <1>1
  <2> QED
    BY Zenon, <1>1, <2>1, <2>3, <2>4 DEF Shows
<1> QED
  BY <1>4, <1>5

LEMMA AbsFracType ==
  ASSUME NEW a, IsFraction(a)
  PROVE  IsFraction(AbsFrac(a))
<1>1. Shows(a, a.num, a.den)
  BY FractionShows
<1>2. Shows(AbsFrac(a), Abs(a.num), a.den)
  BY Zenon, <1>1, AbsFracIs
<1> QED
  BY Zenon, <1>2, ShowsType

-----------------------------------------------------------------------------
(* Charts of fractions.                                                    *)

IsCandle(k) == IsFraction(k.high) /\ IsFraction(k.low) /\ IsFraction(k.close)

Candles(s, n) == IsList(s, n) /\ \A i \in 1..n : IsCandle(s[i])

LEMMA ChartIsTyped ==
  ASSUME kLines \in Seq(KLine)
  PROVE  /\ Candles(kLines, Len(kLines)) /\ Fractions(Close(kLines), Len(kLines))
         /\ \A i \in 1..Len(kLines) : Close(kLines)[i] = kLines[i].close
<1> DEFINE n == Len(kLines)
<1>1. /\ n \in Nat /\ DOMAIN kLines = 1..n /\ \A i \in 1..n : kLines[i] \in KLine
      /\ kLines = [i \in 1..n |-> kLines[i]]
  OBVIOUS
<1> HIDE DEF n
<1>2. \A i \in 1..n : IsCandle(kLines[i])
  BY <1>1, ChartAssumption DEF IsCandle
<1>3. Close(kLines) = [i \in 1..n |-> kLines[i].close]
  BY <1>1 DEF Close
<1>4. \A i \in 1..n : Close(kLines)[i] = kLines[i].close
  BY <1>3
<1>5. IsList(Close(kLines), n)
  BY <1>1, <1>3 DEF IsList
<1>6. IsList(kLines, n)
  BY Zenon, <1>1 DEF IsList
<1> QED
  BY <1>2, <1>4, <1>5, <1>6 DEF Candles, Fractions, IsCandle, n

LEMMA TrueRangeType ==
  ASSUME NEW s, NEW n, Candles(s, n), NEW i \in 2..n
  PROVE  IsFraction(TrueRange(s, i))
<1>1. i \in 1..n /\ i - 1 \in 1..n
  BY DEF Candles, IsList
<1> DEFINE h == s[i].high
           l == s[i].low
           c == s[i - 1].close
<1>2. IsFraction(h) /\ IsFraction(l) /\ IsFraction(c)
  BY <1>1 DEF Candles, IsCandle
<1>3. TrueRange(s, i) = Larger(h -- l, Larger(AbsFrac(h -- c), AbsFrac(l -- c)))
  BY DEF TrueRange
<1> HIDE DEF h, l, c
<1>4. IsFraction(h -- l) /\ IsFraction(h -- c) /\ IsFraction(l -- c)
  BY <1>2, FractionsClosed
<1>5. IsFraction(AbsFrac(h -- c)) /\ IsFraction(AbsFrac(l -- c))
  BY <1>4, AbsFracType
<1>6. IsFraction(Larger(AbsFrac(h -- c), AbsFrac(l -- c)))
  BY <1>5, LargerType
<1>7. IsFraction(Larger(h -- l, Larger(AbsFrac(h -- c), AbsFrac(l -- c))))
  BY <1>4, <1>6, LargerType
<1> QED
  BY Zenon, <1>3, <1>7

\* The ranges that ATR averages.
Ranges(s) == [i \in DOMAIN s |-> IF i = 1 THEN s[1].high -- s[1].low ELSE TrueRange(s, i)]

LEMMA RangesType ==
  ASSUME NEW s, NEW n, Candles(s, n)
  PROVE  Fractions(Ranges(s), n)
<1>1. IsList(s, n) /\ n \in Nat /\ DOMAIN s = 1..n
  BY ListIsSeq DEF Candles
<1>2. Ranges(s) = [i \in 1..n |-> IF i = 1 THEN s[1].high -- s[1].low ELSE TrueRange(s, i)]
  BY Zenon, <1>1 DEF Ranges
<1>3. ASSUME NEW i \in 1..n
      PROVE  IsFraction(IF i = 1 THEN s[1].high -- s[1].low ELSE TrueRange(s, i))
  <2>1. CASE i = 1
    <3>1. IsFraction(s[i].high) /\ IsFraction(s[i].low)
      BY DEF Candles, IsCandle
    <3>2. IsFraction(s[i].high -- s[i].low)
      BY <3>1, FractionsClosed
    <3> QED
      BY Zenon, <2>1, <3>2
  <2>2. CASE i # 1
    <3>1. i \in 2..n
      BY <1>1, <2>2
    <3>2. IsFraction(TrueRange(s, i))
      BY <3>1, TrueRangeType
    <3> QED
      BY Zenon, <2>2, <3>2
  <2> QED
    BY <2>1, <2>2
<1> DEFINE At(i) == IF i = 1 THEN s[1].high -- s[1].low ELSE TrueRange(s, i)
<1>4. Ranges(s) = [i \in 1..n |-> At(i)] /\ \A i \in 1..n : IsFraction(At(i))
  BY Zenon, <1>2, <1>3
<1> HIDE DEF At
<1>5. IsList(Ranges(s), n) /\ \A i \in 1..n : Ranges(s)[i] = At(i)
  BY <1>1, <1>4 DEF IsList
<1> QED
  BY <1>4, <1>5 DEF Fractions

LEMMA ATRType ==
  ASSUME NEW s, NEW n, Candles(s, n), NEW length \in Nat \ {0}, length <= n
  PROVE  Fractions(ATR(s, length), n - length + 1)
<1>1. ATR(s, length) = Wilder(Ranges(s), length)
  BY Zenon DEF ATR, Ranges
<1>2. Fractions(Ranges(s), n)
  BY RangesType
<1>3. Fractions(Wilder(Ranges(s), length), n - length + 1)
  BY <1>2, WilderType
<1> QED
  BY Zenon, <1>1, <1>3

LEMMA RestIs ==
  ASSUME NEW s, NEW n, IsList(s, n), NEW a \in 1..(n + 1)
  PROVE  /\ IsList(From(s, a), n - a + 1)
         /\ \A i \in 1..(n - a + 1) : From(s, a)[i] = s[i + a - 1] /\ i + a - 1 \in 1..n
<1>1. n \in Nat /\ n <= n /\ Grows(s, n, s, n)
  BY DEF Grows, IsList
<1>2. /\ Grows(From(s, a), n - a + 1, From(s, a), n - a + 1)
      /\ \A i \in 1..(n - a + 1) : From(s, a)[i] = s[i + a - 1]
  BY <1>1, RestGrows
<1>3. \A i \in 1..(n - a + 1) : i + a - 1 \in 1..n
  BY <1>1
<1> QED
  BY <1>2, <1>3 DEF Grows

-----------------------------------------------------------------------------
(* SuperTrend.                                                             *)

States == [upper : Fracs, lower : Fracs, trend : {"up", "down"}]

\* The line is on the far side of the close, unless the bands have crossed.
Follows(state, close) ==
  ~Less(state.upper, state.lower) =>
    IF state.trend = "up" THEN AtMost(Line(state), close) ELSE AtMost(close, Line(state))

\* While the trend lasts the line goes only its way.
Trails(before, state) ==
  ~Less(before.upper, before.lower) /\ before.trend = state.trend =>
    IF state.trend = "up" THEN AtMost(Line(before), Line(state)) ELSE AtMost(Line(state), Line(before))

LEMMA FirstStateFollows ==
  ASSUME NEW upper \in Fracs, NEW lower \in Fracs, NEW close \in Fracs,
         NEW basic, basic.upper = upper, basic.lower = lower
  PROVE  FirstState(basic, close) \in States /\ Follows(FirstState(basic, close), close)
<1> DEFINE state == FirstState(basic, close)
           trend == FirstTrend(close, upper, lower)
<1>1. state = [upper |-> upper, lower |-> lower, trend |-> trend]
  BY DEF FirstState
<1>2. trend \in {"up", "down"}
  BY DEF FirstTrend
<1>3. IsFraction(upper) /\ IsFraction(lower) /\ IsFraction(close)
  BY FracsAre
<1>4. ASSUME ~Less(upper, lower), trend = "up" PROVE AtMost(lower, close)
  <2>1. CASE Less(upper, close)
    <3>1. AtMost(lower, upper)
      BY <1>4 DEF AtMost
    <3>2. Less(lower, close)
      BY <1>3, <2>1, <3>1, LessIsTransitive
    <3> QED
      BY <1>3, <3>2, LessIsTotal
  <2>2. CASE ~Less(upper, close)
    BY <1>4, <2>2 DEF FirstTrend, AtMost
  <2> QED
    BY <2>1, <2>2
<1>5. ASSUME ~Less(upper, lower), trend = "down" PROVE AtMost(close, upper)
  BY <1>5 DEF FirstTrend, AtMost
<1> HIDE DEF state, trend
<1>6. state \in States
  BY <1>1, <1>2 DEF States
<1>7. Follows(state, close)
  BY <1>1, <1>2, <1>4, <1>5 DEF Follows, Line
<1> QED
  BY <1>6, <1>7 DEF state

LEMMA NextStateFollows ==
  ASSUME NEW before \in States, NEW close \in Fracs, NEW closeBefore \in Fracs,
         NEW basic, basic.upper \in Fracs, basic.lower \in Fracs
  PROVE  LET state == NextState(before, basic, closeBefore, close)
         IN  /\ state \in States /\ Follows(state, close)
             /\ Follows(before, closeBefore) => Trails(before, state)
<1> DEFINE state == NextState(before, basic, closeBefore, close)
           upper == FinalUpper(basic.upper, before.upper, closeBefore)
           lower == FinalLower(basic.lower, before.lower, closeBefore)
           trend == Trend(before.trend, close, upper, lower)
<1>1. state = [upper |-> upper, lower |-> lower, trend |-> trend]
  BY DEF NextState
<1>2. before.upper \in Fracs /\ before.lower \in Fracs /\ before.trend \in {"up", "down"}
  BY DEF States
<1>3. /\ upper \in Fracs /\ lower \in Fracs
      /\ upper # before.upper => Less(basic.upper, before.upper) \/ Less(before.upper, closeBefore)
      /\ upper # before.upper => upper = basic.upper
      /\ lower # before.lower => Less(before.lower, basic.lower) \/ Less(closeBefore, before.lower)
      /\ lower # before.lower => lower = basic.lower
  BY <1>2 DEF FinalUpper, FinalLower
<1> HIDE DEF upper, lower
<1>4. trend \in {"up", "down"}
  BY DEF Trend
<1>5. /\ IsFraction(upper) /\ IsFraction(lower) /\ IsFraction(close) /\ IsFraction(closeBefore)
      /\ IsFraction(before.upper) /\ IsFraction(before.lower)
  BY <1>2, <1>3, FracsAre
<1>6. ASSUME ~Less(upper, lower), trend = "up" PROVE AtMost(lower, close)
  <2>1. CASE Less(upper, close)
    <3>1. AtMost(lower, upper)
      BY <1>6 DEF AtMost
    <3>2. Less(lower, close)
      BY <1>5, <2>1, <3>1, LessIsTransitive
    <3> QED
      BY <1>5, <3>2, LessIsTotal
  <2>2. CASE ~Less(upper, close)
    BY <1>6, <2>2 DEF Trend, AtMost
  <2> QED
    BY <2>1, <2>2
<1>7. ASSUME ~Less(upper, lower), trend = "down" PROVE AtMost(close, upper)
  <2>1. CASE Less(close, lower)
    <3>1. AtMost(lower, upper)
      BY <1>7 DEF AtMost
    <3>2. Less(close, upper)
      BY <1>5, <2>1, <3>1, LessIsTransitive
    <3> QED
      BY <1>5, <3>2, LessIsTotal
  <2>2. CASE ~Less(close, lower)
    BY <1>7, <2>2 DEF Trend, AtMost
  <2> QED
    BY <2>1, <2>2
<1> HIDE DEF state, trend
<1>8. state \in States
  BY <1>1, <1>3, <1>4 DEF States
<1>9. Follows(state, close)
  BY <1>1, <1>4, <1>6, <1>7 DEF Follows, Line
<1>10. ASSUME Follows(before, closeBefore), ~Less(before.upper, before.lower), before.trend = trend
       PROVE  IF trend = "up" THEN AtMost(before.lower, lower) ELSE AtMost(upper, before.upper)
  <2>1. CASE trend = "up"
    <3>1. AtMost(before.lower, closeBefore)
      BY <1>10, <2>1 DEF Follows, Line
    <3>2. CASE lower = before.lower
      BY <1>5, <2>1, <3>2, LessIsTotal
    <3>3. CASE lower # before.lower
      <4>1. Less(before.lower, lower)
        BY <1>3, <3>1, <3>3 DEF AtMost
      <4> QED
        BY <1>5, <2>1, <4>1, LessIsTotal
    <3> QED
      BY <3>2, <3>3
  <2>2. CASE trend # "up"
    <3>1. AtMost(closeBefore, before.upper)
      BY <1>10, <2>2 DEF Follows, Line
    <3>2. CASE upper = before.upper
      BY <1>5, <2>2, <3>2, LessIsTotal
    <3>3. CASE upper # before.upper
      <4>1. Less(upper, before.upper)
        BY <1>3, <3>1, <3>3 DEF AtMost
      <4> QED
        BY <1>5, <2>2, <4>1, LessIsTotal
    <3> QED
      BY <3>2, <3>3
  <2> QED
    BY <2>1, <2>2
<1>11. Follows(before, closeBefore) => Trails(before, state)
  BY <1>1, <1>10 DEF Trails, Line
<1> QED
  BY <1>8, <1>9, <1>11 DEF state

LEMMA BasicBandsType ==
  ASSUME NEW candle, IsCandle(candle), NEW width, IsFraction(width)
  PROVE  BasicBands(candle, width).upper \in Fracs /\ BasicBands(candle, width).lower \in Fracs
<1> DEFINE sum == candle.high ++ candle.low
           mid == sum // Whole(2)
<1>1. IsFraction(sum)
  BY FractionsClosed DEF IsCandle
<1>2. IsFraction(Whole(2)) /\ Whole(2).num > 0
  BY WholeShows
<1>3. IsFraction(mid)
  BY <1>1, <1>2, FractionsClosed
<1>4. BasicBands(candle, width).upper = mid ++ width /\ BasicBands(candle, width).lower = mid -- width
  BY DEF BasicBands
<1> HIDE DEF mid
<1>5. IsFraction(mid ++ width) /\ IsFraction(mid -- width)
  BY <1>3, FractionsClosed
<1> QED
  BY <1>4, <1>5, FracsAre

\* The states of the loop, each at its candle.
LEMMA StatesFollow ==
  ASSUME NEW candles, NEW n, Candles(candles, n), n # 0, NEW basic,
         \A j \in 1..n : basic[j].upper \in Fracs /\ basic[j].lower \in Fracs
  PROVE  LET states == TrendLoop(candles, basic)
         IN  /\ DOMAIN states = 1..n
             /\ \A j \in 1..n : /\ states[j] \in States /\ Follows(states[j], candles[j].close)
                                /\ j > 1 => Trails(states[j - 1], states[j])
<1> DEFINE states == TrendLoop(candles, basic)
           loop == StatesLoop(candles, basic)
           S == {j \in 1..n : states[j] \in States /\ Follows(states[j], candles[j].close)}
<1>1. IsList(candles, n) /\ n \in Nat \ {0} /\ \A j \in 1..n : candles[j].close \in Fracs
  BY FracsAre DEF Candles, IsList, IsCandle
<1>2. IsRun(states, loop, n)
  BY <1>1, StatesRun
<1>3. IsList(states, n) /\ \A j \in 1..n : states[j] = ValueOf(states, loop, j)
  BY <1>2 DEF IsRun
<1> HIDE DEF states
<1>4. 1 \in S
  <2>1. states[1] = FirstState(basic[1], candles[1].close) /\ 1 \in 1..n
    BY <1>1, <1>3 DEF ValueOf, StatesLoop
  <2> QED
    BY <1>1, <2>1, FirstStateFollows
<1>5. ASSUME NEW j \in 2..n, j - 1 \in S
      PROVE  j \in S /\ Trails(states[j - 1], states[j])
  <2>1. j \in 1..n /\ j - 1 \in 1..n /\ j # 1
    BY <1>1
  <2>2. states[j] = NextState(states[j - 1], basic[j], candles[j - 1].close, candles[j].close)
    BY <1>3, <2>1 DEF ValueOf, Moved, StatesLoop
  <2>3. states[j - 1] \in States /\ Follows(states[j - 1], candles[j - 1].close)
    BY <1>5
  <2>4. /\ states[j] \in States /\ Follows(states[j], candles[j].close)
        /\ Trails(states[j - 1], states[j])
    BY SMTT(30), <1>1, <2>1, <2>2, <2>3, NextStateFollows
  <2> QED
    BY <2>1, <2>4
<1>6. \A j \in 1..n : j \in S
  <2> HIDE DEF S
  <2> QED
    BY <1>1, <1>4, <1>5, RangeInduction
<1>7. ASSUME NEW j \in 1..n, j > 1
      PROVE  Trails(states[j - 1], states[j])
  <2>1. j \in 2..n /\ j - 1 \in 1..n
    BY <1>1, <1>7
  <2> QED
    BY <1>5, <1>6, <2>1
<1>8. DOMAIN states = 1..n
  BY <1>3, ListIsSeq
<1> QED
  BY <1>6, <1>7, <1>8 DEF states

LEMMA ChartFollows ==
  ASSUME kLines \in Seq(KLine)
  PROVE  SuperTrendFollowsClose
<1> DEFINE n == Len(kLines)
           m == n - Length + 1
           atr == ATR(kLines, Length)
           candles == From(kLines, Length)
           basic == [j \in DOMAIN atr |-> BasicBands(candles[j], Factor ** atr[j])]
           states == TrendStates(kLines, Factor, Length)
           Beyond(trend, a, b) == IF trend = "up" THEN AtMost(a, b) ELSE AtMost(b, a)
           Crossed(state) == Less(state.upper, state.lower)
<1> SUFFICES ASSUME n > Length
             PROVE  \A j \in DOMAIN states : ~Crossed(states[j]) =>
                      /\ Beyond(states[j].trend, Line(states[j]), kLines[Length + j - 1].close)
                      /\ (j > 1 /\ ~Crossed(states[j - 1]) /\ states[j - 1].trend = states[j].trend) =>
                           Beyond(states[j].trend, Line(states[j - 1]), Line(states[j]))
  BY Zenon DEF SuperTrendFollowsClose
<1>1. Candles(kLines, n) /\ n \in Nat
  BY ChartIsTyped
<1>2. Length \in Nat \ {0} /\ Length <= n /\ Length \in 1..(n + 1) /\ m \in Nat \ {0} /\ IsFraction(Factor)
  BY <1>1, ChartAssumption
<1>3. states = TrendLoop(candles, basic)
  BY Zenon DEF TrendStates
<1> HIDE DEF n, states
<1>4. Fractions(atr, m)
  BY <1>1, <1>2, ATRType
<1>5. /\ IsList(candles, m)
      /\ \A j \in 1..m : candles[j] = kLines[j + Length - 1] /\ j + Length - 1 \in 1..n
  BY <1>1, <1>2, RestIs DEF Candles
<1>6. Candles(candles, m)
  BY <1>1, <1>5 DEF Candles
<1>7. DOMAIN atr = 1..m /\ \A j \in 1..m : IsFraction(atr[j])
  BY <1>4, ListIsSeq DEF Fractions
<1> HIDE DEF atr, candles
<1>8. ASSUME NEW j \in 1..m
      PROVE  basic[j].upper \in Fracs /\ basic[j].lower \in Fracs
  <2>1. basic[j] = BasicBands(candles[j], Factor ** atr[j])
    BY <1>7
  <2>2. IsCandle(candles[j]) /\ IsFraction(Factor ** atr[j])
    BY <1>2, <1>6, <1>7, FractionsClosed DEF Candles
  <2> QED
    BY <2>1, <2>2, BasicBandsType
<1> HIDE DEF basic, m
<1>9. /\ DOMAIN states = 1..m
      /\ \A j \in 1..m : /\ states[j] \in States /\ Follows(states[j], candles[j].close)
                         /\ j > 1 => Trails(states[j - 1], states[j])
  BY Zenon, <1>2, <1>3, <1>6, <1>8, StatesFollow
<1> SUFFICES ASSUME NEW j \in 1..m, ~Crossed(states[j])
             PROVE  /\ Beyond(states[j].trend, Line(states[j]), kLines[Length + j - 1].close)
                    /\ (j > 1 /\ ~Crossed(states[j - 1]) /\ states[j - 1].trend = states[j].trend) =>
                         Beyond(states[j].trend, Line(states[j - 1]), Line(states[j]))
  BY Zenon, <1>9
<1>10. Beyond(states[j].trend, Line(states[j]), kLines[Length + j - 1].close)
  <2>1. candles[j] = kLines[Length + j - 1]
    <3>1. j + Length - 1 = Length + j - 1
      BY <1>2
    <3> QED
      BY <1>5, <3>1
  <2> QED
    BY Zenon, <1>9, <2>1 DEF Follows
<1>11. ASSUME j > 1, ~Crossed(states[j - 1]), states[j - 1].trend = states[j].trend
       PROVE  Beyond(states[j].trend, Line(states[j - 1]), Line(states[j]))
  BY Zenon, <1>9, <1>11 DEF Trails
<1> QED
  BY <1>10, <1>11

\* The k-lines of a chart.
LEMMA ChartsAreTyped == Spec => [](kLines \in Seq(KLine))
<1>1. Init => kLines \in Seq(KLine)
  BY DEF Init
<1>2. kLines \in Seq(KLine) /\ [Next]_kLines => (kLines \in Seq(KLine))'
  BY DEF Next, KLineArrives
<1> QED
  BY <1>1, <1>2, PTL DEF Spec

\* SuperTrend is a stop that trails, for any prices, factor and length: the close is never
\* beyond the line, and the line never goes back, while the bands are in order.
THEOREM SuperTrendIsATrailingStop == Spec => []SuperTrendFollowsClose
<1>1. kLines \in Seq(KLine) => SuperTrendFollowsClose
  BY ChartFollows
<1> QED
  BY <1>1, ChartsAreTyped, PTL

-----------------------------------------------------------------------------
(* Crossings.                                                              *)

\* Whether the close has crossed its average at the i-th k-line.
Crossed(close, average, i) ==
  LET k == i - Length + 1
  IN  IF AtMost(close[i - 1], average[k - 1]) /\ Less(average[k], close[i]) THEN "over"
      ELSE IF AtMost(average[k - 1], close[i - 1]) /\ Less(close[i], average[k]) THEN "under"
      ELSE "none"

LEMMA ReportIs ==
  ASSUME kLines \in Seq(KLine), NEW i \in 1..Len(kLines), Len(kLines) > Length
  PROVE  LET close == Close(kLines)
         IN  Report(i) = IF i > Length THEN Crossed(close, SMA(close, Length), i) ELSE "none"
<1> DEFINE n == Len(kLines)
           close == Close(kLines)
           average == SMA(close, Length)
           c == First(close, i)
           a == SMA(c, Length)
<1>1. n \in Nat /\ IsList(close, n) /\ \A k \in 1..n : IsFraction(close[k])
  BY ChartIsTyped DEF Fractions, IsList
<1>2. Length \in Nat \ {0, 1}
  BY ChartAssumption
<1>3. Report(i) = IF CrossingOver(c, a) THEN "over" ELSE IF CrossingUnder(c, a) THEN "under" ELSE "none"
  BY Zenon DEF Report
<1> HIDE DEF n, close
<1>4. /\ i \in Nat /\ i <= n /\ i \in 1..i
      /\ IsList(c, i) /\ \A k \in 1..i : c[k] = close[k] /\ k \in 1..n
  <2>1. i \in Nat /\ i <= n /\ i \in 1..i
    BY <1>1 DEF n
  <2> QED
    BY <1>1, <2>1, FirstIs
<1>5. Len(c) = i
  BY <1>4, ListIsSeq
<1> HIDE DEF c
<1>6. CASE ~(i > Length)
  <2>1. a = c
    BY <1>2, <1>4, <1>5, <1>6 DEF SMA
  <2>2. Len(c) >= 2 => Len(c) # 1 /\ ~Less(Last(c), Last(c))
    <3>1. IsFraction(c[i])
      BY <1>1, <1>4
    <3> QED
      BY <1>4, <1>5, <3>1, LessIsTotal DEF Last
  <2>3. ~CrossingOver(c, a) /\ ~CrossingUnder(c, a)
    BY <2>1, <2>2 DEF CrossingOver, CrossingUnder
  <2> QED
    BY <1>3, <1>6, <2>3
<1>7. CASE i > Length
  <2> DEFINE k == i - Length + 1
  <2>1. Grows(c, i, close, n)
    BY <1>1, <1>4 DEF Grows
  <2>2. Length \in Nat \ {0} /\ Length < i /\ k - 1 \in 1..k /\ k \in 1..k /\ k >= 2 /\ i - 1 \in 1..i /\ i >= 2
    BY <1>2, <1>4, <1>7
  <2>3. Grows(a, k, average, n - Length + 1)
    BY <2>1, <2>2, SMAGrows
  <2> HIDE DEF k, a, average
  <2>4. Len(a) = k /\ average[k] = a[k] /\ average[k - 1] = a[k - 1]
    BY <2>2, <2>3, ListsGrow
  <2>5. c[i] = close[i] /\ c[i - 1] = close[i - 1]
    BY <1>4, <2>2
  <2>6. /\ Last(c) = close[i] /\ BeforeLast(c) = close[i - 1] /\ Last(a) = average[k]
        /\ BeforeLast(a) = average[k - 1]
    BY <1>5, <2>4, <2>5 DEF Last, BeforeLast
  <2>7. Len(c) >= 2 /\ Len(a) >= 1 /\ Len(a) # 1
    BY <1>5, <2>2, <2>4
  <2>8. /\ CrossingOver(c, a) <=> AtMost(close[i - 1], average[k - 1]) /\ Less(average[k], close[i])
        /\ CrossingUnder(c, a) <=> AtMost(average[k - 1], close[i - 1]) /\ Less(close[i], average[k])
    BY <2>6, <2>7 DEF CrossingOver, CrossingUnder
  <2> QED
    BY Zenon, <1>3, <1>7, <2>8 DEF Crossed, k, a, average, close
<1> QED
  BY <1>6, <1>7

\* After a crossing and until the next one the close stays on its side, or touches.
LEMMA SideIsKept ==
  ASSUME kLines \in Seq(KLine), Len(kLines) > Length, NEW i \in 1..Len(kLines),
         Report(i) # "none", \A k \in (i + 1)..Len(kLines) : Report(k) = "none"
  PROVE  LET close == Close(kLines)
             average == SMA(close, Length)
         IN  /\ Report(i) \in {"over", "under"}
             /\ Report(i) = "over" => AtMost(Last(average), Last(close))
             /\ Report(i) = "under" => AtMost(Last(close), Last(average))
<1> DEFINE n == Len(kLines)
           close == Close(kLines)
           average == SMA(close, Length)
           m == n - Length + 1
           A(k) == average[k - Length + 1]
           Beyond(k) == IF Report(i) = "over" THEN AtMost(A(k), close[k]) ELSE AtMost(close[k], A(k))
           S == {j \in 1..(n - i + 1) : Beyond(i + j - 1)}
<1>1. n \in Nat /\ Fractions(close, n) /\ \A k \in 1..n : IsFraction(close[k])
  BY ChartIsTyped DEF Fractions
<1>2. Length \in Nat \ {0, 1} /\ Length < n
  BY ChartAssumption
<1>3. Len(close) = n
  BY <1>1, ListIsSeq DEF Fractions
<1>4. Fractions(average, m)
  <2> HIDE DEF n, close
  <2> QED
    BY <1>1, <1>2, SMAType
<1>5. Len(average) = m /\ \A k \in Length..n : IsFraction(A(k))
  <2> HIDE DEF average, n
  <2>1. Len(average) = m /\ \A k \in 1..m : IsFraction(average[k])
    BY <1>4, ListIsSeq DEF Fractions
  <2>2. \A k \in Length..n : k - Length + 1 \in 1..m
    BY <1>1, <1>2
  <2> QED
    BY <2>1, <2>2
<1>6. \A k \in 1..n : Report(k) = IF k > Length THEN Crossed(close, average, k) ELSE "none"
  BY ReportIs
<1> HIDE DEF close, average
<1>7. ASSUME NEW k \in 1..n, k > Length
      PROVE  Report(k) = IF AtMost(close[k - 1], A(k - 1)) /\ Less(A(k), close[k]) THEN "over"
                         ELSE IF AtMost(A(k - 1), close[k - 1]) /\ Less(close[k], A(k)) THEN "under"
                         ELSE "none"
  <2>1. Report(k) = Crossed(close, average, k)
    BY <1>6, <1>7
  <2>2. (k - Length + 1) - 1 = (k - 1) - Length + 1
    BY <1>2
  <2> QED
    BY Zenon, <2>1, <2>2 DEF Crossed
<1> HIDE DEF n
<1>8. i \in 1..n /\ Report(i) # "none" /\ \A k \in (i + 1)..n : Report(k) = "none"
  BY DEF n
<1>9. i > Length
  BY <1>6, <1>8
<1>10. ASSUME NEW k \in Length..n
       PROVE  /\ IsFraction(A(k)) /\ IsFraction(close[k])
              /\ Less(A(k), close[k]) => AtMost(A(k), close[k])
              /\ Less(close[k], A(k)) => AtMost(close[k], A(k))
              /\ AtMost(A(k), close[k]) \/ AtMost(close[k], A(k))
  <2>1. IsFraction(A(k)) /\ IsFraction(close[k])
    BY <1>1, <1>2, <1>5
  <2> HIDE DEF A
  <2> QED
    BY <2>1, LessIsTotal DEF AtMost
<1>11. Report(i) \in {"over", "under"} /\ Beyond(i)
  <2>1. i \in Length..n
    BY <1>1, <1>2, <1>8, <1>9
  <2> HIDE DEF A
  <2> QED
    BY <1>7, <1>8, <1>9, <1>10, <2>1
<1>12. 1 \in S
  <2>1. 1 \in 1..(n - i + 1) /\ i + 1 - 1 = i
    BY <1>1, <1>8
  <2> HIDE DEF Beyond
  <2> QED
    BY <1>11, <2>1
<1>13. ASSUME NEW j \in 2..(n - i + 1), j - 1 \in S PROVE j \in S
  <2> DEFINE k == i + j - 1
  <2>1. j \in 1..(n - i + 1) /\ k \in (i + 1)..n /\ k - 1 \in Length..n /\ k \in Length..n /\ k \in 1..n
        /\ k > Length /\ i + (j - 1) - 1 = k - 1
    BY <1>1, <1>2, <1>8, <1>9
  <2>2. Beyond(k - 1)
    <3> HIDE DEF Beyond
    <3> QED
      BY <1>13, <2>1
  <2> HIDE DEF k
  <2>3. Report(k) = "none"
    BY <1>8, <2>1
  <2>4. Beyond(k)
    <3> HIDE DEF A
    <3>1. /\ ~(AtMost(close[k - 1], A(k - 1)) /\ Less(A(k), close[k]))
          /\ ~(AtMost(A(k - 1), close[k - 1]) /\ Less(close[k], A(k)))
      BY <1>7, <2>1, <2>3
    <3>2. CASE Report(i) = "over"
      BY <2>2, <3>1, <3>2 DEF AtMost
    <3>3. CASE Report(i) # "over"
      BY <2>2, <3>1, <3>3 DEF AtMost
    <3> QED
      BY <3>2, <3>3
  <2> HIDE DEF Beyond
  <2> QED
    BY <2>1, <2>4 DEF k
<1>14. Beyond(n)
  <2>1. n - i + 1 \in Nat /\ n - i + 1 \in 1..(n - i + 1) /\ i + (n - i + 1) - 1 = n
    BY <1>1, <1>8
  <2>2. \A j \in 1..(n - i + 1) : j \in S
    <3> HIDE DEF S
    <3> QED
      BY <1>12, <1>13, <2>1, RangeInduction
  <2> HIDE DEF Beyond
  <2> QED
    BY <2>1, <2>2
<1>15. Last(average) = A(n) /\ Last(close) = close[n]
  BY <1>3, <1>5 DEF Last
<1> HIDE DEF A
<1> QED
  BY <1>11, <1>14, <1>15 DEF close, average

\* Two series cross when their difference crosses zero.
LEMMA DifferenceCrosses ==
  ASSUME NEW s, NEW n, Fractions(s, n), NEW t, NEW m, Fractions(t, m), m >= 2, m <= n
  PROVE  LET difference == Sub(From(s, n - m + 1), t)
         IN  /\ CrossingOver(s, t) <=> CrossingOver(difference, <<Zero>>)
             /\ CrossingUnder(s, t) <=> CrossingUnder(difference, <<Zero>>)
<1> DEFINE a == n - m + 1
           r == From(s, a)
           d == Sub(r, t)
           zero == <<Zero>>
<1>1. /\ IsList(s, n) /\ IsList(t, m) /\ n \in Nat /\ m \in Nat /\ Len(s) = n /\ Len(t) = m
      /\ \A i \in 1..n : IsFraction(s[i])
      /\ \A i \in 1..m : IsFraction(t[i])
  BY ListIsSeq DEF Fractions, IsList
<1>2. a \in 1..(n + 1) /\ n - a + 1 = m /\ \A i \in 1..m : i + a - 1 = n - m + i
  BY <1>1
<1>3. /\ IsList(r, m)
      /\ \A i \in 1..m : r[i] = s[n - m + i]
  <2> HIDE DEF a
  <2>0. IsList(s, n) /\ a \in 1..(n + 1)
    BY <1>1, <1>2
  <2>1. /\ IsList(From(s, a), n - a + 1)
        /\ \A i \in 1..(n - a + 1) : From(s, a)[i] = s[i + a - 1]
    BY <2>0, RestIs
  <2> QED
    BY <1>2, <2>1
<1> HIDE DEF r
<1>4. DOMAIN r = 1..m
  BY <1>3, ListIsSeq
<1>5. d = [i \in 1..m |-> r[i] -- t[i]]
  BY <1>1, <1>4 DEF Sub
<1>6. IsList(d, m) /\ \A i \in 1..m : d[i] = r[i] -- t[i]
  BY <1>1, <1>5 DEF IsList
<1> HIDE DEF d
<1>7. Len(d) = m
  BY <1>6, ListIsSeq
<1>8. Len(zero) = 1 /\ zero[1] = Zero
  OBVIOUS
<1>9. /\ n - m + m = n /\ n - m + (m - 1) = n - 1 /\ m \in 1..m /\ m - 1 \in 1..m
      /\ n \in 1..n /\ n - 1 \in 1..n /\ n >= 2
  BY <1>1
<1>10. /\ Last(d) = Last(s) -- Last(t) /\ BeforeLast(d) = BeforeLast(s) -- BeforeLast(t)
       /\ IsFraction(Last(s)) /\ IsFraction(Last(t))
       /\ IsFraction(BeforeLast(s)) /\ IsFraction(BeforeLast(t))
  BY <1>1, <1>3, <1>6, <1>7, <1>9 DEF Last, BeforeLast
<1>11. /\ AtMost(BeforeLast(d), Zero) <=> AtMost(BeforeLast(s), BeforeLast(t))
       /\ AtMost(Zero, BeforeLast(d)) <=> AtMost(BeforeLast(t), BeforeLast(s))
       /\ Less(Last(d), Zero) <=> Less(Last(s), Last(t))
       /\ Less(Zero, Last(d)) <=> Less(Last(t), Last(s))
  <2> DEFINE x == Last(s)
             y == Last(t)
             v == BeforeLast(s)
             w == BeforeLast(t)
  <2> HIDE DEF x, y, v, w
  <2>1. /\ IsFraction(x) /\ IsFraction(y) /\ IsFraction(v) /\ IsFraction(w)
        /\ Last(d) = x -- y /\ BeforeLast(d) = v -- w
    BY Zenon, <1>10 DEF x, y, v, w
  <2>2. (Less(x -- y, Zero) <=> Less(x, y)) /\ (Less(Zero, x -- y) <=> Less(y, x))
    BY <2>1, DifferenceSign
  <2>3. (AtMost(v -- w, Zero) <=> AtMost(v, w)) /\ (AtMost(Zero, v -- w) <=> AtMost(w, v))
    BY <2>1, DifferenceSign
  <2> QED
    BY Zenon, <2>1, <2>2, <2>3 DEF x, y, v, w
<1> HIDE DEF zero
<1>12. /\ CrossingOver(s, t) <=> CrossingOver(d, zero)
       /\ CrossingUnder(s, t) <=> CrossingUnder(d, zero)
  BY <1>1, <1>7, <1>8, <1>9, <1>11 DEF CrossingOver, CrossingUnder
<1> QED
  BY Zenon, <1>12 DEF d, r, a, zero

LEMMA LastOfFractions ==
  ASSUME NEW s, NEW n, Fractions(s, n), n # 0
  PROVE  Len(s) = n /\ Last(s) = s[n] /\ IsFraction(Last(s))
<1>1. IsList(s, n) /\ \A i \in 1..n : IsFraction(s[i])
  BY DEF Fractions
<1>2. Len(s) = n /\ n \in Nat
  BY <1>1, ListIsSeq
<1>3. n \in 1..n
  BY <1>2
<1> QED
  BY <1>1, <1>2, <1>3 DEF Last

LEMMA LatestExists ==
  ASSUME NEW n \in Nat, NEW S, S \subseteq 1..n, S # {}
  PROVE  \E i \in S : \A k \in S : k <= i
<1> DEFINE T == {n - i : i \in S}
<1>1. T \subseteq Nat /\ T # {}
  <2>1. \A i \in S : n - i \in Nat
    OBVIOUS
  <2>2. T \subseteq Nat
    BY <2>1
  <2>3. PICK i : i \in S
    OBVIOUS
  <2>4. n - i \in T
    BY <2>3
  <2> QED
    BY <2>2, <2>4
<1>2. PICK x \in T : \A y \in T : x <= y
  BY <1>1, LeastExists
<1>3. PICK i \in S : x = n - i
  OBVIOUS
<1>4. \A k \in S : n - i <= n - k
  BY <1>2, <1>3
<1>5. \A k \in S : k <= i
  BY <1>4
<1> QED
  BY <1>5

LEMMA ChartTellsTheSide ==
  ASSUME kLines \in Seq(KLine)
  PROVE  CrossingsTellTheSide
<1> DEFINE n == Len(kLines)
           close == Close(kLines)
           average == SMA(close, Length)
           reports == {i \in DOMAIN kLines : Report(i) # "none"}
           last == CHOOSE i \in reports : \A k \in reports : k <= i
           difference == Sub(From(close, Length), average)
<1> SUFFICES ASSUME n > Length
             PROVE  /\ reports # {} /\ Last(close) # Last(average) =>
                         Report(last) = IF Less(Last(average), Last(close)) THEN "over" ELSE "under"
                    /\ CrossingOver(close, average) <=> CrossingOver(difference, <<Zero>>)
                    /\ CrossingUnder(close, average) <=> CrossingUnder(difference, <<Zero>>)
  BY Zenon DEF CrossingsTellTheSide
<1>1. n \in Nat /\ DOMAIN kLines = 1..n /\ Fractions(close, n)
  BY ChartIsTyped
<1>2. Length \in Nat \ {0, 1} /\ Length < n
  BY ChartAssumption
<1> DEFINE m == n - Length + 1
<1>3. m \in Nat /\ m >= 2 /\ m <= n /\ n - m + 1 = Length
  BY <1>1, <1>2
<1>4. Fractions(average, m)
  <2> HIDE DEF n, close
  <2> QED
    BY <1>1, <1>2, SMAType
<1>5. /\ CrossingOver(close, average) <=> CrossingOver(difference, <<Zero>>)
      /\ CrossingUnder(close, average) <=> CrossingUnder(difference, <<Zero>>)
  <2> HIDE DEF close, average, n, m
  <2>1. LET d == Sub(From(close, n - m + 1), average)
        IN  /\ CrossingOver(close, average) <=> CrossingOver(d, <<Zero>>)
            /\ CrossingUnder(close, average) <=> CrossingUnder(d, <<Zero>>)
    BY <1>1, <1>3, <1>4, DifferenceCrosses
  <2> QED
    BY Zenon, <1>3, <2>1
<1>6. ASSUME reports # {}, Last(close) # Last(average)
      PROVE  Report(last) = IF Less(Last(average), Last(close)) THEN "over" ELSE "under"
  <2>1. reports \subseteq 1..n
    BY <1>1
  <2>2. \E i \in reports : \A k \in reports : k <= i
    <3> HIDE DEF reports, n
    <3> QED
      BY <1>1, <1>6, <2>1, LatestExists
  <2>3. last \in reports /\ \A k \in reports : k <= last
    <3> HIDE DEF reports
    <3> QED
      BY Zenon, <2>2
  <2> HIDE DEF last
  <2>4. last \in 1..n /\ Report(last) # "none" /\ \A k \in (last + 1)..n : Report(k) = "none"
    <3>1. last \in 1..n /\ Report(last) # "none"
      BY <2>1, <2>3
    <3>2. ASSUME NEW k \in (last + 1)..n, Report(k) # "none" PROVE FALSE
      <4>1. k \in DOMAIN kLines
        BY <1>1, <3>1
      <4>2. k \in reports
        BY <3>2, <4>1
      <4>3. k <= last
        BY <2>3, <4>2
      <4> QED
        BY <1>1, <3>1, <4>3
    <3> QED
      BY <3>1, <3>2
  <2>5. /\ Report(last) \in {"over", "under"}
        /\ Report(last) = "over" => AtMost(Last(average), Last(close))
        /\ Report(last) = "under" => AtMost(Last(close), Last(average))
    <3>1. /\ last \in 1..Len(kLines) /\ Report(last) # "none" /\ Len(kLines) > Length
          /\ \A k \in (last + 1)..Len(kLines) : Report(k) = "none"
      BY <2>4
    <3> HIDE DEF n, average, close
    <3> QED
      BY Zenon, <3>1, SideIsKept DEF close, average
  <2>6. IsFraction(Last(close)) /\ IsFraction(Last(average))
    <3> HIDE DEF close, average, n, m
    <3>1. n # 0 /\ m # 0
      BY <1>1, <1>2, <1>3
    <3> QED
      BY <1>1, <1>4, <3>1, LastOfFractions
  <2> DEFINE x == Last(close)
             y == Last(average)
  <2> HIDE DEF x, y
  <2>7. /\ Report(last) \in {"over", "under"}
        /\ Report(last) = "over" => AtMost(y, x)
        /\ Report(last) = "under" => AtMost(x, y)
        /\ IsFraction(x) /\ IsFraction(y) /\ x # y
    BY <1>6, <2>5, <2>6 DEF x, y
  <2>8. Report(last) = IF Less(y, x) THEN "over" ELSE "under"
    BY <2>7, LessIsTotal DEF AtMost
  <2> QED
    BY <2>8 DEF x, y
<1> QED
  BY <1>5, <1>6

\* The last crossing tells the side of the close, for any prices and length: no run of
\* closes, with as many touches as it may have, leaves a signal on the wrong side.
THEOREM SignalsTellTheSide == Spec => []CrossingsTellTheSide
<1>1. kLines \in Seq(KLine) => CrossingsTellTheSide
  BY ChartTellsTheSide
<1> QED
  BY <1>1, ChartsAreTyped, PTL

-----------------------------------------------------------------------------
(* Laws of arithmetic.                                                     *)

LEMMA AddCommutes ==
  ASSUME NEW a, IsFraction(a), NEW b, IsFraction(b)
  PROVE  a ++ b = b ++ a
<1>1. PICK d \in Nat \ {0}, n \in Int, m \in Int : Shows(a, n, d) /\ Shows(b, m, d)
  BY CommonOfTwo
<1>2. Shows(a ++ b, n + m, d) /\ Shows(b ++ a, m + n, d)
  BY Zenon, <1>1, CommonSum
<1>3. n + m = m + n
  OBVIOUS
<1> QED
  BY <1>2, <1>3, CommonEqual

LEMMA AddAssociates ==
  ASSUME NEW a, IsFraction(a), NEW b, IsFraction(b), NEW c, IsFraction(c)
  PROVE  (a ++ b) ++ c = a ++ (b ++ c)
<1>1. PICK d \in Nat \ {0}, n \in Int, m \in Int, l \in Int :
        Shows(a, n, d) /\ Shows(b, m, d) /\ Shows(c, l, d)
  BY CommonOfThree
<1>2. Shows(a ++ b, n + m, d) /\ Shows(b ++ c, m + l, d)
  BY Zenon, <1>1, CommonSum
<1>3. Shows((a ++ b) ++ c, (n + m) + l, d) /\ Shows(a ++ (b ++ c), n + (m + l), d)
  BY Zenon, <1>1, <1>2, CommonSum
<1>4. (n + m) + l = n + (m + l)
  OBVIOUS
<1> QED
  BY <1>3, <1>4, CommonEqual

LEMMA AddZero ==
  ASSUME NEW a, IsFraction(a)
  PROVE  a ++ Zero = a /\ Zero ++ a = a /\ a -- Zero = a /\ a -- a = Zero
<1>1. PICK d \in Nat \ {0}, n \in Int : Shows(a, n, d)
  BY CommonOfTwo
<1>2. Shows(Zero, 0, d)
  BY ZeroShows
<1>3. /\ Shows(a ++ Zero, n + 0, d) /\ Shows(Zero ++ a, 0 + n, d)
      /\ Shows(a -- Zero, n - 0, d) /\ Shows(a -- a, n - n, d)
  BY Zenon, <1>1, <1>2, CommonSum
<1>4. n + 0 = n /\ 0 + n = n /\ n - 0 = n /\ n - n = 0
  OBVIOUS
<1> QED
  BY <1>1, <1>2, <1>3, <1>4, CommonEqual

\* A difference is what is missing.
LEMMA SubtractIs ==
  ASSUME NEW a, IsFraction(a), NEW b, IsFraction(b), NEW c, IsFraction(c)
  PROVE  a -- b = c <=> a = c ++ b
<1>1. PICK d \in Nat \ {0}, n \in Int, m \in Int, l \in Int :
        Shows(a, n, d) /\ Shows(b, m, d) /\ Shows(c, l, d)
  BY CommonOfThree
<1>2. Shows(a -- b, n - m, d) /\ Shows(c ++ b, l + m, d)
  BY Zenon, <1>1, CommonSum
<1>3. a -- b = c <=> n - m = l
  BY <1>1, <1>2, CommonEqual
<1>4. a = c ++ b <=> n = l + m
  BY <1>1, <1>2, CommonEqual
<1> QED
  BY <1>3, <1>4

LEMMA MultiplyCommutes ==
  ASSUME NEW a, IsFraction(a), NEW b, IsFraction(b)
  PROVE  a ** b = b ** a
<1>1. PICK d \in Nat \ {0}, n \in Int, m \in Int : Shows(a, n, d) /\ Shows(b, m, d)
  BY CommonOfTwo
<1>2. Shows(a ** b, n * m, d * d) /\ Shows(b ** a, m * n, d * d)
  BY Zenon, <1>1, AddShows
<1>3. n * m = m * n
  BY SMT
<1> QED
  BY Zenon, <1>2, <1>3 DEF Shows

LEMMA MultiplyAssociates ==
  ASSUME NEW a, IsFraction(a), NEW b, IsFraction(b), NEW c, IsFraction(c)
  PROVE  (a ** b) ** c = a ** (b ** c)
<1>1. PICK d \in Nat \ {0}, n \in Int, m \in Int, l \in Int :
        Shows(a, n, d) /\ Shows(b, m, d) /\ Shows(c, l, d)
  BY CommonOfThree
<1>2. Shows(a ** b, n * m, d * d) /\ Shows(b ** c, m * l, d * d)
  BY Zenon, <1>1, AddShows
<1>3. Shows((a ** b) ** c, (n * m) * l, (d * d) * d) /\ Shows(a ** (b ** c), n * (m * l), d * (d * d))
  BY Zenon, <1>1, <1>2, AddShows
<1>4. (n * m) * l = n * (m * l) /\ (d * d) * d = d * (d * d)
  BY SMT
<1> QED
  BY Zenon, <1>3, <1>4 DEF Shows

LEMMA MultiplyDistributes ==
  ASSUME NEW a, IsFraction(a), NEW b, IsFraction(b), NEW c, IsFraction(c)
  PROVE  /\ (a ++ b) ** c = (a ** c) ++ (b ** c)
         /\ (a -- b) ** c = (a ** c) -- (b ** c)
<1>1. PICK d \in Nat \ {0}, n \in Int, m \in Int, l \in Int :
        Shows(a, n, d) /\ Shows(b, m, d) /\ Shows(c, l, d)
  BY CommonOfThree
<1>2. Shows(a ++ b, n + m, d) /\ Shows(a -- b, n - m, d)
  BY Zenon, <1>1, CommonSum
<1>3. Shows(a ** c, n * l, d * d) /\ Shows(b ** c, m * l, d * d)
  BY Zenon, <1>1, AddShows
<1>4. Shows((a ++ b) ** c, (n + m) * l, d * d) /\ Shows((a -- b) ** c, (n - m) * l, d * d)
  BY Zenon, <1>1, <1>2, AddShows
<1>5. /\ Shows((a ** c) ++ (b ** c), n * l + m * l, d * d)
      /\ Shows((a ** c) -- (b ** c), n * l - m * l, d * d)
  BY Zenon, <1>3, CommonSum
<1>6. (n + m) * l = n * l + m * l /\ (n - m) * l = n * l - m * l
  BY SMT
<1> QED
  BY Zenon, <1>4, <1>5, <1>6 DEF Shows

LEMMA MultiplyOne ==
  ASSUME NEW a, IsFraction(a)
  PROVE  a ** Whole(1) = a /\ Whole(1) ** a = a /\ a ** Zero = Zero /\ Zero ** a = Zero
<1>1. PICK d \in Nat \ {0}, n \in Int : Shows(a, n, d)
  BY CommonOfTwo
<1>2. Shows(Whole(1), 1, 1) /\ Shows(Zero, 0, 1) /\ IsFraction(Whole(1)) /\ IsFraction(Zero)
  BY WholeShows, ZeroShows DEF Zero
<1>3. Shows(a ** Whole(1), n * 1, d * 1) /\ Shows(a ** Zero, n * 0, d * 1)
  BY Zenon, <1>1, <1>2, AddShows
<1>4. n * 1 = n /\ d * 1 = d /\ n * 0 = 0
  BY SMT
<1>5. a ** Whole(1) = a
  BY Zenon, <1>1, <1>3, <1>4 DEF Shows
<1>6. a ** Zero = Zero
  <2>1. Shows(Zero, 0, d) /\ Shows(a ** Zero, 0, d)
    BY Zenon, <1>3, <1>4, ZeroShows
  <2> QED
    BY Zenon, <2>1 DEF Shows
<1>7. Whole(1) ** a = a ** Whole(1) /\ Zero ** a = a ** Zero
  BY <1>2, MultiplyCommutes
<1> QED
  BY <1>5, <1>6, <1>7

LEMMA PositiveIs ==
  ASSUME NEW a, IsFraction(a)
  PROVE  /\ Less(Zero, a) <=> a.num > 0
         /\ Less(Zero, a) <=> AtMost(Zero, a) /\ a # Zero
<1>1. Shows(a, a.num, a.den)
  BY FractionShows
<1>2. PICK n, d : n = a.num /\ d = a.den
  OBVIOUS
<1>3. Shows(a, n, d) /\ n \in Int /\ d \in Nat \ {0}
  BY Zenon, <1>1, <1>2, ShowsType
<1>4. Shows(Zero, 0, d)
  BY <1>3, ZeroShows
<1>5. (Less(Zero, a) <=> 0 < n) /\ (AtMost(Zero, a) <=> 0 <= n)
  BY <1>3, <1>4, CommonOrder
<1>6. a = Zero <=> n = 0
  BY <1>3, <1>4, CommonEqual
<1> QED
  BY <1>2, <1>3, <1>5, <1>6

Reciprocal(a) == Whole(1) // a

\* To divide by a positive number is to multiply by its inverse.
LEMMA DivideIs ==
  ASSUME NEW a, IsFraction(a), NEW b, IsFraction(b), Less(Zero, b)
  PROVE  /\ a // b = a ** Reciprocal(b) /\ b ** Reciprocal(b) = Whole(1)
         /\ IsFraction(Reciprocal(b)) /\ Less(Zero, Reciprocal(b)) /\ IsFraction(a // b)
<1>1. PICK d \in Nat \ {0}, n \in Int, m \in Int : Shows(a, n, d) /\ Shows(b, m, d)
  BY CommonOfTwo
<1>2. Shows(Whole(1), 1, 1) /\ Shows(Zero, 0, d)
  BY WholeShows, ZeroShows
<1>3. m > 0
  <2>1. Less(Zero, b) <=> 0 < m
    BY <1>1, <1>2, CommonOrder
  <2> QED
    BY <2>1
<1>4. Shows(a // b, n * d, d * m) /\ Shows(Reciprocal(b), 1 * d, 1 * m)
  BY Zenon, <1>1, <1>2, <1>3, DivideShows DEF Reciprocal
<1>5. 1 * d = d /\ 1 * m = m
  OBVIOUS
<1>6. Shows(Reciprocal(b), d, m)
  BY Zenon, <1>4, <1>5
<1>7. Shows(a ** Reciprocal(b), n * d, d * m) /\ Shows(b ** Reciprocal(b), m * d, d * m)
  BY Zenon, <1>1, <1>6, AddShows
<1>8. a // b = a ** Reciprocal(b)
  BY Zenon, <1>4, <1>7 DEF Shows
<1>9. b ** Reciprocal(b) = Whole(1)
  <2>1. m * d = d * m /\ d * m \in Nat \ {0} /\ m * d \in Int
    BY <1>3, SMT
  <2>2. (m * d) * 1 = 1 * (d * m)
    BY <2>1, SMT
  <2> DEFINE k == m * d
             l == d * m
  <2>3. Shows(b ** Reciprocal(b), k, l) /\ k * 1 = 1 * l
    BY Zenon, <1>7, <2>2
  <2> HIDE DEF k, l
  <2> QED
    BY <1>2, <2>3, EqualFractions
<1>10. Less(Zero, Reciprocal(b))
  <2>1. Shows(Zero, 0, m)
    BY <1>3, ZeroShows
  <2>2. Less(Zero, Reciprocal(b)) <=> 0 < d
    BY <1>6, <2>1, CommonOrder
  <2> QED
    BY <2>2
<1> QED
  BY <1>4, <1>6, <1>8, <1>9, <1>10, ShowsType

LEMMA WholesAdd ==
  ASSUME NEW n \in Int, NEW m \in Int
  PROVE  /\ Whole(n) ++ Whole(m) = Whole(n + m) /\ Whole(n) -- Whole(m) = Whole(n - m)
         /\ Whole(n) ** Whole(m) = Whole(n * m)
<1>1. Shows(Whole(n), n, 1) /\ Shows(Whole(m), m, 1) /\ n * m \in Int
  BY WholeShows, ProductType
<1>2. /\ Shows(Whole(n + m), n + m, 1) /\ Shows(Whole(n - m), n - m, 1)
      /\ Shows(Whole(n * m), n * m, 1)
  <2>1. n + m \in Int /\ n - m \in Int
    OBVIOUS
  <2> QED
    BY Zenon, <1>1, <2>1, WholeShows
<1>3. Shows(Whole(n) ++ Whole(m), n + m, 1) /\ Shows(Whole(n) -- Whole(m), n - m, 1)
  BY Zenon, <1>1, CommonSum
<1>4. Shows(Whole(n) ** Whole(m), n * m, 1 * 1)
  BY Zenon, <1>1, AddShows
<1>5. 1 * 1 = 1
  OBVIOUS
<1> QED
  BY Zenon, <1>2, <1>3, <1>4, <1>5 DEF Shows

LEMMA WholePositive ==
  ASSUME NEW n \in Int
  PROVE  IsFraction(Whole(n)) /\ (Less(Zero, Whole(n)) <=> n > 0)
<1>1. IsFraction(Whole(n)) /\ Whole(n).num = n
  BY WholeShows
<1> QED
  BY <1>1, PositiveIs

\* One part of some.
LEMMA PartIs ==
  ASSUME NEW n \in Nat \ {0}
  PROVE  Frac(1, n) = Reciprocal(Whole(n)) /\ IsFraction(Frac(1, n))
<1>1. Shows(Whole(n), n, 1) /\ Shows(Whole(1), 1, 1)
  BY WholeShows
<1>2. Shows(Reciprocal(Whole(n)), 1 * 1, 1 * n)
  BY <1>1, DivideShows DEF Reciprocal
<1>3. 1 * 1 = 1 /\ 1 * n = n
  OBVIOUS
<1>4. Reciprocal(Whole(n)) = Frac(1, n) /\ IsFraction(Reciprocal(Whole(n)))
  BY Zenon, <1>2, <1>3, ShowsType DEF Shows
<1> QED
  BY <1>4

-----------------------------------------------------------------------------
(* Totals of lists that are added, scaled, not negative, or pieces.        *)

LEMMA Exchange ==
  ASSUME NEW a, IsFraction(a), NEW b, IsFraction(b), NEW c, IsFraction(c), NEW e, IsFraction(e)
  PROVE  /\ (a ++ b) ++ (c ++ e) = (a ++ c) ++ (b ++ e)
         /\ ((a -- b) -- c) ++ e = (a ++ e) -- (b ++ c)
         /\ (a ++ e) -- (b ++ c) = (a -- b) ++ (e -- c)
<1>1. PICK d \in Nat \ {0}, n \in Int, m \in Int, l \in Int, k \in Int :
        Shows(a, n, d) /\ Shows(b, m, d) /\ Shows(c, l, d) /\ Shows(e, k, d)
  BY CommonOfFour
<1>2. /\ Shows(a ++ b, n + m, d) /\ Shows(c ++ e, l + k, d) /\ Shows(a ++ c, n + l, d)
      /\ Shows(b ++ e, m + k, d) /\ Shows(a -- b, n - m, d) /\ Shows(a ++ e, n + k, d)
      /\ Shows(b ++ c, m + l, d) /\ Shows(e -- c, k - l, d)
  BY Zenon, <1>1, CommonSum
<1>3. /\ Shows((a ++ b) ++ (c ++ e), (n + m) + (l + k), d)
      /\ Shows((a ++ c) ++ (b ++ e), (n + l) + (m + k), d)
      /\ Shows((a -- b) -- c, (n - m) - l, d)
      /\ Shows((a ++ e) -- (b ++ c), (n + k) - (m + l), d)
      /\ Shows((a -- b) ++ (e -- c), (n - m) + (k - l), d)
  BY Zenon, <1>1, <1>2, CommonSum
<1>4. Shows(((a -- b) -- c) ++ e, ((n - m) - l) + k, d)
  BY Zenon, <1>1, <1>3, CommonSum
<1>5. /\ (n + m) + (l + k) = (n + l) + (m + k)
      /\ ((n - m) - l) + k = (n + k) - (m + l)
      /\ (n + k) - (m + l) = (n - m) + (k - l)
  OBVIOUS
<1>6. (a ++ b) ++ (c ++ e) = (a ++ c) ++ (b ++ e)
  BY <1>3, <1>5, CommonEqual
<1>7. ((a -- b) -- c) ++ e = (a ++ e) -- (b ++ c)
  BY <1>3, <1>4, <1>5, CommonEqual
<1>8. (a ++ e) -- (b ++ c) = (a -- b) ++ (e -- c)
  BY <1>3, <1>5, CommonEqual
<1> QED
  BY <1>6, <1>7, <1>8

\* A factor on the left distributes; a number is added to what is subtracted from.
LEMMA DistributesLeft ==
  ASSUME NEW a, IsFraction(a), NEW b, IsFraction(b), NEW c, IsFraction(c)
  PROVE  a ** (b ++ c) = (a ** b) ++ (a ** c) /\ a ** (b -- c) = (a ** b) -- (a ** c)
<1>1. IsFraction(b ++ c) /\ IsFraction(b -- c)
  BY FractionsClosed
<1>2. a ** (b ++ c) = (b ++ c) ** a /\ a ** (b -- c) = (b -- c) ** a
  BY Zenon, <1>1, MultiplyCommutes
<1>3. a ** b = b ** a /\ a ** c = c ** a
  BY Zenon, MultiplyCommutes
<1>4. (b ++ c) ** a = (b ** a) ++ (c ** a) /\ (b -- c) ** a = (b ** a) -- (c ** a)
  BY MultiplyDistributes
<1> QED
  BY Zenon, <1>2, <1>3, <1>4

LEMMA AddToDifference ==
  ASSUME NEW a, IsFraction(a), NEW b, IsFraction(b), NEW c, IsFraction(c)
  PROVE  (a -- b) ++ c = (a ++ c) -- b
<1>1. PICK d \in Nat \ {0}, n \in Int, m \in Int, l \in Int :
        Shows(a, n, d) /\ Shows(b, m, d) /\ Shows(c, l, d)
  BY CommonOfThree
<1>2. Shows(a -- b, n - m, d) /\ Shows(a ++ c, n + l, d)
  BY Zenon, <1>1, CommonSum
<1>3. Shows((a -- b) ++ c, (n - m) + l, d) /\ Shows((a ++ c) -- b, (n + l) - m, d)
  BY Zenon, <1>1, <1>2, CommonSum
<1>4. (n - m) + l = (n + l) - m
  OBVIOUS
<1> QED
  BY <1>3, <1>4, CommonEqual

NotNegative(a) == IsFraction(a) /\ AtMost(Zero, a)

LEMMA NotNegativeShows ==
  ASSUME NEW a, NEW n, NEW d, Shows(a, n, d)
  PROVE  (NotNegative(a) <=> n >= 0) /\ (a = Zero <=> n = 0) /\ (Less(Zero, a) <=> n > 0)
<1>1. n \in Int /\ d \in Nat \ {0} /\ IsFraction(a)
  BY ShowsType
<1>2. Shows(Zero, 0, d)
  BY <1>1, ZeroShows
<1>3. AtMost(Zero, a) <=> 0 <= n
  BY <1>2, CommonOrder
<1>4. Less(Zero, a) <=> 0 < n
  BY <1>2, CommonOrder
<1>5. a = Zero <=> n = 0
  BY <1>2, CommonEqual
<1> QED
  BY <1>1, <1>3, <1>4, <1>5 DEF NotNegative

LEMMA NotNegativeSum ==
  ASSUME NEW a, NotNegative(a), NEW b, NotNegative(b)
  PROVE  NotNegative(a ++ b) /\ (a ++ b = Zero <=> a = Zero /\ b = Zero)
<1>1. PICK d \in Nat \ {0}, n \in Int, m \in Int : Shows(a, n, d) /\ Shows(b, m, d)
  BY CommonOfTwo DEF NotNegative
<1>2. Shows(a ++ b, n + m, d)
  BY Zenon, <1>1, CommonSum
<1>3. n >= 0 /\ (a = Zero <=> n = 0)
  BY Zenon, <1>1, NotNegativeShows
<1>4. m >= 0 /\ (b = Zero <=> m = 0)
  BY Zenon, <1>1, NotNegativeShows
<1>5. (NotNegative(a ++ b) <=> n + m >= 0) /\ (a ++ b = Zero <=> n + m = 0)
  BY Zenon, <1>2, NotNegativeShows
<1> QED
  BY <1>3, <1>4, <1>5

\* Scaling by a positive number, and dividing by one.
LEMMA NotNegativeScaled ==
  ASSUME NEW a, NotNegative(a), NEW k \in Nat \ {0}
  PROVE  /\ NotNegative(a ** Whole(k)) /\ (a ** Whole(k) = Zero <=> a = Zero)
         /\ NotNegative(a // Whole(k)) /\ (a // Whole(k) = Zero <=> a = Zero)
<1>1. PICK d \in Nat \ {0}, n \in Int : Shows(a, n, d)
  BY CommonOfTwo DEF NotNegative
<1>2. Shows(Whole(k), k, 1) /\ k > 0
  BY WholeShows
<1>3. Shows(a ** Whole(k), n * k, d * 1)
  BY Zenon, <1>1, <1>2, AddShows
<1>4. Shows(a // Whole(k), n * 1, d * k)
  BY Zenon, <1>1, <1>2, DivideShows
<1>5. n >= 0 /\ (a = Zero <=> n = 0)
  BY Zenon, <1>1, NotNegativeShows
<1>6. (NotNegative(a ** Whole(k)) <=> n * k >= 0) /\ (a ** Whole(k) = Zero <=> n * k = 0)
  BY Zenon, <1>3, NotNegativeShows
<1>7. (NotNegative(a // Whole(k)) <=> n * 1 >= 0) /\ (a // Whole(k) = Zero <=> n * 1 = 0)
  BY Zenon, <1>4, NotNegativeShows
<1>8. n * 1 = n /\ n * k >= 0 /\ (n * k = 0 <=> n = 0)
  <2>1. n * 1 = n
    OBVIOUS
  <2>2. n \in Nat
    BY <1>5
  <2>3. n # 0 => n * k \in Nat \ {0}
    BY <2>2, ProductType
  <2>4. n = 0 => n * k = 0
    OBVIOUS
  <2> QED
    BY <1>5, <2>1, <2>3, <2>4
<1> QED
  BY <1>5, <1>6, <1>7, <1>8

\* Induction over the beginnings of a list.
LEMMA BeginningInduction ==
  ASSUME NEW n \in Nat, NEW S, 0 \in S, \A k \in 0..(n - 1) : k \in S => k + 1 \in S
  PROVE  \A k \in 0..n : k \in S
<1> DEFINE N == {k \in Nat : k <= n => k \in S}
<1>1. 0 \in N
  OBVIOUS
<1>2. ASSUME NEW k \in N PROVE k + 1 \in N
  <2> SUFFICES ASSUME k + 1 <= n PROVE k + 1 \in S
    OBVIOUS
  <2>1. k \in 0..(n - 1) /\ k \in S
    OBVIOUS
  <2> QED
    BY <2>1
<1>3. N = Nat
  <2> HIDE DEF N
  <2>1. N \subseteq Nat
    BY DEF N
  <2> QED
    BY <1>1, <1>2, <2>1, NatSetInduction
<1> QED
  BY <1>3

LEMMA TotalAdds ==
  ASSUME NEW s, NEW t, NEW r, NEW n, Fractions(s, n), Fractions(t, n), IsList(r, n),
         \A i \in 1..n : r[i] = s[i] ++ t[i]
  PROVE  \A k \in 0..n : Total(First(r, k)) = Total(First(s, k)) ++ Total(First(t, k))
<1> DEFINE S == {k \in 0..n : Total(First(r, k)) = Total(First(s, k)) ++ Total(First(t, k))}
<1>1. n \in Nat /\ IsList(s, n) /\ IsList(t, n) /\ \A i \in 1..n : IsFraction(s[i]) /\ IsFraction(t[i])
  BY DEF Fractions, IsList
<1>2. 0 \in S
  <2>1. Total(First(r, 0)) = Zero /\ Total(First(s, 0)) = Zero /\ Total(First(t, 0)) = Zero
    BY <1>1, TotalOfFirst
  <2>2. Zero ++ Zero = Zero
    BY ZeroShows, AddZero
  <2> QED
    BY <1>1, <2>1, <2>2
<1>3. ASSUME NEW k \in 0..(n - 1), k \in S
      PROVE  k + 1 \in S
  <2>1. k \in Nat /\ k + 1 <= n /\ k + 1 \in 1..n /\ k \in 0..n /\ k + 1 \in 0..n
    BY <1>1
  <2>2. /\ Total(First(r, k + 1)) = Total(First(r, k)) ++ r[k + 1]
        /\ Total(First(s, k + 1)) = Total(First(s, k)) ++ s[k + 1]
        /\ Total(First(t, k + 1)) = Total(First(t, k)) ++ t[k + 1]
    BY <1>1, <2>1, TotalOfFirst
  <2>3. /\ IsFraction(Total(First(s, k))) /\ IsFraction(Total(First(t, k)))
        /\ IsFraction(s[k + 1]) /\ IsFraction(t[k + 1])
    BY <1>1, <2>1, TotalType
  <2>4. (Total(First(s, k)) ++ Total(First(t, k))) ++ (s[k + 1] ++ t[k + 1])
          = (Total(First(s, k)) ++ s[k + 1]) ++ (Total(First(t, k)) ++ t[k + 1])
    BY <2>3, Exchange
  <2>5. r[k + 1] = s[k + 1] ++ t[k + 1] /\ Total(First(r, k)) = Total(First(s, k)) ++ Total(First(t, k))
    BY <1>3, <2>1
  <2> QED
    BY <2>1, <2>2, <2>4, <2>5
<1> HIDE DEF S
<1>4. \A k \in 0..n : k \in S
  BY <1>1, <1>2, <1>3, BeginningInduction
<1> QED
  BY <1>4 DEF S

LEMMA TotalScales ==
  ASSUME NEW s, NEW r, NEW n, Fractions(s, n), IsList(r, n), NEW a, IsFraction(a),
         \A i \in 1..n : r[i] = a ** s[i]
  PROVE  \A k \in 0..n : Total(First(r, k)) = a ** Total(First(s, k))
<1> DEFINE S == {k \in 0..n : Total(First(r, k)) = a ** Total(First(s, k))}
<1>1. n \in Nat /\ IsList(s, n) /\ \A i \in 1..n : IsFraction(s[i])
  BY DEF Fractions, IsList
<1>2. 0 \in S
  <2>1. Total(First(r, 0)) = Zero /\ Total(First(s, 0)) = Zero
    BY <1>1, TotalOfFirst
  <2>2. a ** Zero = Zero
    BY MultiplyOne
  <2> QED
    BY <1>1, <2>1, <2>2
<1>3. ASSUME NEW k \in 0..(n - 1), k \in S
      PROVE  k + 1 \in S
  <2>1. k \in Nat /\ k + 1 <= n /\ k + 1 \in 1..n /\ k \in 0..n /\ k + 1 \in 0..n
    BY <1>1
  <2>2. /\ Total(First(r, k + 1)) = Total(First(r, k)) ++ r[k + 1]
        /\ Total(First(s, k + 1)) = Total(First(s, k)) ++ s[k + 1]
    BY <1>1, <2>1, TotalOfFirst
  <2>3. IsFraction(Total(First(s, k))) /\ IsFraction(s[k + 1])
    BY <1>1, <2>1, TotalType
  <2>4. a ** (Total(First(s, k)) ++ s[k + 1]) = (a ** Total(First(s, k))) ++ (a ** s[k + 1])
    BY <2>3, DistributesLeft
  <2>5. r[k + 1] = a ** s[k + 1] /\ Total(First(r, k)) = a ** Total(First(s, k))
    BY <1>3, <2>1
  <2> QED
    BY <2>1, <2>2, <2>4, <2>5
<1> HIDE DEF S
<1>4. \A k \in 0..n : k \in S
  BY <1>1, <1>2, <1>3, BeginningInduction
<1> QED
  BY <1>4 DEF S

\* A total of values that are not negative is not, and is zero only if they all are.
LEMMA TotalNotNegative ==
  ASSUME NEW s, NEW n, IsList(s, n), \A i \in 1..n : NotNegative(s[i])
  PROVE  \A k \in 0..n : /\ NotNegative(Total(First(s, k)))
                         /\ Total(First(s, k)) = Zero <=> \A i \in 1..k : s[i] = Zero
<1> DEFINE Good(k) == /\ NotNegative(Total(First(s, k)))
                      /\ Total(First(s, k)) = Zero <=> \A i \in 1..k : s[i] = Zero
           S == {k \in 0..n : Good(k)}
<1>1. n \in Nat
  BY DEF IsList
<1>2. 0 \in S
  <2>1. Total(First(s, 0)) = Zero
    BY TotalOfFirst
  <2>2. NotNegative(Zero)
    BY ZeroShows, LessIsTotal DEF NotNegative
  <2> QED
    BY <1>1, <2>1, <2>2
<1>3. ASSUME NEW k \in 0..(n - 1), k \in S
      PROVE  k + 1 \in S
  <2>1. k \in Nat /\ k + 1 <= n /\ k + 1 \in 1..n /\ k \in 0..n /\ k + 1 \in 0..n
    BY <1>1
  <2>2. Total(First(s, k + 1)) = Total(First(s, k)) ++ s[k + 1]
    BY <2>1, TotalOfFirst
  <2>3. NotNegative(Total(First(s, k))) /\ NotNegative(s[k + 1])
    BY <1>3, <2>1
  <2>4. /\ NotNegative(Total(First(s, k + 1)))
        /\ Total(First(s, k + 1)) = Zero <=> Total(First(s, k)) = Zero /\ s[k + 1] = Zero
    BY Zenon, <2>2, <2>3, NotNegativeSum
  <2>5. Total(First(s, k)) = Zero <=> \A i \in 1..k : s[i] = Zero
    BY <1>3
  <2>6. (\A i \in 1..(k + 1) : s[i] = Zero) <=> (\A i \in 1..k : s[i] = Zero) /\ s[k + 1] = Zero
    <3>1. \A i \in 1..(k + 1) : i \in 1..k \/ i = k + 1
      BY <2>1
    <3>2. \A i \in 1..k : i \in 1..(k + 1)
      BY <2>1
    <3>3. k + 1 \in 1..(k + 1)
      BY <2>1
    <3> QED
      BY Zenon, <3>1, <3>2, <3>3
  <2> QED
    BY <2>1, <2>4, <2>5, <2>6
<1> HIDE DEF S
<1>4. \A k \in 0..n : k \in S
  BY <1>1, <1>2, <1>3, BeginningInduction
<1> QED
  BY <1>4 DEF S

\* The sum of a window is the difference of two sums from the start.
LEMMA TotalOfPiece ==
  ASSUME NEW s, NEW n, Fractions(s, n), NEW a \in 0..n, NEW b \in a..n
  PROVE  Total(SubSeq(s, a + 1, b)) = Total(First(s, b)) -- Total(First(s, a))
<1> DEFINE r == SubSeq(s, a + 1, n)
           S == {k \in 0..(n - a) : Total(First(r, k)) = Total(First(s, a + k)) -- Total(First(s, a))}
<1>1. n \in Nat /\ IsList(s, n) /\ \A i \in 1..n : IsFraction(s[i])
  BY DEF Fractions, IsList
<1>2. /\ a + 1 \in 1..(n + 1) /\ (a + 1) - 1 <= n /\ n <= n /\ n - a \in Nat
      /\ n - (a + 1) + 1 = n - a
  BY <1>1
<1>3. IsList(r, n - a) /\ \A i \in 1..(n - a) : r[i] = s[a + i]
  <2>1. IsList(r, n - (a + 1) + 1) /\ \A i \in 1..(n - (a + 1) + 1) : r[i] = s[i + (a + 1) - 1]
    BY <1>1, <1>2, PieceOfList
  <2>2. \A i \in 1..(n - a) : i + (a + 1) - 1 = a + i
    BY <1>2
  <2> QED
    BY <1>2, <2>1, <2>2
<1> HIDE DEF r
<1>4. 0 \in S
  <2>1. Total(First(r, 0)) = Zero
    BY <1>3, TotalOfFirst
  <2>2. IsFraction(Total(First(s, a)))
    BY TotalType
  <2>3. Total(First(s, a)) -- Total(First(s, a)) = Zero
    BY <2>2, AddZero
  <2>4. a + 0 = a /\ 0 \in 0..(n - a)
    BY <1>2
  <2> QED
    BY <2>1, <2>3, <2>4
<1>5. ASSUME NEW k \in 0..((n - a) - 1), k \in S
      PROVE  k + 1 \in S
  <2>1. /\ k \in Nat /\ k + 1 <= n - a /\ k + 1 \in 1..(n - a) /\ k + 1 \in 0..(n - a) /\ k \in 0..(n - a)
        /\ a + k \in 0..n /\ a + k \in Nat /\ (a + k) + 1 <= n /\ a + (k + 1) = (a + k) + 1
        /\ (a + k) + 1 \in 1..n
    BY <1>1
  <2>2. Total(First(r, k + 1)) = Total(First(r, k)) ++ r[k + 1]
    BY <1>3, <2>1, TotalOfFirst
  <2>3. Total(First(s, (a + k) + 1)) = Total(First(s, a + k)) ++ s[(a + k) + 1]
    BY <1>1, <2>1, TotalOfFirst
  <2>4. r[k + 1] = s[(a + k) + 1]
    BY <1>3, <2>1
  <2>5. IsFraction(Total(First(s, a + k))) /\ IsFraction(Total(First(s, a))) /\ IsFraction(s[(a + k) + 1])
    BY <1>1, <2>1, TotalType
  <2>6. Total(First(r, k)) = Total(First(s, a + k)) -- Total(First(s, a))
    BY <1>5
  <2>7. (Total(First(s, a + k)) -- Total(First(s, a))) ++ s[(a + k) + 1]
          = (Total(First(s, a + k)) ++ s[(a + k) + 1]) -- Total(First(s, a))
    BY Zenon, <2>5, AddToDifference
  <2> QED
    BY <2>1, <2>2, <2>3, <2>4, <2>6, <2>7
<1> HIDE DEF S
<1>6. \A k \in 0..(n - a) : k \in S
  BY <1>2, <1>4, <1>5, BeginningInduction
<1>7. b - a \in 0..(n - a) /\ a + (b - a) = b /\ b - a \in Nat /\ b - a <= n - a
  BY <1>1
<1>8. First(r, b - a) = SubSeq(s, a + 1, b)
  <2>1. IsList(First(r, b - a), b - a) /\ \A i \in 1..(b - a) : First(r, b - a)[i] = r[i] /\ i \in 1..(n - a)
    BY <1>3, <1>7, FirstIs
  <2>2. a + 1 \in 1..(n + 1) /\ b \in Nat /\ (a + 1) - 1 <= b /\ b <= n /\ b - (a + 1) + 1 = b - a
    BY <1>1
  <2>3. /\ IsList(SubSeq(s, a + 1, b), b - (a + 1) + 1)
        /\ \A i \in 1..(b - (a + 1) + 1) : SubSeq(s, a + 1, b)[i] = s[i + (a + 1) - 1]
    BY <1>1, <2>2, PieceOfList
  <2>4. \A i \in 1..(b - a) : i + (a + 1) - 1 = a + i
    BY <1>7
  <2>5. \A i \in 1..(b - a) : First(r, b - a)[i] = SubSeq(s, a + 1, b)[i]
    BY <1>3, <2>1, <2>2, <2>3, <2>4
  <2> QED
    BY <2>1, <2>2, <2>3, <2>5, ListsEqual
<1> QED
  BY <1>6, <1>7, <1>8 DEF S

-----------------------------------------------------------------------------
(* The loops of the averages compute what their definitions say.           *)

PowerLoop(a) == [kind |-> "power", first |-> Whole(1), alpha |-> a]

LEMMA PowerRuns ==
  ASSUME NEW a, NEW n \in Nat
  PROVE  \E f : IsRun(f, PowerLoop(a), n + 1) /\ Power(a, n) = f[n + 1]
<1> DEFINE loop == PowerLoop(a)
           At(g, i) == IF i = 0 THEN Whole(1) ELSE a ** g[i - 1]
           power == CHOOSE g : g = [i \in 0..n |-> At(g, i)]
<1>1. n \in Nat
  OBVIOUS
<1>2. Power(a, n) = power[n]
  BY Zenon DEF Power
<1>3. \A j, v : Moved(loop, j, v) = a ** v
  BY DEF Moved, PowerLoop
<1>4. loop.first = Whole(1)
  BY DEF PowerLoop
<1> HIDE DEF loop
<1>5. \E g : g = [i \in 0..n |-> At(g, i)]
  <2>1. PICK f : IsRun(f, loop, n + 1)
    BY <1>1, RunExists
  <2>2. \A j \in 1..(n + 1) : f[j] = ValueOf(f, loop, j)
    BY <2>1 DEF IsRun
  <2> DEFINE g == [i \in 0..n |-> f[i + 1]]
  <2>3. \A i \in 0..n : g[i] = f[i + 1]
    OBVIOUS
  <2>4. g = [i \in 0..n |-> g[i]]
    OBVIOUS
  <2> HIDE DEF g
  <2>5. ASSUME NEW i \in 0..n
        PROVE  g[i] = At(g, i)
    <3>1. i + 1 \in 1..(n + 1) /\ (i + 1) - 1 = i
      BY <1>1
    <3>2. g[i] = ValueOf(f, loop, i + 1)
      BY <2>2, <2>3, <3>1
    <3>3. CASE i = 0
      <4>1. i + 1 = 1
        BY <3>3
      <4> QED
        BY Zenon, <1>4, <3>2, <3>3, <4>1 DEF ValueOf
    <3>4. CASE i # 0
      <4>1. i + 1 # 1 /\ i - 1 \in 0..n /\ (i - 1) + 1 = i
        BY <1>1, <3>4
      <4>2. g[i - 1] = f[i]
        BY <2>3, <4>1
      <4>3. ValueOf(f, loop, i + 1) = a ** f[i]
        BY Zenon, <1>3, <3>1, <4>1 DEF ValueOf
      <4> QED
        BY Zenon, <3>2, <3>4, <4>2, <4>3
    <3> QED
      BY <3>3, <3>4
  <2> HIDE DEF At
  <2>6. g = [i \in 0..n |-> At(g, i)]
    BY <2>4, <2>5
  <2> QED
    BY Zenon, <2>6
<1>6. power = [i \in 0..n |-> At(power, i)]
  <2> HIDE DEF At
  <2> QED
    BY Zenon, <1>5
<1> HIDE DEF power
<1>7. \A i \in 0..n : power[i] = At(power, i)
  <2> HIDE DEF At
  <2> QED
    BY <1>6
<1> DEFINE f == [j \in 1..(n + 1) |-> power[j - 1]]
<1>8. IsList(f, n + 1) /\ \A j \in 1..(n + 1) : f[j] = power[j - 1]
  BY <1>1 DEF IsList
<1> HIDE DEF f
<1>9. ASSUME NEW j \in 1..(n + 1)
      PROVE  f[j] = ValueOf(f, loop, j)
  <2>1. j - 1 \in 0..n
    BY <1>1
  <2>2. f[j] = At(power, j - 1)
    BY <1>7, <1>8, <2>1
  <2>3. CASE j = 1
    BY <1>4, <2>2, <2>3 DEF ValueOf
  <2>4. CASE j # 1
    <3>1. j - 1 # 0 /\ j - 1 \in 1..(n + 1)
      BY <1>1, <2>4
    <3>2. f[j - 1] = power[(j - 1) - 1]
      BY <1>8, <3>1
    <3> QED
      BY Zenon, <1>3, <2>2, <2>4, <3>1, <3>2 DEF ValueOf
  <2> QED
    BY <2>3, <2>4
<1>10. IsRun(f, loop, n + 1)
  BY <1>8, <1>9 DEF IsRun
<1>11. Power(a, n) = f[n + 1]
  <2>1. n + 1 \in 1..(n + 1) /\ (n + 1) - 1 = n
    BY <1>1
  <2> QED
    BY <1>2, <1>8, <2>1
<1> QED
  BY Zenon, <1>10, <1>11 DEF loop

LEMMA PowerUnfolds ==
  ASSUME NEW a, NEW n \in Nat
  PROVE  Power(a, 0) = Whole(1) /\ Power(a, n + 1) = a ** Power(a, n)
<1> DEFINE loop == PowerLoop(a)
<1>1. PICK f : IsRun(f, loop, n + 1) /\ Power(a, n) = f[n + 1]
  BY PowerRuns
<1>2. n + 1 \in Nat
  OBVIOUS
<1>3. PICK g : IsRun(g, loop, (n + 1) + 1) /\ Power(a, n + 1) = g[(n + 1) + 1]
  BY <1>2, PowerRuns
<1>4. PICK h : IsRun(h, loop, 0 + 1) /\ Power(a, 0) = h[0 + 1]
  BY PowerRuns
<1>5. loop.first = Whole(1) /\ \A j, v : Moved(loop, j, v) = a ** v
  BY DEF Moved, PowerLoop
<1> HIDE DEF loop
<1>6. g[n + 1] = f[n + 1]
  <2>1. SameSteps(loop, loop, n + 1) /\ n + 1 <= (n + 1) + 1
    BY DEF SameSteps
  <2>2. Grows(f, n + 1, g, (n + 1) + 1)
    BY <1>1, <1>3, <2>1, RunsAgree
  <2> QED
    BY <2>2 DEF Grows
<1>7. g[(n + 1) + 1] = a ** g[n + 1]
  <2>1. /\ (n + 1) + 1 \in 1..((n + 1) + 1) /\ (n + 1) + 1 # 1 /\ ((n + 1) + 1) - 1 = n + 1
    OBVIOUS
  <2>2. g[(n + 1) + 1] = ValueOf(g, loop, (n + 1) + 1)
    BY <1>3, <2>1 DEF IsRun
  <2> QED
    BY Zenon, <1>5, <2>1, <2>2 DEF ValueOf
<1>8. h[0 + 1] = Whole(1)
  <2>1. 0 + 1 = 1 /\ 1 \in 1..1
    OBVIOUS
  <2>2. h[1] = ValueOf(h, loop, 1)
    BY <1>4, <2>1 DEF IsRun
  <2> QED
    BY Zenon, <1>5, <2>1, <2>2 DEF ValueOf
<1> QED
  BY <1>1, <1>3, <1>4, <1>6, <1>7, <1>8

LEMMA PowerType ==
  ASSUME NEW a, IsFraction(a), NEW n \in Nat
  PROVE  IsFraction(Power(a, n))
<1> DEFINE S == {k \in Nat : IsFraction(Power(a, k))}
<1>1. 0 \in S
  BY PowerUnfolds, WholeShows
<1>2. ASSUME NEW k \in S PROVE k + 1 \in S
  <2>1. Power(a, k + 1) = a ** Power(a, k)
    BY PowerUnfolds
  <2> QED
    BY <2>1, FractionsClosed
<1>3. S \subseteq Nat
  OBVIOUS
<1> HIDE DEF S
<1>4. S = Nat
  BY <1>1, <1>2, <1>3, NatSetInduction
<1> QED
  BY <1>4 DEF S

\* What a weighted average adds to the power of its rest times the first mean.
Terms(s, length, alpha, m) ==
  [k \in 1..m |-> (alpha ** Power(Whole(1) -- alpha, m - k)) ** s[length + k]]

LEMMA TermsType ==
  ASSUME NEW s, NEW n, Fractions(s, n), NEW length \in Nat, NEW m \in Nat, length + m <= n,
         NEW alpha, IsFraction(alpha)
  PROVE  Fractions(Terms(s, length, alpha, m), m)
<1> DEFINE rest == Whole(1) -- alpha
<1>1. n \in Nat /\ \A i \in 1..n : IsFraction(s[i])
  BY DEF Fractions, IsList
<1>2. IsFraction(rest)
  BY WholeShows, FractionsClosed
<1> HIDE DEF rest
<1>3. ASSUME NEW k \in 1..m
      PROVE  IsFraction((alpha ** Power(rest, m - k)) ** s[length + k])
  <2>1. m - k \in Nat /\ length + k \in 1..n
    BY <1>1
  <2>2. IsFraction(Power(rest, m - k)) /\ IsFraction(s[length + k])
    BY <1>1, <1>2, <2>1, PowerType
  <2>3. IsFraction(alpha ** Power(rest, m - k))
    BY <2>2, FractionsClosed
  <2> QED
    BY <2>2, <2>3, FractionsClosed
<1>4. /\ IsList(Terms(s, length, alpha, m), m)
      /\ \A k \in 1..m : Terms(s, length, alpha, m)[k] = (alpha ** Power(rest, m - k)) ** s[length + k]
  BY DEF Terms, IsList, rest
<1> QED
  BY <1>3, <1>4 DEF Fractions

LEMMA MoveOut ==
  ASSUME NEW a, IsFraction(a), NEW b, IsFraction(b), NEW c, IsFraction(c), NEW x, IsFraction(x)
  PROVE  (a ** (b ** c)) ** x = b ** ((a ** c) ** x)
<1>1. /\ IsFraction(b ** c) /\ IsFraction(a ** b) /\ IsFraction(b ** a) /\ IsFraction(a ** c)
  BY FractionsClosed
<1>2. a ** (b ** c) = (a ** b) ** c /\ a ** b = b ** a /\ (b ** a) ** c = b ** (a ** c)
  <2>1. (a ** b) ** c = a ** (b ** c)
    BY MultiplyAssociates
  <2>2. (b ** a) ** c = b ** (a ** c)
    BY MultiplyAssociates
  <2>3. a ** b = b ** a
    BY Zenon, MultiplyCommutes
  <2> QED
    BY <2>1, <2>2, <2>3
<1>3. (b ** (a ** c)) ** x = b ** ((a ** c) ** x)
  BY <1>1, MultiplyAssociates
<1> QED
  BY Zenon, <1>2, <1>3

LEMMA WeightedIs ==
  ASSUME NEW s, NEW length, NEW alpha, NEW m \in Nat, length \in Nat
  PROVE  Weighted(s, length, alpha, length + m)
           = (Power(Whole(1) -- alpha, m) ** Mean(First(s, length))) ++ Total(Terms(s, length, alpha, m))
<1>1. (length + m) - length = m
  OBVIOUS
<1> DEFINE i == length + m
<1>2. i - length = m
  BY <1>1
<1> HIDE DEF i
<1>3. Weighted(s, length, alpha, i)
        = (Power(Whole(1) -- alpha, i - length) ** Mean(First(s, length)))
            ++ Total([k \in 1..(i - length) |->
                        (alpha ** Power(Whole(1) -- alpha, i - length - k)) ** s[length + k]])
  BY Zenon DEF Weighted
<1> QED
  BY Zenon, <1>2, <1>3 DEF Terms, i

LEMMA WeightedStart ==
  ASSUME NEW s, NEW n, Fractions(s, n), NEW length \in Nat \ {0}, length <= n,
         NEW alpha, IsFraction(alpha)
  PROVE  Weighted(s, length, alpha, length + 0) = Mean(First(s, length))
<1> DEFINE rest == Whole(1) -- alpha
           mean == Mean(First(s, length))
<1>1. IsFraction(mean)
  <2>1. Fractions(First(s, length), length)
    BY FractionsFirst
  <2> QED
    BY <2>1, MeanType
<1>2. Weighted(s, length, alpha, length + 0) = mean
  <2>1. 0 \in Nat /\ length \in Nat
    OBVIOUS
  <2>2. Weighted(s, length, alpha, length + 0) = (Power(rest, 0) ** mean) ++ Total(Terms(s, length, alpha, 0))
    BY Zenon, <2>1, WeightedIs
  <2>3. Power(rest, 0) = Whole(1)
    BY PowerUnfolds
  <2>4. IsList(Terms(s, length, alpha, 0), 0)
    BY DEF Terms, IsList
  <2>5. Total(Terms(s, length, alpha, 0)) = Zero
    BY <2>4, TotalUnfolds
  <2>6. Whole(1) ** mean = mean /\ mean ++ Zero = mean
    BY <1>1, MultiplyOne, AddZero
  <2> QED
    BY Zenon, <2>2, <2>3, <2>5, <2>6
<1> QED
  BY <1>2

\* One more value counts with weight alpha, and all before it with the rest.
MovesOn(s, length, alpha, i) ==
  Weighted(s, length, alpha, i + 1)
    = (s[i + 1] ** alpha) ++ (Weighted(s, length, alpha, i) ** (Whole(1) -- alpha))

LEMMA WeightedUnfolds ==
  ASSUME NEW s, NEW n, Fractions(s, n), NEW length \in Nat \ {0}, NEW m \in Nat, length + m + 1 <= n,
         NEW alpha, IsFraction(alpha)
  PROVE  /\ IsFraction(Weighted(s, length, alpha, length + m))
         /\ MovesOn(s, length, alpha, length + m)
<1> DEFINE rest == Whole(1) -- alpha
           mean == Mean(First(s, length))
           t == Terms(s, length, alpha, m)
           p == Power(rest, m)
<1>1. n \in Nat /\ IsList(s, n) /\ \A i \in 1..n : IsFraction(s[i])
  BY DEF Fractions, IsList
<1>2. IsFraction(rest)
  BY WholeShows, FractionsClosed
<1>3. IsFraction(mean)
  <2>1. Fractions(First(s, length), length)
    BY <1>1, FractionsFirst
  <2> QED
    BY <2>1, MeanType
<1>4. Fractions(t, m)
  <2>1. length + m <= n /\ length \in Nat
    BY <1>1
  <2> QED
    BY <2>1, TermsType
<1>5. IsFraction(Total(t))
  BY <1>4, TotalType
<1>6. IsFraction(p)
  BY <1>2, PowerType
<1>7. Weighted(s, length, alpha, length + m) = (p ** mean) ++ Total(t)
  BY WeightedIs
<1>8. IsFraction(p ** mean)
  BY <1>3, <1>6, FractionsClosed
<1>9. IsFraction(Weighted(s, length, alpha, length + m))
  BY <1>5, <1>7, <1>8, FractionsClosed
<1>10. Weighted(s, length, alpha, length + m + 1)
         = (s[length + m + 1] ** alpha) ++ (Weighted(s, length, alpha, length + m) ** rest)
  <2> DEFINE u == Terms(s, length, alpha, m + 1)
             x == s[length + m + 1]
             q == Power(rest, m + 1)
  <2>1. /\ m + 1 \in Nat /\ length + (m + 1) = length + m + 1 /\ length + (m + 1) <= n
        /\ m + 1 # 0 /\ (m + 1) - 1 = m /\ m <= m + 1 /\ length + m + 1 \in 1..n
    BY <1>1
  <2>2. Weighted(s, length, alpha, length + m + 1) = (q ** mean) ++ Total(u)
    BY <2>1, WeightedIs
  <2>3. q = rest ** p /\ Power(rest, 0) = Whole(1)
    BY PowerUnfolds
  <2>4. IsFraction(x)
    BY <1>1, <2>1
  <2>5. Fractions(u, m + 1) /\ IsList(u, m + 1)
    <3>1. Fractions(u, m + 1)
      BY Zenon, <2>1, TermsType
    <3> QED
      BY <3>1 DEF Fractions
  <2>6. /\ \A k \in 1..(m + 1) : u[k] = (alpha ** Power(rest, (m + 1) - k)) ** s[length + k]
        /\ \A k \in 1..m : t[k] = (alpha ** Power(rest, m - k)) ** s[length + k]
    BY DEF Terms
  <2> HIDE DEF rest, u, t, mean, p, q, x
  <2>7. ASSUME NEW k \in 1..m
        PROVE  u[k] = rest ** t[k]
    <3>1. k \in 1..(m + 1) /\ (m + 1) - k = (m - k) + 1 /\ m - k \in Nat /\ length + k \in 1..n
      BY <1>1
    <3>2. Power(rest, (m + 1) - k) = rest ** Power(rest, m - k)
      BY <3>1, PowerUnfolds
    <3>3. IsFraction(Power(rest, m - k)) /\ IsFraction(s[length + k])
      BY <1>1, <1>2, <3>1, PowerType
    <3>4. (alpha ** (rest ** Power(rest, m - k))) ** s[length + k]
            = rest ** ((alpha ** Power(rest, m - k)) ** s[length + k])
      BY <1>2, <3>3, MoveOut
    <3> QED
      BY Zenon, <2>6, <3>1, <3>2, <3>4
  <2>8. Total(First(u, m)) = rest ** Total(t)
    <3>1. IsList(First(u, m), m) /\ \A k \in 1..m : First(u, m)[k] = u[k]
      BY <2>1, <2>5, FirstIs
    <3>2. \A k \in 1..m : First(u, m)[k] = rest ** t[k]
      BY <2>7, <3>1
    <3>3. m \in 0..m
      OBVIOUS
    <3>4. Total(First(First(u, m), m)) = rest ** Total(First(t, m))
      BY <1>2, <1>4, <3>1, <3>2, <3>3, TotalScales
    <3>5. First(First(u, m), m) = First(u, m) /\ First(t, m) = t
      BY <1>4, <3>1, FirstOfAll DEF Fractions
    <3> QED
      BY <3>4, <3>5
  <2>9. u[m + 1] = x ** alpha
    <3>1. m + 1 \in 1..(m + 1) /\ (m + 1) - (m + 1) = 0
      OBVIOUS
    <3>2. u[m + 1] = (alpha ** Whole(1)) ** x
      BY <2>1, <2>3, <2>6, <3>1 DEF x
    <3>3. alpha ** Whole(1) = alpha /\ alpha ** x = x ** alpha
      BY <2>4, MultiplyOne, MultiplyCommutes
    <3> QED
      BY Zenon, <3>2, <3>3
  <2>10. Total(u) = (rest ** Total(t)) ++ (x ** alpha)
    <3>1. Total(u) = Total(First(u, m)) ++ u[m + 1]
      BY <2>1, <2>5, TotalUnfolds
    <3> QED
      BY Zenon, <2>8, <2>9, <3>1
  <2>11. q ** mean = rest ** (p ** mean)
    BY <1>2, <1>3, <1>6, <2>3, MultiplyAssociates
  <2>12. (rest ** (p ** mean)) ++ ((rest ** Total(t)) ++ (x ** alpha))
           = ((rest ** (p ** mean)) ++ (rest ** Total(t))) ++ (x ** alpha)
    <3>1. IsFraction(rest ** (p ** mean)) /\ IsFraction(rest ** Total(t)) /\ IsFraction(x ** alpha)
      BY <1>2, <1>5, <1>8, <2>4, FractionsClosed
    <3> QED
      BY <3>1, AddAssociates
  <2>13. (rest ** (p ** mean)) ++ (rest ** Total(t)) = ((p ** mean) ++ Total(t)) ** rest
    <3>1. rest ** ((p ** mean) ++ Total(t)) = (rest ** (p ** mean)) ++ (rest ** Total(t))
      BY <1>2, <1>5, <1>8, DistributesLeft
    <3>2. IsFraction((p ** mean) ++ Total(t))
      BY <1>5, <1>8, FractionsClosed
    <3>3. rest ** ((p ** mean) ++ Total(t)) = ((p ** mean) ++ Total(t)) ** rest
      BY Zenon, <1>2, <3>2, MultiplyCommutes
    <3> QED
      BY Zenon, <3>1, <3>3
  <2>14. (((p ** mean) ++ Total(t)) ** rest) ++ (x ** alpha) = (x ** alpha) ++ (((p ** mean) ++ Total(t)) ** rest)
    <3>1. IsFraction((p ** mean) ++ Total(t)) /\ IsFraction(x ** alpha)
      BY <1>5, <1>8, <2>4, FractionsClosed
    <3>2. IsFraction(((p ** mean) ++ Total(t)) ** rest)
      BY <1>2, <3>1, FractionsClosed
    <3> QED
      BY Zenon, <3>1, <3>2, AddCommutes
  <2> QED
    BY Zenon, <1>7, <2>2, <2>10, <2>11, <2>12, <2>13, <2>14 DEF rest, t, mean, p, x
<1> QED
  BY <1>9, <1>10 DEF MovesOn

\* The same at an index.
LEMMA WeightedStep ==
  ASSUME NEW s, NEW n, Fractions(s, n), NEW length \in Nat \ {0}, NEW i \in Nat, length <= i, i + 1 <= n,
         NEW alpha, IsFraction(alpha)
  PROVE  IsFraction(Weighted(s, length, alpha, i)) /\ MovesOn(s, length, alpha, i)
<1> DEFINE m == i - length
<1>1. m \in Nat /\ length + m + 1 <= n /\ length + m = i
  OBVIOUS
<1> HIDE DEF m
<1>2. IsFraction(Weighted(s, length, alpha, length + m)) /\ MovesOn(s, length, alpha, length + m)
  BY Zenon, <1>1, WeightedUnfolds
<1> QED
  BY <1>1, <1>2

\* The values of a loop that starts with a mean and moves on with weights.
Averages(f, s, n, length, alpha) ==
  /\ f[1] = Mean(First(s, length))
  /\ \A j \in 2..(n - length + 1) : IsFraction(f[j - 1]) =>
       f[j] = (s[length + j - 1] ** alpha) ++ (f[j - 1] ** (Whole(1) -- alpha))

LEMMA WeightedRuns ==
  ASSUME NEW s, NEW n, Fractions(s, n), NEW length \in Nat \ {0}, length <= n,
         NEW alpha, IsFraction(alpha), NEW f, Averages(f, s, n, length, alpha)
  PROVE  \A j \in 1..(n - length + 1) : f[j] = Weighted(s, length, alpha, length + j - 1)
<1> DEFINE S == {j \in 1..(n - length + 1) : f[j] = Weighted(s, length, alpha, length + j - 1)}
<1>1. n \in Nat /\ n - length + 1 \in Nat /\ 1 \in 1..(n - length + 1)
  BY DEF Fractions, IsList
<1>2. 1 \in S
  <2>1. length + 1 - 1 = length + 0
    OBVIOUS
  <2>2. Weighted(s, length, alpha, length + 0) = Mean(First(s, length))
    BY WeightedStart
  <2> QED
    BY <1>1, <2>1, <2>2 DEF Averages
<1>3. ASSUME NEW j \in 2..(n - length + 1), j - 1 \in S
      PROVE  j \in S
  <2> DEFINE i == length + j - 2
  <2>1. /\ i \in Nat /\ length <= i /\ i + 1 <= n
        /\ length + (j - 1) - 1 = i /\ length + j - 1 = i + 1
        /\ j \in 1..(n - length + 1)
    BY <1>1
  <2> HIDE DEF i
  <2>2. IsFraction(Weighted(s, length, alpha, i)) /\ MovesOn(s, length, alpha, i)
    BY Zenon, <2>1, WeightedStep
  <2>3. f[j - 1] = Weighted(s, length, alpha, i)
    BY <1>3, <2>1
  <2>4. f[j] = (s[i + 1] ** alpha) ++ (Weighted(s, length, alpha, i) ** (Whole(1) -- alpha))
    BY <2>1, <2>2, <2>3 DEF Averages
  <2> QED
    BY <2>1, <2>2, <2>4 DEF MovesOn
<1> HIDE DEF S
<1>4. \A j \in 1..(n - length + 1) : j \in S
  BY <1>1, <1>2, <1>3, RangeInduction
<1> QED
  BY <1>4 DEF S

LEMMA SmoothedIsWeighted ==
  ASSUME NEW s, NEW n, Fractions(s, n), NEW length \in Nat \ {0}, length < n,
         NEW alpha, IsFraction(alpha)
  PROVE  /\ IsList(Smoothed(s, length, alpha), n - length + 1)
         /\ \A j \in 1..(n - length + 1) :
              Smoothed(s, length, alpha)[j] = Weighted(s, length, alpha, length + j - 1)
<1> DEFINE f == Smoothed(s, length, alpha)
           loop == SmoothedLoop(s, length, alpha)
           m == n - length + 1
<1>1. IsList(s, n) /\ n \in Nat
  BY DEF Fractions, IsList
<1>2. IsRun(f, loop, m)
  BY <1>1, SmoothedRuns
<1>3. /\ loop.first = Mean(First(s, length))
      /\ \A j, v : Moved(loop, j, v) = (s[length + j - 1] ** alpha) ++ (v ** (Whole(1) -- alpha))
  BY DEF Moved, SmoothedLoop
<1> HIDE DEF f, loop
<1>4. IsList(f, m) /\ \A j \in 1..m : f[j] = ValueOf(f, loop, j)
  BY <1>2 DEF IsRun
<1> HIDE DEF m
<1>5. f[1] = Mean(First(s, length))
  <2>1. 1 \in 1..m
    BY <1>1 DEF m
  <2> QED
    BY Zenon, <1>3, <1>4, <2>1 DEF ValueOf
<1>6. ASSUME NEW j \in 2..m
      PROVE  f[j] = (s[length + j - 1] ** alpha) ++ (f[j - 1] ** (Whole(1) -- alpha))
  <2>1. j \in 1..m /\ j # 1
    BY <1>1 DEF m
  <2> QED
    BY Zenon, <1>3, <1>4, <2>1 DEF ValueOf
<1>7. length <= n
  BY <1>1
<1>8. \A j \in 1..m : f[j] = Weighted(s, length, alpha, length + j - 1)
  BY <1>5, <1>6, <1>7, WeightedRuns DEF m, Averages
<1> QED
  BY <1>4, <1>8 DEF f, m

\* A step of Wilder's smoothing gives the new value one part of length.
LEMMA WilderStep ==
  ASSUME NEW v, IsFraction(v), NEW x, IsFraction(x), NEW length \in Nat \ {0}
  PROVE  LET alpha == Frac(1, length)
         IN  ((v ** Whole(length - 1)) ++ x) // Whole(length)
               = (x ** alpha) ++ (v ** (Whole(1) -- alpha))
<1> DEFINE alpha == Frac(1, length)
           w == Whole(length)
           before == Whole(length - 1)
<1>1. /\ IsFraction(w) /\ Less(Zero, w) /\ IsFraction(before) /\ IsFraction(Whole(1))
      /\ length - 1 \in Int /\ length \in Int /\ length > 0
  BY WholePositive
<1>2. alpha = Reciprocal(w) /\ IsFraction(alpha)
  BY PartIs
<1>3. before = w -- Whole(1)
  BY <1>1, WholesAdd
<1> HIDE DEF alpha, w, before
<1>4. w ** alpha = Whole(1)
  BY <1>1, <1>2, DivideIs
<1>5. IsFraction(v ** before) /\ IsFraction((v ** before) ++ x)
  BY <1>1, FractionsClosed
<1>6. ((v ** before) ++ x) // w = ((v ** before) ++ x) ** alpha
  BY <1>1, <1>2, <1>5, DivideIs
<1>7. ((v ** before) ++ x) ** alpha = ((v ** before) ** alpha) ++ (x ** alpha)
  BY <1>2, <1>5, MultiplyDistributes
<1>8. (v ** before) ** alpha = v ** (before ** alpha)
  BY <1>1, <1>2, MultiplyAssociates
<1>9. before ** alpha = Whole(1) -- alpha
  <2>1. (w -- Whole(1)) ** alpha = (w ** alpha) -- (Whole(1) ** alpha)
    BY <1>1, <1>2, MultiplyDistributes
  <2>2. Whole(1) ** alpha = alpha
    BY <1>2, MultiplyOne
  <2> QED
    BY Zenon, <1>3, <1>4, <2>1, <2>2
<1>10. (v ** (Whole(1) -- alpha)) ++ (x ** alpha) = (x ** alpha) ++ (v ** (Whole(1) -- alpha))
  <2>1. IsFraction(Whole(1) -- alpha) /\ IsFraction(x ** alpha)
    BY <1>1, <1>2, FractionsClosed
  <2>2. IsFraction(v ** (Whole(1) -- alpha))
    BY <2>1, FractionsClosed
  <2> QED
    BY Zenon, <2>1, <2>2, AddCommutes
<1> QED
  BY Zenon, <1>6, <1>7, <1>8, <1>9, <1>10 DEF alpha, w, before

LEMMA WilderMoves ==
  ASSUME NEW s, NEW n, IsList(s, n), NEW length \in Nat \ {0}, length <= n
  PROVE  LET f == Wilder(s, length)
             m == n - length + 1
         IN  /\ IsList(f, m) /\ 1 \in 1..m
             /\ f[1] = Mean(First(s, length))
             /\ \A j \in 2..m :
                  f[j] = ((f[j - 1] ** Whole(length - 1)) ++ s[length + j - 1]) // Whole(length)
<1> DEFINE f == Wilder(s, length)
           loop == WilderLoop(s, length)
           m == n - length + 1
<1>1. n \in Nat
  BY DEF IsList
<1>2. IsRun(f, loop, m)
  BY <1>1, WilderRuns
<1>3. /\ loop.first = Mean(First(s, length))
      /\ \A j, v : Moved(loop, j, v) = ((v ** Whole(length - 1)) ++ s[length + j - 1]) // Whole(length)
  BY DEF Moved, WilderLoop
<1> HIDE DEF f, loop
<1>4. IsList(f, m) /\ \A j \in 1..m : f[j] = ValueOf(f, loop, j)
  BY <1>2 DEF IsRun
<1>5. 1 \in 1..m
  BY <1>1
<1> HIDE DEF m
<1>6. f[1] = Mean(First(s, length))
  BY Zenon, <1>3, <1>4, <1>5 DEF ValueOf
<1>7. ASSUME NEW j \in 2..m
      PROVE  f[j] = ((f[j - 1] ** Whole(length - 1)) ++ s[length + j - 1]) // Whole(length)
  <2>1. j \in 1..m /\ j # 1
    BY <1>1 DEF m
  <2> QED
    BY Zenon, <1>3, <1>4, <2>1 DEF ValueOf
<1> QED
  BY <1>4, <1>5, <1>6, <1>7 DEF f, m

LEMMA WilderIsWeighted ==
  ASSUME NEW s, NEW n, Fractions(s, n), NEW length \in Nat \ {0}, length <= n
  PROVE  /\ IsList(Wilder(s, length), n - length + 1)
         /\ \A j \in 1..(n - length + 1) :
              Wilder(s, length)[j] = Weighted(s, length, Frac(1, length), length + j - 1)
<1> DEFINE f == Wilder(s, length)
           alpha == Frac(1, length)
<1>1. IsList(s, n) /\ n \in Nat /\ \A i \in 1..n : IsFraction(s[i])
  BY DEF Fractions, IsList
<1>2. /\ IsList(f, n - length + 1)
      /\ f[1] = Mean(First(s, length))
      /\ \A j \in 2..(n - length + 1) :
           f[j] = ((f[j - 1] ** Whole(length - 1)) ++ s[length + j - 1]) // Whole(length)
  BY Zenon, <1>1, WilderMoves
<1>3. IsFraction(alpha)
  BY PartIs
<1> HIDE DEF f
<1>4. ASSUME NEW j \in 2..(n - length + 1), IsFraction(f[j - 1])
      PROVE  f[j] = (s[length + j - 1] ** alpha) ++ (f[j - 1] ** (Whole(1) -- alpha))
  <2>1. length + j - 1 \in 1..n
    BY <1>1
  <2>2. IsFraction(s[length + j - 1])
    BY <1>1, <2>1
  <2>3. ((f[j - 1] ** Whole(length - 1)) ++ s[length + j - 1]) // Whole(length)
          = (s[length + j - 1] ** alpha) ++ (f[j - 1] ** (Whole(1) -- alpha))
    BY Zenon, <1>4, <2>2, WilderStep
  <2> QED
    BY <1>2, <2>3
<1> HIDE DEF alpha
<1>5. \A j \in 1..(n - length + 1) : f[j] = Weighted(s, length, alpha, length + j - 1)
  BY <1>2, <1>3, <1>4, WeightedRuns DEF Averages
<1> QED
  BY <1>2, <1>5 DEF f, alpha

\* The sum that moves along is the total of the window.
LEMMA SMAIsMean ==
  ASSUME NEW s, NEW n, Fractions(s, n), NEW length \in Nat \ {0}, length < n
  PROVE  \A j \in 1..(n - length + 1) : SMA(s, length)[j] = Mean(SubSeq(s, j, length + j - 1))
<1> DEFINE loop == SumLoop(s, length)
           m == n - length + 1
           P(k) == Total(First(s, k))
<1>1. IsList(s, n) /\ n \in Nat /\ \A i \in 1..n : IsFraction(s[i])
  BY DEF Fractions, IsList
<1>2. PICK f : /\ IsRun(f, loop, m)
               /\ SMA(s, length) = [j \in 1..m |-> f[j] // Whole(length)]
  BY <1>1, SumRuns
<1>3. /\ loop.first = P(length)
      /\ \A j, v : Moved(loop, j, v) = (v -- s[j - 1]) ++ s[length + j - 1]
  BY DEF Moved, SumLoop
<1> HIDE DEF loop
<1>4. IsList(f, m) /\ \A j \in 1..m : f[j] = ValueOf(f, loop, j)
  BY <1>2 DEF IsRun
<1> DEFINE S == {j \in 1..m : f[j] = P(length + j - 1) -- P(j - 1)}
<1>5. 1 \in S
  <2>1. 1 \in 1..m /\ length + 1 - 1 = length /\ 1 - 1 = 0 /\ length \in 0..n
    BY <1>1
  <2>2. f[1] = P(length)
    <3> HIDE DEF m, P
    <3> QED
      BY Zenon, <1>3, <1>4, <2>1 DEF ValueOf
  <2>3. P(0) = Zero
    BY <1>1, TotalOfFirst
  <2>4. IsFraction(P(length))
    BY <2>1, TotalType
  <2>5. P(length) -- Zero = P(length)
    BY <2>4, AddZero
  <2> HIDE DEF P
  <2> QED
    BY <2>1, <2>2, <2>3, <2>5
<1>6. ASSUME NEW j \in 2..m, j - 1 \in S
      PROVE  j \in S
  <2> DEFINE k == j - 2
             i == length + j - 2
  <2>1. /\ k \in Nat /\ i \in Nat /\ k \in 0..n /\ i \in 0..n /\ k + 1 <= n /\ i + 1 <= n
        /\ k + 1 \in 1..n /\ i + 1 \in 1..n
        /\ j - 1 = k + 1 /\ (j - 1) - 1 = k /\ length + (j - 1) - 1 = i /\ length + j - 1 = i + 1
        /\ j \in 1..m /\ j # 1
    BY <1>1
  <2> HIDE DEF k, i
  <2>2. f[j] = (f[j - 1] -- s[j - 1]) ++ s[length + j - 1]
    <3> HIDE DEF m, P
    <3> QED
      BY Zenon, <1>3, <1>4, <2>1 DEF ValueOf
  <2>3. f[j - 1] = P(i) -- P(k)
    BY <1>6, <2>1
  <2>4. P(i + 1) = P(i) ++ s[i + 1] /\ P(k + 1) = P(k) ++ s[k + 1]
    BY <1>1, <2>1, TotalOfFirst
  <2>5. IsFraction(P(i)) /\ IsFraction(P(k)) /\ IsFraction(s[i + 1]) /\ IsFraction(s[k + 1])
    BY <1>1, <2>1, TotalType
  <2> HIDE DEF P
  <2>6. ((P(i) -- P(k)) -- s[k + 1]) ++ s[i + 1] = (P(i) ++ s[i + 1]) -- (P(k) ++ s[k + 1])
    BY <2>5, Exchange
  <2>7. f[j] = P(i + 1) -- P(k + 1)
    BY <2>1, <2>2, <2>3, <2>4, <2>6
  <2> QED
    BY <2>1, <2>7
<1>7. \A j \in 1..m : j \in S
  <2> HIDE DEF S
  <2>1. m \in Nat
    BY <1>1
  <2> QED
    BY <1>5, <1>6, <2>1, RangeInduction
<1> SUFFICES ASSUME NEW j \in 1..m
             PROVE  SMA(s, length)[j] = Mean(SubSeq(s, j, length + j - 1))
  OBVIOUS
<1>8. f[j] = P(length + j - 1) -- P(j - 1)
  BY <1>7
<1>9. /\ j - 1 \in 0..n /\ length + j - 1 \in (j - 1)..n /\ (j - 1) + 1 = j /\ j \in 1..(n + 1)
      /\ length + j - 1 \in Nat /\ j - 1 <= length + j - 1 /\ length + j - 1 <= n
      /\ (length + j - 1) - j + 1 = length
  BY <1>1
<1>10. Total(SubSeq(s, (j - 1) + 1, length + j - 1)) = P(length + j - 1) -- P(j - 1)
  BY <1>9, TotalOfPiece
<1>11. IsList(SubSeq(s, j, length + j - 1), length)
  <2>1. IsList(SubSeq(s, j, length + j - 1), (length + j - 1) - j + 1)
    BY <1>1, <1>9, PieceOfList
  <2> QED
    BY <1>9, <2>1
<1>12. Len(SubSeq(s, j, length + j - 1)) = length
  BY <1>11, ListIsSeq
<1>13. Mean(SubSeq(s, j, length + j - 1)) = (P(length + j - 1) -- P(j - 1)) // Whole(length)
  BY <1>9, <1>10, <1>12 DEF Mean
<1>14. SMA(s, length)[j] = f[j] // Whole(length)
  BY <1>2
<1> QED
  BY Zenon, <1>8, <1>13, <1>14

LEMMA LengthsFit ==
  /\ Length \in Nat \ {0} /\ Length >= 2 /\ SlowLength \in Nat \ {0} /\ SlowLength > Length
  /\ SignalLengths \subseteq Nat \ {0}
  /\ IsFraction(Frac(2, Length + 1)) /\ IsFraction(Frac(2, SlowLength + 1)) /\ IsFraction(Frac(1, Length))
<1>1. /\ Length \in Nat \ {0} /\ Length >= 2 /\ SlowLength \in Nat \ {0} /\ SlowLength > Length
      /\ SignalLengths \subseteq Nat \ {0}
  BY ChartAssumption
<1>2. 2 \in Int /\ 1 \in Int /\ Length + 1 \in Nat \ {0} /\ SlowLength + 1 \in Nat \ {0}
  BY <1>1
<1>3. IsFraction(Frac(2, Length + 1)) /\ IsFraction(Frac(2, SlowLength + 1)) /\ IsFraction(Frac(1, Length))
  BY <1>1, <1>2, FracType
<1> QED
  BY <1>1, <1>3

LEMMA MeansAreDefined ==
  ASSUME NEW s, NEW n, Fractions(s, n)
  PROVE  MeansMatch(s)
<1> DEFINE Match(sma, ema, rma) == \A j \in 1..(Len(s) - Length + 1) :
             LET i == Length + j - 1
             IN  /\ sma[j] = Mean(SubSeq(s, j, i))
                 /\ ema[j] = Weighted(s, Length, Frac(2, Length + 1), i)
                 /\ rma[j] = Wilders(s, i)
<1>1. Len(s) = n /\ n \in Nat
  BY ListIsSeq DEF Fractions
<1>2. ASSUME Len(s) > Length
      PROVE  Match(SMA(s, Length), EMA(s, Length), RMA(s, Length))
  <2>1. Length < n
    BY <1>1, <1>2, LengthsFit
  <2>2. \A j \in 1..(n - Length + 1) : SMA(s, Length)[j] = Mean(SubSeq(s, j, Length + j - 1))
    BY <2>1, LengthsFit, SMAIsMean
  <2>3. \A j \in 1..(n - Length + 1) :
          EMA(s, Length)[j] = Weighted(s, Length, Frac(2, Length + 1), Length + j - 1)
    BY <2>1, LengthsFit, SmoothedIsWeighted DEF EMA
  <2>4. \A j \in 1..(n - Length + 1) : RMA(s, Length)[j] = Wilders(s, Length + j - 1)
    BY <2>1, LengthsFit, SmoothedIsWeighted DEF RMA, Wilders
  <2> QED
    BY Zenon, <1>1, <2>2, <2>3, <2>4
<1> QED
  BY <1>2 DEF MeansMatch


-----------------------------------------------------------------------------
(* Wilder's smoothing of sums, and of values that are not negative; the    *)
(* strength of gains.                                                      *)

\* A quotient is what the divisor is multiplied with.
LEMMA RatioIs ==
  ASSUME NEW a, IsFraction(a), NEW b, IsFraction(b), Less(Zero, b), NEW c, IsFraction(c)
  PROVE  a // b = c <=> a = c ** b
<1> DEFINE r == Reciprocal(b)
<1>1. a // b = a ** r /\ b ** r = Whole(1) /\ IsFraction(r)
  BY DivideIs
<1> HIDE DEF r
<1>2. c ** (b ** r) = c /\ a ** (b ** r) = a
  BY <1>1, MultiplyOne
<1>3. (c ** b) ** r = c ** (b ** r) /\ (a ** r) ** b = a ** (r ** b)
  BY <1>1, MultiplyAssociates
<1>4. r ** b = b ** r
  BY <1>1, MultiplyCommutes
<1> QED
  BY Zenon, <1>1, <1>2, <1>3, <1>4

LEMMA DivideAdds ==
  ASSUME NEW a, IsFraction(a), NEW b, IsFraction(b), NEW w, IsFraction(w), Less(Zero, w)
  PROVE  /\ (a ++ b) // w = (a // w) ++ (b // w)
         /\ IsFraction(a // w) /\ IsFraction(b // w)
<1> DEFINE r == Reciprocal(w)
<1>1. IsFraction(a ++ b)
  BY FractionsClosed
<1>2. /\ IsFraction(r) /\ a // w = a ** r /\ b // w = b ** r /\ (a ++ b) // w = (a ++ b) ** r
      /\ IsFraction(a // w) /\ IsFraction(b // w)
  BY <1>1, DivideIs
<1> HIDE DEF r
<1>3. (a ++ b) ** r = (a ** r) ++ (b ** r)
  BY <1>2, MultiplyDistributes
<1> QED
  BY Zenon, <1>2, <1>3

LEMMA MeanOfFirst ==
  ASSUME NEW s, NEW n, IsList(s, n), NEW length \in Nat, length <= n
  PROVE  Mean(First(s, length)) = Total(First(s, length)) // Whole(length)
<1>1. IsList(First(s, length), length)
  BY FirstIs
<1>2. Len(First(s, length)) = length
  BY <1>1, ListIsSeq
<1> QED
  BY Zenon, <1>2 DEF Mean

Sums(r, s, t, n) == IsList(r, n) /\ \A i \in 1..n : r[i] = s[i] ++ t[i]

LEMMA SumMoves ==
  ASSUME NEW v, IsFraction(v), NEW w, IsFraction(w), NEW x, IsFraction(x), NEW y, IsFraction(y),
         NEW length \in Nat \ {0}
  PROVE  LET Step(before, entering) == ((before ** Whole(length - 1)) ++ entering) // Whole(length)
         IN  Step(v ++ w, x ++ y) = Step(v, x) ++ Step(w, y)
<1> DEFINE c == Whole(length - 1)
           e == Whole(length)
<1>1. IsFraction(c) /\ IsFraction(e) /\ Less(Zero, e)
  <2>1. length - 1 \in Int /\ length \in Int /\ length > 0
    OBVIOUS
  <2> QED
    BY <2>1, WholePositive
<1> HIDE DEF c, e
<1>2. (v ++ w) ** c = (v ** c) ++ (w ** c)
  BY <1>1, MultiplyDistributes
<1>3. IsFraction(v ** c) /\ IsFraction(w ** c)
  BY <1>1, FractionsClosed
<1>4. ((v ** c) ++ (w ** c)) ++ (x ++ y) = ((v ** c) ++ x) ++ ((w ** c) ++ y)
  BY <1>3, Exchange
<1>5. IsFraction((v ** c) ++ x) /\ IsFraction((w ** c) ++ y)
  BY <1>3, FractionsClosed
<1>6. (((v ** c) ++ x) ++ ((w ** c) ++ y)) // e = (((v ** c) ++ x) // e) ++ (((w ** c) ++ y) // e)
  BY <1>1, <1>5, DivideAdds
<1> QED
  BY Zenon, <1>2, <1>4, <1>6 DEF c, e

LEMMA WilderAdds ==
  ASSUME NEW s, NEW t, NEW r, NEW n, Fractions(s, n), Fractions(t, n), Sums(r, s, t, n),
         NEW length \in Nat \ {0}, length <= n
  PROVE  \A j \in 1..(n - length + 1) : Wilder(r, length)[j] = Wilder(s, length)[j] ++ Wilder(t, length)[j]
<1> DEFINE f == Wilder(r, length)
           g == Wilder(s, length)
           h == Wilder(t, length)
           m == n - length + 1
           S == {j \in 1..m : f[j] = g[j] ++ h[j]}
<1>1. /\ IsList(s, n) /\ IsList(t, n) /\ IsList(r, n) /\ n \in Nat
      /\ \A i \in 1..n : IsFraction(s[i]) /\ IsFraction(t[i])
  BY DEF Fractions, IsList, Sums
<1>2. /\ 1 \in 1..m /\ f[1] = Mean(First(r, length))
      /\ \A j \in 2..m : f[j] = ((f[j - 1] ** Whole(length - 1)) ++ r[length + j - 1]) // Whole(length)
  BY Zenon, <1>1, WilderMoves
<1>3. /\ g[1] = Mean(First(s, length))
      /\ \A j \in 2..m : g[j] = ((g[j - 1] ** Whole(length - 1)) ++ s[length + j - 1]) // Whole(length)
  BY Zenon, <1>1, WilderMoves
<1>4. /\ h[1] = Mean(First(t, length))
      /\ \A j \in 2..m : h[j] = ((h[j - 1] ** Whole(length - 1)) ++ t[length + j - 1]) // Whole(length)
  BY Zenon, <1>1, WilderMoves
<1>5. Fractions(g, m) /\ Fractions(h, m)
  BY WilderType
<1>6. \A j \in 1..m : IsFraction(g[j]) /\ IsFraction(h[j])
  BY <1>5 DEF Fractions
<1> HIDE DEF f, g, h
<1>7. 1 \in S
  <2>1. /\ Mean(First(r, length)) = Total(First(r, length)) // Whole(length)
        /\ Mean(First(s, length)) = Total(First(s, length)) // Whole(length)
        /\ Mean(First(t, length)) = Total(First(t, length)) // Whole(length)
    <3>1. length \in Nat
      OBVIOUS
    <3> QED
      BY Zenon, <1>1, <3>1, MeanOfFirst
  <2>2. length \in 0..n /\ length \in Int /\ length > 0
    BY <1>1
  <2>3. Total(First(r, length)) = Total(First(s, length)) ++ Total(First(t, length))
    <3>1. \A k \in 0..n : Total(First(r, k)) = Total(First(s, k)) ++ Total(First(t, k))
      BY TotalAdds DEF Sums
    <3> QED
      BY <2>2, <3>1
  <2>4. IsFraction(Total(First(s, length))) /\ IsFraction(Total(First(t, length)))
    BY <2>2, TotalType
  <2>5. IsFraction(Whole(length)) /\ Less(Zero, Whole(length))
    BY <2>2, WholePositive
  <2>6. (Total(First(s, length)) ++ Total(First(t, length))) // Whole(length)
          = (Total(First(s, length)) // Whole(length)) ++ (Total(First(t, length)) // Whole(length))
    BY <2>4, <2>5, DivideAdds
  <2> QED
    BY <1>2, <1>3, <1>4, <2>1, <2>3, <2>6
<1>8. ASSUME NEW j \in 2..m, j - 1 \in S
      PROVE  j \in S
  <2> DEFINE i == length + j - 1
  <2>1. i \in 1..n /\ j - 1 \in 1..m /\ j \in 1..m
    BY <1>1
  <2>2. IsFraction(s[i]) /\ IsFraction(t[i]) /\ r[i] = s[i] ++ t[i]
    BY <1>1, <2>1 DEF Sums
  <2>3. IsFraction(g[j - 1]) /\ IsFraction(h[j - 1])
    BY <1>6, <2>1
  <2>4. f[j - 1] = g[j - 1] ++ h[j - 1]
    BY <1>8
  <2>5. f[j] = ((f[j - 1] ** Whole(length - 1)) ++ r[i]) // Whole(length)
    BY <1>2
  <2>6. /\ g[j] = ((g[j - 1] ** Whole(length - 1)) ++ s[i]) // Whole(length)
        /\ h[j] = ((h[j - 1] ** Whole(length - 1)) ++ t[i]) // Whole(length)
    BY <1>3, <1>4
  <2> HIDE DEF i, m
  <2>7. (((g[j - 1] ++ h[j - 1]) ** Whole(length - 1)) ++ (s[i] ++ t[i])) // Whole(length)
          = (((g[j - 1] ** Whole(length - 1)) ++ s[i]) // Whole(length))
              ++ (((h[j - 1] ** Whole(length - 1)) ++ t[i]) // Whole(length))
    BY <2>2, <2>3, SumMoves
  <2>8. f[j] = g[j] ++ h[j]
    BY Zenon, <2>2, <2>4, <2>5, <2>6, <2>7
  <2> QED
    BY <2>1, <2>8
<1> HIDE DEF S
<1>9. \A j \in 1..m : j \in S
  <2>1. m \in Nat
    BY <1>1
  <2> QED
    BY <1>7, <1>8, <2>1, RangeInduction
<1> QED
  BY <1>9 DEF S, f, g, h

NotNegatives(s, n) == IsList(s, n) /\ \A i \in 1..n : NotNegative(s[i])

\* The smoothed value is zero only as long as all values have been.
LEMMA WilderNotNegative ==
  ASSUME NEW s, NEW n, NotNegatives(s, n), NEW length \in Nat, length >= 2, length <= n
  PROVE  \A j \in 1..(n - length + 1) :
           /\ NotNegative(Wilder(s, length)[j])
           /\ Wilder(s, length)[j] = Zero <=> \A i \in 1..(length + j - 1) : s[i] = Zero
<1> DEFINE f == Wilder(s, length)
           m == n - length + 1
           Still(k) == \A i \in 1..k : s[i] = Zero
           S == {j \in 1..m : NotNegative(f[j]) /\ (f[j] = Zero <=> Still(length + j - 1))}
<1>1. IsList(s, n) /\ n \in Nat /\ (\A i \in 1..n : NotNegative(s[i])) /\ length \in Nat \ {0} /\ m \in Nat
  BY DEF NotNegatives, IsList
<1>2. /\ 1 \in 1..m /\ f[1] = Mean(First(s, length))
      /\ \A j \in 2..m : f[j] = ((f[j - 1] ** Whole(length - 1)) ++ s[length + j - 1]) // Whole(length)
  BY Zenon, <1>1, WilderMoves
<1> HIDE DEF f
<1>3. 1 \in S
  <2>1. f[1] = Total(First(s, length)) // Whole(length)
    BY <1>1, <1>2, MeanOfFirst
  <2>2. length \in 0..n /\ length + 1 - 1 = length
    BY <1>1
  <2>3. NotNegative(Total(First(s, length))) /\ (Total(First(s, length)) = Zero <=> Still(length))
    BY <1>1, <2>2, TotalNotNegative
  <2>4. NotNegative(f[1]) /\ (f[1] = Zero <=> Total(First(s, length)) = Zero)
    <3> DEFINE total == Total(First(s, length))
    <3>1. NotNegative(total) /\ length \in Nat \ {0}
      BY Zenon, <1>1, <2>3
    <3> HIDE DEF total, Still, S
    <3>2. NotNegative(total // Whole(length)) /\ (total // Whole(length) = Zero <=> total = Zero)
      BY Zenon, <3>1, NotNegativeScaled
    <3> QED
      BY Zenon, <2>1, <3>2 DEF total
  <2> HIDE DEF Still
  <2> QED
    BY <1>2, <2>2, <2>3, <2>4
<1>4. ASSUME NEW j \in 2..m, j - 1 \in S
      PROVE  j \in S
  <2> DEFINE i == length + (j - 1) - 1
             before == f[j - 1] ** Whole(length - 1)
  <2>1. /\ i \in Nat /\ i + 1 \in 1..n /\ i + 1 = length + j - 1 /\ length - 1 \in Nat \ {0}
        /\ j \in 1..m
    BY <1>1
  <2>2. NotNegative(f[j - 1]) /\ (f[j - 1] = Zero <=> Still(i))
    BY <1>4
  <2>3. NotNegative(s[i + 1])
    BY <1>1, <2>1
  <2>4. NotNegative(before) /\ (before = Zero <=> f[j - 1] = Zero)
    BY <2>1, <2>2, NotNegativeScaled
  <2>5. f[j] = (before ++ s[i + 1]) // Whole(length)
    BY <1>2, <2>1
  <2> HIDE DEF before, i, m
  <2>6. NotNegative(before ++ s[i + 1]) /\ (before ++ s[i + 1] = Zero <=> before = Zero /\ s[i + 1] = Zero)
    BY <2>3, <2>4, NotNegativeSum
  <2>7. NotNegative(f[j]) /\ (f[j] = Zero <=> before ++ s[i + 1] = Zero)
    BY <1>1, <2>5, <2>6, NotNegativeScaled
  <2>8. Still(i + 1) <=> Still(i) /\ s[i + 1] = Zero
    <3>1. \A k \in 1..(i + 1) : k \in 1..i \/ k = i + 1
      BY <2>1
    <3>2. \A k \in 1..i : k \in 1..(i + 1)
      BY <2>1
    <3>3. i + 1 \in 1..(i + 1)
      BY <2>1
    <3> QED
      BY Zenon, <3>1, <3>2, <3>3
  <2> HIDE DEF Still
  <2>9. f[j] = Zero <=> Still(i + 1)
    BY Zenon, <2>2, <2>4, <2>6, <2>7, <2>8
  <2> QED
    BY <2>1, <2>7, <2>9
<1> HIDE DEF S
<1>5. \A j \in 1..m : j \in S
  BY <1>1, <1>3, <1>4, RangeInduction
<1> QED
  BY <1>5 DEF S, f

LEMMA TakeAway ==
  ASSUME NEW a, IsFraction(a), NEW b, IsFraction(b)
  PROVE  a -- (a -- b) = b /\ (a ++ b) -- a = b
<1>1. PICK d \in Nat \ {0}, n \in Int, m \in Int : Shows(a, n, d) /\ Shows(b, m, d)
  BY CommonOfTwo
<1>2. Shows(a -- b, n - m, d) /\ Shows(a ++ b, n + m, d)
  BY Zenon, <1>1, CommonSum
<1>3. Shows(a -- (a -- b), n - (n - m), d) /\ Shows((a ++ b) -- a, (n + m) - n, d)
  BY Zenon, <1>1, <1>2, CommonSum
<1>4. n - (n - m) = m /\ (n + m) - n = m
  OBVIOUS
<1> QED
  BY <1>1, <1>3, <1>4, CommonEqual

\* A factor of a product that is not negative is not negative, if the other one is positive.
LEMMA FactorNotNegative ==
  ASSUME NEW a, IsFraction(a), NEW b, IsFraction(b), Less(Zero, b), NotNegative(a ** b)
  PROVE  NotNegative(a)
<1>1. PICK d \in Nat \ {0}, n \in Int, m \in Int : Shows(a, n, d) /\ Shows(b, m, d)
  BY CommonOfTwo
<1>2. Shows(a ** b, n * m, d * d)
  BY Zenon, <1>1, AddShows
<1>3. n * m >= 0
  BY Zenon, <1>2, NotNegativeShows
<1>4. m > 0
  BY Zenon, <1>1, NotNegativeShows
<1>5. n >= 0
  <2>1. n < 0 => n * m < 0
    BY <1>4, SMT
  <2> QED
    BY <1>3, <2>1
<1> QED
  BY Zenon, <1>1, <1>5, NotNegativeShows

\* Relative strength is the share of the gains in the moves.
LEMMA StrengthIs ==
  ASSUME NEW gain, NotNegative(gain), NEW loss, NotNegative(loss)
  PROVE  CalculateRSI(gain, loss)
           = IF gain ++ loss = Zero THEN Whole(100) ELSE Percent(gain // (gain ++ loss))
<1> DEFINE move == gain ++ loss
           all == Whole(100)
           one == Whole(1)
<1>1. /\ IsFraction(gain) /\ IsFraction(loss) /\ IsFraction(all) /\ IsFraction(one) /\ Less(Zero, one)
      /\ IsFraction(move)
  BY WholePositive, FractionsClosed DEF NotNegative
<1>2. NotNegative(move) /\ (move = Zero <=> gain = Zero /\ loss = Zero)
  BY Zenon, NotNegativeSum
<1>3. move # Zero => Less(Zero, move)
  BY <1>1, <1>2, PositiveIs DEF NotNegative
<1>4. loss # Zero => Less(Zero, loss)
  BY <1>1, PositiveIs DEF NotNegative
<1>5. CASE loss = Zero
  <2>1. CalculateRSI(gain, loss) = all
    BY <1>5 DEF CalculateRSI
  <2>2. move = gain
    BY <1>1, <1>5, AddZero
  <2>3. ASSUME move # Zero PROVE Percent(gain // move) = all
    <3>1. one ** gain = gain
      BY <1>1, MultiplyOne
    <3>2. Less(Zero, gain)
      BY <1>3, <2>2, <2>3
    <3>3. gain // gain = one
      BY Zenon, <1>1, <3>1, <3>2, RatioIs
    <3>4. all ** one = all
      BY <1>1, MultiplyOne
    <3> QED
      BY Zenon, <2>2, <3>3, <3>4 DEF Percent
  <2> QED
    BY <2>1, <2>3
<1>6. CASE loss # Zero
  <2> DEFINE q == gain // loss
             u == one ++ q
             y == gain // move
             rest == one -- y
             r == Reciprocal(loss)
  <2>1. Less(Zero, loss) /\ Less(Zero, move) /\ move # Zero
    BY <1>2, <1>3, <1>4, <1>6
  <2>2. /\ q = gain ** r /\ loss ** r = one /\ IsFraction(r) /\ Less(Zero, r) /\ IsFraction(q)
        /\ move // loss = move ** r
    BY <1>1, <2>1, DivideIs
  <2>3. IsFraction(y)
    BY <1>1, <2>1, DivideIs
  <2>4. y ** move = gain
    BY <1>1, <2>1, <2>3, RatioIs
  <2> HIDE DEF q, y, r, all, one
  <2>5. IsFraction(u) /\ IsFraction(rest) /\ IsFraction(move ** r) /\ IsFraction(gain ** r)
    BY <1>1, <2>2, <2>3, FractionsClosed
  <2>6. u = move ** r
    <3>1. (gain ++ loss) ** r = (gain ** r) ++ (loss ** r)
      BY <1>1, <2>2, MultiplyDistributes
    <3>2. q ++ one = one ++ q
      BY <1>1, <2>2, AddCommutes
    <3> QED
      BY Zenon, <2>2, <3>1, <3>2
  <2>7. rest ** move = loss
    <3>1. (one -- y) ** move = (one ** move) -- (y ** move)
      BY <1>1, <2>3, MultiplyDistributes
    <3>2. one ** move = move
      BY <1>1, MultiplyOne DEF one
    <3>3. (gain ++ loss) -- gain = loss
      BY <1>1, TakeAway
    <3> QED
      BY Zenon, <2>4, <3>1, <3>2, <3>3
  <2> HIDE DEF rest, u, move
  <2>8. rest ** u = one
    <3>1. (rest ** move) ** r = rest ** (move ** r)
      BY <1>1, <2>2, <2>5, MultiplyAssociates
    <3> QED
      BY Zenon, <2>2, <2>6, <2>7, <3>1
  <2>9. Less(Zero, u)
    <3>1. u # Zero
      <4>1. rest ** Zero = Zero
        BY <2>5, MultiplyOne
      <4>2. Zero # one
        BY <1>1, LessIsTotal, ZeroShows
      <4> QED
        BY <2>8, <4>1, <4>2
    <3>2. NotNegative(u)
      <4>1. u = one ++ q
        BY DEF u
      <4>2. NotNegative(one)
        BY <1>1, LessIsTotal, ZeroShows DEF NotNegative
      <4>3. NotNegative(q)
        <5>1. q ** loss = gain
          BY <1>1, <2>1, <2>2, RatioIs DEF q
        <5> QED
          BY <1>1, <2>1, <2>2, <5>1, FactorNotNegative
      <4> QED
        BY Zenon, <4>1, <4>2, <4>3, NotNegativeSum
    <3> QED
      BY <2>5, <3>1, <3>2, PositiveIs DEF NotNegative
  <2>10. all // u = all ** rest
    <3>1. (all ** rest) ** u = all ** (rest ** u)
      BY <1>1, <2>5, MultiplyAssociates
    <3>2. all ** one = all
      BY <1>1, MultiplyOne DEF one
    <3>3. IsFraction(all ** rest)
      BY <1>1, <2>5, FractionsClosed
    <3>4. all = (all ** rest) ** u
      BY Zenon, <2>8, <3>1, <3>2
    <3>5. IsFraction(all) /\ IsFraction(u)
      BY <1>1, <2>5
    <3>6. all // u = all ** rest <=> all = (all ** rest) ** u
      BY <2>9, <3>3, <3>5, RatioIs
    <3> QED
      BY <3>4, <3>6
  <2>11. all ** rest = all -- (all ** y)
    <3>1. all ** (one -- y) = (all ** one) -- (all ** y)
      BY <1>1, <2>3, DistributesLeft
    <3>2. all ** one = all
      BY <1>1, MultiplyOne DEF one
    <3> QED
      BY Zenon, <3>1, <3>2 DEF rest
  <2>12. all -- (all -- (all ** y)) = all ** y
    <3>1. IsFraction(all ** y)
      BY <1>1, <2>3, FractionsClosed
    <3> QED
      BY <1>1, <3>1, TakeAway
  <2>13. CalculateRSI(gain, loss) = all -- (all // u)
    BY Zenon, <1>6 DEF CalculateRSI, all, u, one, q
  <2> QED
    BY Zenon, <2>1, <2>10, <2>11, <2>12, <2>13 DEF Percent, all, y, move
<1> QED
  BY <1>5, <1>6

\* Gains and losses of a series, and its moves.
Gains(s, n) == [i \in 1..n |-> Gain(s, i)]
Losses(s, n) == [i \in 1..n |-> Loss(s, i)]
Moves(s, n) == [i \in 1..n |-> AbsFrac(s[i + 1] -- s[i])]

LEMMA MoveIs ==
  ASSUME NEW a, IsFraction(a), NEW b, IsFraction(b)
  PROVE  LET gain == Larger(b -- a, Zero)
             loss == Larger(a -- b, Zero)
         IN  /\ NotNegative(gain) /\ NotNegative(loss) /\ AbsFrac(b -- a) = gain ++ loss
             /\ gain ++ loss = Zero <=> a = b
<1>1. PICK d \in Nat \ {0}, n \in Int, m \in Int : Shows(a, n, d) /\ Shows(b, m, d)
  BY CommonOfTwo
<1>2. Shows(b -- a, m - n, d) /\ Shows(a -- b, n - m, d) /\ Shows(Zero, 0, d)
  BY Zenon, <1>1, CommonSum, ZeroShows
<1> DEFINE gain == Larger(b -- a, Zero)
           loss == Larger(a -- b, Zero)
           up == IF m - n < 0 THEN 0 ELSE m - n
           down == IF n - m < 0 THEN 0 ELSE n - m
<1>3. Shows(gain, up, d)
  <2>1. Less(b -- a, Zero) <=> m - n < 0
    BY <1>2, CommonOrder
  <2> QED
    BY <1>2, <2>1 DEF Larger
<1>4. Shows(loss, down, d)
  <2>1. Less(a -- b, Zero) <=> n - m < 0
    BY <1>2, CommonOrder
  <2> QED
    BY <1>2, <2>1 DEF Larger
<1>5. Shows(AbsFrac(b -- a), Abs(m - n), d)
  BY <1>2, AbsFracIs
<1>6. up \in Int /\ down \in Int /\ up >= 0 /\ down >= 0 /\ Abs(m - n) = up + down /\ (up + down = 0 <=> n = m)
  BY DEF Abs
<1> HIDE DEF gain, loss, up, down
<1>7. Shows(gain ++ loss, up + down, d)
  BY Zenon, <1>3, <1>4, CommonSum
<1>8. (NotNegative(gain) <=> up >= 0) /\ (NotNegative(loss) <=> down >= 0)
  BY Zenon, <1>3, <1>4, NotNegativeShows
<1>9. AbsFrac(b -- a) = gain ++ loss
  BY <1>5, <1>6, <1>7, CommonEqual
<1>10. gain ++ loss = Zero <=> up + down = 0
  BY Zenon, <1>7, NotNegativeShows
<1>11. a = b <=> n = m
  BY <1>1, CommonEqual
<1> QED
  BY <1>6, <1>8, <1>9, <1>10, <1>11 DEF gain, loss

LEMMA MovesAre ==
  ASSUME NEW s, NEW n, Fractions(s, n), NEW m \in Nat, m + 1 <= n
  PROVE  /\ NotNegatives(Gains(s, m), m) /\ NotNegatives(Losses(s, m), m)
         /\ NotNegatives(Moves(s, m), m)
         /\ Sums(Moves(s, m), Gains(s, m), Losses(s, m), m)
         /\ \A i \in 1..m : Moves(s, m)[i] = Zero <=> s[i + 1] = s[i]
<1>1. \A i \in 1..n : IsFraction(s[i])
  BY DEF Fractions
<1>2. ASSUME NEW i \in 1..m
      PROVE  /\ NotNegative(Gain(s, i)) /\ NotNegative(Loss(s, i))
             /\ AbsFrac(s[i + 1] -- s[i]) = Gain(s, i) ++ Loss(s, i)
             /\ NotNegative(AbsFrac(s[i + 1] -- s[i]))
             /\ AbsFrac(s[i + 1] -- s[i]) = Zero <=> s[i + 1] = s[i]
  <2>1. i \in 1..n /\ i + 1 \in 1..n
    <3>1. n \in Nat
      BY DEF Fractions, IsList
    <3> QED
      BY <3>1
  <2>2. IsFraction(s[i]) /\ IsFraction(s[i + 1])
    BY <1>1, <2>1
  <2>3. /\ NotNegative(Gain(s, i)) /\ NotNegative(Loss(s, i))
        /\ AbsFrac(s[i + 1] -- s[i]) = Gain(s, i) ++ Loss(s, i)
        /\ Gain(s, i) ++ Loss(s, i) = Zero <=> s[i] = s[i + 1]
    BY <2>2, MoveIs DEF Gain, Loss
  <2>4. NotNegative(Gain(s, i) ++ Loss(s, i))
    BY Zenon, <2>3, NotNegativeSum
  <2> QED
    BY <2>3, <2>4
<1>3. /\ IsList(Gains(s, m), m) /\ IsList(Losses(s, m), m) /\ IsList(Moves(s, m), m)
      /\ \A i \in 1..m : /\ Gains(s, m)[i] = Gain(s, i) /\ Losses(s, m)[i] = Loss(s, i)
                         /\ Moves(s, m)[i] = AbsFrac(s[i + 1] -- s[i])
  BY DEF Gains, Losses, Moves, IsList
<1> QED
  BY <1>2, <1>3 DEF NotNegatives, Sums

LEMMA RSIIs ==
  ASSUME NEW s, NEW n, Fractions(s, n), NEW length \in Nat \ {0}
  PROVE  /\ length >= n => RSI(s, length) = <<>>
         /\ length < n =>
              RSI(s, length) = [j \in 1..(n - length) |->
                                  CalculateRSI(Wilder(Gains(s, n - 1), length)[j],
                                               Wilder(Losses(s, n - 1), length)[j])]
<1>1. Len(s) = n /\ n \in Nat
  BY ListIsSeq DEF Fractions
<1>2. length >= n => RSI(s, length) = <<>>
  BY <1>1 DEF RSI
<1>3. ASSUME length < n
      PROVE  RSI(s, length) = [j \in 1..(n - length) |->
                                 CalculateRSI(Wilder(Gains(s, n - 1), length)[j],
                                              Wilder(Losses(s, n - 1), length)[j])]
  <2> DEFINE g == Wilder(Gains(s, n - 1), length)
             h == Wilder(Losses(s, n - 1), length)
  <2>1. ~(Len(s) <= length) /\ n - 1 \in Nat /\ length <= n - 1 /\ (n - 1) - length + 1 = n - length
    BY <1>1, <1>3
  <2>2. RSI(s, length) = [j \in DOMAIN g |-> CalculateRSI(g[j], h[j])]
    BY Zenon, <1>1, <2>1 DEF RSI, Gains, Losses
  <2>3. DOMAIN g = 1..(n - length)
    <3>1. IsList(Gains(s, n - 1), n - 1)
      BY <2>1 DEF Gains, IsList
    <3>2. IsList(g, (n - 1) - length + 1)
      BY <2>1, <3>1, WilderMoves
    <3> QED
      BY <2>1, <3>2 DEF IsList
  <2> HIDE DEF g, h
  <2> QED
    BY <2>2, <2>3 DEF g, h
<1> QED
  BY <1>2, <1>3

LEMMA NotNegativesAreFractions ==
  ASSUME NEW s, NEW n, NotNegatives(s, n)
  PROVE  Fractions(s, n)
BY DEF NotNegatives, NotNegative, Fractions

LEMMA RSIIsDefined ==
  ASSUME NEW s, NEW n, Fractions(s, n)
  PROVE  RSIMatches(s)
<1> DEFINE gains == Gains(s, n - 1)
           losses == Losses(s, n - 1)
           moves == Moves(s, n - 1)
           Strength(gain, move) == IF move = Zero THEN Whole(100) ELSE Percent(gain // move)
           rsi == [j \in 1..(n - Length) |->
                     Strength(Wilders(gains, Length + j - 1), Wilders(moves, Length + j - 1))]
<1>1. Len(s) = n /\ n \in Nat
  BY ListIsSeq DEF Fractions
<1>2. RSIMatches(s) <=> RSI(s, Length) = rsi
  <2> DEFINE change == [k \in 1..(n - 1) |-> s[k + 1] -- s[k]]
             gains2 == [k \in DOMAIN change |-> Larger(change[k], Zero)]
             moves2 == [k \in DOMAIN change |-> AbsFrac(change[k])]
  <2>1. RSIMatches(s)
          <=> RSI(s, Length) = [j \in 1..(n - Length) |->
                     Strength(Wilders(gains2, Length + j - 1), Wilders(moves2, Length + j - 1))]
    BY <1>1 DEF RSIMatches
  <2>2. gains2 = gains /\ moves2 = moves
    BY DEF Gains, Moves, Gain
  <2> HIDE DEF gains2, moves2, gains, moves
  <2> QED
    BY <2>1, <2>2
<1>3. CASE Length >= n
  <2>1. RSI(s, Length) = <<>>
    BY <1>3, LengthsFit, RSIIs
  <2>2. rsi = <<>>
    <3>1. n - Length \in Int /\ n - Length <= 0
      BY <1>1, <1>3, LengthsFit
    <3>2. 1..(n - Length) = {}
      BY <3>1
    <3> QED
      BY <3>2
  <2> QED
    BY <1>2, <2>1, <2>2
<1>4. CASE Length < n
  <2> DEFINE m == n - 1
             f == Wilder(moves, Length)
             g == Wilder(gains, Length)
             h == Wilder(losses, Length)
  <2>1. m \in Nat /\ m + 1 <= n /\ Length <= m /\ m - Length + 1 = n - Length
    BY <1>1, <1>4, LengthsFit
  <2>2. /\ NotNegatives(gains, m) /\ NotNegatives(losses, m) /\ NotNegatives(moves, m)
        /\ Sums(moves, gains, losses, m)
    BY <2>1, MovesAre
  <2>3. Fractions(gains, m) /\ Fractions(losses, m) /\ Fractions(moves, m)
    BY <2>2, NotNegativesAreFractions
  <2> HIDE DEF m, gains, losses, moves
  <2>4. Length \in Nat \ {0} /\ Length \in Nat /\ Length >= 2
    BY LengthsFit
  <2>5. \A j \in 1..(m - Length + 1) : f[j] = g[j] ++ h[j]
    BY <2>1, <2>2, <2>3, <2>4, WilderAdds
  <2>6. \A j \in 1..(m - Length + 1) : NotNegative(g[j]) /\ NotNegative(h[j])
    BY <2>1, <2>2, <2>4, WilderNotNegative
  <2>7. \A j \in 1..(m - Length + 1) : g[j] = Wilders(gains, Length + j - 1)
    BY <2>1, <2>3, <2>4, WilderIsWeighted DEF Wilders
  <2>8. \A j \in 1..(m - Length + 1) : f[j] = Wilders(moves, Length + j - 1)
    BY <2>1, <2>3, <2>4, WilderIsWeighted DEF Wilders
  <2> HIDE DEF f, g, h
  <2>9. ASSUME NEW j \in 1..(n - Length)
        PROVE  CalculateRSI(g[j], h[j])
                 = Strength(Wilders(gains, Length + j - 1), Wilders(moves, Length + j - 1))
    <3>1. NotNegative(g[j]) /\ NotNegative(h[j]) /\ f[j] = g[j] ++ h[j]
      BY <2>1, <2>5, <2>6
    <3>2. g[j] = Wilders(gains, Length + j - 1) /\ f[j] = Wilders(moves, Length + j - 1)
      BY <2>1, <2>7, <2>8
    <3>3. CalculateRSI(g[j], h[j])
            = IF g[j] ++ h[j] = Zero THEN Whole(100) ELSE Percent(g[j] // (g[j] ++ h[j]))
      BY <3>1, StrengthIs
    <3> QED
      BY Zenon, <3>1, <3>2, <3>3
  <2>10. RSI(s, Length) = [j \in 1..(n - Length) |-> CalculateRSI(g[j], h[j])]
    <3>1. RSI(s, Length) = [j \in 1..(n - Length) |-> CalculateRSI(Wilder(gains, Length)[j], Wilder(losses, Length)[j])]
      BY <1>4, <2>4, RSIIs DEF gains, losses
    <3> QED
      BY Zenon, <3>1 DEF g, h
  <2> HIDE DEF Strength
  <2>11. RSI(s, Length) = rsi
    BY <2>9, <2>10
  <2> QED
    BY <1>2, <2>11
<1>5. n <= Length \/ Length < n
  BY <1>1, LengthsFit
<1> QED
  BY <1>1, <1>3, <1>4, <1>5, LengthsFit


-----------------------------------------------------------------------------
(* Ranges and directions.                                                  *)

Ordered(k) == IsCandle(k) /\ AtMost(k.low, k.close) /\ AtMost(k.close, k.high)

OrderedCandles(s, n) == IsList(s, n) /\ \A i \in 1..n : Ordered(s[i])

LEMMA OrderedCandlesAre ==
  ASSUME NEW s, NEW n, OrderedCandles(s, n)
  PROVE  /\ Candles(s, n) /\ IsList(s, n) /\ n \in Nat /\ Len(s) = n /\ DOMAIN s = 1..n
         /\ \A i \in 1..n : Ordered(s[i])
BY ListIsSeq DEF OrderedCandles, Candles, Ordered

LEMMA ChartIsOrdered ==
  ASSUME kLines \in Seq(KLine)
  PROVE  OrderedCandles(kLines, Len(kLines))
<1>1. Candles(kLines, Len(kLines))
  BY ChartIsTyped
<1>2. \A i \in 1..Len(kLines) : kLines[i] \in KLine
  OBVIOUS
<1>3. \A k \in KLine : AtMost(k.low, k.close) /\ AtMost(k.close, k.high)
  BY ChartAssumption
<1> QED
  BY <1>1, <1>2, <1>3 DEF OrderedCandles, Candles, Ordered

LEMMA LargerShows ==
  ASSUME NEW a, NEW n, NEW d, Shows(a, n, d), NEW b, NEW m, Shows(b, m, d)
  PROVE  /\ Shows(Larger(a, b), IF n < m THEN m ELSE n, d)
         /\ Shows(Smaller(a, b), IF n < m THEN n ELSE m, d)
<1>1. Less(a, b) <=> n < m
  BY CommonOrder
<1> QED
  BY <1>1 DEF Larger, Smaller

\* The true range is what candle and close before it span, and neither the way up
\* nor the way down is longer.
LEMMA TrueRangeSpans ==
  ASSUME NEW s, NEW n, OrderedCandles(s, n), NEW i \in 2..n
  PROVE  /\ TrueRange(s, i) = Spread(s, i)
         /\ NotNegative(TrueRange(s, i))
         /\ TrueRange(s, i) = Zero =>
              /\ AtMost(s[i].high -- s[i - 1].high, Zero)
              /\ AtMost(s[i - 1].low -- s[i].low, Zero)
<1> DEFINE high == s[i].high
           low == s[i].low
           close == s[i - 1].close
           highBefore == s[i - 1].high
           lowBefore == s[i - 1].low
<1>1. i \in 1..n /\ i - 1 \in 1..n /\ i # 1
  BY OrderedCandlesAre
<1>2. Ordered(s[i]) /\ Ordered(s[i - 1])
  BY <1>1, OrderedCandlesAre
<1>3. /\ IsFraction(high) /\ IsFraction(low) /\ IsFraction(close)
      /\ IsFraction(highBefore) /\ IsFraction(lowBefore) /\ IsFraction(s[i].close)
      /\ AtMost(low, s[i].close) /\ AtMost(s[i].close, high)
      /\ AtMost(lowBefore, close) /\ AtMost(close, highBefore)
  BY <1>2 DEF Ordered, IsCandle
<1>4. AtMost(low, high)
  BY <1>3, LessIsTransitive
<1>5. /\ TrueRange(s, i) = Larger(high -- low, Larger(AbsFrac(high -- close), AbsFrac(low -- close)))
      /\ Spread(s, i) = Larger(high, close) -- Smaller(low, close)
  BY Zenon, <1>1 DEF TrueRange, Spread
<1> HIDE DEF high, low, close, highBefore, lowBefore
<1>6. PICK d \in Nat \ {0}, h \in Int, l \in Int, c \in Int :
        Shows(high, h, d) /\ Shows(low, l, d) /\ Shows(close, c, d)
  BY <1>3, CommonOfThree
<1>7. l <= h
  BY <1>4, <1>6, CommonOrder
<1>8. Shows(high -- low, h - l, d) /\ Shows(high -- close, h - c, d) /\ Shows(low -- close, l - c, d)
  BY Zenon, <1>6, CommonSum
<1>9. Shows(AbsFrac(high -- close), Abs(h - c), d) /\ Shows(AbsFrac(low -- close), Abs(l - c), d)
  BY Zenon, <1>8, AbsFracIs
<1> DEFINE inner == IF Abs(h - c) < Abs(l - c) THEN Abs(l - c) ELSE Abs(h - c)
           range == IF h - l < inner THEN inner ELSE h - l
           top == IF h < c THEN c ELSE h
           bottom == IF l < c THEN l ELSE c
<1>10. Shows(Larger(AbsFrac(high -- close), AbsFrac(low -- close)), inner, d)
  BY Zenon, <1>9, LargerShows
<1> HIDE DEF inner
<1>11. Shows(TrueRange(s, i), range, d)
  BY Zenon, <1>5, <1>8, <1>10, LargerShows
<1>12. Shows(Larger(high, close), top, d) /\ Shows(Smaller(low, close), bottom, d)
  BY Zenon, <1>6, LargerShows
<1> HIDE DEF top, bottom
<1>13. Shows(Spread(s, i), top - bottom, d)
  BY Zenon, <1>5, <1>12, CommonSum
<1>14. /\ range = top - bottom /\ range >= 0 /\ (range = 0 => h <= c /\ c <= l)
  BY <1>7 DEF inner, top, bottom, Abs
<1> HIDE DEF range
<1>15. TrueRange(s, i) = Spread(s, i)
  BY <1>11, <1>13, <1>14, CommonEqual
<1>16. (NotNegative(TrueRange(s, i)) <=> range >= 0) /\ (TrueRange(s, i) = Zero <=> range = 0)
  BY Zenon, <1>11, NotNegativeShows
<1>17. ASSUME TrueRange(s, i) = Zero
       PROVE  AtMost(high -- highBefore, Zero) /\ AtMost(lowBefore -- low, Zero)
  <2>1. AtMost(high, close) /\ AtMost(close, low)
    BY <1>6, <1>14, <1>16, <1>17, CommonOrder
  <2>2. AtMost(high, highBefore) /\ AtMost(lowBefore, low)
    BY <1>3, <2>1, LessIsTransitive
  <2> QED
    BY <1>3, <2>2, DifferenceSign
<1> QED
  BY <1>14, <1>15, <1>16, <1>17 DEF high, low, highBefore, lowBefore

LEMMA ATRIsDefined ==
  ASSUME NEW s, NEW n, OrderedCandles(s, n)
  PROVE  ATRMatches(s)
<1> DEFINE ranges == [i \in DOMAIN s |-> Spread(s, i)]
           f == Wilder(Ranges(s), Length)
           atr == [j \in 1..(Len(s) - Length + 1) |-> Wilders(ranges, Length + j - 1)]
<1>1. Candles(s, n) /\ n \in Nat /\ Len(s) = n /\ DOMAIN s = 1..n
  BY OrderedCandlesAre
<1>2. CASE ~(Length < n)
  <2>1. ATRThrows(s, Length)
    BY <1>1, <1>2, LengthsFit DEF ATRThrows
  <2>2. Len(atr) <= 1
    <3> DEFINE count == IF n - Length + 1 >= 0 THEN n - Length + 1 ELSE 0
    <3>1. count \in Nat /\ count <= 1 /\ 1..(Len(s) - Length + 1) = 1..count
      BY <1>1, <1>2, LengthsFit
    <3> HIDE DEF count, ranges
    <3>2. IsList(atr, count)
      BY <3>1 DEF IsList
    <3> QED
      BY <3>1, <3>2, ListIsSeq
  <2> QED
    BY Zenon, <2>1, <2>2 DEF ATRMatches, atr, ranges
<1>3. CASE Length < n
  <2>1. Fractions(Ranges(s), n) /\ Length <= n
    BY <1>1, <1>3, RangesType, LengthsFit
  <2>2. ranges = Ranges(s)
    <3>1. ASSUME NEW i \in 1..n
          PROVE  Spread(s, i) = IF i = 1 THEN s[1].high -- s[1].low ELSE TrueRange(s, i)
      <4>1. CASE i = 1
        BY Zenon, <4>1 DEF Spread
      <4>2. CASE i # 1
        <5>1. i \in 2..n
          BY <1>1, <4>2
        <5>2. TrueRange(s, i) = Spread(s, i)
          BY Zenon, <5>1, TrueRangeSpans
        <5> QED
          BY <4>2, <5>2
      <4> QED
        BY <4>1, <4>2
    <3> QED
      BY <1>1, <3>1 DEF Ranges
  <2>3. IsList(f, n - Length + 1) /\ \A j \in 1..(n - Length + 1) : f[j] = Wilders(Ranges(s), Length + j - 1)
    BY <2>1, LengthsFit, WilderIsWeighted DEF Wilders
  <2>4. ATR(s, Length) = f
    BY Zenon DEF ATR, Ranges
  <2> HIDE DEF f
  <2>5. f = [j \in 1..(n - Length + 1) |-> Wilders(Ranges(s), Length + j - 1)]
    BY <2>3 DEF IsList
  <2> HIDE DEF ranges
  <2>6. ATR(s, Length) = atr
    BY Zenon, <1>1, <2>2, <2>4, <2>5
  <2>7. ~ATRThrows(s, Length)
    BY <1>1, <1>3, LengthsFit DEF ATRThrows
  <2> QED
    BY Zenon, <2>6, <2>7 DEF ATRMatches, atr, ranges
<1> QED
  BY <1>2, <1>3

PlusMoves(s, m) == [i \in 1..m |-> DirectionalMove(UpMove(s, i), DownMove(s, i))]
MinusMoves(s, m) == [i \in 1..m |-> DirectionalMove(DownMove(s, i), UpMove(s, i))]
RangesAfter(s, m) == [i \in 1..m |-> TrueRange(s, i + 1)]

\* The values that ADX averages.
Directions(s, n, length) ==
  [k \in 1..(n - length) |-> DX(Wilder(PlusMoves(s, n - 1), length)[k],
                                Wilder(MinusMoves(s, n - 1), length)[k],
                                Wilder(RangesAfter(s, n - 1), length)[k])]

LEMMA ADXIs ==
  ASSUME NEW s, NEW n, IsList(s, n), NEW length \in Nat \ {0}
  PROVE  ADX(s, length)
           = [i \in 1..n |-> IF i < 2 * length THEN Zero
                             ELSE Wilder(Directions(s, n, length), length)[i - 2 * length + 1]]
<1>1. Len(s) = n /\ DOMAIN s = 1..n
  BY ListIsSeq
<1>2. ADX(s, length)
        = [i \in DOMAIN s |-> IF i < 2 * length THEN Zero
                              ELSE Wilder(Directions(s, Len(s), length), length)[i - 2 * length + 1]]
  BY Zenon DEF ADX, Directions, PlusMoves, MinusMoves, RangesAfter
<1> QED
  BY Zenon, <1>1, <1>2

LEMMA DirectionalMoveIs ==
  ASSUME NEW move, IsFraction(move), NEW other, IsFraction(other)
  PROVE  /\ DirectionalMove(move, other) = IF Less(Larger(other, Zero), move) THEN move ELSE Zero
         /\ NotNegative(DirectionalMove(move, other))
         /\ AtMost(move, Zero) => DirectionalMove(move, other) = Zero
<1>1. IsFraction(Zero)
  BY ZeroShows
<1>2. Less(Larger(other, Zero), move) <=> Less(other, move) /\ Less(Zero, move)
  <2>1. CASE Less(other, Zero)
    <3>1. Less(Zero, move) => Less(other, move)
      BY <1>1, <2>1, LessIsTotal, LessIsTransitive
    <3> QED
      BY <2>1, <3>1 DEF Larger
  <2>2. CASE ~Less(other, Zero)
    <3>1. Less(other, move) => Less(Zero, move)
      <4>1. AtMost(Zero, other)
        BY <2>2 DEF AtMost
      <4> QED
        BY <1>1, <4>1, LessIsTransitive
    <3> QED
      BY <2>2, <3>1 DEF Larger
  <2> QED
    BY <2>1, <2>2
<1>3. NotNegative(Zero) /\ (Less(Zero, move) => NotNegative(move))
  BY <1>1, LessIsTotal DEF NotNegative
<1>4. AtMost(move, Zero) => ~Less(Zero, move)
  BY DEF AtMost
<1> QED
  BY <1>2, <1>3, <1>4 DEF DirectionalMove

LEMMA DirectionsAre ==
  ASSUME NEW s, NEW n, OrderedCandles(s, n), NEW m \in Nat, m + 1 <= n
  PROVE  /\ NotNegatives(PlusMoves(s, m), m) /\ NotNegatives(MinusMoves(s, m), m)
         /\ NotNegatives(RangesAfter(s, m), m)
         /\ \A i \in 1..m : RangesAfter(s, m)[i] = Zero =>
              PlusMoves(s, m)[i] = Zero /\ MinusMoves(s, m)[i] = Zero
         /\ \A i \in 1..m : IsFraction(UpMove(s, i)) /\ IsFraction(DownMove(s, i))
<1>1. n \in Nat /\ \A i \in 1..n : Ordered(s[i])
  BY OrderedCandlesAre
<1>2. ASSUME NEW i \in 1..m
      PROVE  /\ IsFraction(UpMove(s, i)) /\ IsFraction(DownMove(s, i))
             /\ NotNegative(DirectionalMove(UpMove(s, i), DownMove(s, i)))
             /\ NotNegative(DirectionalMove(DownMove(s, i), UpMove(s, i)))
             /\ NotNegative(TrueRange(s, i + 1))
             /\ TrueRange(s, i + 1) = Zero =>
                  /\ DirectionalMove(UpMove(s, i), DownMove(s, i)) = Zero
                  /\ DirectionalMove(DownMove(s, i), UpMove(s, i)) = Zero
  <2> DEFINE j == i + 1
  <2>1. i \in 1..n /\ j \in 1..n /\ j \in 2..n /\ j - 1 = i
    BY <1>1
  <2>2. UpMove(s, i) = s[j].high -- s[i].high /\ DownMove(s, i) = s[i].low -- s[j].low
    BY Zenon DEF UpMove, DownMove
  <2> HIDE DEF j
  <2>3. Ordered(s[i]) /\ Ordered(s[j])
    BY <1>1, <2>1
  <2>4. IsFraction(UpMove(s, i)) /\ IsFraction(DownMove(s, i))
    BY <2>2, <2>3, FractionsClosed DEF Ordered, IsCandle
  <2>5. /\ NotNegative(TrueRange(s, j))
        /\ TrueRange(s, j) = Zero => AtMost(UpMove(s, i), Zero) /\ AtMost(DownMove(s, i), Zero)
    BY <2>1, <2>2, TrueRangeSpans
  <2>6. /\ NotNegative(DirectionalMove(UpMove(s, i), DownMove(s, i)))
        /\ AtMost(UpMove(s, i), Zero) => DirectionalMove(UpMove(s, i), DownMove(s, i)) = Zero
    BY <2>4, DirectionalMoveIs
  <2>7. /\ NotNegative(DirectionalMove(DownMove(s, i), UpMove(s, i)))
        /\ AtMost(DownMove(s, i), Zero) => DirectionalMove(DownMove(s, i), UpMove(s, i)) = Zero
    BY <2>4, DirectionalMoveIs
  <2> QED
    BY <2>4, <2>5, <2>6, <2>7 DEF j
<1>3. /\ IsList(PlusMoves(s, m), m) /\ IsList(MinusMoves(s, m), m) /\ IsList(RangesAfter(s, m), m)
      /\ \A i \in 1..m : /\ PlusMoves(s, m)[i] = DirectionalMove(UpMove(s, i), DownMove(s, i))
                         /\ MinusMoves(s, m)[i] = DirectionalMove(DownMove(s, i), UpMove(s, i))
                         /\ RangesAfter(s, m)[i] = TrueRange(s, i + 1)
  BY DEF PlusMoves, MinusMoves, RangesAfter, IsList
<1> QED
  BY <1>2, <1>3 DEF NotNegatives

Directed(p, m) == IF p ++ m = Zero THEN Zero ELSE Percent(AbsFrac(p -- m) // (p ++ m))

\* Without a range there is no direction, so that the test for it changes nothing.
LEMMA DirectionsAreDirected ==
  ASSUME NEW s, NEW n, OrderedCandles(s, n), NEW length \in Nat, length >= 2, length < n
  PROVE  /\ \A k \in 1..(n - length) :
              Directions(s, n, length)[k]
                = Directed(Wilder(PlusMoves(s, n - 1), length)[k], Wilder(MinusMoves(s, n - 1), length)[k])
         /\ Fractions(Directions(s, n, length), n - length)
<1> DEFINE m == n - 1
           plus == Wilder(PlusMoves(s, m), length)
           minus == Wilder(MinusMoves(s, m), length)
           range == Wilder(RangesAfter(s, m), length)
<1>1. n \in Nat
  BY OrderedCandlesAre
<1>2. m \in Nat /\ m + 1 <= n /\ length <= m /\ m - length + 1 = n - length
  BY <1>1
<1>3. Directions(s, n, length) = [k \in 1..(n - length) |-> DX(plus[k], minus[k], range[k])]
  BY Zenon DEF Directions
<1> HIDE DEF m
<1>4. /\ NotNegatives(PlusMoves(s, m), m) /\ NotNegatives(MinusMoves(s, m), m)
      /\ NotNegatives(RangesAfter(s, m), m)
      /\ \A i \in 1..m : RangesAfter(s, m)[i] = Zero =>
           PlusMoves(s, m)[i] = Zero /\ MinusMoves(s, m)[i] = Zero
  BY <1>2, DirectionsAre
<1>5. \A k \in 1..(m - length + 1) :
        /\ NotNegative(plus[k])
        /\ plus[k] = Zero <=> \A i \in 1..(length + k - 1) : PlusMoves(s, m)[i] = Zero
  BY <1>2, <1>4, WilderNotNegative
<1>6. \A k \in 1..(m - length + 1) :
        /\ NotNegative(minus[k])
        /\ minus[k] = Zero <=> \A i \in 1..(length + k - 1) : MinusMoves(s, m)[i] = Zero
  BY <1>2, <1>4, WilderNotNegative
<1>7. \A k \in 1..(m - length + 1) :
        range[k] = Zero <=> \A i \in 1..(length + k - 1) : RangesAfter(s, m)[i] = Zero
  BY <1>2, <1>4, WilderNotNegative
<1> HIDE DEF plus, minus, range
<1>8. ASSUME NEW k \in 1..(n - length)
      PROVE  /\ DX(plus[k], minus[k], range[k]) = Directed(plus[k], minus[k])
             /\ IsFraction(Directed(plus[k], minus[k]))
  <2>1. k \in 1..(m - length + 1) /\ \A i \in 1..(length + k - 1) : i \in 1..m
    BY <1>1, <1>2
  <2>2. NotNegative(plus[k]) /\ NotNegative(minus[k])
    BY <1>5, <1>6, <2>1
  <2>3. range[k] = Zero => plus[k] = Zero /\ minus[k] = Zero
    BY <1>4, <1>5, <1>6, <1>7, <2>1
  <2>4. NotNegative(plus[k] ++ minus[k]) /\ (plus[k] ++ minus[k] = Zero <=> plus[k] = Zero /\ minus[k] = Zero)
    BY Zenon, <2>2, NotNegativeSum
  <2>5. DX(plus[k], minus[k], range[k]) = Directed(plus[k], minus[k])
    BY <2>3, <2>4 DEF DX, Directed
  <2>6. ASSUME plus[k] ++ minus[k] # Zero
        PROVE  IsFraction(Percent(AbsFrac(plus[k] -- minus[k]) // (plus[k] ++ minus[k])))
    <3>1. IsFraction(plus[k] ++ minus[k]) /\ Less(Zero, plus[k] ++ minus[k])
      BY <2>4, <2>6, PositiveIs DEF NotNegative
    <3>2. IsFraction(plus[k] -- minus[k])
      BY <2>2, FractionsClosed DEF NotNegative
    <3>3. IsFraction(AbsFrac(plus[k] -- minus[k]))
      BY <3>2, AbsFracType
    <3>4. IsFraction(AbsFrac(plus[k] -- minus[k]) // (plus[k] ++ minus[k]))
      BY <3>1, <3>3, DivideIs
    <3>5. IsFraction(Whole(100))
      BY WholeShows
    <3> QED
      BY <3>4, <3>5, FractionsClosed DEF Percent
  <2>7. IsFraction(Directed(plus[k], minus[k]))
    BY <2>6, ZeroShows DEF Directed
  <2> QED
    BY <2>5, <2>7
<1>9. n - length \in Nat
  BY <1>1
<1>10. IsList(Directions(s, n, length), n - length)
  BY <1>3, <1>9 DEF IsList
<1> QED
  BY <1>3, <1>8, <1>10 DEF Fractions, plus, minus, m

LEMMA ADXIsDefined ==
  ASSUME NEW s, NEW n, OrderedCandles(s, n)
  PROVE  ADXMatches(s)
<1> DEFINE up == [i \in 1..(Len(s) - 1) |-> s[i + 1].high -- s[i].high]
           down == [i \in DOMAIN up |-> s[i].low -- s[i + 1].low]
           plus == [i \in DOMAIN up |-> IF Less(Larger(down[i], Zero), up[i]) THEN up[i] ELSE Zero]
           minus == [i \in DOMAIN up |-> IF Less(Larger(up[i], Zero), down[i]) THEN down[i] ELSE Zero]
           dx == [k \in 1..(Len(up) - Length + 1) |->
                    Directed(Wilders(plus, Length + k - 1), Wilders(minus, Length + k - 1))]
           Match(adx) == /\ Len(adx) = Len(s)
                         /\ \A i \in 2 * Length..Len(s) : adx[i] = Wilders(dx, i - Length)
<1>1. IsList(s, n) /\ n \in Nat /\ Len(s) = n
  BY OrderedCandlesAre
<1>2. ADXMatches(s) <=> IF ADXThrows(s, Length) THEN Len(dx) < Length ELSE Match(ADX(s, Length))
  BY Zenon DEF ADXMatches, Directed
<1>3. CASE n < 2 * Length
  <2>1. ADXThrows(s, Length)
    BY <1>1, <1>3 DEF ADXThrows
  <2>2. Len(dx) < Length
    <3> DEFINE m == IF n = 0 THEN 0 ELSE n - 1
               count == IF m - Length + 1 >= 0 THEN m - Length + 1 ELSE 0
    <3>1. m \in Nat /\ count \in Nat /\ count < Length /\ 1..(Len(s) - 1) = 1..m
      BY <1>1, <1>3, LengthsFit
    <3>2. IsList(up, m)
      BY <3>1 DEF IsList
    <3> HIDE DEF up, m
    <3>3. Len(up) = m
      BY <3>2, ListIsSeq
    <3>4. 1..(Len(up) - Length + 1) = 1..count
      BY <3>1, <3>3, LengthsFit
    <3> HIDE DEF count, plus, minus
    <3>5. dx = [k \in 1..count |-> Directed(Wilders(plus, Length + k - 1), Wilders(minus, Length + k - 1))]
      BY Zenon, <3>4
    <3>6. IsList(dx, count)
      BY <3>1, <3>5 DEF IsList
    <3> HIDE DEF dx
    <3>7. Len(dx) = count
      BY <3>6, ListIsSeq
    <3> QED
      BY <3>1, <3>7
  <2> QED
    BY <1>2, <2>1, <2>2
<1>4. CASE ~(n < 2 * Length)
  <2> DEFINE m == n - 1
  <2>1. /\ m \in Nat /\ m + 1 <= n /\ Length <= m /\ m - Length + 1 = n - Length /\ Length < n
        /\ n - Length \in Nat /\ Length <= n - Length /\ Len(s) - 1 = m
        /\ Length \in Nat \ {0} /\ Length \in Nat /\ Length >= 2
    BY <1>1, <1>4, LengthsFit
  <2>2. Len(up) = m /\ DOMAIN up = 1..m
    <3>1. up = [i \in 1..m |-> s[i + 1].high -- s[i].high]
      BY <2>1
    <3>2. IsList(up, m)
      BY <2>1, <3>1 DEF IsList
    <3> QED
      BY <3>2, ListIsSeq
  <2>3. /\ \A i \in 1..m : up[i] = UpMove(s, i) /\ down[i] = DownMove(s, i)
        /\ plus = [i \in 1..m |-> IF Less(Larger(down[i], Zero), up[i]) THEN up[i] ELSE Zero]
        /\ minus = [i \in 1..m |-> IF Less(Larger(up[i], Zero), down[i]) THEN down[i] ELSE Zero]
        /\ dx = [k \in 1..(m - Length + 1) |->
                   Directed(Wilders(plus, Length + k - 1), Wilders(minus, Length + k - 1))]
    BY <2>1, <2>2 DEF UpMove, DownMove
  <2> HIDE DEF up, down, plus, minus, dx, m
  <2>4. /\ NotNegatives(PlusMoves(s, m), m) /\ NotNegatives(MinusMoves(s, m), m)
        /\ \A i \in 1..m : IsFraction(UpMove(s, i)) /\ IsFraction(DownMove(s, i))
    BY <2>1, DirectionsAre
  <2>5. plus = PlusMoves(s, m) /\ minus = MinusMoves(s, m)
    <3>1. ASSUME NEW i \in 1..m
          PROVE  /\ DirectionalMove(UpMove(s, i), DownMove(s, i))
                      = IF Less(Larger(DownMove(s, i), Zero), UpMove(s, i)) THEN UpMove(s, i) ELSE Zero
                 /\ DirectionalMove(DownMove(s, i), UpMove(s, i))
                      = IF Less(Larger(UpMove(s, i), Zero), DownMove(s, i)) THEN DownMove(s, i) ELSE Zero
      BY <2>4, DirectionalMoveIs
    <3>2. plus = PlusMoves(s, m)
      BY <2>3, <3>1 DEF PlusMoves
    <3>3. minus = MinusMoves(s, m)
      BY <2>3, <3>1 DEF MinusMoves
    <3> QED
      BY <3>2, <3>3
  <2>6. Fractions(PlusMoves(s, m), m) /\ Fractions(MinusMoves(s, m), m)
    BY <2>4, NotNegativesAreFractions
  <2>7. \A k \in 1..(m - Length + 1) : Wilder(PlusMoves(s, m), Length)[k] = Wilders(plus, Length + k - 1)
    BY <2>1, <2>5, <2>6, WilderIsWeighted DEF Wilders
  <2>8. \A k \in 1..(m - Length + 1) : Wilder(MinusMoves(s, m), Length)[k] = Wilders(minus, Length + k - 1)
    BY <2>1, <2>5, <2>6, WilderIsWeighted DEF Wilders
  <2>9. /\ \A k \in 1..(n - Length) :
             Directions(s, n, Length)[k]
               = Directed(Wilder(PlusMoves(s, m), Length)[k], Wilder(MinusMoves(s, m), Length)[k])
        /\ Fractions(Directions(s, n, Length), n - Length)
    BY <2>1, DirectionsAreDirected DEF m
  <2>10. dx = Directions(s, n, Length)
    <3>1. IsList(Directions(s, n, Length), n - Length)
      BY <2>9 DEF Fractions
    <3>2. IsList(dx, n - Length) /\ \A k \in 1..(n - Length) :
            dx[k] = Directed(Wilders(plus, Length + k - 1), Wilders(minus, Length + k - 1))
      BY <2>1, <2>3 DEF IsList
    <3>3. \A k \in 1..(n - Length) : dx[k] = Directions(s, n, Length)[k]
      BY <2>1, <2>7, <2>8, <2>9, <3>2
    <3> QED
      BY <3>1, <3>2, <3>3, ListsEqual
  <2>11. \A j \in 1..((n - Length) - Length + 1) :
           Wilder(Directions(s, n, Length), Length)[j] = Wilders(dx, Length + j - 1)
    BY <2>1, <2>9, <2>10, WilderIsWeighted DEF Wilders
  <2>12. ADX(s, Length)
           = [i \in 1..n |-> IF i < 2 * Length THEN Zero
                             ELSE Wilder(Directions(s, n, Length), Length)[i - 2 * Length + 1]]
    BY <1>1, <2>1, ADXIs
  <2>13. Len(ADX(s, Length)) = n
    <3>1. IsList(ADX(s, Length), n)
      BY <1>1, <2>12 DEF IsList
    <3> QED
      BY <3>1, ListIsSeq
  <2>14. ASSUME NEW i \in 2 * Length..n
         PROVE  ADX(s, Length)[i] = Wilders(dx, i - Length)
    <3> DEFINE j == i - 2 * Length + 1
    <3>1. /\ i \in 1..n /\ ~(i < 2 * Length) /\ j \in 1..((n - Length) - Length + 1)
          /\ Length + j - 1 = i - Length
      BY <1>1, <2>1
    <3>2. ADX(s, Length)[i] = Wilder(Directions(s, n, Length), Length)[j]
      BY <2>12, <3>1
    <3> HIDE DEF j
    <3>3. Wilder(Directions(s, n, Length), Length)[j] = Wilders(dx, Length + j - 1)
      BY <2>11, <3>1
    <3> QED
      BY <3>1, <3>2, <3>3
  <2>15. Match(ADX(s, Length))
    BY <1>1, <2>13, <2>14
  <2>16. ~ADXThrows(s, Length)
    BY <1>1, <1>4 DEF ADXThrows
  <2> QED
    BY Zenon, <1>2, <2>15, <2>16 DEF up, down, plus, minus, dx
<1> QED
  BY <1>3, <1>4


-----------------------------------------------------------------------------
(* MACD.                                                                   *)

Average(s, length, i) == Weighted(s, length, Frac(2, length + 1), i)

LEMMA EMAIs ==
  ASSUME NEW s, NEW n, Fractions(s, n), NEW length \in Nat \ {0}, length < n
  PROVE  /\ IsList(EMA(s, length), n - length + 1) /\ Fractions(EMA(s, length), n - length + 1)
         /\ \A j \in 1..(n - length + 1) : EMA(s, length)[j] = Average(s, length, length + j - 1)
<1>1. IsFraction(Frac(2, length + 1))
  <2>1. 2 \in Int /\ length + 1 \in Nat \ {0}
    OBVIOUS
  <2> QED
    BY <2>1, FracType
<1>2. Fractions(EMA(s, length), n - length + 1)
  BY <1>1, SmoothedType DEF EMA
<1>3. \A j \in 1..(n - length + 1) : EMA(s, length)[j] = Average(s, length, length + j - 1)
  BY <1>1, SmoothedIsWeighted DEF EMA, Average
<1> QED
  BY <1>2, <1>3 DEF Fractions

LEMMA MacdLineIs ==
  ASSUME NEW s, NEW n, Fractions(s, n), NEW fast \in Nat \ {0}, NEW slow \in Nat \ {0},
         fast < slow, slow < n
  PROVE  /\ Fractions(MacdLine(s, fast, slow), n - slow + 1)
         /\ \A i \in 1..(n - slow + 1) :
              /\ MacdLine(s, fast, slow)[i] = Average(s, fast, slow + i - 1) -- Average(s, slow, slow + i - 1)
              /\ slow - fast + i \in 1..(n - fast + 1)
              /\ MacdLine(s, fast, slow)[i] = EMA(s, fast)[slow - fast + i] -- EMA(s, slow)[i]
<1> DEFINE k == slow - fast + 1
           many == n - slow + 1
           quick == EMA(s, fast)
           cut == From(quick, k)
           calm == EMA(s, slow)
           line == [i \in DOMAIN calm |-> Minus(cut, calm, i)]
<1>1. MacdLine(s, fast, slow) = line
  BY Zenon DEF MacdLine
<1>2. n \in Nat
  BY DEF Fractions, IsList
<1>3. /\ fast < n /\ many \in Nat /\ k \in 1..((n - fast + 1) + 1) /\ (n - fast + 1) - k + 1 = many
  BY <1>2
<1>4. /\ IsList(quick, n - fast + 1) /\ Fractions(quick, n - fast + 1)
      /\ \A j \in 1..(n - fast + 1) : quick[j] = Average(s, fast, fast + j - 1)
  BY <1>3, EMAIs
<1>5. /\ IsList(calm, many) /\ Fractions(calm, many)
      /\ \A j \in 1..many : calm[j] = Average(s, slow, slow + j - 1)
  BY EMAIs
<1> HIDE DEF quick, calm
<1>6. IsList(cut, many) /\ \A i \in 1..many : cut[i] = quick[i + k - 1] /\ i + k - 1 \in 1..(n - fast + 1)
  <2> HIDE DEF k, many
  <2>1. /\ IsList(cut, (n - fast + 1) - k + 1)
        /\ \A i \in 1..((n - fast + 1) - k + 1) : cut[i] = quick[i + k - 1] /\ i + k - 1 \in 1..(n - fast + 1)
    BY <1>3, <1>4, RestIs
  <2> QED
    BY Zenon, <1>3, <2>1
<1> HIDE DEF cut
<1>7. DOMAIN calm = 1..many /\ DOMAIN cut = 1..many
  BY <1>5, <1>6 DEF IsList
<1>8. ASSUME NEW i \in 1..many
      PROVE  /\ line[i] = Average(s, fast, slow + i - 1) -- Average(s, slow, slow + i - 1)
             /\ slow - fast + i \in 1..(n - fast + 1)
             /\ line[i] = quick[slow - fast + i] -- calm[i]
             /\ IsFraction(line[i])
  <2>1. i + k - 1 = slow - fast + i /\ fast + (slow - fast + i) - 1 = slow + i - 1
    BY <1>2
  <2>2. line[i] = cut[i] -- calm[i]
    BY <1>7 DEF Minus
  <2>3. cut[i] = quick[slow - fast + i] /\ slow - fast + i \in 1..(n - fast + 1)
    BY <1>6, <2>1
  <2>4. quick[slow - fast + i] = Average(s, fast, slow + i - 1)
    BY <1>4, <2>1, <2>3
  <2>5. calm[i] = Average(s, slow, slow + i - 1)
    BY <1>5
  <2>6. IsFraction(quick[slow - fast + i]) /\ IsFraction(calm[i])
    BY <1>4, <1>5, <2>3 DEF Fractions
  <2> HIDE DEF line
  <2> QED
    BY <2>2, <2>3, <2>4, <2>5, <2>6, FractionsClosed
<1>9. IsList(line, many)
  BY <1>3, <1>7 DEF IsList
<1> HIDE DEF line
<1>10. Fractions(line, many)
  BY <1>8, <1>9 DEF Fractions
<1> QED
  BY <1>1, <1>8, <1>10 DEF many, quick, calm

\* With closes enough, the three arrays are as long, and what they should be.
LEMMA MACDIs ==
  ASSUME NEW s, NEW n, Fractions(s, n), NEW fast \in Nat \ {0}, NEW slow \in Nat \ {0}, fast < slow,
         NEW length \in Nat \ {0}, slow + length <= n
  PROVE  LET line == MacdLine(s, fast, slow)
             m == MACD(s, fast, slow, length)
             many == n - slow - length + 2
         IN  /\ Fractions(line, n - slow + 1)
             /\ m.macd = From(line, length) /\ IsList(m.macd, many)
             /\ m.signal = EMA(line, length) /\ IsList(m.signal, many)
             /\ IsList(m.hist, many)
             /\ \A j \in 1..many : /\ m.macd[j] = line[length + j - 1]
                                   /\ length + j - 1 \in 1..(n - slow + 1)
                                   /\ m.signal[j] = Average(line, length, length + j - 1)
                                   /\ m.hist[j] = m.macd[j] -- m.signal[j]
<1> DEFINE line == MacdLine(s, fast, slow)
           k == n - slow + 1
           many == n - slow - length + 2
           macd == From(line, length)
           signal == EMA(line, length)
           hist == [i \in DOMAIN signal |-> Minus(macd, signal, i)]
<1>1. MACD(s, fast, slow, length).macd = macd /\ MACD(s, fast, slow, length).signal = signal
      /\ MACD(s, fast, slow, length).hist = hist
  BY DEF MACD
<1>2. n \in Nat
  BY DEF Fractions, IsList
<1>3. /\ slow < n /\ k \in Nat /\ length < k /\ length \in 1..(k + 1) /\ many \in Nat
      /\ k - length + 1 = many
  BY <1>2
<1>4. Fractions(line, k)
  BY <1>3, MacdLineIs
<1> HIDE DEF line, k, many
<1>5. /\ IsList(signal, many)
      /\ \A j \in 1..many : signal[j] = Average(line, length, length + j - 1)
  BY <1>3, <1>4, EMAIs
<1>6. IsList(macd, many) /\ \A j \in 1..many : macd[j] = line[j + length - 1] /\ j + length - 1 \in 1..k
  <2>1. IsList(line, k)
    BY <1>4 DEF Fractions
  <2> QED
    BY <1>3, <2>1, RestIs
<1>7. \A j \in 1..many : j + length - 1 = length + j - 1
  BY <1>3
<1> HIDE DEF macd, signal
<1>8. IsList(hist, many) /\ \A j \in 1..many : hist[j] = macd[j] -- signal[j]
  <2>1. DOMAIN macd = 1..many /\ DOMAIN signal = 1..many
    BY <1>5, <1>6 DEF IsList
  <2>2. hist = [j \in 1..many |-> Minus(macd, signal, j)] /\ \A j \in 1..many : Minus(macd, signal, j) = macd[j] -- signal[j]
    BY <2>1 DEF Minus
  <2> QED
    BY <1>3, <2>2 DEF IsList
<1> HIDE DEF hist
<1>9. \A j \in 1..many : macd[j] = line[length + j - 1] /\ length + j - 1 \in 1..k
  BY <1>6, <1>7
<1> QED
  BY Zenon, <1>1, <1>4, <1>5, <1>6, <1>8, <1>9 DEF line, k, many, macd, signal

\* What MACD gives a market of n closes is aligned from SlowLength + signal on, and where
\* it throws there are too few of them.
LEMMA MACDIsDefined ==
  ASSUME NEW s, NEW n, Fractions(s, n), NEW signal \in SignalLengths
  PROVE  MACDMatches(s, signal)
<1> DEFINE line == [k \in 1..(n - SlowLength + 1) |->
                      Average(s, Length, SlowLength + k - 1) -- Average(s, SlowLength, SlowLength + k - 1)]
           code == MacdLine(s, Length, SlowLength)
           m == MACD(s, Length, SlowLength, signal)
           Aligned ==
             /\ m.macd = From(line, signal)
             /\ m.signal = [j \in DOMAIN m.macd |-> Average(line, signal, signal + j - 1)]
             /\ m.hist = [j \in DOMAIN m.macd |-> m.macd[j] -- m.signal[j]]
<1>1. Len(s) = n /\ n \in Nat
  BY ListIsSeq DEF Fractions
<1>2. MACDMatches(s, signal) <=>
        /\ MACDThrows(s, Length, SlowLength, signal) => Len(line) < signal
        /\ n >= SlowLength + signal => Aligned
  BY Zenon, <1>1 DEF MACDMatches, Average
<1>3. m.macd = From(code, signal)
  BY DEF MACD
<1>4. /\ Length \in Nat \ {0} /\ Length >= 2 /\ SlowLength \in Nat \ {0} /\ Length < SlowLength
      /\ signal \in Nat \ {0}
  BY LengthsFit
<1>5. ASSUME MACDThrows(s, Length, SlowLength, signal) PROVE Len(line) < signal
  <2> DEFINE count == IF n - SlowLength + 1 >= 0 THEN n - SlowLength + 1 ELSE 0
  <2>1. n < Length \/ n < SlowLength \/ n < signal
    BY <1>1, <1>5 DEF MACDThrows
  <2>2. count \in Nat /\ count < signal /\ 1..(n - SlowLength + 1) = 1..count
    BY <1>1, <1>4, <2>1
  <2> HIDE DEF count
  <2>3. IsList(line, count)
    BY <2>2 DEF IsList
  <2> QED
    BY <2>2, <2>3, ListIsSeq
<1> HIDE DEF line, code, m
<1>6. ASSUME n >= SlowLength + signal PROVE Aligned
  <2> DEFINE many == n - SlowLength - signal + 2
  <2>1. SlowLength + signal <= n /\ SlowLength < n
    BY <1>1, <1>4, <1>6
  <2>2. /\ Fractions(code, n - SlowLength + 1)
        /\ \A i \in 1..(n - SlowLength + 1) :
             code[i] = Average(s, Length, SlowLength + i - 1) -- Average(s, SlowLength, SlowLength + i - 1)
    BY <1>4, <2>1, MacdLineIs DEF code
  <2>3. code = line
    BY <2>2 DEF Fractions, IsList, line
  <2>4. /\ IsList(m.macd, many) /\ IsList(m.signal, many) /\ IsList(m.hist, many)
        /\ \A j \in 1..many : /\ m.signal[j] = Average(code, signal, signal + j - 1)
                              /\ m.hist[j] = m.macd[j] -- m.signal[j]
    BY <1>4, <2>1, MACDIs DEF code, m
  <2> HIDE DEF many
  <2>5. DOMAIN m.macd = 1..many
    BY <2>4 DEF IsList
  <2>6. m.signal = [j \in 1..many |-> Average(line, signal, signal + j - 1)]
    BY <2>3, <2>4 DEF IsList
  <2>7. m.hist = [j \in 1..many |-> m.macd[j] -- m.signal[j]]
    BY <2>4 DEF IsList
  <2> QED
    BY Zenon, <1>3, <2>3, <2>5, <2>6, <2>7
<1> QED
  BY Zenon, <1>2, <1>5, <1>6

-----------------------------------------------------------------------------
LEMMA ChartMatchesDefinitions ==
  ASSUME kLines \in Seq(KLine)
  PROVE  IndicatorsMatchDefinitions
<1>1. OrderedCandles(kLines, Len(kLines)) /\ Fractions(Close(kLines), Len(kLines))
  BY ChartIsOrdered, ChartIsTyped
<1>2. /\ MeansMatch(Close(kLines)) /\ RSIMatches(Close(kLines))
      /\ \A signal \in SignalLengths : MACDMatches(Close(kLines), signal)
  BY <1>1, MeansAreDefined, RSIIsDefined, MACDIsDefined
<1>3. ATRMatches(kLines) /\ ADXMatches(kLines)
  BY <1>1, ATRIsDefined, ADXIsDefined
<1> QED
  BY <1>2, <1>3 DEF IndicatorsMatchDefinitions

\* The averages, RSI, ATR, ADX and MACD are what their definitions say of every window,
\* and ADX and MACD throw only where there is nothing to say, for any chart, lengths and
\* fractions; not covered are ATR of exactly Length candles, which throws, averages of
\* series not longer than Length, and MACD below SlowLength + signal. (indicator.ts)
THEOREM IndicatorsAreDefined == Spec => []IndicatorsMatchDefinitions
<1>1. kLines \in Seq(KLine) => IndicatorsMatchDefinitions
  BY ChartMatchesDefinitions
<1> QED
  BY <1>1, ChartsAreTyped, PTL


-----------------------------------------------------------------------------
(* Charts upside down.                                                     *)

LEMMA NegativeShows ==
  ASSUME NEW a, NEW n, NEW d, Shows(a, n, d)
  PROVE  Shows(Negative(a), 0 - n, d) /\ IsFraction(Negative(a))
<1>1. n \in Int /\ d \in Nat \ {0} /\ IsFraction(a)
  BY ShowsType
<1>2. Shows(Zero, 0, d)
  BY <1>1, ZeroShows
<1>3. Shows(Zero -- a, 0 - n, d)
  BY Zenon, <1>2, CommonSum
<1> QED
  BY <1>3, ShowsType DEF Negative

LEMMA NegativeType ==
  ASSUME NEW a, IsFraction(a)
  PROVE  IsFraction(Negative(a))
BY ZeroShows, FractionsClosed DEF Negative

LEMMA NegativeSums ==
  ASSUME NEW a, IsFraction(a), NEW b, IsFraction(b)
  PROVE  /\ Negative(a) ++ Negative(b) = Negative(a ++ b)
         /\ Negative(a) -- Negative(b) = Negative(a -- b)
         /\ Negative(a) -- Negative(b) = b -- a
<1>1. PICK d \in Nat \ {0}, n \in Int, m \in Int : Shows(a, n, d) /\ Shows(b, m, d)
  BY CommonOfTwo
<1>2. Shows(Negative(a), 0 - n, d) /\ Shows(Negative(b), 0 - m, d)
  BY Zenon, <1>1, NegativeShows
<1>3. Shows(a ++ b, n + m, d) /\ Shows(a -- b, n - m, d) /\ Shows(b -- a, m - n, d)
  BY Zenon, <1>1, CommonSum
<1>4. /\ Shows(Negative(a) ++ Negative(b), (0 - n) + (0 - m), d)
      /\ Shows(Negative(a) -- Negative(b), (0 - n) - (0 - m), d)
  BY Zenon, <1>2, CommonSum
<1>5. Shows(Negative(a ++ b), 0 - (n + m), d) /\ Shows(Negative(a -- b), 0 - (n - m), d)
  BY Zenon, <1>3, NegativeShows
<1>6. (0 - n) + (0 - m) = 0 - (n + m) /\ (0 - n) - (0 - m) = 0 - (n - m) /\ (0 - n) - (0 - m) = m - n
  OBVIOUS
<1>7. Negative(a) ++ Negative(b) = Negative(a ++ b)
  BY <1>4, <1>5, <1>6, CommonEqual
<1>8. Negative(a) -- Negative(b) = Negative(a -- b)
  BY <1>4, <1>5, <1>6, CommonEqual
<1>9. Negative(a) -- Negative(b) = b -- a
  BY <1>3, <1>4, <1>6, CommonEqual
<1> QED
  BY <1>7, <1>8, <1>9

LEMMA NegativeProducts ==
  ASSUME NEW a, IsFraction(a), NEW c, IsFraction(c)
  PROVE  /\ Negative(a) ** c = Negative(a ** c)
         /\ Negative(a) ** Negative(a) = a ** a
         /\ Negative(a) = Whole(-1) ** a
         /\ AbsFrac(Negative(a)) = AbsFrac(a)
<1>1. PICK d \in Nat \ {0}, n \in Int, m \in Int : Shows(a, n, d) /\ Shows(c, m, d)
  BY CommonOfTwo
<1>2. Shows(Negative(a), 0 - n, d) /\ Shows(Whole(-1), -1, 1)
  BY <1>1, NegativeShows, WholeShows
<1>3. /\ Shows(Negative(a) ** c, (0 - n) * m, d * d) /\ Shows(a ** c, n * m, d * d)
      /\ Shows(Negative(a) ** Negative(a), (0 - n) * (0 - n), d * d) /\ Shows(a ** a, n * n, d * d)
      /\ Shows(Whole(-1) ** a, (-1) * n, 1 * d)
  BY Zenon, <1>1, <1>2, AddShows
<1>4. Shows(Negative(a ** c), 0 - (n * m), d * d)
  BY Zenon, <1>3, NegativeShows
<1>5. Shows(AbsFrac(Negative(a)), Abs(0 - n), d) /\ Shows(AbsFrac(a), Abs(n), d)
  BY Zenon, <1>1, <1>2, AbsFracIs
<1>6. /\ (0 - n) * m = 0 - (n * m) /\ (0 - n) * (0 - n) = n * n /\ (-1) * n = 0 - n /\ 1 * d = d
  BY SMT
<1>7. Abs(0 - n) = Abs(n)
  BY DEF Abs
<1>8. Negative(a) ** c = Negative(a ** c)
  BY <1>3, <1>4, <1>6, CommonEqual
<1>9. Negative(a) ** Negative(a) = a ** a
  BY <1>3, <1>6, CommonEqual
<1>10. Negative(a) = Whole(-1) ** a
  BY <1>2, <1>3, <1>6, CommonEqual
<1>11. AbsFrac(Negative(a)) = AbsFrac(a)
  BY <1>5, <1>7, CommonEqual
<1> QED
  BY <1>8, <1>9, <1>10, <1>11

LEMMA NegativeQuotient ==
  ASSUME NEW a, IsFraction(a), NEW k \in Nat \ {0}
  PROVE  Negative(a) // Whole(k) = Negative(a // Whole(k))
<1>1. k \in Int /\ k > 0
  OBVIOUS
<1>2. IsFraction(Whole(k)) /\ Less(Zero, Whole(k))
  BY <1>1, WholePositive
<1>3. IsFraction(Negative(a))
  BY NegativeType
<1>4. a // Whole(k) = a ** Reciprocal(Whole(k)) /\ IsFraction(Reciprocal(Whole(k)))
  BY <1>2, DivideIs
<1>5. Negative(a) // Whole(k) = Negative(a) ** Reciprocal(Whole(k))
  BY <1>2, <1>3, DivideIs
<1>6. Negative(a) ** Reciprocal(Whole(k)) = Negative(a ** Reciprocal(Whole(k)))
  BY <1>4, NegativeProducts
<1> QED
  BY Zenon, <1>4, <1>5, <1>6

\* t is the list s with every value negated.
Negated(t, s, n) == IsList(t, n) /\ \A i \in 1..n : t[i] = Negative(s[i])

LEMMA NegatedIs ==
  ASSUME NEW s, NEW n, Fractions(s, n), NEW t, Negated(t, s, n)
  PROVE  /\ Fractions(t, n) /\ IsList(t, n) /\ IsList(s, n) /\ n \in Nat
         /\ \A i \in 1..n : t[i] = Negative(s[i]) /\ IsFraction(s[i])
BY NegativeType DEF Fractions, Negated, IsList

LEMMA TotalNegates ==
  ASSUME NEW s, NEW n, Fractions(s, n), NEW t, Negated(t, s, n)
  PROVE  \A k \in 0..n : Total(First(t, k)) = Negative(Total(First(s, k)))
<1>1. IsList(t, n) /\ \A i \in 1..n : t[i] = Negative(s[i]) /\ IsFraction(s[i])
  BY NegatedIs
<1>2. IsFraction(Whole(-1))
  BY WholeShows
<1>3. \A i \in 1..n : t[i] = Whole(-1) ** s[i]
  BY <1>1, NegativeProducts
<1>4. \A k \in 0..n : Total(First(t, k)) = Whole(-1) ** Total(First(s, k))
  BY <1>1, <1>2, <1>3, TotalScales
<1>5. \A k \in 0..n : IsFraction(Total(First(s, k)))
  BY TotalType
<1>6. \A k \in 0..n : Negative(Total(First(s, k))) = Whole(-1) ** Total(First(s, k))
  BY <1>5, NegativeProducts
<1> QED
  BY <1>4, <1>6

LEMMA MeanNegates ==
  ASSUME NEW s, NEW n, Fractions(s, n), NEW t, Negated(t, s, n), n # 0
  PROVE  Mean(t) = Negative(Mean(s)) /\ IsFraction(Mean(s))
<1>1. Fractions(t, n) /\ IsList(t, n) /\ IsList(s, n) /\ n \in Nat \ {0} /\ n \in 0..n
  BY NegatedIs
<1>2. Mean(t) = Total(t) // Whole(n) /\ Mean(s) = Total(s) // Whole(n) /\ IsFraction(Mean(s))
  BY <1>1, MeanType
<1>3. First(t, n) = t /\ First(s, n) = s
  BY <1>1, FirstOfAll
<1>4. Total(t) = Negative(Total(s))
  <2>1. Total(First(t, n)) = Negative(Total(First(s, n)))
    BY <1>1, TotalNegates
  <2> QED
    BY <1>3, <2>1
<1>5. IsFraction(Total(s))
  BY TotalType
<1> QED
  BY <1>1, <1>2, <1>4, <1>5, NegativeQuotient

LEMMA PieceNegates ==
  ASSUME NEW s, NEW n, Fractions(s, n), NEW t, Negated(t, s, n),
         NEW a \in 1..(n + 1), NEW b \in Nat, a - 1 <= b, b <= n
  PROVE  /\ Fractions(SubSeq(s, a, b), b - a + 1)
         /\ Negated(SubSeq(t, a, b), SubSeq(s, a, b), b - a + 1)
<1>1. /\ IsList(t, n) /\ IsList(s, n) /\ n \in Nat
      /\ \A i \in 1..n : t[i] = Negative(s[i]) /\ IsFraction(s[i])
  BY NegatedIs
<1>2. /\ IsList(SubSeq(s, a, b), b - a + 1)
      /\ \A i \in 1..(b - a + 1) : SubSeq(s, a, b)[i] = s[i + a - 1]
  BY <1>1, PieceOfList
<1>3. /\ IsList(SubSeq(t, a, b), b - a + 1)
      /\ \A i \in 1..(b - a + 1) : SubSeq(t, a, b)[i] = t[i + a - 1]
  BY <1>1, PieceOfList
<1>4. \A i \in 1..(b - a + 1) : i + a - 1 \in 1..n
  BY <1>1
<1> QED
  BY <1>1, <1>2, <1>3, <1>4 DEF Fractions, Negated


LEMMA FirstMeanNegates ==
  ASSUME NEW s, NEW n, Fractions(s, n), NEW t, Negated(t, s, n), NEW length \in Nat \ {0}, length <= n
  PROVE  /\ Mean(First(t, length)) = Negative(Mean(First(s, length)))
         /\ Fractions(t, n)
<1>1. n \in Nat /\ Fractions(t, n)
  BY NegatedIs
<1>2. 1 \in 1..(n + 1) /\ length \in Nat /\ 1 - 1 <= length /\ length - 1 + 1 = length
  BY <1>1
<1>3. Fractions(SubSeq(s, 1, length), length) /\ Negated(SubSeq(t, 1, length), SubSeq(s, 1, length), length)
  BY <1>2, PieceNegates
<1>4. Mean(SubSeq(t, 1, length)) = Negative(Mean(SubSeq(s, 1, length)))
  BY <1>3, MeanNegates
<1> QED
  BY <1>1, <1>4 DEF First

\* A weighted average of negated values is the negated average.
LEMMA WeightedNegates ==
  ASSUME NEW s, NEW n, Fractions(s, n), NEW t, Negated(t, s, n), NEW length \in Nat \ {0}, length <= n,
         NEW alpha, IsFraction(alpha)
  PROVE  \A k \in 0..(n - length) :
           Weighted(t, length, alpha, length + k) = Negative(Weighted(s, length, alpha, length + k))
<1> DEFINE S == {k \in 0..(n - length) :
                   Weighted(t, length, alpha, length + k) = Negative(Weighted(s, length, alpha, length + k))}
           rest == Whole(1) -- alpha
<1>1. n \in Nat /\ Fractions(t, n) /\ (\A i \in 1..n : t[i] = Negative(s[i]) /\ IsFraction(s[i])) /\ n - length \in Nat
  BY NegatedIs
<1>2. IsFraction(rest)
  BY WholeShows, FractionsClosed
<1>3. 0 \in S
  <2>1. Weighted(t, length, alpha, length + 0) = Mean(First(t, length))
    BY <1>1, WeightedStart
  <2>2. Weighted(s, length, alpha, length + 0) = Mean(First(s, length))
    BY WeightedStart
  <2>3. Mean(First(t, length)) = Negative(Mean(First(s, length)))
    BY FirstMeanNegates
  <2>4. 0 \in 0..(n - length)
    BY <1>1
  <2> QED
    BY <2>1, <2>2, <2>3, <2>4
<1>4. ASSUME NEW k \in 0..((n - length) - 1), k \in S
      PROVE  k + 1 \in S
  <2> DEFINE i == length + k
             v == Weighted(s, length, alpha, i)
             x == s[i + 1]
  <2>1. /\ k \in Nat /\ length + k + 1 <= n /\ i + 1 \in 1..n /\ k + 1 \in 0..(n - length)
        /\ length + (k + 1) = i + 1
    BY <1>1
  <2>2. IsFraction(v) /\ MovesOn(s, length, alpha, i)
    BY <2>1, WeightedUnfolds
  <2>3. MovesOn(t, length, alpha, i)
    BY <1>1, <2>1, WeightedUnfolds
  <2>4. Weighted(t, length, alpha, i) = Negative(v)
    BY <1>4
  <2>5. IsFraction(x) /\ t[i + 1] = Negative(x)
    BY <1>1, <2>1
  <2>6. Weighted(s, length, alpha, i + 1) = (x ** alpha) ++ (v ** rest)
    BY Zenon, <2>2 DEF MovesOn
  <2>7. Weighted(t, length, alpha, i + 1) = (Negative(x) ** alpha) ++ (Negative(v) ** rest)
    BY Zenon, <2>3, <2>4, <2>5 DEF MovesOn
  <2> HIDE DEF i, v, x, rest
  <2>8. Negative(x) ** alpha = Negative(x ** alpha)
    BY <2>5, NegativeProducts
  <2>9. Negative(v) ** rest = Negative(v ** rest)
    BY <1>2, <2>2, NegativeProducts
  <2>10. IsFraction(x ** alpha) /\ IsFraction(v ** rest)
    BY <1>2, <2>2, <2>5, FractionsClosed
  <2>11. Negative(x ** alpha) ++ Negative(v ** rest) = Negative((x ** alpha) ++ (v ** rest))
    BY <2>10, NegativeSums
  <2> QED
    BY <2>1, <2>6, <2>7, <2>8, <2>9, <2>11
<1> HIDE DEF S
<1>5. \A k \in 0..(n - length) : k \in S
  BY <1>1, <1>3, <1>4, BeginningInduction
<1> QED
  BY <1>5 DEF S

LEMMA EMANegates ==
  ASSUME NEW s, NEW n, Fractions(s, n), NEW t, Negated(t, s, n), NEW length \in Nat \ {0}, length < n
  PROVE  /\ Fractions(EMA(s, length), n - length + 1)
         /\ Negated(EMA(t, length), EMA(s, length), n - length + 1)
<1>1. Fractions(t, n) /\ n \in Nat /\ length <= n
  BY NegatedIs
<1>2. /\ Fractions(EMA(s, length), n - length + 1)
      /\ \A j \in 1..(n - length + 1) : EMA(s, length)[j] = Average(s, length, length + j - 1)
  BY EMAIs
<1>3. /\ IsList(EMA(t, length), n - length + 1)
      /\ \A j \in 1..(n - length + 1) : EMA(t, length)[j] = Average(t, length, length + j - 1)
  BY <1>1, EMAIs
<1>4. IsFraction(Frac(2, length + 1))
  <2>1. 2 \in Int /\ length + 1 \in Nat \ {0}
    OBVIOUS
  <2> QED
    BY <2>1, FracType
<1>5. \A k \in 0..(n - length) : Average(t, length, length + k) = Negative(Average(s, length, length + k))
  <2> DEFINE alpha == Frac(2, length + 1)
  <2>1. IsFraction(alpha)
    BY <1>4
  <2> HIDE DEF alpha
  <2>2. \A k \in 0..(n - length) :
          Weighted(t, length, alpha, length + k) = Negative(Weighted(s, length, alpha, length + k))
    BY <1>1, <2>1, WeightedNegates
  <2> QED
    BY Zenon, <2>2 DEF Average, alpha
<1>6. \A j \in 1..(n - length + 1) : j - 1 \in 0..(n - length) /\ length + (j - 1) = length + j - 1
  BY <1>1
<1>7. \A j \in 1..(n - length + 1) : Average(t, length, length + j - 1) = Negative(Average(s, length, length + j - 1))
  BY <1>5, <1>6
<1> QED
  BY <1>2, <1>3, <1>7 DEF Negated

LEMMA MacdLineNegates ==
  ASSUME NEW s, NEW n, Fractions(s, n), NEW t, Negated(t, s, n), NEW fast \in Nat \ {0},
         NEW slow \in Nat \ {0}, fast < slow, slow < n
  PROVE  Negated(MacdLine(t, fast, slow), MacdLine(s, fast, slow), n - slow + 1)
<1> DEFINE m == n - slow + 1
           line == MacdLine(s, fast, slow)
           mirrored == MacdLine(t, fast, slow)
<1>1. Fractions(t, n) /\ n \in Nat /\ fast < n
  BY NegatedIs
<1>2. \A i \in 1..m : /\ slow - fast + i \in 1..(n - fast + 1)
                      /\ line[i] = EMA(s, fast)[slow - fast + i] -- EMA(s, slow)[i]
  BY MacdLineIs
<1>3. /\ Fractions(mirrored, m)
      /\ \A i \in 1..m : mirrored[i] = EMA(t, fast)[slow - fast + i] -- EMA(t, slow)[i]
  BY <1>1, MacdLineIs
<1>4. Fractions(EMA(s, fast), n - fast + 1) /\ Negated(EMA(t, fast), EMA(s, fast), n - fast + 1)
  BY <1>1, EMANegates
<1>5. Fractions(EMA(s, slow), m) /\ Negated(EMA(t, slow), EMA(s, slow), m)
  BY <1>1, EMANegates
<1> HIDE DEF m, line, mirrored
<1>6. ASSUME NEW i \in 1..m
      PROVE  mirrored[i] = Negative(line[i])
  <2> DEFINE x == EMA(s, fast)[slow - fast + i]
             y == EMA(s, slow)[i]
  <2>1. EMA(t, fast)[slow - fast + i] = Negative(x) /\ IsFraction(x)
    BY <1>2, <1>4 DEF Negated, Fractions
  <2>2. EMA(t, slow)[i] = Negative(y) /\ IsFraction(y)
    BY <1>5 DEF Negated, Fractions
  <2>3. line[i] = x -- y /\ mirrored[i] = Negative(x) -- Negative(y)
    BY Zenon, <1>2, <1>3, <2>1, <2>2
  <2> HIDE DEF x, y
  <2>4. Negative(x) -- Negative(y) = Negative(x -- y)
    BY <2>1, <2>2, NegativeSums
  <2> QED
    BY <2>3, <2>4
<1> QED
  BY <1>3, <1>6 DEF Negated, Fractions, m, line, mirrored

LEMMA HistNegates ==
  ASSUME NEW s, NEW n, Fractions(s, n), NEW t, Negated(t, s, n), NEW fast \in Nat \ {0},
         NEW slow \in Nat \ {0}, fast < slow, NEW length \in Nat \ {0}, slow + length <= n
  PROVE  LET hist == MACD(s, fast, slow, length).hist
         IN  MACD(t, fast, slow, length).hist = [j \in DOMAIN hist |-> Negative(hist[j])]
<1> DEFINE line == MacdLine(s, fast, slow)
           mirrored == MacdLine(t, fast, slow)
           up == MACD(s, fast, slow, length)
           down == MACD(t, fast, slow, length)
           many == n - slow - length + 2
<1>1. /\ Fractions(t, n) /\ n \in Nat /\ slow < n /\ length < n - slow + 1
      /\ (n - slow + 1) - length + 1 = many
  BY NegatedIs
<1>2. /\ Fractions(line, n - slow + 1)
      /\ up.signal = EMA(line, length) /\ IsList(up.hist, many)
      /\ \A j \in 1..many : /\ up.macd[j] = line[length + j - 1]
                            /\ length + j - 1 \in 1..(n - slow + 1)
                            /\ up.hist[j] = up.macd[j] -- up.signal[j]
  BY MACDIs
<1>3. /\ down.signal = EMA(mirrored, length) /\ IsList(down.hist, many)
      /\ \A j \in 1..many : /\ down.macd[j] = mirrored[length + j - 1]
                            /\ down.hist[j] = down.macd[j] -- down.signal[j]
  BY <1>1, MACDIs
<1>4. Negated(mirrored, line, n - slow + 1)
  BY <1>1, MacdLineNegates
<1> HIDE DEF line, mirrored, up, down, many
<1>5. Fractions(EMA(line, length), many) /\ Negated(EMA(mirrored, length), EMA(line, length), many)
  <2>1. /\ Fractions(EMA(line, length), (n - slow + 1) - length + 1)
        /\ Negated(EMA(mirrored, length), EMA(line, length), (n - slow + 1) - length + 1)
    BY <1>1, <1>2, <1>4, EMANegates
  <2> QED
    BY <1>1, <2>1
<1>6. ASSUME NEW j \in 1..many
      PROVE  down.hist[j] = Negative(up.hist[j])
  <2> DEFINE x == up.macd[j]
             y == up.signal[j]
  <2>1. down.macd[j] = Negative(x) /\ IsFraction(x)
    BY <1>2, <1>3, <1>4 DEF Negated, Fractions
  <2>2. down.signal[j] = Negative(y) /\ IsFraction(y)
    BY <1>2, <1>3, <1>5 DEF Negated, Fractions
  <2>3. up.hist[j] = x -- y /\ down.hist[j] = Negative(x) -- Negative(y)
    BY Zenon, <1>2, <1>3, <2>1, <2>2
  <2> HIDE DEF x, y
  <2>4. Negative(x) -- Negative(y) = Negative(x -- y)
    BY <2>1, <2>2, NegativeSums
  <2> QED
    BY <2>3, <2>4
<1>7. down.hist = [j \in DOMAIN up.hist |-> Negative(up.hist[j])]
  BY <1>2, <1>3, <1>6 DEF IsList
<1> QED
  BY <1>7 DEF up, down

Deviations(w, mean) == [i \in DOMAIN w |-> (w[i] -- mean) ** (w[i] -- mean)]

\* As far below a negated mean as they were above the mean.
LEMMA DeviationsStay ==
  ASSUME NEW w, NEW k, Fractions(w, k), NEW v, Negated(v, w, k), NEW mean, IsFraction(mean)
  PROVE  Deviations(v, Negative(mean)) = Deviations(w, mean)
<1>1. DOMAIN v = 1..k /\ DOMAIN w = 1..k /\ \A i \in 1..k : v[i] = Negative(w[i]) /\ IsFraction(w[i])
  BY NegatedIs DEF IsList
<1>2. ASSUME NEW i \in 1..k
      PROVE  (v[i] -- Negative(mean)) ** (v[i] -- Negative(mean)) = (w[i] -- mean) ** (w[i] -- mean)
  <2> DEFINE a == w[i] -- mean
  <2>1. v[i] = Negative(w[i]) /\ IsFraction(w[i])
    BY <1>1
  <2>2. Negative(w[i]) -- Negative(mean) = Negative(a)
    BY <2>1, NegativeSums
  <2>3. IsFraction(a)
    BY <2>1, FractionsClosed
  <2> HIDE DEF a
  <2>4. Negative(a) ** Negative(a) = a ** a
    BY <2>3, NegativeProducts
  <2> QED
    BY Zenon, <2>1, <2>2, <2>4 DEF a
<1> QED
  BY <1>1, <1>2 DEF Deviations

\* The bands of a series upside down.
LEMMA BandsFlip ==
  ASSUME NEW s, NEW n, Fractions(s, n), NEW t, Negated(t, s, n), NEW length \in Nat \ {0}, NEW multiplier
  PROVE  LET bands == BollingerBands(s, length, multiplier)
         IN  BollingerBands(t, length, multiplier)
               = [j \in DOMAIN bands |-> [bands[j] EXCEPT !.basis = Negative(@)]]
<1> DEFINE bands == BollingerBands(s, length, multiplier)
           flipped == BollingerBands(t, length, multiplier)
           Window(j) == SubSeq(s, j, j + length - 1)
           Image(j) == SubSeq(t, j, j + length - 1)
           Width(w, mean) == (multiplier ** multiplier) ** (Total(Deviations(w, mean)) // Whole(length - 1))
           m == n - length + 1
<1>1. Fractions(t, n) /\ n \in Nat /\ Len(s) = n /\ Len(t) = n
  BY NegatedIs, ListIsSeq
<1>2. bands = [j \in 1..m |-> [basis |-> Mean(Window(j)), width2 |-> Width(Window(j), Mean(Window(j)))]]
  BY Zenon, <1>1 DEF BollingerBands, Deviations
<1>3. flipped = [j \in 1..m |-> [basis |-> Mean(Image(j)), width2 |-> Width(Image(j), Mean(Image(j)))]]
  BY Zenon, <1>1 DEF BollingerBands, Deviations
<1>4. ASSUME NEW j \in 1..m
      PROVE  /\ Mean(Image(j)) = Negative(Mean(Window(j)))
             /\ Width(Image(j), Mean(Image(j))) = Width(Window(j), Mean(Window(j)))
  <2>1. /\ j \in 1..(n + 1) /\ j + length - 1 \in Nat /\ j - 1 <= j + length - 1 /\ j + length - 1 <= n
        /\ (j + length - 1) - j + 1 = length
    BY <1>1
  <2>2. Fractions(Window(j), length) /\ Negated(Image(j), Window(j), length)
    BY <2>1, PieceNegates
  <2> HIDE DEF Window, Image
  <2>3. Mean(Image(j)) = Negative(Mean(Window(j))) /\ IsFraction(Mean(Window(j)))
    BY <2>2, MeanNegates
  <2>4. Deviations(Image(j), Negative(Mean(Window(j)))) = Deviations(Window(j), Mean(Window(j)))
    BY <2>2, <2>3, DeviationsStay
  <2> QED
    BY Zenon, <2>3, <2>4
<1> HIDE DEF bands, flipped, Window, Image, Width, m
<1>5. flipped = [j \in DOMAIN bands |-> [bands[j] EXCEPT !.basis = Negative(@)]]
  <2>1. ASSUME NEW j \in 1..m
        PROVE  flipped[j] = [bands[j] EXCEPT !.basis = Negative(@)]
    BY <1>2, <1>3, <1>4
  <2> QED
    BY <1>2, <1>3, <2>1
<1> QED
  BY <1>5 DEF bands, flipped

\* Upside down, gains are losses.
LEMMA MovesSwap ==
  ASSUME NEW s, NEW n, Fractions(s, n), NEW t, Negated(t, s, n), NEW m \in Nat, m + 1 <= n
  PROVE  Gains(t, m) = Losses(s, m) /\ Losses(t, m) = Gains(s, m)
<1>1. n \in Nat /\ \A i \in 1..n : t[i] = Negative(s[i]) /\ IsFraction(s[i])
  BY NegatedIs
<1>2. ASSUME NEW i \in 1..m
      PROVE  t[i + 1] -- t[i] = s[i] -- s[i + 1] /\ t[i] -- t[i + 1] = s[i + 1] -- s[i]
  <2> DEFINE j == i + 1
  <2>1. i \in 1..n /\ j \in 1..n
    BY <1>1
  <2> HIDE DEF j
  <2>2. /\ t[i] = Negative(s[i]) /\ t[j] = Negative(s[j]) /\ IsFraction(s[i]) /\ IsFraction(s[j])
    BY <1>1, <2>1
  <2>3. Negative(s[j]) -- Negative(s[i]) = s[i] -- s[j] /\ Negative(s[i]) -- Negative(s[j]) = s[j] -- s[i]
    BY <2>2, NegativeSums
  <2> QED
    BY Zenon, <2>2, <2>3 DEF j
<1>3. ASSUME NEW i \in 1..m
      PROVE  Gain(t, i) = Loss(s, i) /\ Loss(t, i) = Gain(s, i)
  BY Zenon, <1>2 DEF Gain, Loss
<1> QED
  BY <1>3 DEF Gains, Losses

\* What is gained and what is lost are the whole of the moves, if there are any.
LEMMA StrengthsAdd ==
  ASSUME NEW gain, NotNegative(gain), NEW loss, NotNegative(loss)
  PROVE  IF gain ++ loss = Zero THEN CalculateRSI(loss, gain) = CalculateRSI(gain, loss)
         ELSE CalculateRSI(gain, loss) ++ CalculateRSI(loss, gain) = Whole(100)
<1> DEFINE w == gain ++ loss
<1>1. IsFraction(gain) /\ IsFraction(loss)
  BY DEF NotNegative
<1>2. w = loss ++ gain
  BY Zenon, <1>1, AddCommutes
<1> HIDE DEF w
<1>3. CalculateRSI(gain, loss) = IF w = Zero THEN Whole(100) ELSE Percent(gain // w)
  BY Zenon, StrengthIs DEF w
<1>4. CalculateRSI(loss, gain) = IF w = Zero THEN Whole(100) ELSE Percent(loss // w)
  BY Zenon, <1>2, StrengthIs
<1>5. CASE w = Zero
  BY Zenon, <1>3, <1>4, <1>5 DEF w
<1>6. CASE w # Zero
  <2>1. NotNegative(w)
    BY Zenon, NotNegativeSum DEF w
  <2>2. IsFraction(w) /\ Less(Zero, w)
    BY <1>6, <2>1, PositiveIs DEF NotNegative
  <2>3. w // w = Whole(1)
    <3>1. IsFraction(Whole(1)) /\ Whole(1) ** w = w
      BY <2>2, WholeShows, MultiplyOne
    <3> QED
      BY <2>2, <3>1, RatioIs
  <2>4. w // w = (gain // w) ++ (loss // w) /\ IsFraction(gain // w) /\ IsFraction(loss // w)
    <3>1. (gain ++ loss) // w = (gain // w) ++ (loss // w) /\ IsFraction(gain // w) /\ IsFraction(loss // w)
      BY <1>1, <2>2, DivideAdds
    <3> QED
      BY Zenon, <3>1 DEF w
  <2>5. IsFraction(Whole(100))
    BY WholeShows
  <2>6. Whole(100) ** ((gain // w) ++ (loss // w)) = (Whole(100) ** (gain // w)) ++ (Whole(100) ** (loss // w))
    BY <2>4, <2>5, DistributesLeft
  <2>7. Whole(100) ** Whole(1) = Whole(100)
    BY <2>5, MultiplyOne
  <2>8. Percent(gain // w) ++ Percent(loss // w) = Whole(100)
    BY Zenon, <2>3, <2>4, <2>6, <2>7 DEF Percent
  <2> QED
    BY Zenon, <1>3, <1>4, <1>6, <2>8 DEF w
<1> QED
  BY <1>5, <1>6

\* A series does not move as long as it is at its first value.
LEMMA FlatIs ==
  ASSUME NEW s, NEW k \in Nat
  PROVE  (\A i \in 2..(k + 1) : s[i] = s[1]) <=> \A i \in 1..k : s[i + 1] = s[i]
<1>1. ASSUME \A i \in 2..(k + 1) : s[i] = s[1], NEW i \in 1..k
      PROVE  s[i + 1] = s[i]
  <2>1. s[i + 1] = s[1]
    BY <1>1
  <2>2. i = 1 \/ i \in 2..(k + 1)
    OBVIOUS
  <2> QED
    BY <1>1, <2>1, <2>2
<1>2. ASSUME \A i \in 1..k : s[i + 1] = s[i]
      PROVE  \A i \in 2..(k + 1) : s[i] = s[1]
  <2> DEFINE S == {i \in 1..(k + 1) : s[i] = s[1]}
  <2>1. 1 \in S
    OBVIOUS
  <2>2. ASSUME NEW i \in 2..(k + 1), i - 1 \in S
        PROVE  i \in S
    <3>1. i - 1 \in 1..k /\ (i - 1) + 1 = i /\ i \in 1..(k + 1)
      OBVIOUS
    <3>2. s[(i - 1) + 1] = s[i - 1]
      BY <1>2, <3>1
    <3> QED
      BY <2>2, <3>1, <3>2
  <2>3. k + 1 \in Nat
    OBVIOUS
  <2> HIDE DEF S
  <2>4. \A i \in 1..(k + 1) : i \in S
    BY <2>1, <2>2, <2>3, RangeInduction
  <2> QED
    BY <2>4 DEF S
<1> QED
  BY <1>1, <1>2

Strengths(s, n, length) ==
  [j \in 1..(n - length) |-> CalculateRSI(Wilder(Gains(s, n - 1), length)[j],
                                          Wilder(Losses(s, n - 1), length)[j])]

LEMMA StrengthsAre ==
  ASSUME NEW s, NEW n, Fractions(s, n), NEW length \in Nat \ {0}, length < n
  PROVE  RSI(s, length) = Strengths(s, n, length)
BY RSIIs DEF Strengths

\* Upside down, strength is what is missing to 100, unless nothing has moved.
LEMMA RSISwaps ==
  ASSUME NEW s, NEW n, Fractions(s, n), NEW t, Negated(t, s, n), NEW length \in Nat, length >= 2
  PROVE  \A j \in DOMAIN RSI(s, length) :
           IF \A i \in 2..(length + j) : s[i] = s[1]
           THEN RSI(t, length)[j] = RSI(s, length)[j]
           ELSE RSI(s, length)[j] ++ RSI(t, length)[j] = Whole(100)
<1>1. Fractions(t, n) /\ n \in Nat /\ length \in Nat \ {0}
  BY NegatedIs
<1>2. CASE length >= n
  <2>1. RSI(s, length) = <<>>
    BY <1>1, <1>2, RSIIs
  <2> QED
    BY <2>1
<1>3. CASE length < n
  <2> DEFINE m == n - 1
             g == Wilder(Gains(s, m), length)
             l == Wilder(Losses(s, m), length)
  <2>1. m \in Nat /\ m + 1 <= n /\ length <= m /\ m - length + 1 = n - length
    BY <1>1, <1>3
  <2>2. RSI(s, length) = [j \in 1..(n - length) |-> CalculateRSI(g[j], l[j])]
    <3>1. RSI(s, length) = Strengths(s, n, length)
      BY <1>1, <1>3, StrengthsAre
    <3> QED
      BY Zenon, <3>1 DEF Strengths
  <2>3. RSI(t, length) = [j \in 1..(n - length) |-> CalculateRSI(l[j], g[j])]
    <3>1. RSI(t, length) = Strengths(t, n, length)
      BY Zenon, <1>1, <1>3, StrengthsAre
    <3>2. Gains(t, m) = Losses(s, m) /\ Losses(t, m) = Gains(s, m)
      BY <2>1, MovesSwap
    <3> QED
      BY Zenon, <3>1, <3>2 DEF Strengths
  <2> HIDE DEF m
  <2>4. /\ NotNegatives(Gains(s, m), m) /\ NotNegatives(Losses(s, m), m) /\ NotNegatives(Moves(s, m), m)
        /\ Sums(Moves(s, m), Gains(s, m), Losses(s, m), m)
        /\ \A i \in 1..m : Moves(s, m)[i] = Zero <=> s[i + 1] = s[i]
    BY <2>1, MovesAre
  <2>5. Fractions(Gains(s, m), m) /\ Fractions(Losses(s, m), m)
    BY <2>4, NotNegativesAreFractions
  <2>6. \A j \in 1..(m - length + 1) : NotNegative(g[j])
    BY <2>1, <2>4, WilderNotNegative
  <2>7. \A j \in 1..(m - length + 1) : NotNegative(l[j])
    BY <2>1, <2>4, WilderNotNegative
  <2>8. \A j \in 1..(m - length + 1) :
          Wilder(Moves(s, m), length)[j] = Zero <=> \A i \in 1..(length + j - 1) : Moves(s, m)[i] = Zero
    BY <2>1, <2>4, WilderNotNegative
  <2>9. \A j \in 1..(m - length + 1) : Wilder(Moves(s, m), length)[j] = g[j] ++ l[j]
    BY <1>1, <2>1, <2>4, <2>5, WilderAdds
  <2> HIDE DEF g, l
  <2>10. ASSUME NEW j \in 1..(n - length)
         PROVE  IF \A i \in 2..(length + j) : s[i] = s[1]
                THEN CalculateRSI(l[j], g[j]) = CalculateRSI(g[j], l[j])
                ELSE CalculateRSI(g[j], l[j]) ++ CalculateRSI(l[j], g[j]) = Whole(100)
    <3> DEFINE k == length + j - 1
               Still == \A i \in 1..k : s[i + 1] = s[i]
    <3>1. k \in Nat /\ k + 1 = length + j /\ (\A i \in 1..k : i \in 1..m) /\ j \in 1..(m - length + 1)
      BY <1>1, <2>1
    <3> HIDE DEF k
    <3>2. (\A i \in 2..(length + j) : s[i] = s[1]) <=> Still
      <4>1. (\A i \in 2..(k + 1) : s[i] = s[1]) <=> Still
        BY Zenon, <3>1, FlatIs
      <4> QED
        BY <3>1, <4>1
    <3>3. g[j] ++ l[j] = Zero <=> \A i \in 1..k : Moves(s, m)[i] = Zero
      BY Zenon, <2>8, <2>9, <3>1 DEF k
    <3>4. (\A i \in 1..k : Moves(s, m)[i] = Zero) <=> Still
      BY Zenon, <2>4, <3>1
    <3> HIDE DEF Still
    <3>5. NotNegative(g[j]) /\ NotNegative(l[j])
      BY <2>6, <2>7, <3>1
    <3>6. IF g[j] ++ l[j] = Zero THEN CalculateRSI(l[j], g[j]) = CalculateRSI(g[j], l[j])
          ELSE CalculateRSI(g[j], l[j]) ++ CalculateRSI(l[j], g[j]) = Whole(100)
      BY Zenon, <3>5, StrengthsAdd
    <3> QED
      BY Zenon, <3>2, <3>3, <3>4, <3>6
  <2>11. ASSUME NEW j \in DOMAIN RSI(s, length)
         PROVE  /\ j \in 1..(n - length)
                /\ RSI(s, length)[j] = CalculateRSI(g[j], l[j])
                /\ RSI(t, length)[j] = CalculateRSI(l[j], g[j])
    BY Zenon, <2>2, <2>3
  <2> QED
    BY Zenon, <2>10, <2>11
<1> QED
  BY <1>1, <1>2, <1>3

\* t are the candles s upside down.
Mirrored(t, s, n) ==
  /\ IsList(t, n)
  /\ \A i \in 1..n : /\ t[i].high = Negative(s[i].low) /\ t[i].low = Negative(s[i].high)
                     /\ t[i].close = Negative(s[i].close)

LEMMA MirrorIs ==
  ASSUME NEW s, NEW n, Candles(s, n)
  PROVE  /\ Mirrored(Mirror(s), s, n) /\ Candles(Mirror(s), n)
         /\ Fractions(Close(s), n) /\ Negated(Close(Mirror(s)), Close(s), n)
<1> DEFINE t == Mirror(s)
<1>1. IsList(s, n) /\ n \in Nat /\ DOMAIN s = 1..n
  BY DEF Candles, IsList
<1>2. t = [i \in 1..n |-> [high |-> Negative(s[i].low), low |-> Negative(s[i].high),
                           close |-> Negative(s[i].close)]]
  BY Zenon, <1>1 DEF Mirror
<1> HIDE DEF t
<1>3. Mirrored(t, s, n)
  BY <1>1, <1>2 DEF Mirrored, IsList
<1>4. DOMAIN t = 1..n
  BY <1>2
<1>5. \A i \in 1..n : IsCandle(s[i]) /\ IsCandle(t[i])
  BY <1>3, NegativeType DEF Candles, IsCandle, Mirrored
<1>6. /\ IsList(Close(s), n) /\ IsList(Close(t), n)
      /\ \A i \in 1..n : Close(s)[i] = s[i].close /\ Close(t)[i] = t[i].close
  BY <1>1, <1>4 DEF Close, IsList
<1>7. Candles(t, n)
  BY <1>3, <1>5 DEF Candles, Mirrored
<1>8. Fractions(Close(s), n)
  BY <1>5, <1>6 DEF Fractions, IsCandle
<1>9. Negated(Close(t), Close(s), n)
  BY <1>3, <1>6 DEF Negated, Mirrored
<1> QED
  BY <1>3, <1>7, <1>8, <1>9 DEF t

LEMMA LargerCommutes ==
  ASSUME NEW a, IsFraction(a), NEW b, IsFraction(b)
  PROVE  Larger(a, b) = Larger(b, a)
BY LessIsTotal DEF Larger

\* The range of a candle and its close before is as long upside down, and a move up is
\* a move down.
LEMMA RangeIsMirrored ==
  ASSUME NEW s, NEW n, Candles(s, n), NEW t, Mirrored(t, s, n), NEW i \in 2..n
  PROVE  TrueRange(t, i) = TrueRange(s, i)
<1> DEFINE high == s[i].high
           low == s[i].low
           close == s[i - 1].close
<1>1. i \in 1..n /\ i - 1 \in 1..n
  BY DEF Candles, IsList
<1>2. IsFraction(high) /\ IsFraction(low) /\ IsFraction(close)
  BY <1>1 DEF Candles, IsCandle
<1>3. t[i].high = Negative(low) /\ t[i].low = Negative(high) /\ t[i - 1].close = Negative(close)
  BY <1>1 DEF Mirrored
<1>4. TrueRange(s, i) = Larger(high -- low, Larger(AbsFrac(high -- close), AbsFrac(low -- close)))
  BY Zenon DEF TrueRange
<1>5. TrueRange(t, i) = Larger(Negative(low) -- Negative(high),
                               Larger(AbsFrac(Negative(low) -- Negative(close)),
                                      AbsFrac(Negative(high) -- Negative(close))))
  BY Zenon, <1>3 DEF TrueRange
<1> HIDE DEF high, low, close
<1>6. Negative(low) -- Negative(high) = high -- low
  BY <1>2, NegativeSums
<1>7. /\ Negative(low) -- Negative(close) = Negative(low -- close)
      /\ Negative(high) -- Negative(close) = Negative(high -- close)
  BY <1>2, NegativeSums
<1>8. IsFraction(low -- close) /\ IsFraction(high -- close)
  BY <1>2, FractionsClosed
<1>9. /\ AbsFrac(Negative(low -- close)) = AbsFrac(low -- close)
      /\ AbsFrac(Negative(high -- close)) = AbsFrac(high -- close)
      /\ IsFraction(AbsFrac(low -- close)) /\ IsFraction(AbsFrac(high -- close))
  BY <1>8, NegativeProducts, AbsFracType
<1>10. Larger(AbsFrac(low -- close), AbsFrac(high -- close)) = Larger(AbsFrac(high -- close), AbsFrac(low -- close))
  BY Zenon, <1>9, LargerCommutes
<1> QED
  BY Zenon, <1>4, <1>5, <1>6, <1>7, <1>9, <1>10

LEMMA MovesAreMirrored ==
  ASSUME NEW s, NEW n, Candles(s, n), NEW t, Mirrored(t, s, n), NEW i \in Nat, i \in 1..n, i + 1 \in 1..n
  PROVE  UpMove(t, i) = DownMove(s, i) /\ DownMove(t, i) = UpMove(s, i)
<1> DEFINE j == i + 1
<1>1. /\ IsFraction(s[i].high) /\ IsFraction(s[i].low) /\ IsFraction(s[j].high) /\ IsFraction(s[j].low)
  BY DEF Candles, IsCandle
<1>2. /\ t[i].high = Negative(s[i].low) /\ t[i].low = Negative(s[i].high)
      /\ t[j].high = Negative(s[j].low) /\ t[j].low = Negative(s[j].high)
  BY DEF Mirrored
<1>3. /\ UpMove(s, i) = s[j].high -- s[i].high /\ DownMove(s, i) = s[i].low -- s[j].low
      /\ UpMove(t, i) = t[j].high -- t[i].high /\ DownMove(t, i) = t[i].low -- t[j].low
  BY Zenon DEF UpMove, DownMove
<1> HIDE DEF j
<1>4. /\ Negative(s[j].low) -- Negative(s[i].low) = s[i].low -- s[j].low
      /\ Negative(s[i].high) -- Negative(s[j].high) = s[j].high -- s[i].high
  BY <1>1, NegativeSums
<1> QED
  BY Zenon, <1>2, <1>3, <1>4

LEMMA ATRIsMirrored ==
  ASSUME NEW s, NEW n, Candles(s, n), NEW t, Mirrored(t, s, n), n # 0, NEW length
  PROVE  ATR(t, length) = ATR(s, length)
<1>1. n \in Nat /\ DOMAIN s = 1..n /\ DOMAIN t = 1..n /\ 1 \in 1..n
  BY DEF Candles, Mirrored, IsList
<1>2. Ranges(s) = [i \in 1..n |-> IF i = 1 THEN s[1].high -- s[1].low ELSE TrueRange(s, i)]
  BY Zenon, <1>1 DEF Ranges
<1>3. Ranges(t) = [i \in 1..n |-> IF i = 1 THEN t[1].high -- t[1].low ELSE TrueRange(t, i)]
  BY Zenon, <1>1 DEF Ranges
<1>4. t[1].high -- t[1].low = s[1].high -- s[1].low
  <2>1. IsFraction(s[1].high) /\ IsFraction(s[1].low)
    BY <1>1 DEF Candles, IsCandle
  <2>2. t[1].high = Negative(s[1].low) /\ t[1].low = Negative(s[1].high)
    BY <1>1 DEF Mirrored
  <2>3. Negative(s[1].low) -- Negative(s[1].high) = s[1].high -- s[1].low
    BY <2>1, NegativeSums
  <2> QED
    BY Zenon, <2>2, <2>3
<1>5. ASSUME NEW i \in 1..n, i # 1
      PROVE  TrueRange(t, i) = TrueRange(s, i)
  <2>1. i \in 2..n
    BY <1>1, <1>5
  <2> QED
    BY <2>1, RangeIsMirrored
<1>6. Ranges(t) = Ranges(s)
  BY Zenon, <1>2, <1>3, <1>4, <1>5
<1>7. ATR(s, length) = Wilder(Ranges(s), length) /\ ATR(t, length) = Wilder(Ranges(t), length)
  BY Zenon DEF ATR, Ranges
<1> QED
  BY Zenon, <1>6, <1>7

LEMMA DXIsMirrored ==
  ASSUME NEW plus, IsFraction(plus), NEW minus, IsFraction(minus), NEW range
  PROVE  DX(minus, plus, range) = DX(plus, minus, range)
<1>1. minus ++ plus = plus ++ minus
  BY Zenon, AddCommutes
<1>2. minus -- plus = Negative(plus -- minus)
  BY NegativeSums
<1>3. IsFraction(plus -- minus)
  BY FractionsClosed
<1>4. AbsFrac(Negative(plus -- minus)) = AbsFrac(plus -- minus)
  BY <1>3, NegativeProducts
<1> QED
  BY Zenon, <1>1, <1>2, <1>4 DEF DX

LEMMA ADXIsMirrored ==
  ASSUME NEW s, NEW n, OrderedCandles(s, n), NEW t, Mirrored(t, s, n),
         NEW length \in Nat \ {0}, length < n
  PROVE  ADX(t, length) = ADX(s, length)
<1> DEFINE m == n - 1
           plus == Wilder(PlusMoves(s, m), length)
           minus == Wilder(MinusMoves(s, m), length)
           range == Wilder(RangesAfter(s, m), length)
<1>1. Candles(s, n) /\ IsList(s, n) /\ IsList(t, n) /\ n \in Nat
  BY OrderedCandlesAre DEF Mirrored
<1>2. m \in Nat /\ m + 1 <= n /\ length <= m /\ m - length + 1 = n - length
  BY <1>1
<1>3. ASSUME NEW i \in 1..m
      PROVE  UpMove(t, i) = DownMove(s, i) /\ DownMove(t, i) = UpMove(s, i) /\ TrueRange(t, i + 1) = TrueRange(s, i + 1)
  <2>1. i \in Nat /\ i \in 1..n /\ i + 1 \in 1..n /\ i + 1 \in 2..n
    BY <1>1
  <2>2. UpMove(t, i) = DownMove(s, i) /\ DownMove(t, i) = UpMove(s, i)
    BY <1>1, <2>1, MovesAreMirrored
  <2>3. TrueRange(t, i + 1) = TrueRange(s, i + 1)
    BY <1>1, <2>1, RangeIsMirrored
  <2> QED
    BY <2>2, <2>3
<1> HIDE DEF m
<1>4. PlusMoves(t, m) = MinusMoves(s, m) /\ MinusMoves(t, m) = PlusMoves(s, m) /\ RangesAfter(t, m) = RangesAfter(s, m)
  BY Zenon, <1>3 DEF PlusMoves, MinusMoves, RangesAfter
<1>5. /\ NotNegatives(PlusMoves(s, m), m) /\ NotNegatives(MinusMoves(s, m), m)
  BY <1>2, DirectionsAre
<1>6. Fractions(PlusMoves(s, m), m) /\ Fractions(MinusMoves(s, m), m)
  BY <1>5, NotNegativesAreFractions
<1>7. Fractions(plus, m - length + 1) /\ Fractions(minus, m - length + 1)
  BY <1>2, <1>6, WilderType
<1>8. /\ Directions(s, n, length) = [k \in 1..(n - length) |-> DX(plus[k], minus[k], range[k])]
      /\ Directions(t, n, length) = [k \in 1..(n - length) |-> DX(minus[k], plus[k], range[k])]
  BY Zenon, <1>4 DEF Directions, m
<1> HIDE DEF plus, minus, range
<1>9. ASSUME NEW k \in 1..(n - length)
      PROVE  DX(minus[k], plus[k], range[k]) = DX(plus[k], minus[k], range[k])
  <2>1. IsFraction(plus[k]) /\ IsFraction(minus[k])
    BY <1>2, <1>7 DEF Fractions
  <2> QED
    BY Zenon, <2>1, DXIsMirrored
<1>10. Directions(t, n, length) = Directions(s, n, length)
  BY Zenon, <1>8, <1>9
<1>11. ADX(s, length)
         = [i \in 1..n |-> IF i < 2 * length THEN Zero
                           ELSE Wilder(Directions(s, n, length), length)[i - 2 * length + 1]]
  BY <1>1, ADXIs
<1>12. ADX(t, length)
         = [i \in 1..n |-> IF i < 2 * length THEN Zero
                           ELSE Wilder(Directions(t, n, length), length)[i - 2 * length + 1]]
  BY <1>1, ADXIs
<1> QED
  BY Zenon, <1>10, <1>11, <1>12

LEMMA ChartIsMirrored ==
  ASSUME kLines \in Seq(KLine)
  PROVE  MirrorSymmetry
<1> DEFINE n == Len(kLines)
           mirror == Mirror(kLines)
           up == Close(kLines)
           down == Close(mirror)
           rsiUp == RSI(up, Length)
           rsiDown == RSI(down, Length)
           Hist(closes, signal) == MACD(closes, Length, SlowLength, signal).hist
           Opposite(a, b) == b = [j \in DOMAIN a |-> Negative(a[j])]
           bands == BollingerBands(up, Length, Factor)
<1>1. Candles(kLines, n) /\ OrderedCandles(kLines, n) /\ n \in Nat
  BY ChartIsTyped, ChartIsOrdered DEF Candles, IsList
<1>2. Length \in Nat \ {0} /\ Length \in Nat /\ Length >= 2 /\ SlowLength \in Nat \ {0} /\ Length < SlowLength
  BY LengthsFit
<1> HIDE DEF n
<1>3. Mirrored(mirror, kLines, n) /\ Fractions(up, n) /\ Negated(down, up, n)
  BY Zenon, <1>1, MirrorIs
<1> HIDE DEF mirror, up, down
<1>4. \A j \in DOMAIN rsiUp :
        IF \A i \in 2..(Length + j) : up[i] = up[1] THEN rsiDown[j] = rsiUp[j]
        ELSE rsiUp[j] ++ rsiDown[j] = Whole(100)
  BY <1>2, <1>3, RSISwaps
<1>5. BollingerBands(down, Length, Factor) = [j \in DOMAIN bands |-> [bands[j] EXCEPT !.basis = Negative(@)]]
  BY <1>2, <1>3, BandsFlip
<1>6. n > Length => ATR(mirror, Length) = ATR(kLines, Length)
  <2>1. n > Length => n # 0
    BY <1>2
  <2> QED
    BY <1>1, <1>3, <2>1, ATRIsMirrored
<1>7. n >= 2 * Length => ADX(mirror, Length) = ADX(kLines, Length)
  <2>1. n >= 2 * Length => Length < n
    BY <1>1, <1>2
  <2> QED
    BY <1>1, <1>2, <1>3, <2>1, ADXIsMirrored
<1>8. ASSUME NEW signal \in SignalLengths, n >= SlowLength + signal
      PROVE  Opposite(Hist(up, signal), Hist(down, signal))
  <2>1. signal \in Nat \ {0} /\ SlowLength + signal <= n
    BY <1>1, <1>2, <1>8, LengthsFit
  <2>2. Fractions(up, n) /\ Negated(down, up, n) /\ Length \in Nat \ {0} /\ SlowLength \in Nat \ {0}
        /\ Length < SlowLength
    BY Zenon, <1>2, <1>3
  <2> QED
    BY ONLY <2>1, <2>2, HistNegates
<1> QED
  BY Zenon, <1>4, <1>5, <1>6, <1>7, <1>8 DEF MirrorSymmetry, n, mirror, up, down

\* A chart upside down is told as one: strengths add up to 100, range and direction stay,
\* bands and MACD change their sign, for any chart, lengths and fractions. (indicator.ts)
THEOREM UpAndDownAreAlike == Spec => []MirrorSymmetry
<1>1. kLines \in Seq(KLine) => MirrorSymmetry
  BY ChartIsMirrored
<1> QED
  BY <1>1, ChartsAreTyped, PTL
=============================================================================
