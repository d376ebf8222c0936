----------------------------- MODULE GridLevels ------------------------------
(***************************************************************************)
(* The prices of a grid's levels and the level nearest to a price, with    *)
(* the rounding of the code. Prices are integers, in a unit as fine as the *)
(* configuration and the market need; roundPrice gives multiples of Tick.  *)
(***************************************************************************)
EXTENDS Integers

Grids ==
  {g \in [lower : Nat, upper : Nat, number : Nat \ {0}, tick : Nat \ {0}] : g.lower < g.upper}

\* roundPrice(n / d): the multiple of tick nearest to it, halves up.
RoundPrice(n, d, tick) == tick * ((2 * n + d * tick) \div (2 * d * tick))

GridInterval(g) == RoundPrice(g.upper - g.lower, g.number, g.tick)

\* The last level is at the upper price, whatever the interval has been rounded to.
GridPrice(g, i) ==
  IF i = g.number THEN g.upper ELSE RoundPrice(g.lower + i * GridInterval(g), 1, g.tick)

\* Math.round of a / b, halves up.
Round(a, b) == (2 * a + b) \div (2 * b)

\* Mutant of NearestIndex: the level below, by rounding down.
IndexBelow(g, price) ==
  IF price <= g.lower THEN 0
  ELSE IF price >= g.upper THEN g.number
  ELSE IF GridInterval(g) = 0 THEN g.number + 1
  ELSE (price - g.lower) \div GridInterval(g)

\* The index that getNearestLevel reads, which may be one that no level has: beyond
\* the last one, or infinite (the next one here) when the interval is zero.
NearestIndex(g, price) ==
  IF price <= g.lower THEN 0
  ELSE IF price >= g.upper THEN g.number
  ELSE IF GridInterval(g) = 0 THEN g.number + 1
  ELSE Round(price - g.lower, GridInterval(g))

-----------------------------------------------------------------------------
Distance(a, b) == IF a < b THEN b - a ELSE a - b

\* How far the rounding of the interval has moved the end of the grid.
Drift(g) == Distance(g.upper - g.lower, g.number * GridInterval(g))

\* A price inside the grid finds a level, unless rounding down has left it half an
\* interval or more above the end of the intervals; next() throws there.
FindsLevel(g, price) ==
  (g.lower < price /\ price < g.upper) =>
    (NearestIndex(g, price) \in 0..g.number
       <=> 2 * (price - g.lower) < (2 * g.number + 1) * GridInterval(g))

\* No level is nearer than the one found by more than the drift.
FindsNearest(g, price) ==
  LET i == NearestIndex(g, price)
  IN  (g.lower % g.tick = 0 /\ i \in 0..g.number) =>
        \A j \in 0..g.number :
          Distance(price, GridPrice(g, i)) <= Distance(price, GridPrice(g, j)) + Drift(g)
=============================================================================
