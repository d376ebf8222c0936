------------------------------- MODULE MCChart -------------------------------
(***************************************************************************)
(* Charts of six k-lines.                                                  *)
(***************************************************************************)
EXTENDS Chart

Candle(h, l, c) == [high |-> Whole(h), low |-> Whole(l), close |-> Whole(c)]

MCKLine == {Candle(2, 1, 1), Candle(6, 1, 6), Candle(2, 0, 0), Candle(9, 3, 3)}

MCFactor == Frac(1, 2)

\* An exact interval; one rounded down, whose end is two levels below the upper price;
\* one rounded up; one rounded to zero.
MCGrid ==
  {[lower |-> 0, upper |-> 10, number |-> 2, tick |-> 1],
   [lower |-> 0, upper |-> 7, number |-> 5, tick |-> 1],
   [lower |-> 1, upper |-> 9, number |-> 5, tick |-> 1],
   [lower |-> 1, upper |-> 5, number |-> 3, tick |-> 4]}
=============================================================================
