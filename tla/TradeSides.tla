----------------------------- MODULE TradeSides -----------------------------
(***************************************************************************)
(* The sides of orders, trades and positions.                              *)
(***************************************************************************)
EXTENDS Integers

Sides == {"long", "short"}

\* What a size on a side counts for.
Sign(side) == IF side = "long" THEN 1 ELSE -1
=============================================================================
