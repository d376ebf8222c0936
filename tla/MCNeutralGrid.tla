---------------------------- MODULE MCNeutralGrid ---------------------------
(* A grid of three levels, with prices on, between and beyond them.        *)
EXTENDS NeutralGrid

\* Live, the grid may wait for a trigger price and may have stops; the market
\* moves between any two calls. In a backtest it moves between calls of next().
Triggered == [live |-> TRUE, stops |-> FALSE, trigger |-> 3]
TriggeredLow == [Triggered EXCEPT !.trigger = -2]
Protected == [live |-> TRUE, stops |-> TRUE, trigger |-> None]
Backtest == [live |-> FALSE, stops |-> TRUE, trigger |-> None]

MCLive == {Triggered, TriggeredLow, Protected}
MCBacktest == {Backtest}
MCConfig == MCLive \cup MCBacktest

\* Without faults and cancellations a backtest gets by with more orders; without
\* stop orders fewer do.
MCMaxOrders ==
  [c \in Config |-> IF ~c.live THEN 5 ELSE IF c.stops THEN 4 ELSE 3]

\* Level prices are 0, 2 and 4; the stops lie beyond. A price of zero is near the
\* trigger price of TriggeredLow.
MCPrice == {-2, 1, 3, 6}
MCZeroPrice == -3
MCStopPrice == [s \in Sides |-> IF s = "short" THEN -2 ELSE 6]
=============================================================================
