------------------------ MODULE MCBacktestController ------------------------
(***************************************************************************)
(* Two requests at a time. Candles close at odd times, every two units;    *)
(* one is missing from the file.                                           *)
(***************************************************************************)
EXTENDS BacktestController

CONSTANTS r1, r2

MCRun == {r1, r2}

\* The first fills the cache to its limit; the second lies within it and has two
\* brokers; the third ends with the first, off its interval; a strategy without
\* brokers.
MCRequest ==
  {[start |-> 0, end |-> 6, interval |-> 2, brokers |-> 1],
   [start |-> 2, end |-> 4, interval |-> 2, brokers |-> 2],
   [start |-> 3, end |-> 6, interval |-> 2, brokers |-> 1],
   [start |-> 4, end |-> 6, interval |-> 2, brokers |-> 0]}

MCInterval == {2}
MCFirstFile == {<<1, 3, 5, 9>>}
MCProfit == {-1, 1}
=============================================================================
