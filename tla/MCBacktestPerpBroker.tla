------------------------ MODULE MCBacktestPerpBroker ------------------------
(***************************************************************************)
(* Two symbols quoted in different currencies. Prices are 9 to 12 times    *)
(* Unit, which makes averages and commissions exact integers.              *)
(***************************************************************************)
EXTENDS BacktestPerpBroker, TLC

CONSTANTS btc, eth, usdt, usdc

MCSymbol == {btc, eth}
MCCurrency == {usdt, usdc}
MCQuote == (btc :> usdt @@ eth :> usdc)

Unit == 1200

\* Wide touches the limit price, High has jumped over it.
Wide == [low |-> 9 * Unit, high |-> 11 * Unit, close |-> 10 * Unit]
High == [low |-> 11 * Unit, high |-> 12 * Unit, close |-> 12 * Unit]
MCBar == {Wide, High}
MCMarket == {(btc :> Wide @@ eth :> High), (btc :> High @@ eth :> Wide),
             (btc :> Wide @@ eth :> None)}

\* With Lot 2, size 2 is one lot and 3 rounds to two: a btc position can grow,
\* shrink, close and flip, and orders of two symbols interleave.
MCRequest ==
  {[symbol |-> btc, side |-> "long", size |-> 2, price |-> 10 * Unit],
   [symbol |-> btc, side |-> "short", size |-> 3, price |-> 10 * Unit],
   [symbol |-> eth, side |-> "short", size |-> 3, price |-> 10 * Unit]}

\* What the theorems take for granted of requests, too.
ASSUME RequestsAssumption == RequestsRoundToLots

\* One id, ids out of order, and an unknown id before a known one.
MCCancelBatch == {<<0>>, <<2, 1>>, <<7, 0>>}
=============================================================================
