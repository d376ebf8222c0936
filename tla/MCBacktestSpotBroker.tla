------------------------ MODULE MCBacktestSpotBroker ------------------------
(***************************************************************************)
(* Two symbols that share a currency: btc is the base of one and the quote *)
(* of the other. A lot is 10000, so that commissions are exact.            *)
(***************************************************************************)
EXTENDS BacktestSpotBroker, TLC

CONSTANTS btcusdt, ethbtc, btc, eth, usdt

MCSymbol == {btcusdt, ethbtc}
MCCurrency == {btc, eth, usdt}
MCBase == (btcusdt :> btc @@ ethbtc :> eth)
MCQuote == (btcusdt :> usdt @@ ethbtc :> btc)

\* Wide touches the limit price 3 at its low, High has jumped over it.
Wide == [low |-> 3, high |-> 5, close |-> 4]
High == [low |-> 5, high |-> 6, close |-> 6]
MCBar == {Wide, High}
MCMarket == {(btcusdt :> Wide @@ ethbtc :> High), (btcusdt :> High @@ ethbtc :> Wide),
             (btcusdt :> Wide @@ ethbtc :> None)}

\* 10000 is one lot and 15000 rounds to two; the short at 5 crosses one candle
\* and rests above the other.
MCRequest ==
  {[symbol |-> btcusdt, side |-> "long", size |-> 10000, price |-> 3],
   [symbol |-> btcusdt, side |-> "short", size |-> 15000, price |-> 5],
   [symbol |-> ethbtc, side |-> "short", size |-> 15000, price |-> 5]}

\* One id, ids out of order, and an unknown id before a known one.
MCCancelBatch == {<<0>>, <<2, 1>>, <<7, 0>>}
=============================================================================
