------------------------------- MODULE History ------------------------------
(***************************************************************************)
(* The record a backtest broker keeps of a run: finished records and the   *)
(* current one, which collects the trades of one clock interval.           *)
(***************************************************************************)
EXTENDS Integers, FiniteSets, Sequences, Functions, TradeSides

NewRecord(timestamp, balances) ==
  [timestamp |-> timestamp, trades |-> <<>>, balances |-> balances]

\* The history after its first flush, when there was no current record.
NewHistory(timestamp, balances) ==
  [records |-> <<>>, current |-> NewRecord(timestamp, balances)]

AddTrade(history, trade) ==
  [history EXCEPT !.current.trades = Append(@, trade)]

\* Longs come first, the dearest of them first, then shorts, the cheapest first;
\* trades of one side and price stay in their order.
ComesBefore(trades, j, k) ==
  LET t == trades[j]
      u == trades[k]
  IN  \/ t.side = "long" /\ u.side = "short"
      \/ t.side = "long" /\ u.side = "long" /\ t.price > u.price
      \/ t.side = "short" /\ u.side = "short" /\ t.price < u.price
      \/ t.side = u.side /\ t.price = u.price /\ j < k

Rank(trades, k) == 1 + Cardinality({j \in DOMAIN trades : ComesBefore(trades, j, k)})

SortTrades(trades) ==
  [i \in DOMAIN trades |-> trades[CHOOSE k \in DOMAIN trades : Rank(trades, k) = i]]

\* Mutant of Flush: the current record is replaced before it is kept.
FlushDroppingTrades(history, timestamp, balances) ==
  [records |-> Append(history.records, NewRecord(timestamp, balances)),
   current |-> NewRecord(timestamp, balances)]

Flush(history, timestamp, balances) ==
  [records |-> Append(history.records,
                      [history.current EXCEPT !.trades = SortTrades(@)]),
   current |-> NewRecord(timestamp, balances)]

-----------------------------------------------------------------------------
Records(history) == Append(history.records, history.current)

\* Where the trades of the run are: the record, and the trade of that record.
Places(history) ==
  UNION {{i} \X DOMAIN Records(history)[i].trades : i \in DOMAIN Records(history)}

\* Every trade of the run, of finished and current records together.
AllTrades(history) == [p \in Places(history) |-> Records(history)[p[1]].trades[p[2]]]

\* Sum of Of(t) over trades.
SumOf(trades, Of(_)) == SumFunction([p \in DOMAIN trades |-> Of(trades[p])])
=============================================================================
