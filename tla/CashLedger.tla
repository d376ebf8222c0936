----------------------------- MODULE CashLedger -----------------------------
(***************************************************************************)
(* What a backtest broker promises about money. It is a ledger: a trade of *)
(* a signed size at a price moves the net size of its symbol by the size,  *)
(* and pays size * price and a commission out of the quote currency. How   *)
(* entry prices are averaged, or when profit is realized, cannot matter.   *)
(***************************************************************************)
EXTENDS Integers

CONSTANTS Symbol, Currency, Quote,
          InitialBalance,
          Size, Price,   \* sizes and prices of trades
          Rate           \* commission rates, in 1/10000

VARIABLES cash, net

ledgerVars == <<cash, net>>

LedgerInit ==
  /\ cash = [c \in Currency |-> InitialBalance]
  /\ net = [s \in Symbol |-> 0]

Commission(rate, size, price) == (rate * size * price) \div 10000

TradeAt(symbol, sign, size, price, rate) ==
  /\ net' = [net EXCEPT ![symbol] = @ + sign * size]
  /\ cash' = [cash EXCEPT ![Quote[symbol]] =
                @ - sign * size * price - Commission(rate, size, price)]

LedgerNext ==
  \E symbol \in Symbol, sign \in {1, -1}, size \in Size, price \in Price, rate \in Rate :
    TradeAt(symbol, sign, size, price, rate)

LedgerSpec == LedgerInit /\ [][LedgerNext]_ledgerVars
=============================================================================
