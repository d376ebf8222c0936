------------------------- MODULE BacktestSpotBroker -------------------------
(***************************************************************************)
(* The spot broker a strategy trades against in a backtest. Every call and *)
(* the whole of nextClock() is one action: the backtest loop awaits it. A  *)
(* fill moves base against quote currency, with the commission in base.    *)
(*                                                                         *)
(* Sizes are integers, in multiples that make every commission exact.      *)
(***************************************************************************)
EXTENDS Integers, FiniteSets, Sequences, History

CONSTANTS Symbol, Currency,
          Base, Quote,      \* currencies of a symbol
          Bar,              \* candles: [low, high, close]
          Market,           \* candles of all symbols in one interval
          Request,          \* what a strategy asks for: [symbol, side, size, price]
          Lot,              \* sizes asked for are rounded to it
          Maker, Taker,     \* commission rates, in 1/10000
          InitialBalance,
          MaxOrders,        \* bound: order ids handed out
          MaxClock,         \* bound: clock intervals of the run
          CancelBatch,      \* id lists a strategy passes to cancelOrders
          None

ASSUME PairAssumption == Base \in [Symbol -> Currency] /\ Quote \in [Symbol -> Currency]
ASSUME LotAssumption == Lot \in Nat \ {0}
ASSUME BoundsAssumption == MaxOrders \in Nat /\ MaxClock \in Nat
ASSUME RateAssumption == Maker \in Nat /\ Taker \in Nat
ASSUME InitialBalanceAssumption == InitialBalance \in Int
ASSUME BarAssumption == Bar \subseteq [low : Nat, high : Nat, close : Nat]
ASSUME MarketAssumption == Market \subseteq [Symbol -> Bar \cup {None}]
\* A strategy asks for sizes that round to at least one lot.
ASSUME RequestAssumption ==
  /\ Request \subseteq [symbol : Symbol, side : Sides, size : Nat \ {0}, price : Nat]
  /\ \A req \in Request : 2 * req.size >= Lot
ASSUME CancelBatchAssumption == CancelBatch \subseteq Seq(Nat)

OrderId == 0..(MaxOrders - 1)

VARIABLES
  clock,           \* intervals since the start of the run
  bars,            \* the candle of the current interval, None when data lacks
  account,         \* [balances, history]
  orders,          \* the order map: id -> order, or None
  orderIdCounter,
  crashed          \* nextClock() has thrown: the backtest is over

vars == <<clock, bars, account, orders, orderIdCounter, crashed>>

Orders == [type : {"limit", "market"}, symbol : Symbol, price : Nat, size : Nat \ {0},
           filledSize : Nat, side : Sides, timestamp : 0..MaxClock,
           status : {"open", "filled", "cancelled"}]

ASSUME NoneAssumption == None \notin Bar /\ None \notin Orders

Balances == [c \in Currency |-> InitialBalance]

Init ==
  /\ clock = 0
  /\ bars \in Market
  /\ account = [balances |-> Balances, history |-> NewHistory(0, Balances)]
  /\ orders = [id \in OrderId |-> None]
  /\ orderIdCounter = 0
  /\ crashed = FALSE

-----------------------------------------------------------------------------
\* pair.roundSize: to the nearest lot, halves up.
RoundSize(raw) == Lot * ((2 * raw + Lot) \div (2 * Lot))

Fee(order) == ((IF order.type = "limit" THEN Maker ELSE Taker) * order.size) \div 10000

\* What a trade of a symbol does to the balances.
Moved(balances, trade) ==
  [balances EXCEPT ![Base[trade.symbol]] = @ + Sign(trade.side) * trade.size,
                   ![Quote[trade.symbol]] = @ - Sign(trade.side) * trade.size * trade.price]

TradeOf(order) ==
  [symbol |-> order.symbol, side |-> order.side, price |-> order.price,
   size |-> order.filledSize, fee |-> Fee(order)]

\* updateBalanceByFilledOrder
Booked(acc, order) ==
  [balances |-> [Moved(acc.balances, TradeOf(order)) EXCEPT ![Base[order.symbol]] = @ - Fee(order)],
   history |-> AddTrade(acc.history, TradeOf(order))]

-----------------------------------------------------------------------------
HasBar(symbol) == bars[symbol] # None
MarketPrice(symbol) == bars[symbol].close

NewOrder(type, req, price) ==
  [type |-> type, symbol |-> req.symbol, price |-> price,
   size |-> RoundSize(req.size), filledSize |-> 0, side |-> req.side,
   timestamp |-> clock, status |-> "open"]

\* Mutant of Filled: filledSize stays zero.
FilledWithoutSize(order, price, filledSize) ==
  [order EXCEPT !.price = price, !.status = "filled"]

Filled(order, price, filledSize) ==
  [order EXCEPT !.price = price, !.filledSize = filledSize, !.status = "filled"]

\* A call that hands out an order id.
TakesOrderId ==
  /\ ~crashed
  /\ orderIdCounter < MaxOrders
  /\ orderIdCounter' = orderIdCounter + 1
  /\ UNCHANGED <<clock, bars, crashed>>

Store(order) == orders' = [orders EXCEPT ![orderIdCounter] = order]

\* placeMarketBuy, placeMarketSell: filled at once at the market price.
PlaceMarket(req) ==
  LET price == MarketPrice(req.symbol)
      order == Filled(NewOrder("market", req, price), price, RoundSize(req.size))
  IN  /\ HasBar(req.symbol)
      /\ TakesOrderId
      /\ Store(order)
      /\ account' = Booked(account, order)

Crosses(req, marketPrice) ==
  IF req.side = "long" THEN req.price >= marketPrice ELSE req.price <= marketPrice

\* placeLimitBuy, placeLimitSell, and the GTX orders, which call them: an order
\* that crosses the market fills at the market price, with the size asked for.
PlaceLimit(req) ==
  LET resting == NewOrder("limit", req, req.price)
      taken == Filled(resting, MarketPrice(req.symbol), req.size)
  IN  /\ HasBar(req.symbol)
      /\ TakesOrderId
      /\ \/ /\ Crosses(req, MarketPrice(req.symbol))
            /\ Store(taken)
            /\ account' = Booked(account, taken)
         \/ /\ ~Crosses(req, MarketPrice(req.symbol))
            /\ Store(resting)
            /\ UNCHANGED account

\* getMarketPrice throws without a candle: the id is lost, nothing is placed.
PlacementThrows(req) ==
  /\ ~HasBar(req.symbol)
  /\ TakesOrderId
  /\ UNCHANGED <<orders, account>>

\* placeStopMarketBuy, placeStopMarketSell: rests whatever the market is.
PlaceStopMarket(req) ==
  /\ TakesOrderId
  /\ Store(NewOrder("market", req, req.price))
  /\ UNCHANGED account

IsPlaced(id) == id \in OrderId /\ orders[id] # None

\* cancelOrder, cancelOrders and their conditional twins: the ids up to the
\* first unknown one are cancelled, whatever their status.
CancelOrders(ids) ==
  LET reached == {ids[k] : k \in {k \in DOMAIN ids : \A j \in 1..k : IsPlaced(ids[j])}}
  IN  /\ ~crashed
      /\ orders' = [id \in OrderId |->
                      IF id \in reached
                      THEN [orders[id] EXCEPT !.status = "cancelled"]
                      ELSE orders[id]]
      /\ UNCHANGED <<clock, bars, account, orderIdCounter, crashed>>

-----------------------------------------------------------------------------
\* Mutant of IsOpen: the order may have any status.
IsOpenInAnyStatus(id) == IsPlaced(id)

IsOpen(id) == IsPlaced(id) /\ orders[id].status = "open"

Touches(bar, price) == bar.low <= price /\ price <= bar.high

\* Open orders nextClock() reaches and fills on new candles: it throws at the
\* first open order without one.
Reached(candles) ==
  {id \in OrderId : \A k \in 0..id : IsOpen(k) => candles[orders[k].symbol] # None}

Touched(candles) ==
  {id \in Reached(candles) : IsOpen(id) /\ Touches(candles[orders[id].symbol], orders[id].price)}

FilledAtPrice(id) == Filled(orders[id], orders[id].price, orders[id].size)

\* The account after the fills, in the order the orders were placed.
AccountAfter(ids) ==
  LET after[k \in 0..MaxOrders] ==
        IF k = 0 THEN account
        ELSE IF k - 1 \in ids THEN Booked(after[k - 1], FilledAtPrice(k - 1))
        ELSE after[k - 1]
  IN  after[MaxOrders]

\* nextClock(): the clock moves on to new candles, open orders they touch are
\* filled, and the record of the interval is closed.
NextClock(candles) ==
  LET ids == Touched(candles)
      acc == AccountAfter(ids)
  IN  /\ ~crashed
      /\ clock < MaxClock
      /\ clock' = clock + 1
      /\ bars' = candles
      /\ orders' = [id \in OrderId |-> IF id \in ids THEN FilledAtPrice(id) ELSE orders[id]]
      /\ \/ /\ Reached(candles) = OrderId
            /\ account' = [acc EXCEPT !.history = Flush(@, clock + 1, acc.balances)]
            /\ UNCHANGED crashed
         \/ /\ Reached(candles) # OrderId
            /\ account' = acc
            /\ crashed' = TRUE
      /\ UNCHANGED orderIdCounter

Next ==
  \/ \E req \in Request : PlaceMarket(req)
  \/ \E req \in Request : PlaceLimit(req)
  \/ \E req \in Request : PlaceStopMarket(req)
  \/ \E req \in Request : PlacementThrows(req)
  \/ \E ids \in CancelBatch : CancelOrders(ids)
  \/ \E candles \in Market : NextClock(candles)

Spec == Init /\ [][Next]_vars

-----------------------------------------------------------------------------
\* Every variable has its type; an order is filled by more than nothing, and an
\* open one by nothing.
TypeOK ==
  /\ clock \in 0..MaxClock
  /\ bars \in [Symbol -> Bar \cup {None}]
  /\ account.balances \in [Currency -> Int]
  /\ orders \in [OrderId -> Orders \cup {None}]
  /\ orderIdCounter \in 0..MaxOrders
  /\ crashed \in BOOLEAN
  /\ \A id \in OrderId : IsPlaced(id) =>
       /\ id < orderIdCounter
       /\ orders[id].status = "open" => orders[id].filledSize = 0
       /\ orders[id].status = "filled" => orders[id].filledSize > 0

\* What a trade does to the balance of a currency: base against quote, less the
\* commission in base.
Effect(trade, currency) ==
    (IF Base[trade.symbol] = currency THEN Sign(trade.side) * trade.size - trade.fee ELSE 0)
  - (IF Quote[trade.symbol] = currency THEN Sign(trade.side) * trade.size * trade.price ELSE 0)

\* Balances after a sequence of trades.
After(balances, trades) ==
  [c \in Currency |-> balances[c] + SumOf(trades, LAMBDA t : Effect(t, c))]

\* The records of a result add up: the trades of a record lead from its balances
\* to those of the next one, and those of the last one to the account.
RecordsAddUp ==
  LET records == Records(account.history)
      Next_(i) == IF i = Len(records) THEN account.balances ELSE records[i + 1].balances
  IN  /\ records[1].balances = Balances
      /\ \A i \in DOMAIN records : After(records[i].balances, records[i].trades) = Next_(i)

\* Every fill is one trade of the result, and every trade a fill: orders that
\* have ever been filled and trades agree as bags. Filled twice, booked twice or
\* dropped by a flush, or booked at another price, they do not.
FillsAreTraded ==
  LET trades == AllTrades(account.history)
      filled == {id \in OrderId : IsPlaced(id) /\ orders[id].filledSize > 0}
      Keys == {TradeOf(orders[id]) : id \in filled} \cup {trades[k] : k \in DOMAIN trades}
  IN  \A t \in Keys :
        Cardinality({id \in filled : TradeOf(orders[id]) = t})
          = Cardinality({k \in DOMAIN trades : trades[k] = t})

\* A cancelled order stays cancelled, and an order is filled at most once.
FinalOrdersStay ==
  [][\A id \in OrderId : orders[id] # None =>
       /\ orders[id].status = "cancelled" => orders'[id] = orders[id]
       /\ orders[id].status = "filled" =>
            orders'[id] \in {orders[id], [orders[id] EXCEPT !.status = "cancelled"]}]_vars

\* While the strategy trades, no order older than the current candle is open at
\* a price that candle has touched: nextClock() misses no order.
TouchedOrdersAreFilled ==
  ~crashed =>
    \A id \in OrderId :
      (IsOpen(id) /\ orders[id].timestamp < clock) =>
        /\ HasBar(orders[id].symbol)
        /\ ~(bars[orders[id].symbol].low <= orders[id].price
             /\ orders[id].price <= bars[orders[id].symbol].high)

\* Every fill that is due happens, and the records of the result show it once and
\* lead to the balances it leaves: nextClock, the placements and Flush together.
FillsAreAccountedFor == TouchedOrdersAreFilled /\ FillsAreTraded /\ RecordsAddUp
=============================================================================
