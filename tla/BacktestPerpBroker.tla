------------------------- MODULE BacktestPerpBroker -------------------------
(***************************************************************************)
(* The perpetual-futures broker a strategy trades against in a backtest.   *)
(* A strategy's call is one action. nextClock() is a phase of several: it  *)
(* moves the clock, visits the orders in the order they were placed, then  *)
(* values the balances and closes the history record; no call comes in     *)
(* between, because the backtest loop awaits it.                           *)
(*                                                                         *)
(* Prices, sizes and money are integers. The real arithmetic of the code   *)
(* (averages, commissions) is exact when Price is a set of multiples of    *)
(* every divisor that occurs; the refinement below fails if it is not.     *)
(***************************************************************************)
EXTENDS Integers, FiniteSets, Sequences, History

CONSTANTS Symbol, Currency,
          Quote,            \* quote currency of a symbol
          Bar,              \* candles: [low, high, close]
          Market,           \* candles of all symbols in one interval
          Request,          \* what a strategy asks for: [symbol, side, size, price]
          Lot,              \* sizes asked for are rounded to it
          Maker, Taker,     \* commission rates, in 1/10000
          InitialBalance,
          MaxOrders,        \* bound: order ids handed out
          MaxClock,         \* bound: clock intervals of the run
          CancelBatch,      \* id lists a strategy passes to cancelOrders
          None

ASSUME QuoteAssumption == IsFiniteSet(Symbol) /\ Quote \in [Symbol -> Currency]
ASSUME LotAssumption == Lot \in Nat \ {0}
ASSUME BoundsAssumption == MaxOrders \in Nat /\ MaxClock \in Nat
ASSUME RateAssumption == Maker \in Nat /\ Taker \in Nat
ASSUME InitialBalanceAssumption == InitialBalance \in Int
ASSUME BarAssumption ==
  /\ Bar \subseteq [low : Nat, high : Nat, close : Nat]
  /\ \A bar \in Bar : bar.low <= bar.close /\ bar.close <= bar.high
ASSUME MarketAssumption == Market \subseteq [Symbol -> Bar \cup {None}]
ASSUME RequestAssumption ==
  Request \subseteq [symbol : Symbol, side : {"long", "short"}, size : Nat, price : Nat]
ASSUME CancelBatchAssumption == CancelBatch \subseteq Seq(Nat)
OrderId == 0..(MaxOrders - 1)

VARIABLES
  clock,           \* intervals since the start of the run
  bars,            \* the candle of the current interval, None when data lacks
  balances,        \* realized balance of a currency
  positions,       \* open position of a symbol, or None
  orders,          \* the order map: id -> order, or None
  orderIdCounter,
  phase,           \* "trading", "filling" (in nextClock) or "crashed"
  cursor,          \* next order nextClock visits
  history

vars == <<clock, bars, balances, positions, orders, orderIdCounter, phase,
          cursor, history>>
account == <<balances, positions, history>>

OrderTypes == {"limit", "market"}
OrderStatuses == {"open", "filled", "cancelled"}

Orders == [type : OrderTypes, symbol : Symbol, price : Nat, size : Nat \ {0},
           filledSize : Nat, side : Sides, timestamp : 0..MaxClock,
           status : OrderStatuses]
Positions == [side : Sides, entryPrice : Nat, size : Nat \ {0}]

ASSUME NoneAssumption ==
  None \notin Bar /\ None \notin Orders /\ None \notin Positions

Init ==
  /\ clock = 0
  /\ bars \in Market
  /\ balances = [c \in Currency |-> InitialBalance]
  /\ positions = [s \in Symbol |-> None]
  /\ orders = [id \in OrderId |-> None]
  /\ orderIdCounter = 0
  /\ phase = "trading"
  /\ cursor = 0
  /\ history = NewHistory(0, balances)

-----------------------------------------------------------------------------
\* pair.roundSize: to the nearest lot, halves up.
RoundSize(raw) == Lot * ((2 * raw + Lot) \div (2 * Lot))

\* What the broker needs of a strategy and does not check: no size asked for rounds to
\* zero. Two orders that do divide zero by zero, in Increased, and what the NaN of the
\* code does from then on is not modelled.
RequestsRoundToLots == \A req \in Request : RoundSize(req.size) > 0

Smaller(a, b) == IF a < b THEN a ELSE b

\* Profit the position makes when size of it is closed at price.
PnL(position, price, size) ==
  Sign(position.side) * (price - position.entryPrice) * size

\* An order on the side of the position: the entry price is the weighted average.
Increased(position, order) ==
  [position EXCEPT
     !.entryPrice = (@ * position.size + order.price * order.size)
                      \div (position.size + order.size),
     !.size = @ + order.size]

\* Mutant of PositionAfter: an exact close leaves a position of size zero.
PositionAfterKeepingEmpty(position, order) ==
  CASE position = None ->
         [side |-> order.side, entryPrice |-> order.price, size |-> order.size]
    [] position # None /\ position.side = order.side ->
         Increased(position, order)
    [] position # None /\ position.side # order.side /\ position.size >= order.size ->
         [position EXCEPT !.size = @ - order.size]
    [] position # None /\ position.side # order.side /\ position.size < order.size ->
         [side |-> order.side, entryPrice |-> order.price,
          size |-> order.size - position.size]

\* Mutant of PositionAfter: an order larger than the position flips it whole.
PositionAfterFlippingWhole(position, order) ==
  CASE position = None ->
         [side |-> order.side, entryPrice |-> order.price, size |-> order.size]
    [] position # None /\ position.side = order.side ->
         Increased(position, order)
    [] position # None /\ position.side # order.side /\ position.size > order.size ->
         [position EXCEPT !.size = @ - order.size]
    [] position # None /\ position.side # order.side /\ position.size = order.size ->
         None
    [] position # None /\ position.side # order.side /\ position.size < order.size ->
         [side |-> order.side, entryPrice |-> order.price, size |-> order.size]

\* The position that a filled order leaves.
PositionAfter(position, order) ==
  CASE position = None ->
         [side |-> order.side, entryPrice |-> order.price, size |-> order.size]
    [] position # None /\ position.side = order.side ->
         Increased(position, order)
    [] position # None /\ position.side # order.side /\ position.size > order.size ->
         [position EXCEPT !.size = @ - order.size]
    [] position # None /\ position.side # order.side /\ position.size = order.size ->
         None
    [] position # None /\ position.side # order.side /\ position.size < order.size ->
         [side |-> order.side, entryPrice |-> order.price,
          size |-> order.size - position.size]

\* Mutant of RealizedPnL: the whole order realizes profit, not what it closes.
RealizedPnLOfWholeOrder(position, order) ==
  IF position = None \/ position.side = order.side THEN 0
  ELSE PnL(position, order.price, order.size)

\* realizePnL: an order against the position closes the smaller of the two.
RealizedPnL(position, order) ==
  IF position = None \/ position.side = order.side THEN 0
  ELSE PnL(position, order.price, Smaller(order.size, position.size))

\* deductCommission
Fee(order) ==
  ((IF order.type = "limit" THEN Maker ELSE Taker) * order.price * order.size)
    \div 10000

\* updatePositionAndBalanceByFilledOrder
Book(order) ==
  LET symbol == order.symbol
      pnl == RealizedPnL(positions[symbol], order)
      fee == Fee(order)
  IN  /\ positions' = [positions EXCEPT ![symbol] = PositionAfter(@, order)]
      /\ balances' = [balances EXCEPT ![Quote[symbol]] = @ + pnl - fee]
      /\ history' = AddTrade(history,
           [symbol |-> symbol, side |-> order.side, price |-> order.price,
            size |-> order.filledSize, pnl |-> pnl, fee |-> fee])

-----------------------------------------------------------------------------
HasBar(symbol) == bars[symbol] # None
MarketPrice(symbol) == bars[symbol].close

NewOrder(type, req, price) ==
  [type |-> type, symbol |-> req.symbol, price |-> price,
   size |-> RoundSize(req.size), filledSize |-> 0, side |-> req.side,
   timestamp |-> clock, status |-> "open"]

Filled(order, price, filledSize) ==
  [order EXCEPT !.price = price, !.filledSize = filledSize, !.status = "filled"]

\* A call that hands out an order id. It happens while the strategy trades.
TakesOrderId ==
  /\ phase = "trading"
  /\ orderIdCounter < MaxOrders
  /\ orderIdCounter' = orderIdCounter + 1
  /\ UNCHANGED <<clock, bars, phase, cursor>>

Store(order) == orders' = [orders EXCEPT ![orderIdCounter] = order]

\* placeMarketLong, placeMarketShort: filled at once at the market price.
PlaceMarket(req) ==
  LET price == MarketPrice(req.symbol)
      order == Filled(NewOrder("market", req, price), price, RoundSize(req.size))
  IN  /\ HasBar(req.symbol)
      /\ TakesOrderId
      /\ Store(order)
      /\ Book(order)

Crosses(req, marketPrice) ==
  IF req.side = "long" THEN req.price >= marketPrice ELSE req.price <= marketPrice

\* placeLimitLong, placeLimitShort, and the GTX orders, which call them: an
\* order that crosses the market fills at the market price. Its filledSize is
\* then the size asked for, not the rounded one.
PlaceLimit(req) ==
  LET resting == NewOrder("limit", req, req.price)
      taken == Filled(resting, MarketPrice(req.symbol), req.size)
  IN  /\ HasBar(req.symbol)
      /\ TakesOrderId
      /\ \/ /\ Crosses(req, MarketPrice(req.symbol))
            /\ Store(taken)
            /\ Book(taken)
         \/ /\ ~Crosses(req, MarketPrice(req.symbol))
            /\ Store(resting)
            /\ UNCHANGED account

\* getMarketPrice throws without a candle: the id is lost, nothing is placed.
PlacementThrows(req) ==
  /\ ~HasBar(req.symbol)
  /\ TakesOrderId
  /\ UNCHANGED <<orders, account>>

\* placeStopMarketLong, placeStopMarketShort: rests whatever the market is.
PlaceStopMarket(req) ==
  /\ TakesOrderId
  /\ Store(NewOrder("market", req, req.price))
  /\ UNCHANGED account

IsPlaced(id) == id \in OrderId /\ orders[id] # None

\* cancelOrder, cancelOrders and their conditional twins: the ids up to the
\* first unknown one are cancelled, whatever their status.
CancelOrders(ids) ==
  LET reached == {ids[k] : k \in {k \in DOMAIN ids : \A j \in 1..k : IsPlaced(ids[j])}}
  IN  /\ phase = "trading"
      /\ orders' = [id \in OrderId |->
                      IF id \in reached
                      THEN [orders[id] EXCEPT !.status = "cancelled"]
                      ELSE orders[id]]
      /\ UNCHANGED <<clock, bars, orderIdCounter, phase, cursor, account>>

-----------------------------------------------------------------------------
\* Mutant of NextClockBegins: the loop over the orders misses the first.
NextClockBeginsAtSecond ==
  /\ phase = "trading"
  /\ clock < MaxClock
  /\ clock' = clock + 1
  /\ bars' \in Market
  /\ phase' = "filling"
  /\ cursor' = 1
  /\ UNCHANGED <<orders, orderIdCounter, account>>

\* nextClock() starts: the clock moves on, to candles nobody has seen.
NextClockBegins ==
  /\ phase = "trading"
  /\ clock < MaxClock
  /\ clock' = clock + 1
  /\ bars' \in Market
  /\ phase' = "filling"
  /\ cursor' = 0
  /\ UNCHANGED <<orders, orderIdCounter, account>>

IsOpen(id) == IsPlaced(id) /\ orders[id].status = "open"

Touches(bar, price) == bar.low <= price /\ price <= bar.high

\* The order at the cursor is not open, or the candle does not touch its price.
VisitPasses ==
  /\ phase = "filling"
  /\ cursor < MaxOrders
  /\ IsOpen(cursor) =>
       /\ HasBar(orders[cursor].symbol)
       /\ ~Touches(bars[orders[cursor].symbol], orders[cursor].price)
  /\ cursor' = cursor + 1
  /\ UNCHANGED <<clock, bars, orders, orderIdCounter, phase, account>>

\* Mutant of VisitFills: the status of the order is not looked at.
VisitFillsAnyStatus ==
  LET order == orders[cursor]
      filled == Filled(order, order.price, order.size)
  IN  /\ phase = "filling"
      /\ cursor < MaxOrders
      /\ IsPlaced(cursor)
      /\ HasBar(order.symbol)
      /\ Touches(bars[order.symbol], order.price)
      /\ cursor' = cursor + 1
      /\ orders' = [orders EXCEPT ![cursor] = filled]
      /\ Book(filled)
      /\ UNCHANGED <<clock, bars, orderIdCounter, phase>>

\* The candle touches the price of the open order at the cursor: it fills there.
VisitFills ==
  LET order == orders[cursor]
      filled == Filled(order, order.price, order.size)
  IN  /\ phase = "filling"
      /\ cursor < MaxOrders
      /\ IsOpen(cursor)
      /\ HasBar(order.symbol)
      /\ Touches(bars[order.symbol], order.price)
      /\ cursor' = cursor + 1
      /\ orders' = [orders EXCEPT ![cursor] = filled]
      /\ Book(filled)
      /\ UNCHANGED <<clock, bars, orderIdCounter, phase>>

\* There is no candle to compare an open order with: nextClock() throws, and
\* the backtest ends with it.
VisitThrows ==
  /\ phase = "filling"
  /\ cursor < MaxOrders
  /\ IsOpen(cursor)
  /\ ~HasBar(orders[cursor].symbol)
  /\ phase' = "crashed"
  /\ UNCHANGED <<clock, bars, orders, orderIdCounter, cursor, account>>

OpenPositions == {s \in Symbol : positions[s] # None}

\* Mutant of GetBalance: positions quoted in other currencies count too.
GetBalanceOfAllQuotes(currency) ==
  balances[currency] +
    SumFunction([s \in OpenPositions |->
                   PnL(positions[s], MarketPrice(s), positions[s].size)])

\* getBalance: the realized balance and the profit of the open positions.
GetBalance(currency) ==
  balances[currency] +
    SumFunction([s \in {s \in OpenPositions : Quote[s] = currency} |->
                   PnL(positions[s], MarketPrice(s), positions[s].size)])

\* All orders visited: the record of the interval is closed.
NextClockEnds ==
  /\ phase = "filling"
  /\ cursor = MaxOrders
  /\ \A s \in OpenPositions : HasBar(s)
  /\ history' = Flush(history, clock, [c \in Currency |-> GetBalance(c)])
  /\ phase' = "trading"
  /\ UNCHANGED <<clock, bars, balances, positions, orders, orderIdCounter, cursor>>

\* An open position cannot be valued: getBalance() throws out of nextClock().
ValuationThrows ==
  /\ phase = "filling"
  /\ cursor = MaxOrders
  /\ \E s \in OpenPositions : ~HasBar(s)
  /\ phase' = "crashed"
  /\ UNCHANGED <<clock, bars, orders, orderIdCounter, cursor, account>>

-----------------------------------------------------------------------------
Next ==
  \/ \E req \in Request : PlaceMarket(req)
  \/ \E req \in Request : PlaceLimit(req)
  \/ \E req \in Request : PlaceStopMarket(req)
  \/ \E req \in Request : PlacementThrows(req)
  \/ \E ids \in CancelBatch : CancelOrders(ids)
  \/ NextClockBegins
  \/ VisitPasses
  \/ VisitFills
  \/ VisitThrows
  \/ NextClockEnds
  \/ ValuationThrows

Spec == Init /\ [][Next]_vars

-----------------------------------------------------------------------------
\* Every variable has its type; in particular a position is never of size zero
\* (the code tests `if (position)`) and entry prices are prices.
TypeOK ==
  /\ clock \in 0..MaxClock
  /\ bars \in [Symbol -> Bar \cup {None}]
  /\ balances \in [Currency -> Int]
  /\ positions \in [Symbol -> Positions \cup {None}]
  /\ orders \in [OrderId -> Orders \cup {None}]
  /\ orderIdCounter \in 0..MaxOrders
  /\ phase \in {"trading", "filling", "crashed"}
  /\ cursor \in 0..MaxOrders

\* Signed size of the position of a symbol.
Net(symbol) ==
  IF positions[symbol] = None THEN 0
  ELSE Sign(positions[symbol].side) * positions[symbol].size

\* The history explains the account: the signed sizes of all trades of a
\* symbol, over every record, add up to the open position. A trade dropped by
\* the flush, a fill booked twice or a wrong flip of a position breaks it. (The
\* trade of a crossing limit order records the size before rounding.)
TradesExplainPositions ==
  \A s \in Symbol :
    Net(s) = SumOf(AllTrades(history),
                   LAMBDA t : IF t.symbol = s THEN Sign(t.side) * RoundSize(t.size)
                              ELSE 0)

\* Profit and commissions the history reports account for the whole balance.
TradesExplainBalance ==
  \A c \in Currency :
    balances[c] = InitialBalance +
      SumOf(AllTrades(history),
            LAMBDA t : IF Quote[t.symbol] = c THEN t.pnl - t.fee ELSE 0)

\* Signed size of an order, and orders that turn filled in a step.
SignedSize(order) == Sign(order.side) * order.size
WasFilled(id) == orders[id] # None /\ orders[id].status = "filled"
Fills(id) == ~WasFilled(id) /\ WasFilled(id)'

\* Only fills move positions: a step that changes a position fills exactly one
\* order, of that symbol, and moves the position by the size of that order.
PositionsMoveByFills ==
  [][\A s \in Symbol : Net(s)' # Net(s) =>
       \E id \in OrderId :
         /\ Fills(id)
         /\ \A other \in OrderId : Fills(other) => other = id
         /\ orders'[id].symbol = s
         /\ Net(s)' = Net(s) + SignedSize(orders'[id])]_vars

\* A cancelled order stays cancelled, and an order is filled at most once.
FinalOrdersStay ==
  [][\A id \in OrderId : orders[id] # None =>
       /\ orders[id].status = "cancelled" => orders'[id] = orders[id]
       /\ orders[id].status = "filled" =>
            orders'[id] \in {orders[id], [orders[id] EXCEPT !.status = "cancelled"]}]_vars

\* While the strategy trades, no order older than the current candle is open at
\* a price that candle has touched: nextClock() misses no order.
TouchedOrdersAreFilled ==
  phase = "trading" =>
    \A id \in OrderId :
      (IsOpen(id) /\ orders[id].timestamp < clock) =>
        /\ HasBar(orders[id].symbol)
        /\ ~Touches(bars[orders[id].symbol], orders[id].price)

\* Every fill that is due happens, and the trades of the history account for the
\* positions and balances it leads to: nextClock, the placements and Flush together.
FillsAreAccountedFor ==
  TouchedOrdersAreFilled /\ TradesExplainPositions /\ TradesExplainBalance

-----------------------------------------------------------------------------
(* The broker implements the ledger. What a currency holds in the ledger is *)
(* its realized balance less the cost of the open positions quoted in it.   *)

Cost(symbol) ==
  IF positions[symbol] = None THEN 0
  ELSE Net(symbol) * positions[symbol].entryPrice

Cash == [c \in Currency |->
           balances[c] - SumFunction([s \in {s \in Symbol : Quote[s] = c} |-> Cost(s)])]

Ledger == INSTANCE CashLedger WITH
            Size <- {RoundSize(req.size) : req \in Request},
            Price <- {req.price : req \in Request} \cup {bar.close : bar \in Bar},
            Rate <- {Maker, Taker},
            cash <- Cash,
            net <- [s \in Symbol |-> Net(s)]

\* Every call and every clock step is a ledger trade or leaves the ledger as it
\* is: averaging, reducing, closing and flipping positions neither make nor
\* lose money.
ImplementsLedger == Ledger!LedgerSpec

\* Value of the ledger account at the prices of the current candles.
Equity(currency) ==
  Cash[currency] + SumFunction([s \in {s \in OpenPositions : Quote[s] = currency} |->
                                  Net(s) * MarketPrice(s)])

\* The balance a history record shows is the mark-to-market value of the ledger
\* at the instant the record opens.
RecordsShowEquity ==
  (phase = "trading" /\ history.current.trades = <<>>) =>
    history.current.balances = [c \in Currency |-> Equity(c)]
=============================================================================
