---------------------- MODULE BacktestSpotBrokerProofs ----------------------
(***************************************************************************)
(* Proofs about the orders of the spot broker and about what its fills do  *)
(* to the account, for any symbols, candles, requests, lots and bounds:    *)
(* each fill is one trade of one record, and the trades of a record lead   *)
(* from its balances to those of the next.                                 *)
(***************************************************************************)
EXTENDS BacktestSpotBroker, DataLemmas, TLAPS

\* What becomes of the orders depends on this alone: an id that has not been
\* handed out is not in the order map, so that storing an order replaces none.
OrdersInv ==
  /\ orderIdCounter \in 0..MaxOrders
  /\ orders \in [OrderId -> Orders \cup {None}]
  /\ \A id \in OrderId : IsPlaced(id) => id < orderIdCounter

USE LotAssumption, BoundsAssumption, NoneAssumption, BarAssumption, MarketAssumption,
    RequestAssumption

\* The time of new orders is a clock value, and their candles have prices.
IInv == OrdersInv /\ clock \in 0..MaxClock /\ bars \in Market

-----------------------------------------------------------------------------
\* A size of at least half a lot does not round to zero.
LEMMA RoundSizeIsPositive ==
  ASSUME NEW raw \in Nat, 2 * raw >= Lot
  PROVE  RoundSize(raw) \in Nat \ {0}
<1>1. (2 * raw + Lot) \div (2 * Lot) \in Nat \ {0}
  BY SMTT(30)
<1>2. \A n \in Nat \ {0} : Lot * n \in Nat \ {0}
  OBVIOUS
<1> QED
  BY <1>1, <1>2 DEF RoundSize

\* Orders are built from requests.
LEMMA NewOrderIsOrder ==
  ASSUME clock \in 0..MaxClock, NEW req \in Request, NEW type \in {"limit", "market"},
         NEW price \in Nat
  PROVE  NewOrder(type, req, price) \in Orders
<1>1. RoundSize(req.size) \in Nat \ {0}
  BY RoundSizeIsPositive
<1>2. req.symbol \in Symbol /\ req.side \in Sides
  OBVIOUS
<1> QED
  BY <1>1, <1>2 DEF NewOrder, Orders

\* A filled order is an order.
LEMMA FilledIsOrder ==
  ASSUME NEW order \in Orders, NEW price \in Nat, NEW size \in Nat
  PROVE  /\ Filled(order, price, size) \in Orders
         /\ Filled(order, price, size).status = "filled"
  BY DEF Filled, Orders

\* The market price of a symbol with a candle.
LEMMA MarketPriceIsPrice ==
  ASSUME bars \in Market, NEW symbol \in Symbol, HasBar(symbol)
  PROVE  MarketPrice(symbol) \in Nat
<1>1. bars[symbol] \in Bar
  BY DEF HasBar
<1> QED
  BY <1>1 DEF MarketPrice

-----------------------------------------------------------------------------
\* What a step may do to orders that are final.
FinalOrders ==
  \A id \in OrderId : orders[id] # None =>
    /\ orders[id].status = "cancelled" => orders'[id] = orders[id]
    /\ orders[id].status = "filled" =>
         orders'[id] \in {orders[id], [orders[id] EXCEPT !.status = "cancelled"]}

\* An order stored under a fresh id replaces none.
LEMMA StoreKeeps ==
  ASSUME OrdersInv, NEW order \in Orders, TakesOrderId, Store(order)
  PROVE  OrdersInv' /\ FinalOrders
<1>1. orderIdCounter \in OrderId /\ orderIdCounter' = orderIdCounter + 1
  BY DEF OrdersInv, TakesOrderId, OrderId
<1>2. ~IsPlaced(orderIdCounter)
  BY <1>1 DEF OrdersInv, OrderId
<1>3. /\ orders' \in [OrderId -> Orders \cup {None}]
      /\ \A id \in OrderId : id # orderIdCounter => orders'[id] = orders[id]
  BY <1>1 DEF OrdersInv, Store
<1>4. orderIdCounter' \in 0..MaxOrders
  BY <1>1 DEF OrderId
<1>5. \A id \in OrderId : IsPlaced(id)' => id < orderIdCounter'
  BY <1>1, <1>3 DEF OrdersInv, IsPlaced, OrderId
<1>6. FinalOrders
  BY <1>2, <1>3 DEF FinalOrders, IsPlaced
<1> QED
  BY <1>3, <1>4, <1>5, <1>6 DEF OrdersInv

\* Every placement.
LEMMA PlacementKeeps ==
  ASSUME IInv, NEW req \in Request,
         PlaceMarket(req) \/ PlaceLimit(req) \/ PlaceStopMarket(req) \/ PlacementThrows(req)
  PROVE  IInv' /\ FinalOrders
<1>0. OrdersInv /\ clock \in 0..MaxClock /\ bars \in Market
  BY DEF IInv
<1>1. TakesOrderId /\ UNCHANGED <<clock, bars>>
  BY DEF PlaceMarket, PlaceLimit, PlaceStopMarket, PlacementThrows, TakesOrderId
<1>2. req.symbol \in Symbol /\ req.price \in Nat /\ req.size \in Nat
  OBVIOUS
<1>3. RoundSize(req.size) \in Nat
  BY <1>2, RoundSizeIsPositive
<1>4. CASE PlaceMarket(req)
  <2> DEFINE price == MarketPrice(req.symbol)
             order == Filled(NewOrder("market", req, price), price, RoundSize(req.size))
  <2>1. price \in Nat
    BY <1>0, <1>2, <1>4, MarketPriceIsPrice DEF PlaceMarket
  <2>2. order \in Orders
    BY <1>0, <1>3, <2>1, NewOrderIsOrder, FilledIsOrder
  <2>3. Store(order)
    BY <1>4 DEF PlaceMarket
  <2> QED
    BY <1>0, <1>1, <2>2, <2>3, StoreKeeps DEF IInv
<1>5. CASE PlaceLimit(req)
  <2> DEFINE resting == NewOrder("limit", req, req.price)
             taken == Filled(resting, MarketPrice(req.symbol), req.size)
  <2>1. MarketPrice(req.symbol) \in Nat
    BY <1>0, <1>2, <1>5, MarketPriceIsPrice DEF PlaceLimit
  <2>2. resting \in Orders /\ taken \in Orders
    BY <1>0, <1>2, <2>1, NewOrderIsOrder, FilledIsOrder
  <2>3. Store(resting) \/ Store(taken)
    BY <1>5 DEF PlaceLimit
  <2> QED
    BY <1>0, <1>1, <2>2, <2>3, StoreKeeps DEF IInv
<1>6. CASE PlaceStopMarket(req)
  <2>1. NewOrder("market", req, req.price) \in Orders
    BY <1>0, <1>2, NewOrderIsOrder
  <2> QED
    BY <1>0, <1>1, <1>6, <2>1, StoreKeeps DEF PlaceStopMarket, IInv
<1>7. CASE PlacementThrows(req)
  <2>1. orderIdCounter' \in 0..MaxOrders /\ orderIdCounter' = orderIdCounter + 1
    BY <1>0, <1>1 DEF TakesOrderId, OrdersInv
  <2>2. orders' = orders
    BY <1>7 DEF PlacementThrows
  <2>3. \A id \in OrderId : IsPlaced(id)' => id < orderIdCounter'
    BY <1>0, <2>1, <2>2 DEF OrdersInv, IsPlaced, OrderId
  <2> QED
    BY <1>0, <1>1, <2>1, <2>2, <2>3 DEF IInv, OrdersInv, FinalOrders
<1> QED
  BY <1>4, <1>5, <1>6, <1>7

\* A cancellation changes the status of orders there are.
LEMMA CancelKeeps ==
  ASSUME IInv, NEW ids \in CancelBatch, CancelOrders(ids)
  PROVE  IInv' /\ FinalOrders
<1>0. OrdersInv
  BY DEF IInv
<1>1. PICK reached : orders' = [id \in OrderId |->
                                  IF id \in reached
                                  THEN [orders[id] EXCEPT !.status = "cancelled"]
                                  ELSE orders[id]]
                     /\ \A id \in reached : IsPlaced(id)
  <2> DEFINE prefix == {k \in DOMAIN ids : \A j \in 1..k : IsPlaced(ids[j])}
             reached == {ids[k] : k \in prefix}
  <2>1. \A k \in prefix : IsPlaced(ids[k])
    <3>1. \A k \in DOMAIN ids : k \in 1..k
      BY CancelBatchAssumption
    <3> QED
      BY <3>1
  <2>2. orders' = [id \in OrderId |->
                     IF id \in reached
                     THEN [orders[id] EXCEPT !.status = "cancelled"]
                     ELSE orders[id]]
    BY DEF CancelOrders
  <2>3. \A id \in reached : IsPlaced(id)
    BY <2>1
  <2> HIDE DEF reached
  <2> QED
    BY <2>2, <2>3
<1>2. ASSUME NEW id \in OrderId
      PROVE  \/ orders'[id] = orders[id]
             \/ /\ orders[id] \in Orders
                /\ orders'[id] = [orders[id] EXCEPT !.status = "cancelled"]
  BY <1>0, <1>1 DEF OrdersInv, IsPlaced
<1>3. ASSUME NEW id \in OrderId
      PROVE  /\ orders'[id] \in Orders \cup {None}
             /\ IsPlaced(id)' => IsPlaced(id)
  <2>1. CASE orders'[id] = orders[id]
    BY <1>0, <2>1 DEF OrdersInv, IsPlaced
  <2>2. CASE /\ orders[id] \in Orders
             /\ orders'[id] = [orders[id] EXCEPT !.status = "cancelled"]
    BY <2>2 DEF IsPlaced, Orders
  <2> QED
    BY <1>2, <2>1, <2>2
<1>4. FinalOrders
  <2> SUFFICES ASSUME NEW id \in OrderId, orders[id] # None
               PROVE  /\ orders[id].status = "cancelled" => orders'[id] = orders[id]
                      /\ orders[id].status = "filled" =>
                           orders'[id] \in {orders[id], [orders[id] EXCEPT !.status = "cancelled"]}
    BY DEF FinalOrders
  <2>1. CASE orders'[id] = orders[id]
    BY <2>1
  <2>2. CASE /\ orders[id] \in Orders
             /\ orders'[id] = [orders[id] EXCEPT !.status = "cancelled"]
    BY <2>2 DEF Orders
  <2> QED
    BY <1>2, <2>1, <2>2
<1>5. orders' \in [OrderId -> Orders \cup {None}]
  BY <1>1, <1>3
<1>6. UNCHANGED <<clock, bars, orderIdCounter>>
  BY DEF CancelOrders
<1> QED
  BY <1>0, <1>3, <1>4, <1>5, <1>6 DEF IInv, OrdersInv

\* nextClock() changes open orders only.
LEMMA NextClockKeeps ==
  ASSUME IInv, NEW candles \in Market, NextClock(candles)
  PROVE  IInv' /\ FinalOrders
<1>0. OrdersInv /\ clock \in 0..MaxClock
  BY DEF IInv
<1>1. orders' = [id \in OrderId |->
                   IF id \in Touched(candles) THEN FilledAtPrice(id) ELSE orders[id]]
  BY DEF NextClock
<1>2. \A id \in Touched(candles) : IsOpen(id)
  BY DEF Touched
<1>3. ASSUME NEW id \in OrderId
      PROVE  \/ orders'[id] = orders[id]
             \/ IsOpen(id) /\ orders[id] \in Orders /\ orders'[id] \in Orders
  <2>1. CASE id \in Touched(candles)
    <3>1. IsOpen(id) /\ orders[id] \in Orders
      BY <1>0, <1>2, <2>1 DEF IsOpen, IsPlaced, OrdersInv
    <3>2. orders[id].price \in Nat /\ orders[id].size \in Nat
      BY <3>1 DEF Orders
    <3>3. FilledAtPrice(id) \in Orders
      BY <3>1, <3>2, FilledIsOrder DEF FilledAtPrice
    <3> QED
      BY <1>1, <2>1, <3>1, <3>3
  <2>2. CASE id \notin Touched(candles)
    BY <1>1, <2>2
  <2> QED
    BY <2>1, <2>2
<1>4. FinalOrders
  BY <1>3 DEF FinalOrders, IsOpen
<1>5. \A id \in OrderId : IsPlaced(id)' => IsPlaced(id)
  BY <1>3 DEF IsOpen, IsPlaced
<1>6. orders' \in [OrderId -> Orders \cup {None}]
  <2>1. \A id \in OrderId : orders'[id] \in Orders \cup {None}
    BY <1>0, <1>3 DEF OrdersInv
  <2> QED
    BY <1>1, <2>1
<1>7. clock' \in 0..MaxClock /\ bars' \in Market /\ orderIdCounter' = orderIdCounter
  BY <1>0 DEF NextClock
<1> QED
  BY <1>0, <1>4, <1>5, <1>6, <1>7 DEF IInv, OrdersInv

-----------------------------------------------------------------------------
LEMMA InitEstablishes ==
  ASSUME Init
  PROVE  IInv
  BY DEF Init, IInv, OrdersInv, IsPlaced

LEMMA NextKeeps ==
  ASSUME IInv, [Next]_vars
  PROVE  IInv' /\ (FinalOrders \/ UNCHANGED vars)
<1>1. CASE \E req \in Request : \/ PlaceMarket(req) \/ PlaceLimit(req)
                                 \/ PlaceStopMarket(req) \/ PlacementThrows(req)
  BY <1>1, PlacementKeeps
<1>2. CASE \E ids \in CancelBatch : CancelOrders(ids)
  BY <1>2, CancelKeeps
<1>3. CASE \E candles \in Market : NextClock(candles)
  BY <1>3, NextClockKeeps
<1>4. CASE UNCHANGED vars
  BY <1>4 DEF vars, IInv, OrdersInv, IsPlaced
<1> QED
  BY <1>1, <1>2, <1>3, <1>4 DEF Next

\* Ids in the order map have been handed out, and orders are orders, whatever a
\* strategy asks for and the candles are.
THEOREM OrderMapIsCorrect == Spec => []IInv
  BY InitEstablishes, NextKeeps, PTL DEF Spec

\* A cancelled order stays cancelled, and an order is filled at most once: what a
\* cancellation may overwrite is only the status (cancelOrder, nextClock).
THEOREM OrdersAreFinal == Spec => FinalOrdersStay
<1>1. ASSUME IInv, [Next]_vars
      PROVE  [\A id \in OrderId : orders[id] # None =>
                /\ orders[id].status = "cancelled" => orders'[id] = orders[id]
                /\ orders[id].status = "filled" =>
                     orders'[id] \in {orders[id], [orders[id] EXCEPT !.status = "cancelled"]}]_vars
  BY <1>1, NextKeeps DEF FinalOrders
<1> QED
  BY <1>1, OrderMapIsCorrect, PTL DEF Spec, FinalOrdersStay

-----------------------------------------------------------------------------
(* The account: fills and trades correspond one to one, and the trades of   *)
(* each record lead from its balances to the next ones.                     *)

TradeType == [symbol : Symbol, side : Sides, price : Nat, size : Nat, fee : Int]
BalanceType == [Currency -> Int]
AccountType == [balances : BalanceType, history : HistoriesOf(TradeType, BalanceType)]

EffectOn(c) == [t \in TradeType |-> Effect(t, c)]

FilledIds(ords) == {id \in OrderId : ords[id] # None /\ ords[id].filledSize > 0}

\* Trades and orders that have been filled correspond one to one.
FillsBooked(h, ords) ==
  \E fill \in Bijection(Places(h), FilledIds(ords)) :
    \A p \in Places(h) : AllTrades(h)[p] = TradeOf(ords[fill[p]])

\* Trades that lead from balances to others.
Leads(from, trades, to) == \A c \in Currency : to[c] = from[c] + SeqSum(trades, EffectOn(c))

AddsUp(acc) ==
  /\ Records(acc.history)[1].balances = Balances
  /\ \A i \in 1..Len(acc.history.records) :
       Leads(Records(acc.history)[i].balances, Records(acc.history)[i].trades,
             Records(acc.history)[i + 1].balances)
  /\ Leads(acc.history.current.balances, acc.history.current.trades, acc.balances)

AccountOK(acc, ords) == acc \in AccountType /\ AddsUp(acc) /\ FillsBooked(acc.history, ords)

\* Effects of trades are whole amounts.
LEMMA EffectType ==
  /\ \A c \in Currency : EffectOn(c) \in [TradeType -> Int]
  /\ \A c \in Currency, t \in TradeType : EffectOn(c)[t] = Effect(t, c)
<1>1. ASSUME NEW c \in Currency, NEW t \in TradeType
      PROVE  Effect(t, c) \in Int
  <2>1. t.size \in Nat /\ t.price \in Nat /\ t.fee \in Int /\ Sign(t.side) \in {1, -1}
    BY DEF TradeType, Sign
  <2>2. \A sign \in {1, -1}, m \in Nat, n \in Nat : sign * m \in Int /\ sign * m * n \in Int
    OBVIOUS
  <2>3. Sign(t.side) * t.size \in Int /\ Sign(t.side) * t.size * t.price \in Int
    BY <2>1, <2>2
  <2> HIDE DEF Sign
  <2> QED
    BY <2>1, <2>3 DEF Effect
<1> HIDE DEF Effect
<1> QED
  BY <1>1 DEF EffectOn

\* The flush can sort trades.
LEMMA TradesSort == CanBeSorted(TradeType)
  BY DEF CanBeSorted, TradeType

\* Commissions are whole amounts.
LEMMA FeeType ==
  ASSUME NEW order \in Orders
  PROVE  Fee(order) \in Int /\ TradeOf(order) \in TradeType
<1> DEFINE rate == IF order.type = "limit" THEN Maker ELSE Taker
<1>1. rate \in Nat /\ order.size \in Nat
  BY RateAssumption DEF Orders
<1>2. \A m \in Nat, n \in Nat : m * n \in Nat
  OBVIOUS
<1>3. PICK amount \in Nat : amount = rate * order.size
  BY <1>1, <1>2
<1>4. amount \div 10000 \in Int
  OBVIOUS
<1>5. Fee(order) \in Int
  <2>1. Fee(order) = (rate * order.size) \div 10000
    BY DEF Fee
  <2> HIDE DEF rate
  <2>2. Fee(order) = amount \div 10000
    BY <1>3, <2>1
  <2> QED
    BY <1>4, <2>2
<1> HIDE DEF Fee
<1> QED
  BY <1>5 DEF TradeOf, TradeType, Orders

\* Booking an order adds its trade and its effect.
LEMMA BookingAddsEffect ==
  ASSUME NEW acc \in AccountType, NEW order \in Orders
  PROVE  /\ Booked(acc, order) \in AccountType
         /\ Booked(acc, order).history = AddTrade(acc.history, TradeOf(order))
         /\ \A c \in Currency :
              Booked(acc, order).balances[c] = acc.balances[c] + EffectOn(c)[TradeOf(order)]
<1> DEFINE trade == TradeOf(order)
           base == Base[order.symbol]
           quote == Quote[order.symbol]
           amount == Sign(order.side) * order.filledSize
           cost == Sign(order.side) * order.filledSize * order.price
           moved == Moved(acc.balances, trade)
           after == [moved EXCEPT ![base] = @ - Fee(order)]
<1>1. order.symbol \in Symbol /\ base \in Currency /\ quote \in Currency
  BY PairAssumption DEF Orders
<1>2. trade \in TradeType /\ Fee(order) \in Int
  BY FeeType
<1>3. /\ trade.symbol = order.symbol /\ trade.side = order.side /\ trade.price = order.price
      /\ trade.size = order.filledSize /\ trade.fee = Fee(order)
  BY DEF TradeOf
<1>4. amount \in Int /\ cost \in Int
  <2>1. order.filledSize \in Nat /\ order.price \in Nat /\ Sign(order.side) \in {1, -1}
    BY DEF Orders, Sign
  <2>2. \A sign \in {1, -1}, m \in Nat, n \in Nat : sign * m \in Int /\ sign * m * n \in Int
    OBVIOUS
  <2> QED
    BY <2>1, <2>2
<1>5. moved = [acc.balances EXCEPT ![base] = @ + amount, ![quote] = @ - cost]
  BY <1>3 DEF Moved
<1>6. acc.balances \in [Currency -> Int] /\ acc.history \in HistoriesOf(TradeType, BalanceType)
  BY DEF AccountType, BalanceType
<1>7. \A c \in Currency :
        Effect(trade, c) = (IF base = c THEN amount - Fee(order) ELSE 0)
                             - (IF quote = c THEN cost ELSE 0)
  BY <1>3 DEF Effect
<1>8. Booked(acc, order) = [balances |-> after, history |-> AddTrade(acc.history, trade)]
  BY DEF Booked
<1> HIDE DEF trade, base, quote, amount, cost
<1>9. moved \in [Currency -> Int]
  BY <1>1, <1>4, <1>5, <1>6
<1>10. \A c \in Currency :
         moved[c] = acc.balances[c] + (IF base = c THEN amount ELSE 0) - (IF quote = c THEN cost ELSE 0)
  <2> DEFINE first == [acc.balances EXCEPT ![base] = @ + amount]
  <2>1. moved = [first EXCEPT ![quote] = @ - cost]
    BY <1>5
  <2>2. /\ first \in [Currency -> Int]
        /\ \A c \in Currency : first[c] = acc.balances[c] + (IF base = c THEN amount ELSE 0)
    BY <1>1, <1>4, <1>6
  <2> HIDE DEF first
  <2>3. \A c \in Currency : moved[c] = first[c] - (IF quote = c THEN cost ELSE 0)
    BY <1>1, <1>4, <2>1, <2>2
  <2> QED
    BY <1>4, <1>6, <2>2, <2>3
<1> HIDE DEF moved
<1>11. after \in [Currency -> Int]
  BY <1>1, <1>2, <1>9
<1>12. \A c \in Currency : after[c] = moved[c] - (IF base = c THEN Fee(order) ELSE 0)
  BY <1>1, <1>2, <1>9
<1>13. \A c \in Currency : after[c] = acc.balances[c] + Effect(trade, c)
  <2> HIDE DEF after
  <2> QED
    BY <1>2, <1>4, <1>6, <1>7, <1>10, <1>12
<1>14. AddTrade(acc.history, trade) \in HistoriesOf(TradeType, BalanceType)
  BY <1>2, <1>6, AddTradePlaces
<1> HIDE DEF after
<1>15. Booked(acc, order) \in AccountType
  BY <1>8, <1>11, <1>14 DEF AccountType, BalanceType
<1>16. Booked(acc, order).balances = after /\ Booked(acc, order).history = AddTrade(acc.history, trade)
  BY <1>8
<1>17. \A c \in Currency : EffectOn(c)[trade] = Effect(trade, c)
  BY <1>2, EffectType
<1> QED
  BY Zenon, <1>13, <1>15, <1>16, <1>17 DEF trade

\* Records add up before and after an order is booked.
LEMMA BookingAddsUp ==
  ASSUME NEW acc \in AccountType, AddsUp(acc), NEW order \in Orders
  PROVE  AddsUp(Booked(acc, order))
<1> DEFINE h == acc.history
           trade == TradeOf(order)
           g == AddTrade(h, trade)
           booked == Booked(acc, order)
           n == Len(h.records)
<1>1. h \in HistoriesOf(TradeType, BalanceType) /\ trade \in TradeType
  BY FeeType DEF AccountType
<1>2. /\ booked.history = g /\ g \in HistoriesOf(TradeType, BalanceType)
      /\ \A c \in Currency : booked.balances[c] = acc.balances[c] + EffectOn(c)[trade]
  BY <1>1, BookingAddsEffect, AddTradePlaces
<1>3. /\ g.records = h.records
      /\ g.current.trades = Append(h.current.trades, trade)
      /\ g.current.balances = h.current.balances
  BY <1>1, AddTradeRecords
<1>4. /\ Records(h)[n + 1] = h.current /\ \A i \in 1..n : Records(h)[i] = h.records[i]
      /\ h.current.trades \in Seq(TradeType) /\ n \in Nat
      /\ h.current.balances \in BalanceType
  BY <1>1, RecordsType
<1>5. /\ Records(g)[n + 1] = g.current /\ \A i \in 1..n : Records(g)[i] = h.records[i]
  BY <1>2, <1>3, RecordsType
<1>6. /\ \A i \in 1..(n + 1) : Records(g)[i].balances = Records(h)[i].balances
      /\ \A i \in 1..n : Records(g)[i] = Records(h)[i]
  <2>0. n \in Nat
    BY <1>4
  <2> HIDE DEF g, n
  <2>1. \A i \in 1..(n + 1) : i \in 1..n \/ i = n + 1
    BY <2>0
  <2> QED
    BY <1>3, <1>4, <1>5, <2>1
<1>7. Records(g)[1].balances = Balances
  <2>1. 1 \in 1..(n + 1)
    BY <1>4
  <2> HIDE DEF g, n
  <2> QED
    BY <1>6, <2>1 DEF AddsUp
<1>8. ASSUME NEW i \in 1..n
      PROVE  Leads(Records(g)[i].balances, Records(g)[i].trades, Records(g)[i + 1].balances)
  <2>1. i \in 1..(n + 1) /\ i + 1 \in 1..(n + 1)
    BY <1>4
  <2>2. Leads(Records(h)[i].balances, Records(h)[i].trades, Records(h)[i + 1].balances)
    BY DEF AddsUp
  <2> HIDE DEF g, h, n
  <2> QED
    BY Zenon, <1>6, <2>1, <2>2
<1>9. Leads(g.current.balances, g.current.trades, booked.balances)
  <2> SUFFICES ASSUME NEW c \in Currency
               PROVE  booked.balances[c]
                        = g.current.balances[c] + SeqSum(g.current.trades, EffectOn(c))
    BY DEF Leads
  <2>1. EffectOn(c) \in [TradeType -> Int]
    BY EffectType
  <2>2. SeqSum(g.current.trades, EffectOn(c)) = SeqSum(h.current.trades, EffectOn(c)) + EffectOn(c)[trade]
    BY <1>1, <1>3, <1>4, <2>1, SeqSumOfAppend
  <2>3. SeqSum(h.current.trades, EffectOn(c)) \in Int /\ EffectOn(c)[trade] \in Int
    BY <1>1, <1>4, <2>1, SeqSumType
  <2>4. acc.balances[c] = h.current.balances[c] + SeqSum(h.current.trades, EffectOn(c))
    BY DEF AddsUp, Leads
  <2>5. h.current.balances[c] \in Int
    BY <1>4 DEF BalanceType
  <2> HIDE DEF g, h, booked, trade
  <2> QED
    BY <1>2, <1>3, <2>2, <2>3, <2>4, <2>5
<1> HIDE DEF g, h, booked
<1> QED
  BY <1>2, <1>3, <1>7, <1>8, <1>9 DEF AddsUp, booked

\* ... and before and after a flush with the balances of the account.
LEMMA FlushAddsUp ==
  ASSUME NEW acc \in AccountType, AddsUp(acc), NEW timestamp \in Nat
  PROVE  /\ [acc EXCEPT !.history = Flush(@, timestamp, acc.balances)] \in AccountType
         /\ AddsUp([acc EXCEPT !.history = Flush(@, timestamp, acc.balances)])
<1> DEFINE h == acc.history
           g == Flush(h, timestamp, acc.balances)
           flushed == [acc EXCEPT !.history = Flush(@, timestamp, acc.balances)]
           n == Len(h.records)
<1>1. h \in HistoriesOf(TradeType, BalanceType) /\ acc.balances \in BalanceType
  BY DEF AccountType
<1>2. g \in HistoriesOf(TradeType, BalanceType)
  BY <1>1, TradesSort, FlushPlaces
<1>2a. flushed = [acc EXCEPT !.history = g]
  OBVIOUS
<1>3. /\ Len(g.records) = n + 1
      /\ \A i \in 1..n : g.records[i] = h.records[i]
      /\ g.records[n + 1].trades = SortTrades(h.current.trades)
      /\ g.records[n + 1].balances = h.current.balances
      /\ g.current = NewRecord(timestamp, acc.balances)
  <2> HIDE DEF h, flushed
  <2> QED
    BY <1>1, TradesSort, FlushRecords
<1> HIDE DEF g, flushed
<1>4. flushed.balances = acc.balances /\ flushed.history = g /\ flushed \in AccountType
  BY <1>2, <1>2a DEF AccountType
<1>5. /\ Records(h)[n + 1] = h.current /\ \A i \in 1..n : Records(h)[i] = h.records[i]
      /\ h.current.trades \in Seq(TradeType) /\ n \in Nat
      /\ h.current.balances \in BalanceType
  BY <1>1, RecordsType
<1>6. Records(g)[n + 2] = g.current /\ \A i \in 1..(n + 1) : Records(g)[i] = g.records[i]
  <2>1. /\ Records(g)[Len(g.records) + 1] = g.current
        /\ \A i \in 1..Len(g.records) : Records(g)[i] = g.records[i]
    BY <1>2, RecordsType
  <2>2. Len(g.records) + 1 = n + 2
    BY <1>3, <1>5
  <2> QED
    BY <1>3, <2>1, <2>2
<1>7. g.current.balances = acc.balances /\ g.current.trades = <<>>
  BY <1>3 DEF NewRecord
<1>8. /\ \A i \in 1..n : Records(g)[i] = Records(h)[i]
      /\ \A i \in 1..(n + 1) : Records(g)[i].balances = Records(h)[i].balances
      /\ Records(g)[n + 1].trades = SortTrades(h.current.trades)
  <2>1. \A i \in 1..(n + 1) : i \in 1..n \/ i = n + 1
    BY <1>5
  <2>2. \A i \in 1..n : i \in 1..(n + 1)
    BY <1>5
  <2>3. n + 1 \in 1..(n + 1)
    BY <1>5
  <2> HIDE DEF h, n
  <2> QED
    BY <1>3, <1>5, <1>6, <2>1, <2>2, <2>3
<1>9. Records(g)[1].balances = Balances
  <2>1. 1 \in 1..(n + 1)
    BY <1>5
  <2> HIDE DEF n
  <2> QED
    BY <1>8, <2>1 DEF AddsUp
<1>10. ASSUME NEW i \in 1..(n + 1)
       PROVE  Leads(Records(g)[i].balances, Records(g)[i].trades, Records(g)[i + 1].balances)
  <2>1. CASE i \in 1..n
    <3>1. i + 1 \in 1..(n + 1)
      BY <1>5, <2>1
    <3>2. Leads(Records(h)[i].balances, Records(h)[i].trades, Records(h)[i + 1].balances)
      BY <2>1 DEF AddsUp
    <3> HIDE DEF h, n
    <3> QED
      BY Zenon, <1>8, <2>1, <3>1, <3>2
  <2>2. CASE i = n + 1
    <3>1. Records(g)[i + 1] = g.current
      BY <1>5, <1>6, <2>2
    <3>2. Leads(h.current.balances, h.current.trades, acc.balances)
      BY DEF AddsUp
    <3>3. Leads(h.current.balances, SortTrades(h.current.trades), acc.balances)
      <4>1. \A c \in Currency :
              SeqSum(SortTrades(h.current.trades), EffectOn(c)) = SeqSum(h.current.trades, EffectOn(c))
        BY <1>5, EffectType, TradesSort, SeqSumOfSorted
      <4> QED
        BY <3>2, <4>1 DEF Leads
    <3>4. Records(g)[i].balances = h.current.balances
      BY <1>5, <1>8, <2>2
    <3>5. Records(g)[i].trades = SortTrades(h.current.trades)
      BY <1>8, <2>2
    <3> QED
      BY Zenon, <1>7, <3>1, <3>3, <3>4, <3>5
  <2> QED
    BY <1>5, <2>1, <2>2
<1>11. Leads(g.current.balances, g.current.trades, flushed.balances)
  <2> SUFFICES ASSUME NEW c \in Currency
               PROVE  acc.balances[c] = acc.balances[c] + SeqSum(<<>>, EffectOn(c))
    BY <1>4, <1>7 DEF Leads
  <2> QED
    BY <1>1, SeqSumOfNone DEF BalanceType
<1>12. AddsUp(flushed)
  BY <1>3, <1>4, <1>9, <1>10, <1>11 DEF AddsUp
<1> QED
  BY <1>4, <1>12 DEF flushed

\* A fill takes an id that has not been filled: it is booked as one more trade.
LEMMA FillIsBooked ==
  ASSUME NEW h \in HistoriesOf(TradeType, BalanceType), NEW ords, FillsBooked(h, ords),
         ords \in [OrderId -> Orders \cup {None}],
         NEW id \in OrderId, id \notin FilledIds(ords),
         NEW order \in Orders, order.filledSize > 0
  PROVE  FillsBooked(AddTrade(h, TradeOf(order)), [ords EXCEPT ![id] = order])
<1> DEFINE trade == TradeOf(order)
           g == AddTrade(h, trade)
           after == [ords EXCEPT ![id] = order]
           P == Places(h)
           F == FilledIds(ords)
<1>1. after[id] = order /\ \A other \in OrderId : other # id => after[other] = ords[other]
  OBVIOUS
<1> HIDE DEF after
<1>2. FilledIds(after) = F \cup {id}
  BY <1>1, NoneAssumption DEF FilledIds
<1>3. PICK fill \in Bijection(P, F) : \A p \in P : AllTrades(h)[p] = TradeOf(ords[fill[p]])
  BY DEF FillsBooked
<1>4. PICK new :
        /\ new \notin P /\ Places(g) = P \cup {new} /\ AllTrades(g)[new] = trade
        /\ \A p \in P : AllTrades(g)[p] = AllTrades(h)[p]
  BY FeeType, AddTradePlaces
<1> DEFINE more == [x \in P \cup {new} |-> IF x = new THEN id ELSE fill[x]]
<1>5. more \in Bijection(P \cup {new}, F \cup {id})
  <2> HIDE DEF P, F
  <2> QED
    BY <1>4, CorrespondenceExtends DEF F
<1>6. \A p \in P : fill[p] \in F /\ fill[p] # id /\ fill[p] \in OrderId
  <2>1. \A p \in P : fill[p] \in F
    <3> HIDE DEF P, F
    <3> QED
      BY <1>3 DEF Bijection, Injection
  <2> QED
    BY <2>1 DEF FilledIds
<1>7. \A p \in P \cup {new} : AllTrades(g)[p] = TradeOf(after[more[p]])
  <2>1. more[new] = id /\ \A p \in P : more[p] = fill[p]
    BY <1>4
  <2> HIDE DEF more, P, F, g
  <2> QED
    BY <1>1, <1>3, <1>4, <1>6, <2>1
<1> HIDE DEF more, P, F, g
<1> QED
  BY <1>2, <1>4, <1>5, <1>7 DEF FillsBooked, after, g

\* Orders that change, but not those that have been filled, nor to be filled.
LEMMA OthersAreBooked ==
  ASSUME NEW h, NEW ords, NEW after, FillsBooked(h, ords),
         FilledIds(after) = FilledIds(ords),
         \A id \in FilledIds(ords) : TradeOf(after[id]) = TradeOf(ords[id])
  PROVE  FillsBooked(h, after)
<1>1. PICK fill \in Bijection(Places(h), FilledIds(ords)) :
        \A p \in Places(h) : AllTrades(h)[p] = TradeOf(ords[fill[p]])
  BY DEF FillsBooked
<1>2. \A p \in Places(h) : fill[p] \in FilledIds(ords)
  BY <1>1 DEF Bijection, Injection
<1>3. \A p \in Places(h) : AllTrades(h)[p] = TradeOf(after[fill[p]])
  BY <1>1, <1>2
<1> QED
  BY <1>3 DEF FillsBooked

\* A flush sorts the trades, and books none.
LEMMA FlushIsBooked ==
  ASSUME NEW h \in HistoriesOf(TradeType, BalanceType), NEW ords, FillsBooked(h, ords),
         NEW timestamp \in Nat, NEW balances \in BalanceType
  PROVE  FillsBooked(Flush(h, timestamp, balances), ords)
<1> DEFINE g == Flush(h, timestamp, balances)
           P == Places(h)
           F == FilledIds(ords)
<1>1. PICK fill \in Bijection(P, F) : \A p \in P : AllTrades(h)[p] = TradeOf(ords[fill[p]])
  BY DEF FillsBooked
<1>2. Places(g) = P /\ \E b \in Bijection(P, P) : \A p \in P : AllTrades(g)[p] = AllTrades(h)[b[p]]
  BY TradesSort, FlushPlaces
<1>3. PICK b \in Bijection(P, P) : \A p \in P : AllTrades(g)[p] = AllTrades(h)[b[p]]
  BY <1>2
<1> HIDE DEF P, F, g
<1> DEFINE both == [p \in P |-> fill[b[p]]]
<1>4. both \in Bijection(P, F)
  BY CorrespondenceComposes
<1>5. \A p \in P : b[p] \in P
  BY <1>3 DEF Bijection, Injection
<1>6. \A p \in P : AllTrades(g)[p] = TradeOf(ords[both[p]])
  BY <1>1, <1>3, <1>5
<1> HIDE DEF both
<1> QED
  BY <1>2, <1>4, <1>6 DEF FillsBooked, F, g

\* One fill, of account and orders.
LEMMA FillKeepsAccount ==
  ASSUME NEW acc, NEW ords, AccountOK(acc, ords), ords \in [OrderId -> Orders \cup {None}],
         NEW id \in OrderId, id \notin FilledIds(ords),
         NEW order \in Orders, order.filledSize > 0
  PROVE  AccountOK(Booked(acc, order), [ords EXCEPT ![id] = order])
<1>1. acc \in AccountType /\ AddsUp(acc) /\ FillsBooked(acc.history, ords)
  BY DEF AccountOK
<1>2. acc.history \in HistoriesOf(TradeType, BalanceType)
  BY <1>1 DEF AccountType
<1>3. /\ Booked(acc, order) \in AccountType
      /\ Booked(acc, order).history = AddTrade(acc.history, TradeOf(order))
  BY <1>1, BookingAddsEffect
<1>4. AddsUp(Booked(acc, order))
  BY <1>1, BookingAddsUp
<1>5. FillsBooked(AddTrade(acc.history, TradeOf(order)), [ords EXCEPT ![id] = order])
  BY <1>1, <1>2, FillIsBooked
<1> QED
  BY Zenon, <1>3, <1>4, <1>5 DEF AccountOK

-----------------------------------------------------------------------------
\* The loop of nextClock(): account after each visit.
Visit(acc, ids, id) == IF id \in ids THEN Booked(acc, FilledAtPrice(id)) ELSE acc

VisitOf(after, ids, k) == IF k = 0 THEN account ELSE Visit(after[k - 1], ids, k - 1)

IsVisitLoop(after, ids) == after = [k \in 0..MaxOrders |-> VisitOf(after, ids, k)]

LEMMA LoopIsChosen ==
  ASSUME NEW ids
  PROVE  AccountAfter(ids) = (CHOOSE after : IsVisitLoop(after, ids))[MaxOrders]
  BY DEF AccountAfter, IsVisitLoop, VisitOf, Visit

\* The loop ends: there is an account after each visit.
LEMMA VisitLoopExists ==
  ASSUME NEW ids
  PROVE  \E after : IsVisitLoop(after, ids)
<1> DEFINE Upto(after, n) ==
             /\ after = [k \in 0..MaxOrders |-> after[k]]
             /\ \A k \in 0..MaxOrders : k <= n => after[k] = VisitOf(after, ids, k)
           N == {n \in Nat : \E after : Upto(after, n)}
<1>1. 0 \in N
  <2> DEFINE after == [k \in 0..MaxOrders |-> account]
  <2>1. after = [k \in 0..MaxOrders |-> after[k]]
    OBVIOUS
  <2>2. \A k \in 0..MaxOrders : after[k] = account
    OBVIOUS
  <2> HIDE DEF after
  <2>3. Upto(after, 0)
    BY <2>1, <2>2 DEF VisitOf
  <2> QED
    BY <2>3
<1>2. ASSUME NEW n \in N
      PROVE  n + 1 \in N
  <2>1. PICK before : Upto(before, n)
    OBVIOUS
  <2> DEFINE after == [k \in 0..MaxOrders |-> IF k = n + 1 THEN VisitOf(before, ids, k) ELSE before[k]]
  <2>2. after = [k \in 0..MaxOrders |-> after[k]]
    OBVIOUS
  <2>3. \A k \in 0..MaxOrders :
          after[k] = IF k = n + 1 THEN VisitOf(before, ids, k) ELSE before[k]
    OBVIOUS
  <2> HIDE DEF after
  <2>4. \A k \in 0..MaxOrders : k <= n => after[k] = before[k]
    BY <2>3
  <2>5. \A k \in 0..MaxOrders : k <= n + 1 => VisitOf(after, ids, k) = VisitOf(before, ids, k)
    <3> SUFFICES ASSUME NEW k \in 0..MaxOrders, k <= n + 1, k # 0
                 PROVE  VisitOf(after, ids, k) = VisitOf(before, ids, k)
      BY DEF VisitOf
    <3>1. k - 1 \in 0..MaxOrders /\ k - 1 <= n
      OBVIOUS
    <3>2. after[k - 1] = before[k - 1]
      BY <2>4, <3>1
    <3> QED
      BY <3>2 DEF VisitOf
  <2>6. \A k \in 0..MaxOrders : k <= n + 1 => after[k] = VisitOf(after, ids, k)
    <3> SUFFICES ASSUME NEW k \in 0..MaxOrders, k <= n + 1
                 PROVE  after[k] = VisitOf(after, ids, k)
      OBVIOUS
    <3>1. CASE k = n + 1
      BY <2>3, <2>5, <3>1
    <3>2. CASE k <= n
      <4>1. after[k] = before[k] /\ before[k] = VisitOf(before, ids, k)
        BY <2>1, <2>4, <3>2
      <4> QED
        BY <2>5, <4>1
    <3> QED
      BY <3>1, <3>2
  <2>7. Upto(after, n + 1)
    BY Zenon, <2>2, <2>6
  <2>8. n + 1 \in Nat
    OBVIOUS
  <2> HIDE DEF Upto
  <2> QED
    BY <2>7, <2>8
<1>3. N = Nat
  <2> HIDE DEF N
  <2>1. N \subseteq Nat
    BY DEF N
  <2> QED
    BY <1>1, <1>2, <2>1, NatSetInduction
<1>4. PICK after : Upto(after, MaxOrders)
  BY <1>3
<1>5. \A k \in 0..MaxOrders : after[k] = VisitOf(after, ids, k)
  BY <1>4
<1>6. after = [k \in 0..MaxOrders |-> after[k]]
  BY <1>4
<1>7. IsVisitLoop(after, ids)
  BY <1>5, <1>6 DEF IsVisitLoop
<1> QED
  BY <1>7

LEMMA LoopSteps ==
  ASSUME NEW ids
  PROVE  \E after :
           /\ AccountAfter(ids) = after[MaxOrders]
           /\ after[0] = account
           /\ \A id \in OrderId : after[id + 1] = Visit(after[id], ids, id)
<1> DEFINE after == CHOOSE after : IsVisitLoop(after, ids)
<1>1. IsVisitLoop(after, ids) /\ AccountAfter(ids) = after[MaxOrders]
  BY VisitLoopExists, LoopIsChosen
<1> HIDE DEF after
<1>2. \A k \in 0..MaxOrders : after[k] = VisitOf(after, ids, k)
  BY <1>1 DEF IsVisitLoop
<1>3. after[0] = account
  BY <1>2 DEF VisitOf
<1>4. ASSUME NEW id \in OrderId
      PROVE  after[id + 1] = Visit(after[id], ids, id)
  <2>1. id + 1 \in 0..MaxOrders /\ id + 1 # 0 /\ (id + 1) - 1 = id
    BY DEF OrderId
  <2>2. after[id + 1] = VisitOf(after, ids, id + 1)
    BY <1>2, <2>1
  <2> QED
    BY <2>1, <2>2 DEF VisitOf
<1> QED
  BY <1>1, <1>3, <1>4

\* Sizes tell open orders from filled ones.
FilledSizes ==
  \A id \in OrderId : IsPlaced(id) =>
    /\ orders[id].status = "open" => orders[id].filledSize = 0
    /\ orders[id].status = "filled" => orders[id].filledSize > 0

\* The loop keeps the account with the orders it has filled so far.
OrdersAt(ids, k) ==
  [id \in OrderId |-> IF id \in ids /\ id < k THEN FilledAtPrice(id) ELSE orders[id]]

LEMMA FilledAtPriceIsOrder ==
  ASSUME OrdersInv, NEW id \in OrderId, IsOpen(id)
  PROVE  /\ FilledAtPrice(id) \in Orders /\ FilledAtPrice(id).status = "filled"
         /\ FilledAtPrice(id).filledSize > 0
<1>1. orders[id] \in Orders
  BY DEF OrdersInv, IsOpen, IsPlaced
<1>2. orders[id].price \in Nat /\ orders[id].size \in Nat \ {0}
  BY <1>1 DEF Orders
<1>3. FilledAtPrice(id).filledSize = orders[id].size
  BY <1>1 DEF FilledAtPrice, Filled, Orders
<1>4. FilledAtPrice(id) \in Orders /\ FilledAtPrice(id).status = "filled"
  BY <1>1, <1>2, FilledIsOrder DEF FilledAtPrice
<1>5. FilledAtPrice(id).filledSize > 0
  BY <1>2, <1>3
<1> QED
  BY <1>4, <1>5

LEMMA LoopKeepsAccount ==
  ASSUME OrdersInv, FilledSizes, AccountOK(account, orders),
         NEW ids \in SUBSET OrderId, \A id \in ids : IsOpen(id)
  PROVE  AccountOK(AccountAfter(ids), OrdersAt(ids, MaxOrders))
<1>1. PICK after :
        /\ AccountAfter(ids) = after[MaxOrders]
        /\ after[0] = account
        /\ \A id \in OrderId : after[id + 1] = Visit(after[id], ids, id)
  BY LoopSteps
<1> DEFINE N == {n \in Nat : n <= MaxOrders => AccountOK(after[n], OrdersAt(ids, n))}
<1>2. 0 \in N
  <2>1. OrdersAt(ids, 0) = orders
    BY DEF OrdersAt, OrdersInv, OrderId
  <2>2. AccountOK(after[0], OrdersAt(ids, 0))
    BY Zenon, <1>1, <2>1
  <2> QED
    BY <2>2
<1>3. ASSUME NEW n \in N, n + 1 <= MaxOrders
      PROVE  AccountOK(after[n + 1], OrdersAt(ids, n + 1))
  <2> DEFINE ords == OrdersAt(ids, n)
  <2>1. n \in OrderId /\ AccountOK(after[n], ords) /\ after[n + 1] = Visit(after[n], ids, n)
    BY <1>1, <1>3 DEF OrderId
  <2>2. CASE n \in ids
    <3>1. IsOpen(n) /\ FilledAtPrice(n) \in Orders /\ FilledAtPrice(n).filledSize > 0
      BY <2>1, <2>2, FilledAtPriceIsOrder
    <3>2. ords \in [OrderId -> Orders \cup {None}]
      BY FilledAtPriceIsOrder DEF OrdersAt, OrdersInv
    <3>3. ords[n] = orders[n]
      BY <2>1 DEF OrdersAt, OrderId
    <3>4. n \notin FilledIds(ords)
      BY <2>1, <3>1, <3>3 DEF FilledIds, FilledSizes, IsOpen, IsPlaced
    <3>5. OrdersAt(ids, n + 1) = [ords EXCEPT ![n] = FilledAtPrice(n)]
      <4>1. \A id \in OrderId : id < n + 1 <=> id < n \/ id = n
        BY <2>1 DEF OrderId
      <4> QED
        BY <2>1, <2>2, <4>1 DEF OrdersAt
    <3> HIDE DEF ords
    <3>6. AccountOK(Booked(after[n], FilledAtPrice(n)), [ords EXCEPT ![n] = FilledAtPrice(n)])
      BY <2>1, <3>1, <3>2, <3>4, FillKeepsAccount
    <3> QED
      BY Zenon, <2>1, <2>2, <3>5, <3>6 DEF Visit
  <2>3. CASE n \notin ids
    <3>1. OrdersAt(ids, n + 1) = ords
      <4>1. \A id \in OrderId : id \in ids => (id < n + 1 <=> id < n)
        BY <2>1, <2>3 DEF OrderId
      <4> QED
        BY <4>1 DEF OrdersAt
    <3> HIDE DEF ords
    <3> QED
      BY Zenon, <2>1, <2>3, <3>1 DEF Visit
  <2> QED
    BY <2>2, <2>3
<1>4. N = Nat
  <2>1. \A n \in N : n + 1 \in N
    <3>1. \A n \in N : n \in Nat
      OBVIOUS
    <3> QED
      BY <1>3, <3>1
  <2> HIDE DEF N
  <2>2. N \subseteq Nat
    BY DEF N
  <2> QED
    BY <1>2, <2>1, <2>2, NatSetInduction
<1>5. AccountOK(after[MaxOrders], OrdersAt(ids, MaxOrders))
  BY <1>4
<1> QED
  BY Zenon, <1>1, <1>5

-----------------------------------------------------------------------------
\* What IInv needs for the account, and for the orders a candle has touched.
AccountInv ==
  /\ FilledSizes
  /\ AccountOK(account, orders)
  /\ TouchedOrdersAreFilled

\* The broker starts with an empty record of the initial balances.
LEMMA InitEstablishesAccount ==
  ASSUME Init
  PROVE  AccountInv
<1>1. Balances \in BalanceType
  BY InitialBalanceAssumption DEF Balances, BalanceType
<1>2. /\ account = [balances |-> Balances, history |-> NewHistory(0, Balances)]
      /\ orders = [id \in OrderId |-> None]
  BY DEF Init
<1> DEFINE h == NewHistory(0, Balances)
<1>3. h \in HistoriesOf(TradeType, BalanceType) /\ Places(h) = {}
  BY <1>1, NewHistoryPlaces
<1>4. /\ Len(h.records) = 0 /\ h.current.trades = <<>> /\ h.current.balances = Balances
  BY DEF NewHistory, NewRecord
<1>5. Records(h)[1].balances = Balances
  <2> HIDE DEF h
  <2>1. Records(h)[Len(h.records) + 1] = h.current
    BY <1>3, RecordsType
  <2> QED
    BY <1>4, <2>1
<1> HIDE DEF h
<1>6. AddsUp(account)
  <2>1. Leads(Balances, <<>>, Balances)
    BY <1>1, SeqSumOfNone DEF Leads, BalanceType
  <2>2. account.history = h /\ account.balances = Balances
    BY <1>2 DEF h
  <2> QED
    BY <1>4, <1>5, <2>1, <2>2 DEF AddsUp
<1>7. FillsBooked(h, orders)
  <2>1. FilledIds(orders) = {}
    BY <1>2 DEF FilledIds
  <2>2. [p \in {} |-> p] \in Bijection({}, {})
    BY DEF Bijection, Injection, Surjection, IsInjective
  <2> QED
    BY <1>3, <2>1, <2>2 DEF FillsBooked
<1>8. account \in AccountType
  BY <1>1, <1>2, <1>3 DEF AccountType, h
<1>9. AccountOK(account, orders)
  BY <1>2, <1>6, <1>7, <1>8 DEF AccountOK, h
<1>10. FilledSizes /\ TouchedOrdersAreFilled
  BY <1>2 DEF FilledSizes, TouchedOrdersAreFilled, IsOpen, IsPlaced
<1> QED
  BY <1>9, <1>10 DEF AccountInv

\* A new order takes an id that is in no book, and is of the current interval.
LEMMA StoreKeepsAccount ==
  ASSUME IInv, AccountInv, TakesOrderId, NEW order \in Orders, Store(order),
         order.timestamp = clock,
         \/ order.status = "open" /\ order.filledSize = 0 /\ account' = account
         \/ order.status = "filled" /\ order.filledSize > 0 /\ account' = Booked(account, order)
  PROVE  AccountInv'
<1>1. /\ orderIdCounter \in OrderId /\ UNCHANGED <<clock, bars, crashed>> /\ clock \in Nat
      /\ orders \in [OrderId -> Orders \cup {None}]
  BY DEF IInv, OrdersInv, TakesOrderId, OrderId
<1>2. orders[orderIdCounter] = None
  BY <1>1 DEF IInv, OrdersInv, IsPlaced, OrderId
<1>3. /\ orders' = [orders EXCEPT ![orderIdCounter] = order]
      /\ orders'[orderIdCounter] = order
      /\ \A id \in OrderId : id # orderIdCounter => orders'[id] = orders[id]
  BY <1>1 DEF Store
<1>4. FilledSizes'
  BY <1>3 DEF AccountInv, FilledSizes, IsPlaced
<1>5. TouchedOrdersAreFilled'
  <2>1. ASSUME NEW id \in OrderId, IsOpen(id)', orders'[id].timestamp < clock'
        PROVE  id # orderIdCounter /\ IsOpen(id) /\ orders'[id] = orders[id]
    BY <1>1, <1>3, <2>1 DEF IsOpen, IsPlaced
  <2> QED
    BY <1>1, <2>1 DEF AccountInv, TouchedOrdersAreFilled, HasBar
<1>6. orderIdCounter \notin FilledIds(orders)
  BY <1>2 DEF FilledIds
<1>7. CASE order.status = "filled" /\ order.filledSize > 0 /\ account' = Booked(account, order)
  <2>1. AccountOK(account', orders')
    BY <1>1, <1>3, <1>6, <1>7, FillKeepsAccount DEF AccountInv
  <2> QED
    BY <1>4, <1>5, <2>1 DEF AccountInv
<1>8. CASE order.status = "open" /\ order.filledSize = 0 /\ account' = account
  <2>1. FilledIds(orders') = FilledIds(orders)
    BY <1>2, <1>3, <1>8 DEF FilledIds
  <2>2. \A id \in FilledIds(orders) : orders'[id] = orders[id]
    BY <1>3, <1>6 DEF FilledIds
  <2>3. FillsBooked(account.history, orders)
    BY DEF AccountInv, AccountOK
  <2>4. FillsBooked(account.history, orders')
    BY <2>1, <2>2, <2>3, OthersAreBooked
  <2>5. AccountOK(account', orders')
    BY <1>8, <2>4 DEF AccountInv, AccountOK
  <2> QED
    BY <1>4, <1>5, <2>5 DEF AccountInv
<1> QED
  BY <1>7, <1>8

\* Every placement.
LEMMA PlacementKeepsAccount ==
  ASSUME IInv, AccountInv, NEW req \in Request,
         PlaceMarket(req) \/ PlaceLimit(req) \/ PlaceStopMarket(req) \/ PlacementThrows(req)
  PROVE  AccountInv'
<1>0. OrdersInv /\ clock \in 0..MaxClock /\ bars \in Market
  BY DEF IInv
<1>1. TakesOrderId /\ UNCHANGED <<clock, bars, crashed>>
  BY DEF PlaceMarket, PlaceLimit, PlaceStopMarket, PlacementThrows, TakesOrderId
<1>2. req.symbol \in Symbol /\ req.price \in Nat /\ req.size \in Nat \ {0}
  OBVIOUS
<1>3. RoundSize(req.size) \in Nat \ {0}
  BY <1>2, RoundSizeIsPositive
<1>4. CASE PlaceMarket(req)
  <2> DEFINE price == MarketPrice(req.symbol)
             new == NewOrder("market", req, price)
             order == Filled(new, price, RoundSize(req.size))
  <2>1. price \in Nat
    BY <1>0, <1>2, <1>4, MarketPriceIsPrice DEF PlaceMarket
  <2>2. new \in Orders /\ order \in Orders /\ order.status = "filled"
    BY <1>0, <1>3, <2>1, NewOrderIsOrder, FilledIsOrder
  <2>3. Store(order) /\ account' = Booked(account, order)
    BY <1>4 DEF PlaceMarket
  <2>4. order.filledSize = RoundSize(req.size) /\ order.timestamp = clock
    <3>1. new.timestamp = clock
      BY DEF NewOrder
    <3> HIDE DEF new, price
    <3> QED
      BY <2>2, <3>1 DEF Filled, Orders
  <2> HIDE DEF order
  <2> QED
    BY <1>1, <1>3, <2>2, <2>3, <2>4, StoreKeepsAccount
<1>5. CASE PlaceLimit(req)
  <2> DEFINE resting == NewOrder("limit", req, req.price)
             taken == Filled(resting, MarketPrice(req.symbol), req.size)
  <2>1. MarketPrice(req.symbol) \in Nat
    BY <1>0, <1>2, <1>5, MarketPriceIsPrice DEF PlaceLimit
  <2>2. resting \in Orders /\ taken \in Orders /\ taken.status = "filled"
    BY <1>0, <1>2, <2>1, NewOrderIsOrder, FilledIsOrder
  <2>3. resting.status = "open" /\ resting.filledSize = 0 /\ resting.timestamp = clock
    BY DEF NewOrder
  <2>4. taken.filledSize = req.size /\ taken.timestamp = clock
    <3> HIDE DEF resting
    <3> QED
      BY <2>2, <2>3 DEF Filled, Orders
  <2>5. \/ Store(taken) /\ account' = Booked(account, taken)
        \/ Store(resting) /\ account' = account
    BY <1>5 DEF PlaceLimit
  <2> HIDE DEF resting, taken
  <2> QED
    BY <1>1, <1>2, <2>2, <2>3, <2>4, <2>5, StoreKeepsAccount
<1>6. CASE PlaceStopMarket(req)
  <2> DEFINE order == NewOrder("market", req, req.price)
  <2>1. order \in Orders
    BY <1>0, <1>2, NewOrderIsOrder
  <2>2. order.status = "open" /\ order.filledSize = 0 /\ order.timestamp = clock
    BY DEF NewOrder
  <2>3. Store(order) /\ account' = account
    BY <1>6 DEF PlaceStopMarket
  <2> HIDE DEF order
  <2> QED
    BY <1>1, <2>1, <2>2, <2>3, StoreKeepsAccount
<1>7. CASE PlacementThrows(req)
  <2>1. UNCHANGED <<orders, account>>
    BY <1>7 DEF PlacementThrows
  <2> QED
    BY <1>1, <2>1 DEF AccountInv, FilledSizes, AccountOK, TouchedOrdersAreFilled, IsOpen,
                      IsPlaced, HasBar
<1> QED
  BY <1>4, <1>5, <1>6, <1>7

\* A cancellation leaves trades, sizes and prices of orders.
LEMMA CancelKeepsAccount ==
  ASSUME IInv, AccountInv, NEW ids \in CancelBatch, CancelOrders(ids)
  PROVE  AccountInv'
<1>0. OrdersInv
  BY DEF IInv
<1>1. PICK reached : orders' = [id \in OrderId |->
                                  IF id \in reached
                                  THEN [orders[id] EXCEPT !.status = "cancelled"]
                                  ELSE orders[id]]
                     /\ \A id \in reached : IsPlaced(id)
  <2> DEFINE prefix == {k \in DOMAIN ids : \A j \in 1..k : IsPlaced(ids[j])}
             reached == {ids[k] : k \in prefix}
  <2>1. \A k \in prefix : IsPlaced(ids[k])
    <3>1. \A k \in DOMAIN ids : k \in 1..k
      BY CancelBatchAssumption
    <3> QED
      BY <3>1
  <2>2. orders' = [id \in OrderId |->
                     IF id \in reached
                     THEN [orders[id] EXCEPT !.status = "cancelled"]
                     ELSE orders[id]]
    BY DEF CancelOrders
  <2>3. \A id \in reached : IsPlaced(id)
    BY <2>1
  <2> HIDE DEF reached
  <2> QED
    BY <2>2, <2>3
<1>2. ASSUME NEW id \in OrderId
      PROVE  \/ orders'[id] = orders[id]
             \/ /\ orders[id] \in Orders
                /\ orders'[id] = [orders[id] EXCEPT !.status = "cancelled"]
  BY <1>0, <1>1 DEF OrdersInv, IsPlaced
<1>3. ASSUME NEW id \in OrderId
      PROVE  /\ IsPlaced(id)' <=> IsPlaced(id)
             /\ IsPlaced(id) =>
                  /\ orders'[id].filledSize = orders[id].filledSize
                  /\ TradeOf(orders'[id]) = TradeOf(orders[id])
                  /\ orders'[id] = orders[id] \/ orders'[id].status = "cancelled"
  <2>1. CASE orders'[id] = orders[id]
    BY <2>1 DEF IsPlaced
  <2>2. CASE /\ orders[id] \in Orders
             /\ orders'[id] = [orders[id] EXCEPT !.status = "cancelled"]
    <3>1. orders'[id] \in Orders /\ orders'[id].status = "cancelled"
      BY <2>2 DEF Orders
    <3>2. /\ orders'[id].filledSize = orders[id].filledSize
          /\ orders'[id].type = orders[id].type /\ orders'[id].size = orders[id].size
          /\ orders'[id].symbol = orders[id].symbol /\ orders'[id].side = orders[id].side
          /\ orders'[id].price = orders[id].price
      BY <2>2 DEF Orders
    <3>3. TradeOf(orders'[id]) = TradeOf(orders[id])
      BY <3>2 DEF TradeOf, Fee
    <3> QED
      BY <2>2, <3>1, <3>2, <3>3, NoneAssumption DEF IsPlaced
  <2> QED
    BY <1>2, <2>1, <2>2
<1>4. UNCHANGED <<clock, bars, account, crashed>>
  BY DEF CancelOrders
<1>5. FilledSizes'
  <2> SUFFICES ASSUME NEW id \in OrderId, IsPlaced(id)'
               PROVE  /\ orders'[id].status = "open" => orders'[id].filledSize = 0
                      /\ orders'[id].status = "filled" => orders'[id].filledSize > 0
    BY DEF FilledSizes
  <2> QED
    BY <1>3 DEF AccountInv, FilledSizes
<1>6. TouchedOrdersAreFilled'
  <2>1. ASSUME NEW id \in OrderId, IsOpen(id)'
        PROVE  IsOpen(id) /\ orders'[id] = orders[id]
    BY <1>3, <2>1 DEF IsOpen, IsPlaced
  <2> QED
    BY <1>4, <2>1 DEF AccountInv, TouchedOrdersAreFilled, HasBar
<1>7. /\ FilledIds(orders') = FilledIds(orders)
      /\ \A id \in FilledIds(orders) : TradeOf(orders'[id]) = TradeOf(orders[id])
  BY <1>3 DEF FilledIds, IsPlaced
<1>8. AccountOK(account', orders')
  <2>1. FillsBooked(account.history, orders')
    BY <1>7, OthersAreBooked DEF AccountInv, AccountOK
  <2> QED
    BY <1>4, <2>1 DEF AccountInv, AccountOK
<1> QED
  BY <1>5, <1>6, <1>8 DEF AccountInv

\* nextClock() fills what it reaches and the candles touch, books each fill once
\* and closes the record with the balances these leave.
LEMMA NextClockKeepsAccount ==
  ASSUME IInv, AccountInv, NEW candles \in Market, NextClock(candles)
  PROVE  AccountInv'
<1> DEFINE ids == Touched(candles)
           acc == AccountAfter(ids)
<1>0. OrdersInv /\ clock \in 0..MaxClock /\ FilledSizes /\ AccountOK(account, orders)
  BY DEF IInv, AccountInv
<1>1. ids \in SUBSET OrderId /\ \A id \in ids : IsOpen(id)
  BY DEF Touched, Reached
<1>2. /\ orders' = [id \in OrderId |-> IF id \in ids THEN FilledAtPrice(id) ELSE orders[id]]
      /\ clock' = clock + 1 /\ bars' = candles
      /\ \/ /\ Reached(candles) = OrderId
            /\ account' = [acc EXCEPT !.history = Flush(@, clock + 1, acc.balances)]
            /\ crashed' = crashed
         \/ account' = acc /\ crashed' = TRUE
  BY DEF NextClock
<1>3. AccountOK(acc, OrdersAt(ids, MaxOrders))
  BY <1>0, <1>1, LoopKeepsAccount
<1>4. OrdersAt(ids, MaxOrders) = orders'
  <2>1. \A id \in OrderId : id < MaxOrders
    BY DEF OrderId
  <2> HIDE DEF ids
  <2> QED
    BY <1>2, <2>1 DEF OrdersAt
<1>5. \A id \in OrderId : IsOpen(id)' => id \notin ids /\ orders'[id] = orders[id] /\ IsOpen(id)
  <2> SUFFICES ASSUME NEW id \in OrderId, IsOpen(id)'
               PROVE  id \notin ids /\ orders'[id] = orders[id] /\ IsOpen(id)
    OBVIOUS
  <2>1. id \notin ids
    BY <1>0, <1>1, <1>2, FilledAtPriceIsOrder DEF IsOpen
  <2>2. orders'[id] = orders[id]
    BY <1>2, <2>1
  <2> QED
    BY <2>1, <2>2 DEF IsOpen, IsPlaced
<1>6. FilledSizes'
  <2> SUFFICES ASSUME NEW id \in OrderId, IsPlaced(id)'
               PROVE  /\ orders'[id].status = "open" => orders'[id].filledSize = 0
                      /\ orders'[id].status = "filled" => orders'[id].filledSize > 0
    BY DEF FilledSizes
  <2>1. CASE id \in ids
    BY <1>0, <1>1, <1>2, <2>1, FilledAtPriceIsOrder
  <2>2. CASE id \notin ids
    BY <1>0, <1>2, <2>2 DEF FilledSizes, IsPlaced
  <2> QED
    BY <2>1, <2>2
<1>7. TouchedOrdersAreFilled'
  <2> SUFFICES ASSUME ~crashed', NEW id \in OrderId, IsOpen(id)'
               PROVE  /\ bars'[orders'[id].symbol] # None
                      /\ ~(bars'[orders'[id].symbol].low <= orders'[id].price
                           /\ orders'[id].price <= bars'[orders'[id].symbol].high)
    BY DEF TouchedOrdersAreFilled, HasBar
  <2>1. Reached(candles) = OrderId
    BY <1>2
  <2>2. id \notin ids /\ orders'[id] = orders[id] /\ IsOpen(id)
    BY <1>5
  <2>3. id \in Reached(candles) /\ id \in 0..id
    BY <2>1 DEF OrderId
  <2>4. candles[orders[id].symbol] # None
    BY <2>2, <2>3 DEF Reached
  <2>5. ~Touches(candles[orders[id].symbol], orders[id].price)
    BY <2>2, <2>3 DEF Touched
  <2> QED
    BY <1>2, <2>2, <2>4, <2>5 DEF Touches
<1> HIDE DEF ids, acc
<1>8. AccountOK(account', orders')
  <2>1. CASE account' = acc
    BY <1>3, <1>4, <2>1
  <2>2. CASE account' = [acc EXCEPT !.history = Flush(@, clock + 1, acc.balances)]
    <3>1. acc \in AccountType /\ AddsUp(acc) /\ FillsBooked(acc.history, orders')
      BY <1>3, <1>4 DEF AccountOK
    <3>2. acc.balances \in BalanceType /\ acc.history \in HistoriesOf(TradeType, BalanceType)
          /\ clock + 1 \in Nat
      BY <1>0, <3>1 DEF AccountType
    <3>3. account' \in AccountType /\ AddsUp(account')
      BY <2>2, <3>1, <3>2, FlushAddsUp
    <3>4. account'.history = Flush(acc.history, clock + 1, acc.balances)
      BY <2>2, <3>1 DEF AccountType
    <3>5. FillsBooked(account'.history, orders')
      BY <3>1, <3>2, <3>4, FlushIsBooked
    <3> QED
      BY <3>3, <3>5 DEF AccountOK
  <2> QED
    BY <1>2, <2>1, <2>2
<1> QED
  BY <1>6, <1>7, <1>8 DEF AccountInv

LEMMA NextKeepsAccount ==
  ASSUME IInv, AccountInv, [Next]_vars
  PROVE  AccountInv'
<1>1. CASE \E req \in Request : \/ PlaceMarket(req) \/ PlaceLimit(req)
                                 \/ PlaceStopMarket(req) \/ PlacementThrows(req)
  BY <1>1, PlacementKeepsAccount
<1>2. CASE \E ids \in CancelBatch : CancelOrders(ids)
  BY <1>2, CancelKeepsAccount
<1>3. CASE \E candles \in Market : NextClock(candles)
  BY <1>3, NextClockKeepsAccount
<1>4. CASE UNCHANGED vars
  BY <1>4 DEF vars, AccountInv, FilledSizes, AccountOK, TouchedOrdersAreFilled, IsOpen,
              IsPlaced, HasBar
<1> QED
  BY <1>1, <1>2, <1>3, <1>4 DEF Next

\* The account invariant holds in every reachable state.
THEOREM AccountIsCorrect == Spec => []AccountInv
<1>1. Init => AccountInv
  BY InitEstablishesAccount
<1>2. IInv /\ AccountInv /\ [Next]_vars => AccountInv'
  BY NextKeepsAccount
<1> QED
  BY <1>1, <1>2, OrderMapIsCorrect, PTL DEF Spec

-----------------------------------------------------------------------------
\* Every variable keeps its type, balances are whole amounts, and sizes tell the
\* orders that are open from those that have been filled.
THEOREM TypeCorrect == Spec => []TypeOK
<1> DEFINE CrashedOK == crashed \in BOOLEAN
<1>1. Init => CrashedOK
  BY DEF Init
<1>2. CrashedOK /\ [Next]_vars => CrashedOK'
  BY DEF Next, vars, PlaceMarket, PlaceLimit, PlaceStopMarket, PlacementThrows, TakesOrderId,
         CancelOrders, NextClock
<1>3. IInv /\ AccountInv /\ CrashedOK => TypeOK
  <2> SUFFICES ASSUME IInv, AccountInv, CrashedOK
               PROVE  TypeOK
    OBVIOUS
  <2>1. account.balances \in [Currency -> Int]
    BY DEF AccountInv, AccountOK, AccountType, BalanceType
  <2>2. bars \in [Symbol -> Bar \cup {None}]
    BY DEF IInv
  <2> QED
    BY <2>1, <2>2 DEF IInv, OrdersInv, AccountInv, FilledSizes, TypeOK
<1> HIDE DEF CrashedOK
<1> QED
  BY <1>1, <1>2, <1>3, OrderMapIsCorrect, AccountIsCorrect, PTL DEF Spec

\* A one to one correspondence counts the same on both sides.
LEMMA BookedFillsAreTraded == AccountInv => FillsAreTraded
<1> SUFFICES ASSUME AccountInv
             PROVE  FillsAreTraded
  OBVIOUS
<1> DEFINE h == account.history
           P == Places(h)
           F == FilledIds(orders)
           trades == AllTrades(h)
<1>1. h \in HistoriesOf(TradeType, BalanceType)
  BY DEF AccountInv, AccountOK, AccountType
<1>2. PICK fill \in Bijection(P, F) : \A p \in P : trades[p] = TradeOf(orders[fill[p]])
  BY DEF AccountInv, AccountOK, FillsBooked
<1>3. IsFiniteSet(P) /\ DOMAIN trades = P
  BY <1>1, PlaceIs DEF AllTrades
<1>4. F = {id \in OrderId : IsPlaced(id) /\ orders[id].filledSize > 0}
  BY DEF FilledIds, IsPlaced
<1> HIDE DEF P, F, trades
<1>5. \A p \in P : fill[p] \in F
  BY <1>2 DEF Bijection, Injection
<1>6. ASSUME NEW t
      PROVE  Cardinality({id \in F : TradeOf(orders[id]) = t})
               = Cardinality({p \in P : trades[p] = t})
  <2> DEFINE Q == {p \in P : trades[p] = t}
             G == {id \in F : TradeOf(orders[id]) = t}
  <2>1. \A p \in P : p \in Q <=> fill[p] \in G
    BY <1>2, <1>5
  <2>2. Q \in SUBSET P /\ G \in SUBSET F
    OBVIOUS
  <2> HIDE DEF Q, G
  <2>3. Cardinality(G) = Cardinality(Q)
    BY <1>2, <1>3, <2>1, <2>2, CorrespondenceCounts
  <2> QED
    BY <2>3 DEF Q, G
<1>7. \A t : Cardinality({id \in F : TradeOf(orders[id]) = t})
               = Cardinality({p \in DOMAIN trades : trades[p] = t})
  BY Zenon, <1>3, <1>6
<1> QED
  BY Zenon, <1>4, <1>7 DEF FillsAreTraded, trades, h

\* The sums the property speaks of are those of the records.
LEMMA RecordsOfAccountAddUp == AccountInv => RecordsAddUp
<1> SUFFICES ASSUME AccountInv
             PROVE  RecordsAddUp
  OBVIOUS
<1> DEFINE h == account.history
           records == Records(h)
           n == Len(h.records)
           following(i) == IF i = Len(records) THEN account.balances ELSE records[i + 1].balances
<1>1. h \in HistoriesOf(TradeType, BalanceType) /\ AddsUp(account) /\ account.balances \in BalanceType
  BY DEF AccountInv, AccountOK, AccountType
<1>2. /\ records \in Seq(RecordsOf(TradeType, BalanceType))
      /\ Len(records) = n + 1 /\ DOMAIN records = 1..(n + 1) /\ n \in Nat
      /\ records[n + 1] = h.current
      /\ \A i \in DOMAIN records : records[i].trades \in Seq(TradeType)
  BY <1>1, RecordsType
<1>3. \A i \in DOMAIN records : records[i].balances \in BalanceType
  <2>1. \A i \in DOMAIN records : records[i] \in RecordsOf(TradeType, BalanceType)
    BY <1>2
  <2> QED
    BY <2>1 DEF RecordsOf
<1>4. ASSUME NEW i \in 1..(n + 1)
      PROVE  Leads(records[i].balances, records[i].trades, following(i)) /\ following(i) \in BalanceType
  <2>1. CASE i = n + 1
    BY <1>1, <1>2, <2>1 DEF AddsUp
  <2>2. CASE i # n + 1
    <3>1. i \in 1..n /\ i + 1 \in DOMAIN records
      BY <1>2, <2>2
    <3>2. following(i) = records[i + 1].balances
      BY <1>2, <2>2
    <3>3. Leads(records[i].balances, records[i].trades, records[i + 1].balances)
      BY <1>1, <3>1 DEF AddsUp
    <3> QED
      BY Zenon, <1>3, <3>1, <3>2, <3>3
  <2> QED
    BY <2>1, <2>2
<1>5. ASSUME NEW trades \in Seq(TradeType), NEW c \in Currency
      PROVE  SumOf(trades, LAMBDA t : Effect(t, c)) = SeqSum(trades, EffectOn(c))
  <2> DEFINE f == [k \in DOMAIN trades |-> Effect(trades[k], c)]
  <2>1. f = [k \in DOMAIN trades |-> EffectOn(c)[trades[k]]]
    BY DEF EffectOn
  <2>2. DOMAIN f = DOMAIN trades
    OBVIOUS
  <2>3. SumFunction(f) = SeqSum(trades, EffectOn(c))
    <3> HIDE DEF f
    <3> QED
      BY Zenon, <2>1, <2>2 DEF SumFunction, SeqSum
  <2> QED
    BY Zenon, <2>3 DEF SumOf
<1>6. ASSUME NEW i \in DOMAIN records
      PROVE  After(records[i].balances, records[i].trades) = following(i)
  <2> DEFINE sum(c) == SumOf(records[i].trades, LAMBDA t : Effect(t, c))
  <2>1. Leads(records[i].balances, records[i].trades, following(i)) /\ following(i) \in [Currency -> Int]
    BY <1>2, <1>4 DEF BalanceType
  <2>2. \A c \in Currency : sum(c) = SeqSum(records[i].trades, EffectOn(c))
    BY <1>2, <1>5
  <2>3. After(records[i].balances, records[i].trades)
          = [c \in Currency |-> records[i].balances[c] + sum(c)]
    BY DEF After
  <2> HIDE DEF sum, records, following
  <2>4. \A c \in Currency : records[i].balances[c] + sum(c) = following(i)[c]
    BY <2>1, <2>2 DEF Leads
  <2> QED
    BY <2>1, <2>3, <2>4
<1>7. records[1].balances = Balances
  BY <1>1 DEF AddsUp
<1> HIDE DEF After
<1> QED
  BY <1>6, <1>7 DEF RecordsAddUp

\* Every fill that is due happens, and the records of the result show it once and
\* lead to the balances it leaves: nextClock, the placements and Flush together.
THEOREM FillsAccountedFor == Spec => []FillsAreAccountedFor
<1>1. AccountInv => FillsAreAccountedFor
  BY BookedFillsAreTraded, RecordsOfAccountAddUp DEF AccountInv, FillsAreAccountedFor
<1> QED
  BY <1>1, AccountIsCorrect, PTL
===========================================================================
