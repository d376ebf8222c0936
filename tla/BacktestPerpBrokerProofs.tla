---------------------- MODULE BacktestPerpBrokerProofs ----------------------
(***************************************************************************)
(* Proofs about the backtest perpetual broker, for any symbols, candles,   *)
(* requests and commission rates: types (no empty position), that only     *)
(* fills move positions, each order filling once and staying final, that   *)
(* the trades of the history account for positions and balances, that a    *)
(* record shows the equity, and that fills are the trades of the ledger    *)
(* as long as averages are exact.                                          *)
(***************************************************************************)
EXTENDS BacktestPerpBroker, DataLemmas, TLAPS

\* Integer division of naturals gives a natural.
LEMMA DivNat ==
  ASSUME NEW n \in Nat, NEW d \in Nat \ {0}
  PROVE  n \div d \in Nat
  OBVIOUS

\* Products of naturals are naturals.
LEMMA TimesNat ==
  ASSUME NEW m \in Nat, NEW n \in Nat
  PROVE  m * n \in Nat
  OBVIOUS

\* No size that a strategy asks for rounds to zero or below.
LEMMA RoundedIsPositive ==
  ASSUME RequestsRoundToLots, NEW req \in Request
  PROVE  RoundSize(req.size) \in Nat \ {0}
<1>1. req.size \in Nat /\ Lot \in Nat \ {0}
  BY RequestAssumption, LotAssumption
<1> DEFINE n == 2 * req.size + Lot
           d == 2 * Lot
<1>2. n \in Nat /\ d \in Nat \ {0}
  BY <1>1
<1>3. n \div d \in Nat
  <2> HIDE DEF n, d
  <2> QED
    BY <1>2, DivNat
<1>4. RoundSize(req.size) \in Nat
  <2>1. RoundSize(req.size) = Lot * (n \div d)
    BY DEF RoundSize
  <2> HIDE DEF n, d
  <2> QED
    BY <1>1, <1>3, <2>1, TimesNat
<1> HIDE DEF RoundSize
<1> QED
  BY <1>4 DEF RequestsRoundToLots

\* The weighted average of two prices is a price.
LEMMA AverageIsPrice ==
  ASSUME NEW e \in Nat, NEW p \in Nat, NEW s \in Nat \ {0}, NEW q \in Nat \ {0}
  PROVE  (e * s + p * q) \div (s + q) \in Nat
<1>1. e * s \in Nat /\ p * q \in Nat
  BY TimesNat
<1>2. e * s + p * q \in Nat /\ s + q \in Nat \ {0}
  BY <1>1
<1> QED
  BY <1>2, DivNat

SignedPosition(position) ==
  IF position = None THEN 0 ELSE Sign(position.side) * position.size

\* A filled order leaves a well-formed position, never an empty one.
LEMMA PositionAfterType ==
  ASSUME NEW position \in Positions \cup {None}, NEW order \in Orders
  PROVE  PositionAfter(position, order) \in Positions \cup {None}
<1> USE NoneAssumption
<1>1. order.side \in Sides /\ order.price \in Nat /\ order.size \in Nat \ {0}
  BY DEF Orders
<1>2. CASE position = None
  BY <1>1, <1>2 DEF PositionAfter, Positions
<1>3. CASE position # None
  <2>1. /\ position \in Positions /\ position.side \in Sides
        /\ position.entryPrice \in Nat /\ position.size \in Nat \ {0}
    BY <1>3 DEF Positions
  <2>2. CASE position.side = order.side
    <3> DEFINE average == (position.entryPrice * position.size + order.price * order.size)
                            \div (position.size + order.size)
    <3>1. average \in Nat
      BY <1>1, <2>1, AverageIsPrice
    <3>2. PositionAfter(position, order)
            = [position EXCEPT !.entryPrice = average, !.size = @ + order.size]
      BY <1>3, <2>2 DEF PositionAfter, Increased
    <3> HIDE DEF average
    <3>3. position.size + order.size \in Nat \ {0}
      BY <1>1, <2>1
    <3> QED
      BY <2>1, <3>1, <3>2, <3>3 DEF Positions
  <2>3. CASE position.side # order.side /\ position.size > order.size
    <3>1. PositionAfter(position, order) = [position EXCEPT !.size = @ - order.size]
      BY <1>1, <1>3, <2>1, <2>3 DEF PositionAfter
    <3> QED
      BY <1>1, <2>1, <2>3, <3>1 DEF Positions
  <2>4. CASE position.side # order.side /\ position.size = order.size
    BY <1>1, <1>3, <2>1, <2>4 DEF PositionAfter
  <2>5. CASE position.side # order.side /\ position.size < order.size
    BY <1>1, <1>3, <2>1, <2>5 DEF PositionAfter, Positions
  <2> QED
    BY <1>1, <2>1, <2>2, <2>3, <2>4, <2>5
<1> QED
  BY <1>2, <1>3

\* The signed size of the position moves by the signed size of the order.
LEMMA PositionAfterMoves ==
  ASSUME NEW position \in Positions \cup {None}, NEW order \in Orders
  PROVE  SignedPosition(PositionAfter(position, order))
           = SignedPosition(position) + SignedSize(order)
<1> USE NoneAssumption DEF SignedPosition, SignedSize, Sign, Sides
<1>1. order.side \in Sides /\ order.price \in Nat /\ order.size \in Nat \ {0}
  BY DEF Orders
<1>0. PositionAfter(position, order) \in Positions \cup {None}
  BY PositionAfterType
<1>2. CASE position = None
  <2>1. PositionAfter(position, order) =
         [side |-> order.side, entryPrice |-> order.price, size |-> order.size]
    BY <1>2 DEF PositionAfter
  <2>2. PositionAfter(position, order) # None
    BY <1>1, <2>1 DEF Positions
  <2> QED
    BY <1>1, <1>2, <2>1, <2>2
<1>3. CASE position # None
  <2>1. /\ position \in Positions /\ position.side \in Sides
        /\ position.entryPrice \in Nat /\ position.size \in Nat \ {0}
    BY <1>3 DEF Positions
  <2>2. CASE position.side = order.side
    <3> DEFINE average == (position.entryPrice * position.size + order.price * order.size)
                            \div (position.size + order.size)
    <3>1. average \in Nat
      BY <1>1, <2>1, AverageIsPrice
    <3>2. PositionAfter(position, order)
            = [position EXCEPT !.entryPrice = average, !.size = @ + order.size]
      BY <1>3, <2>2 DEF PositionAfter, Increased
    <3> HIDE DEF average
    <3>3. /\ PositionAfter(position, order).side = order.side
          /\ PositionAfter(position, order).size = position.size + order.size
      BY <2>1, <2>2, <3>2 DEF Positions
    <3>4. position.size + order.size \in Nat \ {0}
      BY <1>1, <2>1
    <3>5. PositionAfter(position, order) \in Positions
      BY <2>1, <3>1, <3>2, <3>4 DEF Positions
    <3>6. PositionAfter(position, order) # None
      BY <3>5
    <3> QED
      BY <1>1, <1>3, <2>1, <2>2, <3>3, <3>6
  <2>3. CASE position.side # order.side /\ position.size > order.size
    <3>1. PositionAfter(position, order) = [position EXCEPT !.size = @ - order.size]
      BY <1>1, <1>3, <2>1, <2>3 DEF PositionAfter
    <3>2. PositionAfter(position, order) # None
      BY <1>1, <2>1, <2>3, <3>1 DEF Positions
    <3>3. /\ PositionAfter(position, order).side = position.side
          /\ PositionAfter(position, order).size = position.size - order.size
      BY <2>1, <3>1 DEF Positions
    <3> QED
      BY <1>1, <1>3, <2>1, <2>3, <3>2, <3>3
  <2>4. CASE position.side # order.side /\ position.size = order.size
    <3>1. PositionAfter(position, order) = None
      BY <1>1, <1>3, <2>1, <2>4 DEF PositionAfter
    <3> QED
      BY <1>1, <1>3, <2>1, <2>4, <3>1
  <2>5. CASE position.side # order.side /\ position.size < order.size
    <3>1. PositionAfter(position, order) =
            [side |-> order.side, entryPrice |-> order.price,
             size |-> order.size - position.size]
      BY <1>1, <1>3, <2>1, <2>5 DEF PositionAfter
    <3>2. PositionAfter(position, order) # None
      BY <1>1, <2>1, <2>5, <3>1 DEF Positions
    <3> QED
      BY <1>1, <1>3, <2>1, <2>5, <3>1, <3>2
  <2> QED
    BY <1>1, <2>1, <2>2, <2>3, <2>4, <2>5
<1> QED
  BY <1>2, <1>3

-----------------------------------------------------------------------------
\* Order ids are handed out in order and never again.
FreshIds == \A id \in OrderId : id >= orderIdCounter => orders[id] = None

\* The inductive invariant: PositionsMoveByFills needs FreshIds, without which
\* a new order could overwrite one that is already filled.
IInv == RequestsRoundToLots /\ TypeOK /\ FreshIds

\* A new order, resting or filled, is well formed.
LEMMA NewOrderType ==
  ASSUME RequestsRoundToLots, TypeOK, NEW req \in Request, NEW type \in OrderTypes, NEW price \in Nat,
         NEW filledSize \in Nat
  PROVE  /\ NewOrder(type, req, price) \in Orders
         /\ NewOrder(type, req, price).symbol = req.symbol
         /\ NewOrder(type, req, price).status = "open"
         /\ \A q \in Nat :
              /\ Filled(NewOrder(type, req, q), price, filledSize) \in Orders
              /\ Filled(NewOrder(type, req, q), price, filledSize).symbol = req.symbol
              /\ Filled(NewOrder(type, req, q), price, filledSize).status = "filled"
<1>1. req.symbol \in Symbol /\ req.side \in Sides
  BY RequestAssumption DEF Sides
<1>2. RoundSize(req.size) \in Nat \ {0}
  BY RoundedIsPositive
<1>3. clock \in 0..MaxClock
  BY DEF TypeOK
<1> HIDE DEF RoundSize
<1> QED
  BY <1>1, <1>2, <1>3 DEF NewOrder, Filled, Orders, OrderStatuses

\* The market price, when there is a candle, is a price.
LEMMA MarketPriceType ==
  ASSUME TypeOK, NEW s \in Symbol, HasBar(s)
  PROVE  MarketPrice(s) \in Nat
  BY BarAssumption DEF TypeOK, HasBar, MarketPrice

\* Commissions are whole amounts.
LEMMA FeeType ==
  ASSUME NEW order \in Orders
  PROVE  Fee(order) \in Int
<1> DEFINE rate == IF order.type = "limit" THEN Maker ELSE Taker
<1>1. rate \in Nat /\ order.price \in Nat /\ order.size \in Nat
  BY RateAssumption DEF Orders
<1>2. rate * order.price * order.size \in Nat
  <2> HIDE DEF rate
  <2>1. rate * order.price \in Nat
    BY <1>1, TimesNat
  <2> QED
    BY <1>1, <2>1, TimesNat
<1>3. 10000 \in Nat \ {0}
  OBVIOUS
<1>4. (rate * order.price * order.size) \div 10000 \in Nat
  <2> HIDE DEF rate
  <2> QED
    BY <1>2, <1>3, DivNat
<1> QED
  BY <1>4 DEF Fee

\* Realized profits are whole amounts.
LEMMA RealizedPnLType ==
  ASSUME NEW position \in Positions \cup {None}, NEW order \in Orders
  PROVE  RealizedPnL(position, order) \in Int
<1>1. CASE position = None \/ position.side = order.side
  BY <1>1 DEF RealizedPnL
<1>2. CASE ~(position = None \/ position.side = order.side)
  <2>1. /\ position.entryPrice \in Nat /\ position.size \in Nat
        /\ order.price \in Nat /\ order.size \in Nat
        /\ Sign(position.side) \in {1, -1}
    BY <1>2 DEF Positions, Orders, Sign
  <2>2. Smaller(order.size, position.size) \in Nat
    BY <2>1 DEF Smaller
  <2>3. order.price - position.entryPrice \in Int
    BY <2>1
  <2>4. \A sign \in {1, -1}, x \in Int, n \in Nat : sign * x * n \in Int
    OBVIOUS
  <2> HIDE DEF Smaller, Sign
  <2> QED
    BY <1>2, <2>1, <2>2, <2>3, <2>4 DEF RealizedPnL, PnL
<1> QED
  BY <1>1, <1>2

\* Booking a filled order keeps the types of the account, and moves the
\* position of the order's symbol, and no other, by the size of the order.
LEMMA BookMoves ==
  ASSUME TypeOK, NEW order \in Orders, Book(order)
  PROVE  /\ positions' \in [Symbol -> Positions \cup {None}]
         /\ balances' \in [Currency -> Int]
         /\ \A s \in Symbol :
              Net(s)' = IF s = order.symbol THEN Net(s) + SignedSize(order) ELSE Net(s)
<1> DEFINE symbol == order.symbol
           after == PositionAfter(positions[symbol], order)
           pnl == RealizedPnL(positions[symbol], order)
           fee == Fee(order)
<1>1. symbol \in Symbol /\ Quote[symbol] \in Currency
  BY QuoteAssumption DEF Orders
<1>2. positions[symbol] \in Positions \cup {None}
  BY <1>1 DEF TypeOK
<1>3. after \in Positions \cup {None}
  BY <1>2, PositionAfterType
<1>4. SignedPosition(after) = SignedPosition(positions[symbol]) + SignedSize(order)
  BY <1>2, PositionAfterMoves
<1>5. pnl \in Int /\ fee \in Int
  BY <1>2, RealizedPnLType, FeeType
<1>6. /\ positions' = [positions EXCEPT ![symbol] = after]
      /\ balances' = [balances EXCEPT ![Quote[symbol]] = @ + pnl - fee]
  BY DEF Book
<1> HIDE DEF after, pnl, fee
<1>7. positions' \in [Symbol -> Positions \cup {None}]
  BY <1>1, <1>3, <1>6 DEF TypeOK
<1>8. balances' \in [Currency -> Int]
  BY <1>1, <1>5, <1>6 DEF TypeOK
<1>9. ASSUME NEW s \in Symbol
      PROVE  Net(s)' = IF s = symbol THEN Net(s) + SignedSize(order) ELSE Net(s)
  BY <1>1, <1>4, <1>6 DEF TypeOK, Net, SignedPosition
<1> QED
  BY <1>7, <1>8, <1>9

\* Every initial state satisfies the inductive invariant.
LEMMA InitEstablishes == RequestsRoundToLots /\ Init => IInv
  BY BoundsAssumption, MarketAssumption, InitialBalanceAssumption
     DEF Init, IInv, TypeOK, FreshIds, OrderId

-----------------------------------------------------------------------------
\* What every step does, as far as orders and positions go: it keeps the
\* invariant; it moves no position and fills no order, or it fills one order
\* and moves the position of its symbol by its size; and final orders stay.
Quiet ==
  /\ \A s \in Symbol : Net(s)' = Net(s)
  /\ \A id \in OrderId : ~Fills(id)

FillsOne ==
  \E id \in OrderId :
    /\ Fills(id)
    /\ \A other \in OrderId : Fills(other) => other = id
    /\ \A s \in Symbol :
         Net(s)' = IF s = orders'[id].symbol THEN Net(s) + SignedSize(orders'[id])
                   ELSE Net(s)

FinalStays ==
  \A id \in OrderId : orders[id] # None =>
    /\ orders[id].status = "cancelled" => orders'[id] = orders[id]
    /\ orders[id].status = "filled" =>
         orders'[id] \in {orders[id], [orders[id] EXCEPT !.status = "cancelled"]}

StepFacts == IInv' /\ (Quiet \/ FillsOne) /\ FinalStays

\* An untouched account keeps its types and positions.
LEMMA AccountStays ==
  ASSUME TypeOK, UNCHANGED account
  PROVE  /\ positions' \in [Symbol -> Positions \cup {None}]
         /\ balances' \in [Currency -> Int]
         /\ \A s \in Symbol : Net(s)' = Net(s)
  BY DEF TypeOK, account, Net

\* A call that stores a new order under a fresh id.
LEMMA StoreFacts ==
  ASSUME IInv, TakesOrderId, NEW order \in Orders, Store(order)
  PROVE  /\ orderIdCounter \in OrderId
         /\ orders' \in [OrderId -> Orders \cup {None}]
         /\ orders'[orderIdCounter] = order
         /\ \A id \in OrderId : id # orderIdCounter => orders'[id] = orders[id]
         /\ orders[orderIdCounter] = None
         /\ FreshIds' /\ FinalStays
         /\ clock' \in 0..MaxClock /\ bars' \in [Symbol -> Bar \cup {None}]
         /\ orderIdCounter' \in 0..MaxOrders
         /\ phase' \in {"trading", "filling", "crashed"} /\ cursor' \in 0..MaxOrders
<1> USE BoundsAssumption DEF IInv, TypeOK
<1>1. orderIdCounter \in OrderId
  BY DEF TakesOrderId, OrderId
<1>2. orders[orderIdCounter] = None
  BY <1>1 DEF FreshIds
<1>3. /\ orders' \in [OrderId -> Orders \cup {None}]
      /\ orders'[orderIdCounter] = order
      /\ \A id \in OrderId : id # orderIdCounter => orders'[id] = orders[id]
  BY <1>1 DEF Store
<1>4. FreshIds'
  BY <1>1, <1>3 DEF FreshIds, TakesOrderId, OrderId
<1>5. FinalStays
  BY <1>2, <1>3 DEF FinalStays
<1> QED
  BY <1>1, <1>2, <1>3, <1>4, <1>5 DEF TakesOrderId

\* A new order that rests moves nothing.
LEMMA StoreOpen ==
  ASSUME IInv, TakesOrderId, NEW order \in Orders, Store(order),
         order.status = "open", UNCHANGED account
  PROVE  StepFacts
<1>1. TypeOK'
  BY StoreFacts, AccountStays DEF IInv, TypeOK
<1>2. Quiet
  BY StoreFacts, AccountStays, NoneAssumption DEF IInv, Quiet, Fills, WasFilled
<1> QED
  BY <1>1, <1>2, StoreFacts DEF StepFacts, IInv, RequestsRoundToLots

\* A new order that is filled at once moves its position.
LEMMA StoreFilled ==
  ASSUME IInv, TakesOrderId, NEW order \in Orders, Store(order),
         order.status = "filled", Book(order)
  PROVE  StepFacts
<1>1. TypeOK'
  BY StoreFacts, BookMoves DEF IInv, TypeOK
<1>2. PICK id \in OrderId : id = orderIdCounter
  BY StoreFacts
<1>3. /\ orders[id] = None /\ orders'[id] = order
      /\ \A other \in OrderId : other # id => orders'[other] = orders[other]
  BY <1>2, StoreFacts
<1>4. Fills(id) /\ \A other \in OrderId : Fills(other) => other = id
  BY <1>3, NoneAssumption DEF Fills, WasFilled
<1>5. FillsOne
  BY <1>3, <1>4, BookMoves DEF FillsOne, IInv
<1> QED
  BY <1>1, <1>5, StoreFacts DEF StepFacts, IInv, RequestsRoundToLots

\* A step of nextClock(), or a throw, that leaves orders and account alone.
LEMMA OrdersStay ==
  ASSUME IInv, UNCHANGED <<orders, positions, balances>>,
         clock' \in 0..MaxClock, bars' \in [Symbol -> Bar \cup {None}],
         orderIdCounter' \in 0..MaxOrders, orderIdCounter' >= orderIdCounter,
         phase' \in {"trading", "filling", "crashed"}, cursor' \in 0..MaxOrders
  PROVE  StepFacts
<1>1. TypeOK'
  BY DEF IInv, TypeOK
<1>2. FreshIds'
  BY BoundsAssumption DEF IInv, TypeOK, FreshIds, OrderId
<1>3. Quiet
  BY DEF Quiet, Net, Fills, WasFilled
<1>4. FinalStays
  BY DEF FinalStays
<1> QED
  BY <1>1, <1>2, <1>3, <1>4 DEF StepFacts, IInv, RequestsRoundToLots

-----------------------------------------------------------------------------
\* placeMarketLong and placeMarketShort.
LEMMA PlaceMarketFacts ==
  ASSUME IInv, NEW req \in Request, PlaceMarket(req)
  PROVE  StepFacts
<1> DEFINE price == MarketPrice(req.symbol)
           order == Filled(NewOrder("market", req, price), price, RoundSize(req.size))
<1>1. HasBar(req.symbol) /\ TakesOrderId /\ Store(order) /\ Book(order)
  BY DEF PlaceMarket
<1>2. price \in Nat /\ RoundSize(req.size) \in Nat
  BY <1>1, RequestAssumption, MarketPriceType, RoundedIsPositive DEF IInv
<1>3. order \in Orders /\ order.status = "filled"
  BY <1>2, NewOrderType DEF IInv, OrderTypes
<1> HIDE DEF order
<1> QED
  BY <1>1, <1>3, StoreFilled

\* placeLimitLong and placeLimitShort: filled at once when crossing, else open.
LEMMA PlaceLimitFacts ==
  ASSUME IInv, NEW req \in Request, PlaceLimit(req)
  PROVE  StepFacts
<1> DEFINE resting == NewOrder("limit", req, req.price)
           taken == Filled(resting, MarketPrice(req.symbol), req.size)
<1>1. HasBar(req.symbol) /\ TakesOrderId
  BY DEF PlaceLimit
<1>2. \/ Store(taken) /\ Book(taken)
      \/ Store(resting) /\ UNCHANGED account
  BY DEF PlaceLimit
<1>3. MarketPrice(req.symbol) \in Nat /\ req.price \in Nat /\ req.size \in Nat
  BY <1>1, RequestAssumption, MarketPriceType DEF IInv
<1>4. taken \in Orders /\ taken.status = "filled"
  BY <1>3, NewOrderType DEF IInv, OrderTypes
<1>5. resting \in Orders /\ resting.status = "open"
  BY <1>3, NewOrderType DEF IInv, OrderTypes
<1> HIDE DEF taken, resting
<1> QED
  BY <1>1, <1>2, <1>4, <1>5, StoreFilled, StoreOpen

\* placeStopMarketLong and placeStopMarketShort: always open.
LEMMA PlaceStopMarketFacts ==
  ASSUME IInv, NEW req \in Request, PlaceStopMarket(req)
  PROVE  StepFacts
<1> DEFINE order == NewOrder("market", req, req.price)
<1>1. TakesOrderId /\ Store(order) /\ UNCHANGED account
  BY DEF PlaceStopMarket
<1>2. req.price \in Nat
  BY RequestAssumption
<1>3. order \in Orders /\ order.status = "open"
  BY <1>2, NewOrderType DEF IInv, OrderTypes
<1> HIDE DEF order
<1> QED
  BY <1>1, <1>3, StoreOpen

\* cancelOrders cancels known orders and fills none.
LEMMA CancelOrdersFacts ==
  ASSUME IInv, NEW ids \in CancelBatch, CancelOrders(ids)
  PROVE  StepFacts
<1> DEFINE reached == {ids[k] : k \in {k \in DOMAIN ids : \A j \in 1..k : IsPlaced(ids[j])}}
<1>1. /\ orders' = [id \in OrderId |->
                      IF id \in reached
                      THEN [orders[id] EXCEPT !.status = "cancelled"]
                      ELSE orders[id]]
      /\ UNCHANGED <<clock, bars, orderIdCounter, phase, cursor, account>>
  BY DEF CancelOrders
<1>2. \A id \in OrderId : id \in reached => orders[id] \in Orders
  <2> SUFFICES ASSUME NEW id \in OrderId, id \in reached
               PROVE  orders[id] \in Orders
    OBVIOUS
  <2>1. PICK k \in DOMAIN ids : id = ids[k] /\ \A j \in 1..k : IsPlaced(ids[j])
    OBVIOUS
  <2>2. DOMAIN ids \subseteq Nat \ {0}
    BY CancelBatchAssumption
  <2>3. IsPlaced(id)
    BY <2>1, <2>2
  <2> QED
    BY <2>3 DEF IsPlaced, IInv, TypeOK
<1> HIDE DEF reached
<1>3. \A id \in OrderId : id \in reached =>
        /\ orders'[id] = [orders[id] EXCEPT !.status = "cancelled"]
        /\ orders'[id] \in Orders
        /\ orders'[id].status = "cancelled"
  BY <1>1, <1>2 DEF Orders, OrderStatuses
<1>4. \A id \in OrderId : id \notin reached => orders'[id] = orders[id]
  BY <1>1
<1>5. orders' \in [OrderId -> Orders \cup {None}]
  BY <1>1, <1>3, <1>4 DEF IInv, TypeOK
<1>6. TypeOK'
  BY <1>1, <1>5, AccountStays DEF IInv, TypeOK
<1>7. FreshIds'
  BY <1>1, <1>2, <1>4, NoneAssumption DEF IInv, FreshIds
<1>8. Quiet
  BY <1>1, <1>3, <1>4, AccountStays DEF IInv, Quiet, Fills, WasFilled
<1>9. FinalStays
  <2> SUFFICES ASSUME NEW id \in OrderId, orders[id] # None
               PROVE  /\ orders[id].status = "cancelled" => orders'[id] = orders[id]
                      /\ orders[id].status = "filled" =>
                           orders'[id] \in {orders[id],
                                            [orders[id] EXCEPT !.status = "cancelled"]}
    BY DEF FinalStays
  <2>1. orders[id] \in Orders
    BY DEF IInv, TypeOK
  <2>2. CASE id \in reached
    <3>1. orders'[id] = [orders[id] EXCEPT !.status = "cancelled"]
      BY <1>3, <2>2
    <3>2. orders[id].status = "cancelled"
            => [orders[id] EXCEPT !.status = "cancelled"] = orders[id]
      BY <2>1 DEF Orders
    <3> QED
      BY <3>1, <3>2
  <2>3. CASE id \notin reached
    BY <1>4, <2>3
  <2> QED
    BY <2>2, <2>3
<1> QED
  BY <1>6, <1>7, <1>8, <1>9 DEF StepFacts, IInv

\* nextClock fills an open order that the candle touches.
LEMMA VisitFillsFacts ==
  ASSUME IInv, VisitFills
  PROVE  StepFacts
<1> DEFINE order == orders[cursor]
           filled == Filled(order, order.price, order.size)
<1>1. PICK id \in OrderId : id = cursor
  BY BoundsAssumption DEF VisitFills, IsOpen, IsPlaced
<1>2. /\ orders[id] \in Orders /\ orders[id].status = "open"
      /\ orders[id] = order
  BY <1>1 DEF VisitFills, IsOpen, IsPlaced, IInv, TypeOK
<1>3. filled \in Orders /\ filled.status = "filled"
  BY <1>2 DEF Filled, Orders, OrderStatuses
<1>4. /\ orders' = [orders EXCEPT ![id] = filled]
      /\ Book(filled)
      /\ UNCHANGED <<clock, bars, orderIdCounter, phase>>
      /\ cursor' = cursor + 1 /\ cursor < MaxOrders
  BY <1>1 DEF VisitFills
<1> HIDE DEF order, filled
<1>5. /\ orders' \in [OrderId -> Orders \cup {None}]
      /\ orders'[id] = filled
      /\ \A other \in OrderId : other # id => orders'[other] = orders[other]
  BY <1>3, <1>4 DEF IInv, TypeOK
<1>6. cursor' \in 0..MaxOrders
  BY <1>4, BoundsAssumption DEF IInv, TypeOK
<1>7. TypeOK'
  BY <1>3, <1>4, <1>5, <1>6, BookMoves DEF IInv, TypeOK
<1>8. FreshIds'
  BY <1>2, <1>4, <1>5, NoneAssumption DEF IInv, FreshIds
<1>9. Fills(id) /\ \A other \in OrderId : Fills(other) => other = id
  BY <1>2, <1>3, <1>5, NoneAssumption DEF Fills, WasFilled
<1>10. FillsOne
  BY <1>3, <1>4, <1>5, <1>9, BookMoves DEF FillsOne, IInv
<1>11. FinalStays
  BY <1>2, <1>5 DEF FinalStays
<1> QED
  BY <1>7, <1>8, <1>10, <1>11 DEF StepFacts, IInv

-----------------------------------------------------------------------------
\* Every step has the step facts.
LEMMA NextFacts == IInv /\ [Next]_vars => StepFacts
<1> SUFFICES ASSUME IInv, [Next]_vars
             PROVE  StepFacts
  OBVIOUS
<1> USE BoundsAssumption
<1>1. CASE \E req \in Request : PlaceMarket(req) \/ PlaceLimit(req) \/ PlaceStopMarket(req)
  BY <1>1, PlaceMarketFacts, PlaceLimitFacts, PlaceStopMarketFacts
<1>2. CASE \E ids \in CancelBatch : CancelOrders(ids)
  BY <1>2, CancelOrdersFacts
<1>3. CASE VisitFills
  BY <1>3, VisitFillsFacts
<1>4. CASE \E req \in Request : PlacementThrows(req)
  <2>1. /\ UNCHANGED <<orders, positions, balances, clock, bars, phase, cursor>>
        /\ orderIdCounter' = orderIdCounter + 1 /\ orderIdCounter < MaxOrders
    BY <1>4 DEF PlacementThrows, TakesOrderId, account
  <2> QED
    BY <2>1, OrdersStay DEF IInv, TypeOK
<1>5. CASE NextClockBegins
  BY <1>5, MarketAssumption, OrdersStay DEF NextClockBegins, account, IInv, TypeOK
<1>6. CASE VisitPasses
  BY <1>6, OrdersStay DEF VisitPasses, account, IInv, TypeOK
<1>7. CASE VisitThrows
  BY <1>7, OrdersStay DEF VisitThrows, account, IInv, TypeOK
<1>8. CASE NextClockEnds
  BY <1>8, OrdersStay DEF NextClockEnds, IInv, TypeOK
<1>9. CASE ValuationThrows
  BY <1>9, OrdersStay DEF ValuationThrows, account, IInv, TypeOK
<1>10. CASE UNCHANGED vars
  BY <1>10, OrdersStay DEF vars, IInv, TypeOK
<1> QED
  BY <1>1, <1>2, <1>3, <1>4, <1>5, <1>6, <1>7, <1>8, <1>9, <1>10 DEF Next

\* The inductive invariant holds in every reachable state.
THEOREM IInvHolds == RequestsRoundToLots /\ Spec => []IInv
<1>1. IInv /\ [Next]_vars => IInv'
  BY NextFacts DEF StepFacts
<1> QED
  BY InitEstablishes, <1>1, PTL DEF Spec

\* As long as no size asked for rounds to zero, which the broker leaves to strategies,
\* no position is of size zero or below, whatever sequence of fills led to it: one that
\* is closed exactly is removed, and one that is flipped is what the order leaves.
THEOREM TypeCorrect == RequestsRoundToLots /\ Spec => []TypeOK
<1>1. IInv => TypeOK
  BY DEF IInv
<1> QED
  BY IInvHolds, <1>1, PTL

\* Only fills move positions, one order a step, by exactly its signed size.
THEOREM FillsMovePositions == RequestsRoundToLots /\ Spec => PositionsMoveByFills
<1> DEFINE Moves ==
      \A s \in Symbol : Net(s)' # Net(s) =>
        \E id \in OrderId :
          /\ Fills(id)
          /\ \A other \in OrderId : Fills(other) => other = id
          /\ orders'[id].symbol = s
          /\ Net(s)' = Net(s) + SignedSize(orders'[id])
<1>1. Quiet => Moves
  BY DEF Quiet
<1>2. FillsOne => Moves
  BY DEF FillsOne
<1>3. IInv /\ [Next]_vars => [Moves]_vars
  BY <1>1, <1>2, NextFacts DEF StepFacts
<1> QED
  BY <1>3, IInvHolds, PTL DEF Spec, PositionsMoveByFills

\* A cancelled order stays cancelled and a filled one never fills again.
THEOREM OrdersAreFinal == RequestsRoundToLots /\ Spec => FinalOrdersStay
<1>1. IInv /\ [Next]_vars => [FinalStays]_vars
  BY NextFacts DEF StepFacts
<1> QED
  BY <1>1, IInvHolds, PTL DEF Spec, FinalOrdersStay, FinalStays

-----------------------------------------------------------------------------
(* The account. The history, with the trades it holds, explains positions   *)
(* and balances; nextClock() leaves no touched order behind; and what a     *)
(* record shows is the equity.                                              *)

TradeType == [symbol : Symbol, side : Sides, price : Nat, size : Nat, pnl : Int, fee : Int]
BalanceType == [Currency -> Int]

\* What a trade does to the position of a symbol, and to a balance.
MoveOf(s) == [t \in TradeType |-> IF t.symbol = s THEN Sign(t.side) * RoundSize(t.size) ELSE 0]
GainOf(c) == [t \in TradeType |-> IF Quote[t.symbol] = c THEN t.pnl - t.fee ELSE 0]

HistoryOK == history \in HistoriesOf(TradeType, BalanceType)

\* The size of an order is a whole number of lots.
LotSizes == \A id \in OrderId : orders[id] # None => RoundSize(orders[id].size) = orders[id].size

\* The orders nextClock() has visited: none is left open that the candle touches.
Visited ==
  phase = "filling" =>
    \A id \in OrderId : id < cursor /\ IsOpen(id) /\ orders[id].timestamp < clock =>
      /\ HasBar(orders[id].symbol)
      /\ ~Touches(bars[orders[id].symbol], orders[id].price)

PositionsExplained == \A s \in Symbol : Net(s) = TradeSum(history, MoveOf(s))
BalancesExplained == \A c \in Currency : balances[c] = InitialBalance + TradeSum(history, GainOf(c))

\* What IInv needs to become inductive for the account.
AccountInv ==
  /\ HistoryOK
  /\ LotSizes
  /\ Visited
  /\ TouchedOrdersAreFilled
  /\ PositionsExplained
  /\ BalancesExplained
  /\ RecordsShowEquity

\* roundSize gives sizes, and rounding a second time changes nothing.
LEMMA RoundSizeTwice ==
  ASSUME NEW n \in Nat
  PROVE  RoundSize(n) \in Nat /\ RoundSize(RoundSize(n)) = RoundSize(n)
<1> DEFINE q == (2 * n + Lot) \div (2 * Lot)
<1>1. Lot \in Nat \ {0} /\ 2 * Lot \in Nat \ {0} /\ 2 * n + Lot \in Nat
  BY LotAssumption
<1>2. q \in Nat
  BY <1>1, DivNat
<1>3. RoundSize(n) = Lot * q
  BY DEF RoundSize
<1> HIDE DEF q
<1>4. Lot * q \in Nat
  BY <1>1, <1>2, TimesNat
<1>5. (2 * (Lot * q) + Lot) \div (2 * Lot) = q
  <2>1. PICK m \in Nat : m = Lot * q
    BY <1>4
  <2>2. PICK d \in Nat \ {0} : d = 2 * Lot
    BY <1>1
  <2>3. d * q = 2 * m
    BY <1>1, <1>2, <2>1, <2>2
  <2>4. 2 * m + Lot \in Nat /\ Lot < d /\ d * q <= 2 * m + Lot /\ 2 * m + Lot < d * q + d
    BY <1>1, <2>1, <2>2, <2>3
  <2>5. \A a \in Nat, e \in Nat \ {0}, r \in Nat :
          e * r <= a /\ a < e * r + e => a \div e = r
    OBVIOUS
  <2> QED
    BY <1>2, <2>1, <2>2, <2>4, <2>5
<1> QED
  BY <1>3, <1>4, <1>5 DEF RoundSize

\* The values of trades are whole amounts.
LEMMA TradeValues ==
  /\ \A s \in Symbol : MoveOf(s) \in [TradeType -> Int]
  /\ \A c \in Currency : GainOf(c) \in [TradeType -> Int]
<1>1. ASSUME NEW s \in Symbol, NEW t \in TradeType
      PROVE  MoveOf(s)[t] \in Int
  <2>1. t.size \in Nat
    BY DEF TradeType
  <2>2. RoundSize(t.size) \in Nat
    BY <2>1, RoundSizeTwice
  <2> HIDE DEF RoundSize
  <2> QED
    BY <2>2 DEF MoveOf, Sign
<1>2. ASSUME NEW c \in Currency, NEW t \in TradeType
      PROVE  GainOf(c)[t] \in Int
  BY DEF TradeType, GainOf
<1>3. \A s \in Symbol : MoveOf(s) = [t \in TradeType |-> MoveOf(s)[t]]
  BY DEF MoveOf
<1>4. \A c \in Currency : GainOf(c) = [t \in TradeType |-> GainOf(c)[t]]
  BY DEF GainOf
<1> HIDE DEF MoveOf, GainOf
<1> QED
  BY <1>1, <1>2, <1>3, <1>4

\* The flush can sort trades.
LEMMA TradesSort == CanBeSorted(TradeType)
  BY DEF CanBeSorted, TradeType

\* Booking an order adds the trade that explains what it did.
LEMMA BookIsExplained ==
  ASSUME IInv, AccountInv, NEW order \in Orders, Book(order),
         RoundSize(order.filledSize) = order.size
  PROVE  /\ HistoryOK'
         /\ history'.current.trades # <<>>
         /\ PositionsExplained'
         /\ BalancesExplained'
<1> DEFINE symbol == order.symbol
           pnl == RealizedPnL(positions[symbol], order)
           fee == Fee(order)
           trade == [symbol |-> symbol, side |-> order.side, price |-> order.price,
                     size |-> order.filledSize, pnl |-> pnl, fee |-> fee]
<1>1. /\ symbol \in Symbol /\ Quote[symbol] \in Currency /\ order.side \in Sides
      /\ order.price \in Nat /\ order.filledSize \in Nat /\ order.size \in Nat \ {0}
  BY QuoteAssumption DEF Orders
<1>2. pnl \in Int /\ fee \in Int
  BY <1>1, RealizedPnLType, FeeType DEF IInv, TypeOK
<1>3. /\ balances' = [balances EXCEPT ![Quote[symbol]] = @ + pnl - fee]
      /\ history' = AddTrade(history, trade)
  BY DEF Book
<1>4. \A s \in Symbol : Net(s)' = IF s = symbol THEN Net(s) + SignedSize(order) ELSE Net(s)
  BY BookMoves DEF IInv
<1> HIDE DEF pnl, fee
<1>5. trade \in TradeType
  BY <1>1, <1>2 DEF TradeType
<1>6. HistoryOK'
  BY <1>3, <1>5, AddTradePlaces DEF AccountInv, HistoryOK
<1>7. history'.current.trades # <<>>
  <2>1. history.current.trades \in Seq(TradeType)
    BY RecordsType DEF AccountInv, HistoryOK
  <2>2. history' = [history EXCEPT !.current = [history.current EXCEPT !.trades = Append(@, trade)]]
    BY <1>3 DEF AddTrade
  <2>3. history'.current.trades = Append(history.current.trades, trade)
    BY <2>2 DEF AccountInv, HistoryOK, HistoriesOf, RecordsOf
  <2> QED
    BY <2>1, <2>3, <1>5
<1>8. ASSUME NEW V \in [TradeType -> Int]
      PROVE  /\ TradeSum(history', V) = TradeSum(history, V) + V[trade]
             /\ TradeSum(history, V) \in Int
  BY <1>3, <1>5, TradeSumOfAdd, TradeSumType DEF AccountInv, HistoryOK
<1>9. \A s \in Symbol : MoveOf(s)[trade] = IF s = symbol THEN SignedSize(order) ELSE 0
  BY <1>5 DEF MoveOf, SignedSize
<1>10. \A c \in Currency : GainOf(c)[trade] = IF c = Quote[symbol] THEN pnl - fee ELSE 0
  BY <1>5 DEF GainOf
<1> HIDE DEF trade, symbol
<1>11. PositionsExplained'
  <2> SUFFICES ASSUME NEW s \in Symbol
               PROVE  Net(s)' = TradeSum(history', MoveOf(s))
    BY DEF PositionsExplained
  <2>1. /\ TradeSum(history', MoveOf(s)) = TradeSum(history, MoveOf(s)) + MoveOf(s)[trade]
        /\ TradeSum(history, MoveOf(s)) \in Int
    BY <1>8, TradeValues
  <2>2. Net(s) = TradeSum(history, MoveOf(s))
    BY DEF AccountInv, PositionsExplained
  <2> HIDE DEF Net
  <2> QED
    BY <1>4, <1>9, <2>1, <2>2
<1>12. BalancesExplained'
  <2> SUFFICES ASSUME NEW c \in Currency
               PROVE  balances'[c] = InitialBalance + TradeSum(history', GainOf(c))
    BY DEF BalancesExplained
  <2>1. /\ TradeSum(history', GainOf(c)) = TradeSum(history, GainOf(c)) + GainOf(c)[trade]
        /\ TradeSum(history, GainOf(c)) \in Int
    BY <1>8, TradeValues
  <2>2. balances[c] = InitialBalance + TradeSum(history, GainOf(c))
    BY DEF AccountInv, BalancesExplained
  <2>3. balances'[c] = IF c = Quote[symbol] THEN balances[c] + pnl - fee ELSE balances[c]
    BY <1>1, <1>3 DEF IInv, TypeOK
  <2> QED
    BY <1>2, <1>10, <2>1, <2>2, <2>3, InitialBalanceAssumption
<1> QED
  BY <1>6, <1>7, <1>11, <1>12

\* Integers of a position.
LEMMA PositionType ==
  ASSUME TypeOK, NEW s \in Symbol
  PROVE  /\ Net(s) \in Int /\ Cost(s) \in Int
         /\ s \notin OpenPositions => Net(s) = 0 /\ Cost(s) = 0
         /\ s \in OpenPositions =>
              /\ Cost(s) = Net(s) * positions[s].entryPrice
              /\ positions[s].entryPrice \in Nat
              /\ \A price \in Int :
                   PnL(positions[s], price, positions[s].size) = Net(s) * price - Cost(s)
<1>1. CASE positions[s] = None
  BY <1>1 DEF Net, Cost, OpenPositions
<1>2. CASE positions[s] # None
  <2>1. positions[s].entryPrice \in Nat /\ positions[s].size \in Nat
    BY <1>2 DEF TypeOK, Positions
  <2>2. Net(s) = Sign(positions[s].side) * positions[s].size
    BY <1>2 DEF Net
  <2>3. Sign(positions[s].side) \in {1, -1}
    BY DEF Sign
  <2>4. Net(s) \in Int
    BY <2>1, <2>2, <2>3
  <2>5. Cost(s) = Net(s) * positions[s].entryPrice
    BY <1>2 DEF Cost
  <2>6. Cost(s) \in Int
    <3>1. \A m \in Int, n \in Nat : m * n \in Int
      OBVIOUS
    <3> QED
      BY <2>1, <2>4, <2>5, <3>1
  <2>7. ASSUME NEW price \in Int
        PROVE  PnL(positions[s], price, positions[s].size) = Net(s) * price - Cost(s)
    <3>1. PnL(positions[s], price, positions[s].size)
            = Sign(positions[s].side) * (price - positions[s].entryPrice) * positions[s].size
      BY DEF PnL
    <3>2. \A sign \in {1, -1}, n \in Nat, e \in Nat :
            sign * (price - e) * n = (sign * n) * price - (sign * n) * e
      OBVIOUS
    <3> HIDE DEF Sign
    <3> QED
      BY <2>1, <2>2, <2>3, <2>5, <3>1, <3>2
  <2> QED
    BY <1>2, <2>1, <2>4, <2>5, <2>6, <2>7 DEF OpenPositions
<1> QED
  BY <1>1, <1>2

\* getBalance is the mark-to-market value of the ledger account.
LEMMA BalanceIsEquity ==
  ASSUME TypeOK, NEW c \in Currency, \A s \in OpenPositions : HasBar(s)
  PROVE  GetBalance(c) \in Int /\ GetBalance(c) = Equity(c)
<1> DEFINE All == {s \in Symbol : Quote[s] = c}
           Open == {s \in OpenPositions : Quote[s] = c}
           cost == [s \in All |-> Cost(s)]
           value == [s \in Open |-> Net(s) * MarketPrice(s)]
           profit == [s \in Open |-> PnL(positions[s], MarketPrice(s), positions[s].size)]
<1>1. IsFiniteSet(All) /\ Open \subseteq All
  <2>1. All \subseteq Symbol /\ Open \subseteq All
    BY DEF OpenPositions
  <2> QED
    BY <2>1, QuoteAssumption, FS_Subset
<1>2. IsFiniteSet(Open) /\ IsFiniteSet(All \ Open)
  <2> HIDE DEF All, Open
  <2>1. All \ Open \subseteq All
    OBVIOUS
  <2> QED
    BY <1>1, <2>1, FS_Subset
<1>3. /\ GetBalance(c) = balances[c] + SumFunctionOnSet(profit, Open)
      /\ Cash[c] = balances[c] - SumFunctionOnSet(cost, All)
      /\ Equity(c) = Cash[c] + SumFunctionOnSet(value, Open)
  <2>1. DOMAIN profit = Open /\ DOMAIN cost = All /\ DOMAIN value = Open
    OBVIOUS
  <2>2. GetBalance(c) = balances[c] + SumFunction(profit)
    BY Zenon DEF GetBalance
  <2>3. Cash[c] = balances[c] - SumFunction(cost)
    BY Zenon DEF Cash
  <2>4. Equity(c) = Cash[c] + SumFunction(value)
    BY Zenon DEF Equity
  <2> HIDE DEF profit, cost, value, All, Open
  <2> QED
    BY Zenon, <2>1, <2>2, <2>3, <2>4 DEF SumFunction
<1>4. \A s \in All : cost[s] \in Int
  BY PositionType
<1>5. \A s \in All \ Open : cost[s] = 0
  BY PositionType
<1>6. \A s \in Open : /\ value[s] \in Int /\ profit[s] \in Int
                      /\ value[s] = profit[s] + cost[s]
  <2> SUFFICES ASSUME NEW s \in Open
               PROVE  /\ value[s] \in Int /\ profit[s] \in Int
                      /\ value[s] = profit[s] + cost[s]
    OBVIOUS
  <2>1. s \in Symbol /\ s \in OpenPositions
    BY DEF OpenPositions
  <2>2. MarketPrice(s) \in Nat
    BY <2>1, MarketPriceType
  <2>3. /\ Net(s) \in Int /\ Cost(s) \in Int
        /\ PnL(positions[s], MarketPrice(s), positions[s].size) = Net(s) * MarketPrice(s) - Cost(s)
    BY <2>1, <2>2, PositionType
  <2>4. Net(s) * MarketPrice(s) \in Int
    <3>1. \A m \in Int, n \in Nat : m * n \in Int
      OBVIOUS
    <3> QED
      BY <2>2, <2>3, <3>1
  <2>5. /\ value[s] = Net(s) * MarketPrice(s) /\ cost[s] = Cost(s)
        /\ profit[s] = PnL(positions[s], MarketPrice(s), positions[s].size)
    BY <2>1
  <2> HIDE DEF value, cost, profit
  <2> QED
    BY <2>3, <2>4, <2>5
<1> HIDE DEF All, Open, cost, value, profit
<1>7. SumFunctionOnSet(cost, All) = SumFunctionOnSet(cost, Open) + SumFunctionOnSet(cost, All \ Open)
  <2>1. Open \cap (All \ Open) = {} /\ Open \cup (All \ Open) = All
    BY <1>1
  <2>2. SumFunctionOnSet(cost, Open \cup (All \ Open))
          = SumFunctionOnSet(cost, Open) + SumFunctionOnSet(cost, All \ Open)
    BY <1>2, <1>4, <2>1, SumUnion
  <2> QED
    BY Zenon, <2>1, <2>2
<1>8. SumFunctionOnSet(cost, All \ Open) = 0
  BY <1>2, <1>5, SumOfZeros
<1>9. SumFunctionOnSet(value, Open) = SumFunctionOnSet(profit, Open) + SumFunctionOnSet(cost, Open)
  BY <1>1, <1>2, <1>4, <1>6, SumPlus
<1>10. SumFunctionOnSet(profit, Open) \in Int /\ SumFunctionOnSet(cost, Open) \in Int
  BY <1>1, <1>2, <1>4, <1>6, SumInt
<1>11. balances[c] \in Int
  BY DEF TypeOK
<1> QED
  BY <1>3, <1>7, <1>8, <1>9, <1>10, <1>11

-----------------------------------------------------------------------------
\* The broker starts with an empty history and no positions.
LEMMA InitEstablishesAccount == RequestsRoundToLots /\ Init => AccountInv
<1> SUFFICES ASSUME RequestsRoundToLots, Init
             PROVE  AccountInv
  OBVIOUS
<1>1. IInv
  BY InitEstablishes
<1>2. balances \in BalanceType /\ history = NewHistory(0, balances)
  BY <1>1 DEF Init, IInv, TypeOK, BalanceType
<1>3. HistoryOK
  BY <1>2, NewHistoryPlaces DEF HistoryOK
<1>4. LotSizes /\ Visited /\ TouchedOrdersAreFilled
  BY DEF Init, LotSizes, Visited, TouchedOrdersAreFilled, IsOpen, IsPlaced
<1>5. PositionsExplained
  BY <1>2, TradeSumOfNew DEF Init, PositionsExplained, Net
<1>6. BalancesExplained
  BY <1>2, TradeSumOfNew, InitialBalanceAssumption DEF Init, BalancesExplained
<1>7. RecordsShowEquity
  <2>1. OpenPositions = {}
    BY DEF Init, OpenPositions
  <2>2. ASSUME NEW c \in Currency
        PROVE  balances[c] = Equity(c)
    <3>1. GetBalance(c) = Equity(c)
      BY <1>1, <2>1, BalanceIsEquity DEF IInv
    <3>2. GetBalance(c) = balances[c] + 0
      <4>1. {s \in OpenPositions : Quote[s] = c} = {}
        BY <2>1
      <4>2. \A f : SumFunctionOnSet(f, {}) = 0
        BY SumEmpty
      <4> QED
        BY Zenon, <4>1, <4>2 DEF GetBalance, SumFunction
    <3> QED
      BY <1>1, <3>1, <3>2 DEF IInv, TypeOK
  <2>3. history.current.balances = balances
    BY <1>2 DEF NewHistory, NewRecord
  <2>4. balances = [c \in Currency |-> balances[c]]
    BY DEF Init
  <2> HIDE DEF Equity
  <2> QED
    BY <2>2, <2>3, <2>4 DEF RecordsShowEquity
<1> QED
  BY <1>3, <1>4, <1>5, <1>6, <1>7 DEF AccountInv

\* The account alone, after a step that leaves it alone.
LEMMA AccountUntouched ==
  ASSUME AccountInv, UNCHANGED account
  PROVE  HistoryOK' /\ PositionsExplained' /\ BalancesExplained'
  BY DEF AccountInv, HistoryOK, PositionsExplained, BalancesExplained, account, Net

\* A record that closes after a placement has a trade: nothing to show.
LEMMA ShowsNothing ==
  ASSUME phase' # "trading" \/ history'.current.trades # <<>>
  PROVE  RecordsShowEquity'
  BY DEF RecordsShowEquity

\* A record still shows the equity when account, candles and phase stay.
LEMMA ShowsTheSame ==
  ASSUME RecordsShowEquity, UNCHANGED <<account, bars>>, phase = "trading" \/ phase' # "trading"
  PROVE  RecordsShowEquity'
<1>1. CASE phase' # "trading"
  BY <1>1, ShowsNothing
<1>2. CASE phase' = "trading"
  <2>1. \A c \in Currency : Equity(c)' = Equity(c)
    BY DEF Equity, Cash, Cost, Net, OpenPositions, MarketPrice, account
  <2>2. history' = history
    BY DEF account
  <2> HIDE DEF Equity
  <2> QED
    BY <1>2, <2>1, <2>2 DEF RecordsShowEquity
<1> QED
  BY <1>1, <1>2

\* While the strategy trades, a new order is of the current interval: nextClock()
\* has not had it to visit.
LEMMA StoreKeepsOrders ==
  ASSUME IInv, AccountInv, TakesOrderId, NEW order \in Orders, Store(order),
         order.timestamp = clock, RoundSize(order.size) = order.size
  PROVE  LotSizes' /\ Visited' /\ TouchedOrdersAreFilled'
<1>1. /\ phase = "trading" /\ phase' = "trading" /\ clock' = clock /\ bars' = bars
      /\ clock \in Nat
  BY BoundsAssumption DEF TakesOrderId, IInv, TypeOK
<1>2. /\ orders'[orderIdCounter] = order
      /\ \A id \in OrderId : id # orderIdCounter => orders'[id] = orders[id]
  BY StoreFacts
<1>3. LotSizes'
  BY <1>2 DEF AccountInv, LotSizes
<1>4. Visited'
  BY <1>1 DEF Visited
<1>5. TouchedOrdersAreFilled'
  <2> SUFFICES ASSUME NEW id \in OrderId, IsOpen(id)', orders'[id].timestamp < clock
               PROVE  /\ HasBar(orders'[id].symbol)
                      /\ ~Touches(bars[orders'[id].symbol], orders'[id].price)
    BY <1>1 DEF TouchedOrdersAreFilled, HasBar
  <2>1. id # orderIdCounter
    BY <1>1, <1>2
  <2> QED
    BY <1>1, <1>2, <2>1 DEF AccountInv, TouchedOrdersAreFilled, IsOpen, IsPlaced
<1> QED
  BY <1>3, <1>4, <1>5

\* A placement that rests.
LEMMA RestingKeepsAccount ==
  ASSUME IInv, AccountInv, TakesOrderId, NEW order \in Orders, Store(order),
         order.timestamp = clock, RoundSize(order.size) = order.size, UNCHANGED account
  PROVE  AccountInv'
<1>1. LotSizes' /\ Visited' /\ TouchedOrdersAreFilled'
  BY StoreKeepsOrders
<1>2. HistoryOK' /\ PositionsExplained' /\ BalancesExplained'
  BY AccountUntouched
<1>3. RecordsShowEquity'
  BY ShowsTheSame DEF TakesOrderId, AccountInv
<1> QED
  BY <1>1, <1>2, <1>3 DEF AccountInv

\* A placement that fills.
LEMMA TakingKeepsAccount ==
  ASSUME IInv, AccountInv, TakesOrderId, NEW order \in Orders, Store(order), Book(order),
         order.timestamp = clock, RoundSize(order.size) = order.size,
         RoundSize(order.filledSize) = order.size
  PROVE  AccountInv'
<1>1. LotSizes' /\ Visited' /\ TouchedOrdersAreFilled'
  BY StoreKeepsOrders
<1>2. /\ HistoryOK' /\ PositionsExplained' /\ BalancesExplained'
      /\ history'.current.trades # <<>>
  BY BookIsExplained
<1>3. RecordsShowEquity'
  BY <1>2, ShowsNothing
<1> QED
  BY <1>1, <1>2, <1>3 DEF AccountInv

\* Sizes and timestamp of the orders the placements make.
LEMMA NewOrderSizes ==
  ASSUME TypeOK, NEW req \in Request, NEW type \in OrderTypes, NEW price \in Nat,
         NEW filledSize \in Nat
  PROVE  /\ RoundSize(req.size) \in Nat /\ req.size \in Nat
         /\ RoundSize(RoundSize(req.size)) = RoundSize(req.size)
         /\ NewOrder(type, req, price).size = RoundSize(req.size)
         /\ NewOrder(type, req, price).timestamp = clock
         /\ \A q \in Nat :
              /\ Filled(NewOrder(type, req, q), price, filledSize).size = RoundSize(req.size)
              /\ Filled(NewOrder(type, req, q), price, filledSize).filledSize = filledSize
              /\ Filled(NewOrder(type, req, q), price, filledSize).timestamp = clock
<1>1. req.size \in Nat
  BY RequestAssumption
<1>2. RoundSize(req.size) \in Nat /\ RoundSize(RoundSize(req.size)) = RoundSize(req.size)
  BY <1>1, RoundSizeTwice
<1> HIDE DEF RoundSize
<1> QED
  BY <1>1, <1>2 DEF NewOrder, Filled

\* placeMarketLong and placeMarketShort.
LEMMA PlaceMarketKeepsAccount ==
  ASSUME IInv, AccountInv, NEW req \in Request, PlaceMarket(req)
  PROVE  AccountInv'
<1> DEFINE price == MarketPrice(req.symbol)
           order == Filled(NewOrder("market", req, price), price, RoundSize(req.size))
<1>1. HasBar(req.symbol) /\ TakesOrderId /\ Store(order) /\ Book(order)
  BY DEF PlaceMarket
<1>2. price \in Nat /\ RoundSize(req.size) \in Nat /\ "market" \in OrderTypes
  BY <1>1, RequestAssumption, MarketPriceType, RoundedIsPositive DEF IInv, OrderTypes
<1>3. order \in Orders
  BY <1>2, NewOrderType DEF IInv
<1>4. /\ order.timestamp = clock /\ RoundSize(order.size) = order.size
      /\ RoundSize(order.filledSize) = order.size
  BY <1>2, NewOrderSizes DEF IInv
<1> HIDE DEF order
<1> QED
  BY <1>1, <1>3, <1>4, TakingKeepsAccount

\* placeLimitLong and placeLimitShort.
LEMMA PlaceLimitKeepsAccount ==
  ASSUME IInv, AccountInv, NEW req \in Request, PlaceLimit(req)
  PROVE  AccountInv'
<1> DEFINE resting == NewOrder("limit", req, req.price)
           taken == Filled(resting, MarketPrice(req.symbol), req.size)
<1>1. HasBar(req.symbol) /\ TakesOrderId
  BY DEF PlaceLimit
<1>2. \/ Store(taken) /\ Book(taken)
      \/ Store(resting) /\ UNCHANGED account
  BY DEF PlaceLimit
<1>3. /\ MarketPrice(req.symbol) \in Nat /\ req.price \in Nat /\ req.size \in Nat
      /\ "limit" \in OrderTypes
  BY <1>1, RequestAssumption, MarketPriceType DEF IInv, OrderTypes
<1>4. taken \in Orders /\ resting \in Orders
  BY <1>3, NewOrderType DEF IInv
<1>5. /\ taken.timestamp = clock /\ RoundSize(taken.size) = taken.size
      /\ RoundSize(taken.filledSize) = taken.size
  BY <1>3, NewOrderSizes DEF IInv
<1>6. resting.timestamp = clock /\ RoundSize(resting.size) = resting.size
  BY <1>3, NewOrderSizes DEF IInv
<1> HIDE DEF taken, resting
<1> QED
  BY <1>1, <1>2, <1>4, <1>5, <1>6, TakingKeepsAccount, RestingKeepsAccount

\* placeStopMarketLong and placeStopMarketShort.
LEMMA PlaceStopMarketKeepsAccount ==
  ASSUME IInv, AccountInv, NEW req \in Request, PlaceStopMarket(req)
  PROVE  AccountInv'
<1> DEFINE order == NewOrder("market", req, req.price)
<1>1. TakesOrderId /\ Store(order) /\ UNCHANGED account
  BY DEF PlaceStopMarket
<1>2. req.price \in Nat /\ "market" \in OrderTypes
  BY RequestAssumption DEF OrderTypes
<1>3. order \in Orders
  BY <1>2, NewOrderType DEF IInv
<1>4. order.timestamp = clock /\ RoundSize(order.size) = order.size
  BY <1>2, NewOrderSizes DEF IInv
<1> HIDE DEF order
<1> QED
  BY <1>1, <1>3, <1>4, RestingKeepsAccount

\* cancelOrders leaves prices, sizes and timestamps, and opens nothing.
LEMMA CancelOrdersKeepsAccount ==
  ASSUME IInv, AccountInv, NEW ids \in CancelBatch, CancelOrders(ids)
  PROVE  AccountInv'
<1> DEFINE reached == {ids[k] : k \in {k \in DOMAIN ids : \A j \in 1..k : IsPlaced(ids[j])}}
<1>1. /\ orders' = [id \in OrderId |->
                      IF id \in reached
                      THEN [orders[id] EXCEPT !.status = "cancelled"]
                      ELSE orders[id]]
      /\ UNCHANGED <<clock, bars, phase, account>>
      /\ phase = "trading"
  BY DEF CancelOrders, account
<1>2. \A id \in OrderId : id \in reached => orders[id] \in Orders
  <2> SUFFICES ASSUME NEW id \in OrderId, id \in reached
               PROVE  orders[id] \in Orders
    OBVIOUS
  <2>1. PICK k \in DOMAIN ids : id = ids[k] /\ \A j \in 1..k : IsPlaced(ids[j])
    OBVIOUS
  <2>2. DOMAIN ids \subseteq Nat \ {0}
    BY CancelBatchAssumption
  <2>3. IsPlaced(id)
    BY <2>1, <2>2
  <2> QED
    BY <2>3 DEF IsPlaced, IInv, TypeOK
<1> HIDE DEF reached
<1>3. \A id \in OrderId : id \in reached =>
        /\ orders'[id].status = "cancelled" /\ orders'[id].size = orders[id].size
        /\ orders[id] # None
  BY <1>1, <1>2, NoneAssumption DEF Orders
<1>4. \A id \in OrderId : id \notin reached => orders'[id] = orders[id]
  BY <1>1
<1>5. LotSizes'
  BY <1>3, <1>4 DEF AccountInv, LotSizes
<1>6. Visited'
  BY <1>1 DEF Visited
<1>7. TouchedOrdersAreFilled'
  <2>1. \A id \in OrderId : IsOpen(id)' => IsOpen(id) /\ orders'[id] = orders[id]
    BY <1>3, <1>4 DEF IsOpen, IsPlaced
  <2> QED
    BY <1>1, <2>1 DEF AccountInv, TouchedOrdersAreFilled, HasBar
<1>8. HistoryOK' /\ PositionsExplained' /\ BalancesExplained'
  BY <1>1, AccountUntouched
<1>9. RecordsShowEquity'
  BY <1>1, ShowsTheSame DEF AccountInv
<1> QED
  BY <1>5, <1>6, <1>7, <1>8, <1>9 DEF AccountInv

\* nextClock() starts: nothing is visited, and no record is compared.
LEMMA NextClockBeginsKeepsAccount ==
  ASSUME IInv, AccountInv, NextClockBegins
  PROVE  AccountInv'
<1>1. /\ UNCHANGED <<orders, account>> /\ phase' = "filling" /\ cursor' = 0
  BY DEF NextClockBegins, account
<1>2. LotSizes'
  BY <1>1 DEF AccountInv, LotSizes
<1>3. Visited'
  BY <1>1 DEF Visited, OrderId
<1>4. TouchedOrdersAreFilled'
  BY <1>1 DEF TouchedOrdersAreFilled
<1>5. HistoryOK' /\ PositionsExplained' /\ BalancesExplained'
  BY <1>1, AccountUntouched
<1>6. RecordsShowEquity'
  BY <1>1, ShowsNothing
<1> QED
  BY <1>2, <1>3, <1>4, <1>5, <1>6 DEF AccountInv

\* nextClock() passes an order that is closed or not touched.
LEMMA VisitPassesKeepsAccount ==
  ASSUME IInv, AccountInv, VisitPasses
  PROVE  AccountInv'
<1>1. /\ UNCHANGED <<orders, account, clock, bars>> /\ phase = "filling" /\ phase' = phase
      /\ cursor' = cursor + 1
      /\ IsOpen(cursor) => /\ HasBar(orders[cursor].symbol)
                           /\ ~Touches(bars[orders[cursor].symbol], orders[cursor].price)
  BY DEF VisitPasses, account
<1>2. LotSizes'
  BY <1>1 DEF AccountInv, LotSizes
<1>3. Visited'
  <2>1. \A id \in OrderId : id < cursor + 1 => id < cursor \/ id = cursor
    BY BoundsAssumption DEF IInv, TypeOK, OrderId
  <2> QED
    BY <1>1, <2>1 DEF Visited, AccountInv, IsOpen, IsPlaced, HasBar
<1>4. TouchedOrdersAreFilled'
  BY <1>1 DEF TouchedOrdersAreFilled
<1>5. HistoryOK' /\ PositionsExplained' /\ BalancesExplained'
  BY <1>1, AccountUntouched
<1>6. RecordsShowEquity'
  BY <1>1, ShowsNothing
<1> QED
  BY <1>2, <1>3, <1>4, <1>5, <1>6 DEF AccountInv

\* nextClock() fills an order: it is open no more, and the trade explains it.
LEMMA VisitFillsKeepsAccount ==
  ASSUME IInv, AccountInv, VisitFills
  PROVE  AccountInv'
<1> DEFINE order == orders[cursor]
           filled == Filled(order, order.price, order.size)
<1>1. cursor \in OrderId /\ order \in Orders /\ order # None
  BY BoundsAssumption DEF VisitFills, IsOpen, IsPlaced, IInv, TypeOK
<1>2. /\ filled \in Orders /\ filled.status = "filled" /\ filled.size = order.size
      /\ filled.filledSize = order.size
  BY <1>1 DEF Filled, Orders, OrderStatuses
<1>3. RoundSize(order.size) = order.size
  BY <1>1 DEF AccountInv, LotSizes
<1>4. /\ orders' = [orders EXCEPT ![cursor] = filled]
      /\ Book(filled)
      /\ UNCHANGED <<clock, bars, phase>>
      /\ phase = "filling" /\ cursor' = cursor + 1
  BY DEF VisitFills
<1> HIDE DEF filled
<1>5. /\ orders'[cursor] = filled
      /\ \A id \in OrderId : id # cursor => orders'[id] = orders[id]
  BY <1>1, <1>4 DEF IInv, TypeOK
<1>6. LotSizes'
  BY <1>2, <1>3, <1>5 DEF AccountInv, LotSizes
<1>7. Visited'
  <2>1. \A id \in OrderId : id < cursor + 1 => id < cursor \/ id = cursor
    BY BoundsAssumption DEF IInv, TypeOK, OrderId
  <2>2. \A id \in OrderId : IsOpen(id)' => id # cursor /\ orders'[id] = orders[id] /\ IsOpen(id)
    BY <1>2, <1>5 DEF IsOpen, IsPlaced
  <2> QED
    BY <1>4, <2>1, <2>2 DEF Visited, AccountInv, HasBar
<1>8. TouchedOrdersAreFilled'
  BY <1>4 DEF TouchedOrdersAreFilled
<1>9. HistoryOK' /\ PositionsExplained' /\ BalancesExplained'
  BY <1>2, <1>3, <1>4, BookIsExplained
<1>10. RecordsShowEquity'
  BY <1>4, ShowsNothing
<1> QED
  BY <1>6, <1>7, <1>8, <1>9, <1>10 DEF AccountInv

\* nextClock() ends: all orders are visited, the record that opens shows the
\* balances, and the trades of the run are the same ones in sorted records.
LEMMA NextClockEndsKeepsAccount ==
  ASSUME IInv, AccountInv, NextClockEnds
  PROVE  AccountInv'
<1> DEFINE shown == [c \in Currency |-> GetBalance(c)]
<1>1. /\ UNCHANGED <<clock, bars, balances, positions, orders>>
      /\ phase = "filling" /\ cursor = MaxOrders
      /\ history' = Flush(history, clock, shown)
      /\ \A s \in OpenPositions : HasBar(s)
  BY DEF NextClockEnds
<1>2. \A c \in Currency : GetBalance(c) \in Int /\ GetBalance(c) = Equity(c)
  BY <1>1, BalanceIsEquity DEF IInv
<1>3. shown \in BalanceType /\ clock \in Nat /\ history \in HistoriesOf(TradeType, BalanceType)
  <2> HIDE DEF GetBalance
  <2> QED
    BY <1>2, BoundsAssumption DEF BalanceType, IInv, TypeOK, AccountInv, HistoryOK
<1>4. HistoryOK' /\ history'.current = NewRecord(clock, shown)
  BY <1>1, <1>3, TradesSort, FlushPlaces DEF HistoryOK
<1>5. shown = [c \in Currency |-> Equity(c)]
  <2> HIDE DEF GetBalance, Equity
  <2> QED
    BY <1>2
<1>6. RecordsShowEquity'
  <2>1. \A c \in Currency : Equity(c)' = Equity(c)
    BY <1>1 DEF Equity, Cash, Cost, Net, OpenPositions, MarketPrice
  <2>2. history'.current.balances = shown
    BY <1>4 DEF NewRecord
  <2> HIDE DEF shown, Equity
  <2> QED
    BY <1>5, <2>1, <2>2 DEF RecordsShowEquity
<1> HIDE DEF shown
<1>7. ASSUME NEW V \in [TradeType -> Int]
      PROVE  TradeSum(history', V) = TradeSum(history, V)
  BY <1>1, <1>3, TradesSort, TradeSumOfFlush
<1>8. PositionsExplained'
  <2>1. \A s \in Symbol : Net(s)' = Net(s)
    BY <1>1 DEF Net
  <2> HIDE DEF Net
  <2> QED
    BY <1>7, <2>1, TradeValues DEF AccountInv, PositionsExplained
<1>9. BalancesExplained'
  BY <1>1, <1>7, TradeValues DEF AccountInv, BalancesExplained
<1>10. LotSizes'
  BY <1>1 DEF AccountInv, LotSizes
<1>11. TouchedOrdersAreFilled' /\ Visited'
  <2>1. \A id \in OrderId : id < cursor
    BY <1>1, BoundsAssumption DEF OrderId
  <2>2. phase' = "trading"
    BY DEF NextClockEnds
  <2> QED
    BY <1>1, <2>1, <2>2 DEF AccountInv, TouchedOrdersAreFilled, Visited, IsOpen, IsPlaced, HasBar
<1> QED
  BY <1>4, <1>6, <1>8, <1>9, <1>10, <1>11 DEF AccountInv

\* A throw, or a placement that only takes an id.
LEMMA OthersKeepAccount ==
  ASSUME AccountInv, UNCHANGED <<orders, account, clock, bars>>,
         phase' = "crashed" \/ (phase' = phase /\ cursor' = cursor)
  PROVE  AccountInv'
<1>1. LotSizes'
  BY DEF AccountInv, LotSizes
<1>2. Visited'
  BY DEF AccountInv, Visited, IsOpen, IsPlaced, HasBar
<1>3. TouchedOrdersAreFilled'
  BY DEF AccountInv, TouchedOrdersAreFilled, IsOpen, IsPlaced, HasBar
<1>4. HistoryOK' /\ PositionsExplained' /\ BalancesExplained'
  BY AccountUntouched
<1>5. RecordsShowEquity'
  BY ShowsTheSame DEF AccountInv
<1> QED
  BY <1>1, <1>2, <1>3, <1>4, <1>5 DEF AccountInv

LEMMA NextKeepsAccount == IInv /\ AccountInv /\ [Next]_vars => AccountInv'
<1> SUFFICES ASSUME IInv, AccountInv, [Next]_vars
             PROVE  AccountInv'
  OBVIOUS
<1>1. CASE \E req \in Request : PlaceMarket(req) \/ PlaceLimit(req) \/ PlaceStopMarket(req)
  BY <1>1, PlaceMarketKeepsAccount, PlaceLimitKeepsAccount, PlaceStopMarketKeepsAccount
<1>2. CASE \E req \in Request : PlacementThrows(req)
  BY <1>2, OthersKeepAccount DEF PlacementThrows, TakesOrderId, account
<1>3. CASE \E ids \in CancelBatch : CancelOrders(ids)
  BY <1>3, CancelOrdersKeepsAccount
<1>4. CASE NextClockBegins \/ VisitPasses \/ VisitFills \/ NextClockEnds
  BY <1>4, NextClockBeginsKeepsAccount, VisitPassesKeepsAccount, VisitFillsKeepsAccount,
     NextClockEndsKeepsAccount
<1>5. CASE VisitThrows \/ ValuationThrows
  BY <1>5, OthersKeepAccount DEF VisitThrows, ValuationThrows, account
<1>6. CASE UNCHANGED vars
  BY <1>6, OthersKeepAccount DEF vars, account
<1> QED
  BY <1>1, <1>2, <1>3, <1>4, <1>5, <1>6 DEF Next

\* The account invariant holds in every reachable state.
THEOREM AccountInvHolds == RequestsRoundToLots /\ Spec => []AccountInv
  BY InitEstablishes, InitEstablishesAccount, IInvHolds, NextKeepsAccount, PTL DEF Spec

\* The sums the property speaks of are those the invariant explains.
LEMMA ExplainedBySums ==
  ASSUME IInv, AccountInv
  PROVE  TradesExplainPositions /\ TradesExplainBalance
<1> DEFINE P == Places(history)
           trades == AllTrades(history)
<1>1. trades = [p \in P |-> trades[p]] /\ DOMAIN trades = P /\ \A p \in P : trades[p] \in TradeType
  BY PlaceIs DEF AccountInv, HistoryOK, AllTrades
<1>2. ASSUME NEW s \in Symbol
      PROVE  Net(s) = SumOf(trades, LAMBDA t : IF t.symbol = s
                                               THEN Sign(t.side) * RoundSize(t.size) ELSE 0)
  <2> DEFINE f == [p \in DOMAIN trades |->
                     IF trades[p].symbol = s
                     THEN Sign(trades[p].side) * RoundSize(trades[p].size) ELSE 0]
  <2>1. f = [p \in P |-> MoveOf(s)[trades[p]]]
    BY <1>1 DEF MoveOf
  <2>2. SumFunction(f) = TradeSum(history, MoveOf(s))
    <3>1. DOMAIN f = P
      BY <1>1
    <3> HIDE DEF f
    <3> QED
      BY Zenon, <2>1, <3>1 DEF SumFunction, TradeSum
  <2>3. Net(s) = SumFunction(f)
    BY Zenon, <2>2 DEF AccountInv, PositionsExplained
  <2> QED
    BY Zenon, <2>3 DEF SumOf
<1>3. ASSUME NEW c \in Currency
      PROVE  balances[c] = InitialBalance
               + SumOf(trades, LAMBDA t : IF Quote[t.symbol] = c THEN t.pnl - t.fee ELSE 0)
  <2> DEFINE f == [p \in DOMAIN trades |->
                     IF Quote[trades[p].symbol] = c THEN trades[p].pnl - trades[p].fee ELSE 0]
  <2>1. f = [p \in P |-> GainOf(c)[trades[p]]]
    BY <1>1 DEF GainOf
  <2>2. SumFunction(f) = TradeSum(history, GainOf(c))
    <3>1. DOMAIN f = P
      BY <1>1
    <3> HIDE DEF f
    <3> QED
      BY Zenon, <2>1, <3>1 DEF SumFunction, TradeSum
  <2>3. balances[c] = InitialBalance + SumFunction(f)
    BY Zenon, <2>2 DEF AccountInv, BalancesExplained
  <2> QED
    BY Zenon, <2>3 DEF SumOf
<1> QED
  BY <1>2, <1>3 DEF TradesExplainPositions, TradesExplainBalance

\* Every fill that is due happens, and the trades of the history, over all its
\* records, add up to the open positions and the realized balances: nothing is
\* filled that is not recorded, dropped by the flush or booked twice.
THEOREM FillsAccountedFor == RequestsRoundToLots /\ Spec => []FillsAreAccountedFor
<1>1. IInv /\ AccountInv => FillsAreAccountedFor
  BY ExplainedBySums DEF FillsAreAccountedFor, AccountInv
<1> QED
  BY <1>1, IInvHolds, AccountInvHolds, PTL

\* A record of the history opens with the equity: the realized balance and
\* what the open positions are worth at the candles' close.
THEOREM RecordsAreEquity == RequestsRoundToLots /\ Spec => []RecordsShowEquity
<1>1. AccountInv => RecordsShowEquity
  BY DEF AccountInv
<1> QED
  BY <1>1, AccountInvHolds, PTL

-----------------------------------------------------------------------------
(* The ledger. The model divides integers where the code divides numbers,   *)
(* so the averages have to be exact for no money to be lost in them.        *)

\* Whatever is averaged by a fill that increases a position can be divided.
AveragesAreExact ==
  [][\A id \in OrderId : Fills(id) =>
       LET order == orders'[id]
           position == positions[order.symbol]
       IN  (position # None /\ position.side = order.side) =>
             (position.entryPrice * position.size + order.price * order.size)
               % (position.size + order.size) = 0]_vars

\* Sizes, prices and commission rates of trades.
TradeSizes == {RoundSize(req.size) : req \in Request}
TradePrices == {req.price : req \in Request} \cup {bar.close : bar \in Bar}
TradeRates == {Maker, Taker}

\* Orders have the sizes and prices that were asked for, or the market's price.
Requested ==
  \A id \in OrderId : orders[id] # None =>
    orders[id].size \in TradeSizes /\ orders[id].price \in TradePrices

\* Money that is bound in a position.
CostOf(position) ==
  IF position = None THEN 0 ELSE SignedPosition(position) * position.entryPrice

\* One order fills, and is booked.
BooksOne == \E id \in OrderId : Fills(id) /\ orders'[id] \in Orders /\ Book(orders'[id])

LedgerFacts == Requested' /\ (UNCHANGED <<balances, positions>> \/ BooksOne)

\* Products distribute over sums and differences.
LEMMA Distributes ==
  ASSUME NEW x \in Int, NEW y \in Int, NEW z \in Int
  PROVE  /\ x * z \in Int
         /\ x * z = z * x
         /\ (x + y) * z = x * z + y * z
         /\ (x - y) * z = x * z - y * z
  OBVIOUS

\* The two sides have opposite signs.
LEMMA OppositeSigns ==
  ASSUME NEW a \in Sides, NEW b \in Sides, a # b
  PROVE  (Sign(a) = 1 /\ Sign(b) = -1) \/ (Sign(a) = -1 /\ Sign(b) = 1)
  BY DEF Sides, Sign

\* A division without a remainder can be undone.
LEMMA ExactDivision ==
  ASSUME NEW n \in Nat, NEW d \in Nat \ {0}, n % d = 0
  PROVE  d * (n \div d) = n
  OBVIOUS

\* What a fill adds to the cost of its position is the value of the trade and the
\* profit it realizes. This is where averaging, reducing and flipping come together.
LEMMA FillMovesCost ==
  ASSUME NEW position \in Positions \cup {None}, NEW order \in Orders,
         (position # None /\ position.side = order.side) =>
           (position.entryPrice * position.size + order.price * order.size)
             % (position.size + order.size) = 0
  PROVE  CostOf(PositionAfter(position, order))
           = CostOf(position) + RealizedPnL(position, order)
               + Sign(order.side) * order.size * order.price
<1> USE NoneAssumption
<1> DEFINE p == order.price
           q == order.size
           sign == Sign(order.side)
<1>1. p \in Nat /\ q \in Nat \ {0} /\ order.side \in Sides /\ sign \in {1, -1}
  BY DEF Orders, Sign
<1>2. PositionAfter(position, order) \in Positions \cup {None}
  BY PositionAfterType
<1>3. PICK pq \in Nat : pq = q * p
  BY <1>1, TimesNat
<1>4. sign * q * p = sign * pq
  <2> HIDE DEF p, q, sign
  <2>1. CASE sign = 1
    BY <1>1, <1>3, <2>1
  <2>2. CASE sign = -1
    <3>1. (-1) * q = -q /\ (-q) * p = -(q * p)
      BY <1>1
    <3> QED
      BY <1>1, <1>3, <2>2, <3>1
  <2> QED
    BY <1>1, <2>1, <2>2
<1>5. CASE position = None
  <2>1. PositionAfter(position, order) = [side |-> order.side, entryPrice |-> p, size |-> q]
    BY <1>5 DEF PositionAfter
  <2>2. PositionAfter(position, order) # None
    BY <1>1, <2>1 DEF Positions
  <2>3. CostOf(PositionAfter(position, order)) = sign * q * p
    BY <2>1, <2>2 DEF CostOf, SignedPosition
  <2>4. CostOf(position) = 0 /\ RealizedPnL(position, order) = 0
    BY <1>5 DEF CostOf, RealizedPnL
  <2> HIDE DEF p, q, sign
  <2> QED
    BY <1>1, <1>4, <2>3, <2>4 DEF p, q, sign
<1>6. CASE position # None
  <2> DEFINE e == position.entryPrice
             s == position.size
             held == Sign(position.side)
  <2>1. /\ position \in Positions /\ position.side \in Sides
        /\ e \in Nat /\ s \in Nat \ {0} /\ held \in {1, -1}
    BY <1>6 DEF Positions, Sign
  <2>2. PICK es \in Nat : es = s * e
    BY <2>1, TimesNat
  <2>3. CostOf(position) = held * es
    <3>1. CostOf(position) = held * s * e
      BY <1>6 DEF CostOf, SignedPosition
    <3> HIDE DEF e, s, held
    <3>2. CASE held = 1
      BY <2>1, <2>2, <3>1, <3>2
    <3>3. CASE held = -1
      <4>1. (-1) * s = -s /\ (-s) * e = -(s * e)
        BY <2>1
      <4> QED
        BY <2>1, <2>2, <3>1, <3>3, <4>1
    <3> QED
      BY <2>1, <3>2, <3>3
  <2>4. CASE position.side = order.side
    <3> DEFINE total == e * s + p * q
               average == total \div (s + q)
    <3>1. PositionAfter(position, order)
            = [position EXCEPT !.entryPrice = average, !.size = @ + order.size]
      BY <1>6, <2>4 DEF PositionAfter, Increased
    <3>2. average \in Nat
      BY <1>1, <2>1, AverageIsPrice
    <3>3. total \in Nat /\ s + q \in Nat \ {0} /\ total = es + pq
      <4> HIDE DEF e, s, p, q
      <4>1. e * s = es /\ p * q = pq
        BY <1>1, <1>3, <2>1, <2>2
      <4> QED
        BY <1>1, <2>1, <4>1
    <3>4. (s + q) * average = total
      <4>1. total % (s + q) = 0
        BY <1>6, <2>4
      <4> HIDE DEF total, e, s, p, q
      <4> QED
        BY <3>3, <4>1, ExactDivision
    <3> HIDE DEF average, total
    <3>5. /\ PositionAfter(position, order).side = order.side
          /\ PositionAfter(position, order).size = s + q
          /\ PositionAfter(position, order).entryPrice = average
          /\ PositionAfter(position, order) # None
      <4>1. [position EXCEPT !.entryPrice = average, !.size = @ + order.size] \in Positions
        BY <1>1, <2>1, <3>2, <3>3 DEF Positions
      <4> QED
        BY <2>1, <2>4, <3>1, <4>1 DEF Positions
    <3>6. CostOf(PositionAfter(position, order)) = sign * (s + q) * average
      BY <3>5 DEF CostOf, SignedPosition
    <3>7. RealizedPnL(position, order) = 0 /\ held = sign
      BY <2>4 DEF RealizedPnL
    <3> HIDE DEF e, s, held, p, q, sign
    <3>8. CASE sign = 1
      <4>1. sign * (s + q) * average = total
        BY <3>2, <3>3, <3>4, <3>8
      <4> QED
        BY <1>4, <2>3, <3>3, <3>6, <3>7, <3>8, <4>1 DEF p, q, sign
    <3>9. CASE sign = -1
      <4>1. (-1) * (s + q) = -(s + q) /\ (-(s + q)) * average = -((s + q) * average)
        BY <3>2, <3>3
      <4>2. sign * (s + q) * average = -total
        BY <3>4, <3>9, <4>1
      <4> QED
        BY <1>4, <2>3, <3>3, <3>6, <3>7, <3>9, <4>2 DEF p, q, sign
    <3> QED
      BY <1>1, <3>8, <3>9
  <2>5. CASE position.side # order.side
    <3>1. (held = 1 /\ sign = -1) \/ (held = -1 /\ sign = 1)
      BY Zenon, <1>1, <2>1, <2>5, OppositeSigns
    <3>2. RealizedPnL(position, order) = held * (p - e) * Smaller(q, s)
      BY <1>6, <2>5 DEF RealizedPnL, PnL
    <3>3. CASE s >= q
      <4>1. PICK eq \in Nat : eq = q * e
        BY <1>1, <2>1, TimesNat
      <4>2. RealizedPnL(position, order) = held * (pq - eq)
        <5>1. RealizedPnL(position, order) = held * (p - e) * q
          BY <1>1, <2>1, <3>2, <3>3 DEF Smaller
        <5> HIDE DEF e, s, p, q, held, sign
        <5>2. (p - e) * q = pq - eq
          BY <1>1, <1>3, <2>1, <4>1, Distributes
        <5>3. (-1) * (p - e) = -(p - e) /\ (-(p - e)) * q = -((p - e) * q)
          BY <1>1, <2>1
        <5>4. 1 * (p - e) = p - e
          BY <1>1, <2>1
        <5> QED
          BY <3>1, <5>1, <5>2, <5>3, <5>4
      <4>3. CostOf(PositionAfter(position, order)) = held * (es - eq)
        <5>1. CASE s > q
          <6>1. PositionAfter(position, order) = [position EXCEPT !.size = @ - order.size]
            BY <1>1, <1>6, <2>1, <2>5, <5>1 DEF PositionAfter
          <6>2. /\ PositionAfter(position, order) # None
                /\ PositionAfter(position, order).side = position.side
                /\ PositionAfter(position, order).size = s - q
                /\ PositionAfter(position, order).entryPrice = e
            BY <1>1, <2>1, <5>1, <6>1 DEF Positions
          <6>3. CostOf(PositionAfter(position, order)) = held * (s - q) * e
            BY <6>2 DEF CostOf, SignedPosition
          <6> HIDE DEF e, s, p, q, held, sign
          <6>4. (s - q) * e = es - eq
            BY <1>1, <2>1, <2>2, <4>1, Distributes
          <6>5. (-1) * (s - q) = -(s - q) /\ (-(s - q)) * e = -((s - q) * e) /\ 1 * (s - q) = s - q
            BY <1>1, <2>1
          <6> QED
            BY <3>1, <6>3, <6>4, <6>5
        <5>2. CASE s = q
          <6>1. PositionAfter(position, order) = None
            BY <1>1, <1>6, <2>1, <2>5, <5>2 DEF PositionAfter
          <6>2. CostOf(PositionAfter(position, order)) = 0
            BY <6>1 DEF CostOf
          <6>3. es = eq
            BY <2>2, <4>1, <5>2
          <6> QED
            BY <3>1, <6>2, <6>3
        <5> QED
          BY <1>1, <2>1, <3>3, <5>1, <5>2
      <4> HIDE DEF e, s, p, q, held, sign
      <4> QED
        BY <1>4, <2>3, <3>1, <4>2, <4>3 DEF p, q, sign
    <3>4. CASE s < q
      <4>1. PICK ps \in Nat : ps = s * p
        BY <1>1, <2>1, TimesNat
      <4>2. RealizedPnL(position, order) = held * (ps - es)
        <5>1. RealizedPnL(position, order) = held * (p - e) * s
          BY <1>1, <2>1, <3>2, <3>4 DEF Smaller
        <5> HIDE DEF e, s, p, q, held, sign
        <5>2. (p - e) * s = ps - es
          BY <1>1, <2>1, <2>2, <4>1, Distributes
        <5>3. (-1) * (p - e) = -(p - e) /\ (-(p - e)) * s = -((p - e) * s)
          BY <1>1, <2>1
        <5>4. 1 * (p - e) = p - e
          BY <1>1, <2>1
        <5> QED
          BY <3>1, <5>1, <5>2, <5>3, <5>4
      <4>3. CostOf(PositionAfter(position, order)) = sign * (pq - ps)
        <5>1. PositionAfter(position, order) = [side |-> order.side, entryPrice |-> p, size |-> q - s]
          BY <1>1, <1>6, <2>1, <2>5, <3>4 DEF PositionAfter
        <5>2. PositionAfter(position, order) # None
          BY <1>1, <2>1, <3>4, <5>1 DEF Positions
        <5>3. CostOf(PositionAfter(position, order)) = sign * (q - s) * p
          BY <5>1, <5>2 DEF CostOf, SignedPosition
        <5> HIDE DEF e, s, p, q, held, sign
        <5>4. (q - s) * p = pq - ps
          BY <1>1, <1>3, <2>1, <4>1, Distributes
        <5>5. (-1) * (q - s) = -(q - s) /\ (-(q - s)) * p = -((q - s) * p) /\ 1 * (q - s) = q - s
          BY <1>1, <2>1
        <5> QED
          BY <3>1, <5>3, <5>4, <5>5
      <4> HIDE DEF e, s, p, q, held, sign
      <4> QED
        BY <1>4, <2>3, <3>1, <4>2, <4>3 DEF p, q, sign
    <3> QED
      BY <1>1, <2>1, <3>3, <3>4
  <2> QED
    BY <2>4, <2>5
<1> QED
  BY <1>5, <1>6

-----------------------------------------------------------------------------
\* The market price, when there is a candle, is a price of trades.
LEMMA MarketPriceIsTraded ==
  ASSUME TypeOK, NEW s \in Symbol, HasBar(s)
  PROVE  MarketPrice(s) \in TradePrices
  BY DEF TypeOK, HasBar, MarketPrice, TradePrices

\* A call that stores an order of a size and a price of trades.
LEMMA StoreKeepsRequested ==
  ASSUME IInv, Requested, TakesOrderId, NEW order \in Orders, Store(order),
         order.size \in TradeSizes, order.price \in TradePrices
  PROVE  Requested'
<1> HIDE DEF TradeSizes, TradePrices
<1>1. \A id \in OrderId : orders'[id] = order \/ orders'[id] = orders[id]
  BY StoreFacts
<1> QED
  BY Zenon, <1>1 DEF Requested

\* A new order that fills at once, of size and price of trades, is booked.
LEMMA StoredIsBooked ==
  ASSUME IInv, TakesOrderId, NEW order \in Orders, Store(order),
         order.status = "filled", Book(order)
  PROVE  BooksOne
<1>1. /\ orderIdCounter \in OrderId
      /\ orders'[orderIdCounter] = order /\ orders[orderIdCounter] = None
  BY StoreFacts
<1>2. PICK id \in OrderId : id = orderIdCounter
  BY <1>1
<1>3. orders'[id] = order /\ orders[id] = None
  BY <1>1, <1>2
<1>4. Fills(id)
  BY <1>3, NoneAssumption DEF Fills, WasFilled
<1> QED
  BY Zenon, <1>3, <1>4 DEF BooksOne

\* Sizes and prices of the orders that requests lead to.
LEMMA RequestedOrder ==
  ASSUME NEW req \in Request, NEW type, NEW q, NEW price \in TradePrices, NEW filledSize
  PROVE  /\ NewOrder(type, req, price).size \in TradeSizes
         /\ NewOrder(type, req, price).price \in TradePrices
         /\ Filled(NewOrder(type, req, q), price, filledSize).size \in TradeSizes
         /\ Filled(NewOrder(type, req, q), price, filledSize).price \in TradePrices
<1>1. RoundSize(req.size) \in TradeSizes
  BY DEF TradeSizes
<1> HIDE DEF RoundSize, TradeSizes, TradePrices
<1> QED
  BY <1>1 DEF NewOrder, Filled

LEMMA PlaceMarketIsLedger ==
  ASSUME IInv, Requested, NEW req \in Request, PlaceMarket(req)
  PROVE  LedgerFacts
<1> DEFINE price == MarketPrice(req.symbol)
           order == Filled(NewOrder("market", req, price), price, RoundSize(req.size))
<1>1. HasBar(req.symbol) /\ TakesOrderId /\ Store(order) /\ Book(order)
  BY DEF PlaceMarket
<1>2. price \in Nat /\ RoundSize(req.size) \in Nat /\ price \in TradePrices
  BY <1>1, RequestAssumption, MarketPriceType, MarketPriceIsTraded, RoundedIsPositive DEF IInv
<1>3. order \in Orders /\ order.status = "filled"
  BY <1>2, NewOrderType DEF IInv, OrderTypes
<1>4. order.size \in TradeSizes /\ order.price \in TradePrices
  <2> HIDE DEF price
  <2> QED
    BY <1>2, RequestedOrder
<1> HIDE DEF order
<1> QED
  BY <1>1, <1>3, <1>4, StoreKeepsRequested, StoredIsBooked DEF LedgerFacts

LEMMA PlaceLimitIsLedger ==
  ASSUME IInv, Requested, NEW req \in Request, PlaceLimit(req)
  PROVE  LedgerFacts
<1> DEFINE resting == NewOrder("limit", req, req.price)
           taken == Filled(resting, MarketPrice(req.symbol), req.size)
<1>1. HasBar(req.symbol) /\ TakesOrderId
  BY DEF PlaceLimit
<1>2. \/ Store(taken) /\ Book(taken)
      \/ Store(resting) /\ UNCHANGED account
  BY DEF PlaceLimit
<1>3. /\ MarketPrice(req.symbol) \in Nat /\ req.price \in Nat /\ req.size \in Nat
      /\ MarketPrice(req.symbol) \in TradePrices /\ req.price \in TradePrices
  BY <1>1, RequestAssumption, MarketPriceType, MarketPriceIsTraded DEF IInv, TradePrices
<1>4. taken \in Orders /\ taken.status = "filled"
  BY <1>3, NewOrderType DEF IInv, OrderTypes
<1>5. resting \in Orders /\ resting.status = "open"
  BY <1>3, NewOrderType DEF IInv, OrderTypes
<1>6. /\ taken.size \in TradeSizes /\ taken.price \in TradePrices
      /\ resting.size \in TradeSizes /\ resting.price \in TradePrices
  BY <1>3, RequestedOrder
<1> HIDE DEF taken, resting
<1>7. CASE Store(taken) /\ Book(taken)
  BY <1>1, <1>4, <1>6, <1>7, StoreKeepsRequested, StoredIsBooked DEF LedgerFacts
<1>8. CASE Store(resting) /\ UNCHANGED account
  BY <1>1, <1>5, <1>6, <1>8, StoreKeepsRequested DEF LedgerFacts, account
<1> QED
  BY <1>2, <1>7, <1>8

LEMMA PlaceStopMarketIsLedger ==
  ASSUME IInv, Requested, NEW req \in Request, PlaceStopMarket(req)
  PROVE  LedgerFacts
<1> DEFINE order == NewOrder("market", req, req.price)
<1>1. TakesOrderId /\ Store(order) /\ UNCHANGED account
  BY DEF PlaceStopMarket
<1>2. req.price \in Nat /\ req.price \in TradePrices
  BY RequestAssumption DEF TradePrices
<1>3. order \in Orders
  BY <1>2, NewOrderType DEF IInv, OrderTypes
<1>4. order.size \in TradeSizes /\ order.price \in TradePrices
  BY <1>2, RequestedOrder
<1> HIDE DEF order
<1> QED
  BY <1>1, <1>3, <1>4, StoreKeepsRequested DEF LedgerFacts, account

\* Cancelling does not place orders.
LEMMA CancelOfNone ==
  ASSUME IInv, NEW ids \in CancelBatch, CancelOrders(ids), NEW id \in OrderId, orders[id] = None
  PROVE  orders'[id] = None
<1> DEFINE reached == {ids[k] : k \in {k \in DOMAIN ids : \A j \in 1..k : IsPlaced(ids[j])}}
<1>1. id \notin reached
  <2> SUFFICES ASSUME id \in reached
               PROVE  FALSE
    OBVIOUS
  <2>1. PICK k \in DOMAIN ids : id = ids[k] /\ \A j \in 1..k : IsPlaced(ids[j])
    OBVIOUS
  <2>2. DOMAIN ids \subseteq Nat \ {0}
    BY CancelBatchAssumption
  <2>3. IsPlaced(id)
    BY <2>1, <2>2
  <2> QED
    BY <2>3 DEF IsPlaced
<1>2. orders' = [i \in OrderId |-> IF i \in reached THEN [orders[i] EXCEPT !.status = "cancelled"]
                                  ELSE orders[i]]
  BY DEF CancelOrders
<1> HIDE DEF reached
<1> QED
  BY <1>1, <1>2

\* Cancelling changes neither sizes nor prices.
LEMMA CancelOrdersIsLedger ==
  ASSUME IInv, Requested, NEW ids \in CancelBatch, CancelOrders(ids)
  PROVE  LedgerFacts
<1>1. UNCHANGED <<balances, positions>>
  BY DEF CancelOrders, account
<1>2. \A id \in OrderId : \/ orders'[id] = orders[id]
                          \/ orders'[id] = [orders[id] EXCEPT !.status = "cancelled"]
  BY DEF CancelOrders
<1> HIDE DEF TradeSizes, TradePrices
<1>3. ASSUME NEW id \in OrderId, orders'[id] # None
      PROVE  orders'[id].size \in TradeSizes /\ orders'[id].price \in TradePrices
  <2>1. CASE orders[id] = None
    <3>1. orders'[id] = None
      BY <2>1, CancelOfNone
    <3> QED
      BY <1>3, <3>1
  <2>2. CASE orders[id] # None
    <3>1. orders[id] \in Orders /\ orders[id].size \in TradeSizes /\ orders[id].price \in TradePrices
      BY <2>2 DEF IInv, TypeOK, Requested
    <3> QED
      BY <1>2, <3>1 DEF Orders
  <2> QED
    BY <2>1, <2>2
<1>4. Requested'
  BY <1>3 DEF Requested
<1> QED
  BY <1>1, <1>4 DEF LedgerFacts

\* An open order that is touched keeps its size and its price.
LEMMA VisitFillsIsLedger ==
  ASSUME IInv, Requested, VisitFills
  PROVE  LedgerFacts
<1> DEFINE order == orders[cursor]
           filled == Filled(order, order.price, order.size)
<1>1. PICK id \in OrderId : id = cursor
  BY BoundsAssumption DEF VisitFills, IsOpen, IsPlaced
<1>2. /\ orders[id] \in Orders /\ orders[id].status = "open"
      /\ orders[id] = order /\ orders[id] # None
  BY <1>1 DEF VisitFills, IsOpen, IsPlaced, IInv, TypeOK
<1>3. filled \in Orders /\ filled.status = "filled"
  BY <1>2 DEF Filled, Orders, OrderStatuses
<1>4. filled.size = order.size /\ filled.price = order.price
  BY <1>2 DEF Filled, Orders
<1>5. orders' = [orders EXCEPT ![id] = filled] /\ Book(filled)
  BY <1>1 DEF VisitFills
<1> HIDE DEF order, filled
<1>6. /\ orders'[id] = filled
      /\ \A other \in OrderId : other # id => orders'[other] = orders[other]
  BY <1>3, <1>5 DEF IInv, TypeOK
<1> HIDE DEF TradeSizes, TradePrices
<1>7. Requested'
  BY <1>2, <1>4, <1>6 DEF Requested
<1>8. Fills(id)
  BY <1>2, <1>3, <1>6, NoneAssumption DEF Fills, WasFilled
<1>9. BooksOne
  BY Zenon, <1>3, <1>5, <1>6, <1>8 DEF BooksOne
<1> QED
  BY <1>7, <1>9 DEF LedgerFacts

\* Every step keeps the orders as they were asked for, and books one fill or none.
LEMMA NextIsLedger == IInv /\ Requested /\ [Next]_vars => LedgerFacts
<1> SUFFICES ASSUME IInv, Requested, [Next]_vars
             PROVE  LedgerFacts
  OBVIOUS
<1>1. CASE \E req \in Request : PlaceMarket(req) \/ PlaceLimit(req) \/ PlaceStopMarket(req)
  BY <1>1, PlaceMarketIsLedger, PlaceLimitIsLedger, PlaceStopMarketIsLedger
<1>2. CASE \E ids \in CancelBatch : CancelOrders(ids)
  BY <1>2, CancelOrdersIsLedger
<1>3. CASE VisitFills
  BY <1>3, VisitFillsIsLedger
<1>4. CASE UNCHANGED <<orders, balances, positions>>
  BY <1>4 DEF LedgerFacts, Requested
<1>5. CASE \/ \E req \in Request : PlacementThrows(req)
           \/ NextClockBegins \/ VisitPasses \/ VisitThrows
           \/ NextClockEnds \/ ValuationThrows \/ UNCHANGED vars
  <2>1. UNCHANGED <<orders, balances, positions>>
    BY <1>5 DEF PlacementThrows, NextClockBegins, VisitPasses, VisitThrows, NextClockEnds,
                ValuationThrows, vars, account
  <2> QED
    BY <1>4, <2>1
<1> QED
  BY <1>1, <1>2, <1>3, <1>5 DEF Next

-----------------------------------------------------------------------------
\* Symbols that are quoted in a currency.
QuotedIn(c) == {s \in Symbol : Quote[s] = c}

\* Money bound in the positions of some symbols.
Bound(costs, S) == SumFunctionOnSet(costs, S)

\* Costs are whole amounts.
LEMMA CostType ==
  ASSUME NEW position \in Positions \cup {None}
  PROVE  CostOf(position) \in Int
<1>1. CASE position = None
  BY <1>1 DEF CostOf
<1>2. CASE position # None
  <2>1. /\ position.entryPrice \in Nat /\ position.size \in Nat
        /\ Sign(position.side) \in {1, -1}
    BY <1>2 DEF Positions, Sign
  <2>2. \A sign \in {1, -1}, n \in Nat, e \in Nat : sign * n * e \in Int
    OBVIOUS
  <2> QED
    BY <1>2, <2>1, <2>2 DEF CostOf, SignedPosition
<1> QED
  BY <1>1, <1>2

\* Cash of a currency, and that it is the balance less what is bound.
LEMMA CashIs ==
  /\ Cash = [c \in Currency |-> Cash[c]]
  /\ \A c \in Currency :
       Cash[c] = balances[c] - SumFunctionOnSet([s \in QuotedIn(c) |-> CostOf(positions[s])], QuotedIn(c))
<1>1. \A c \in Currency : [s \in QuotedIn(c) |-> Cost(s)] = [s \in QuotedIn(c) |-> CostOf(positions[s])]
  BY DEF Cost, CostOf, Net, SignedPosition
<1>2. \A c \in Currency :
        SumFunction([s \in QuotedIn(c) |-> Cost(s)])
          = SumFunctionOnSet([s \in QuotedIn(c) |-> Cost(s)], QuotedIn(c))
  BY DEF SumFunction
<1>3. Cash = [c \in Currency |-> balances[c] - SumFunction([s \in QuotedIn(c) |-> Cost(s)])]
  BY DEF Cash, QuotedIn
<1> HIDE DEF QuotedIn, Cash
<1> QED
  BY <1>1, <1>2, <1>3

\* A fill of which the average is exact pays its value and its commission in cash.
LEMMA BookMovesCash ==
  ASSUME TypeOK, NEW order \in Orders, Book(order),
         LET position == positions[order.symbol]
         IN  (position # None /\ position.side = order.side) =>
               (position.entryPrice * position.size + order.price * order.size)
                 % (position.size + order.size) = 0
  PROVE  \A c \in Currency :
           Cash'[c] = IF c = Quote[order.symbol]
                      THEN Cash[c] - Sign(order.side) * order.size * order.price - Fee(order)
                      ELSE Cash[c]
<1> DEFINE symbol == order.symbol
           position == positions[symbol]
           after == PositionAfter(position, order)
           pnl == RealizedPnL(position, order)
           fee == Fee(order)
           paid == Sign(order.side) * order.size * order.price
           before(c) == [s \in QuotedIn(c) |-> CostOf(positions[s])]
           later(c) == [s \in QuotedIn(c) |-> CostOf(positions'[s])]
<1>1. symbol \in Symbol /\ Quote[symbol] \in Currency
  BY QuoteAssumption DEF Orders
<1>2. position \in Positions \cup {None}
  BY <1>1 DEF TypeOK
<1>3. after \in Positions \cup {None}
  BY <1>2, PositionAfterType
<1>4. CostOf(after) = CostOf(position) + pnl + paid
  BY <1>2, FillMovesCost
<1>5. pnl \in Int /\ fee \in Int /\ paid \in Int /\ CostOf(position) \in Int /\ CostOf(after) \in Int
  <2>1. pnl \in Int /\ fee \in Int /\ CostOf(position) \in Int /\ CostOf(after) \in Int
    BY <1>2, <1>3, RealizedPnLType, FeeType, CostType
  <2>2. Sign(order.side) \in {1, -1} /\ order.size \in Nat /\ order.price \in Nat
    BY DEF Orders, Sign
  <2>3. \A sign \in {1, -1}, n \in Nat, e \in Nat : sign * n * e \in Int
    OBVIOUS
  <2> QED
    BY <2>1, <2>2, <2>3
<1>6. /\ positions' = [positions EXCEPT ![symbol] = after]
      /\ balances' = [balances EXCEPT ![Quote[symbol]] = @ + pnl - fee]
  BY DEF Book
<1> HIDE DEF after, pnl, fee, paid
<1>7. /\ positions'[symbol] = after
      /\ \A s \in Symbol : s # symbol => positions'[s] = positions[s]
      /\ \A c \in Currency : /\ balances[c] \in Int
                             /\ balances'[c] = IF c = Quote[symbol] THEN balances[c] + pnl - fee
                                               ELSE balances[c]
  BY <1>1, <1>6 DEF TypeOK
<1>8. \A c \in Currency :
        /\ Cash[c] = balances[c] - SumFunctionOnSet(before(c), QuotedIn(c))
        /\ Cash'[c] = balances'[c] - SumFunctionOnSet(later(c), QuotedIn(c))
  <2>1. \A c \in Currency : Cash[c] = balances[c] - SumFunctionOnSet(before(c), QuotedIn(c))
    BY CashIs
  <2>2. \A c \in Currency : Cash'[c] = balances'[c] - SumFunctionOnSet(later(c), QuotedIn(c))
    <3>1. (/\ Cash = [c \in Currency |-> Cash[c]]
           /\ \A c \in Currency :
                Cash[c] = balances[c]
                  - SumFunctionOnSet([s \in QuotedIn(c) |-> CostOf(positions[s])], QuotedIn(c)))'
      BY CashIs, PTL
    <3> HIDE DEF Cash
    <3> QED
      BY <3>1 DEF QuotedIn
  <2> QED
    BY <2>1, <2>2
<1> SUFFICES ASSUME NEW c \in Currency
             PROVE  Cash'[c] = IF c = Quote[symbol] THEN Cash[c] - paid - fee ELSE Cash[c]
  BY DEF paid, fee
<1>9. IsFiniteSet(QuotedIn(c)) /\ QuotedIn(c) \subseteq Symbol
  BY QuoteAssumption, FS_Subset DEF QuotedIn
<1>10. \A s \in QuotedIn(c) : /\ before(c)[s] = CostOf(positions[s]) /\ later(c)[s] = CostOf(positions'[s])
                              /\ before(c)[s] \in Int
  <2>1. \A s \in QuotedIn(c) : positions[s] \in Positions \cup {None}
    BY <1>9 DEF TypeOK
  <2> QED
    BY <2>1, CostType
<1> DEFINE f == before(c)
           g == later(c)
<1>11. PICK sum \in Int : sum = SumFunctionOnSet(f, QuotedIn(c))
  <2> HIDE DEF f
  <2>1. \A s \in QuotedIn(c) : f[s] \in Int
    BY <1>10 DEF f
  <2> QED
    BY <1>9, <2>1, SumInt
<1>12. CASE c = Quote[symbol]
  <2>1. symbol \in QuotedIn(c)
    BY <1>1, <1>12 DEF QuotedIn
  <2>2. /\ f[symbol] = CostOf(position) /\ g[symbol] = CostOf(after)
        /\ \A s \in QuotedIn(c) : f[s] \in Int
        /\ \A s \in QuotedIn(c) \ {symbol} : g[s] = f[s]
    BY <1>7, <1>9, <1>10, <2>1
  <2>3. SumFunctionOnSet(g, QuotedIn(c)) = SumFunctionOnSet(f, QuotedIn(c)) - f[symbol] + g[symbol]
    <3> HIDE DEF f, g, position
    <3> QED
      BY <1>5, <1>9, <2>1, <2>2, SumChanged
  <2>4. /\ Cash[c] = balances[c] - sum
        /\ Cash'[c] = balances'[c] - SumFunctionOnSet(g, QuotedIn(c))
    BY <1>8, <1>11
  <2> HIDE DEF f, g, before, later, position, symbol
  <2>5. SumFunctionOnSet(g, QuotedIn(c)) = sum + pnl + paid
    BY <1>4, <1>5, <1>11, <2>2, <2>3
  <2>6. balances'[c] = balances[c] + pnl - fee /\ balances[c] \in Int
    BY <1>7, <1>12
  <2> HIDE DEF Cash
  <2> QED
    BY <1>5, <1>11, <1>12, <2>4, <2>5, <2>6
<1>13. CASE c # Quote[symbol]
  <2>1. symbol \notin QuotedIn(c)
    BY <1>13 DEF QuotedIn
  <2>2. \A s \in QuotedIn(c) : g[s] = f[s] /\ f[s] \in Int
    BY <1>7, <1>9, <1>10, <2>1
  <2>3. SumFunctionOnSet(g, QuotedIn(c)) = SumFunctionOnSet(f, QuotedIn(c))
    <3> HIDE DEF f, g
    <3> QED
      BY <1>9, <2>2, SumOfEqual
  <2> HIDE DEF before, later, symbol, Cash
  <2> QED
    BY <1>7, <1>8, <1>13, <2>3
<1> QED
  BY <1>12, <1>13

\* A step that changes neither balances nor positions leaves the ledger as it is.
LEMMA QuietLedger ==
  ASSUME UNCHANGED <<balances, positions>>
  PROVE  UNCHANGED Ledger!ledgerVars
  BY DEF Ledger!ledgerVars, Cash, Cost, Net

\* A fill is a trade of the ledger.
LEMMA FillIsTrade ==
  ASSUME IInv, Requested', NEW id \in OrderId, orders'[id] \in Orders, Book(orders'[id]),
         LET order == orders'[id]
             position == positions[order.symbol]
         IN  (position # None /\ position.side = order.side) =>
               (position.entryPrice * position.size + order.price * order.size)
                 % (position.size + order.size) = 0
  PROVE  Ledger!LedgerNext
<1> DEFINE order == orders'[id]
           symbol == order.symbol
           sign == Sign(order.side)
           size == order.size
           price == order.price
           rate == IF order.type = "limit" THEN Maker ELSE Taker
<1>1. /\ symbol \in Symbol /\ sign \in {1, -1} /\ order.side \in Sides
      /\ size \in Nat /\ price \in Nat /\ rate \in {Maker, Taker} /\ rate \in Nat
  BY RateAssumption DEF Orders, Sign
<1>2. size \in TradeSizes /\ price \in TradePrices
  BY NoneAssumption DEF Requested
<1>3. \A c \in Currency :
        Cash'[c] = IF c = Quote[symbol] THEN Cash[c] - sign * size * price - Fee(order) ELSE Cash[c]
  BY BookMovesCash DEF IInv
<1>4. Fee(order) = Ledger!Commission(rate, size, price)
  <2>1. Fee(order) = (rate * price * size) \div 10000
    BY DEF Fee
  <2>2. rate * price * size = rate * size * price
    <3> HIDE DEF rate, size, price
    <3> QED
      BY <1>1
  <2> QED
    BY <2>1, <2>2 DEF Ledger!Commission
<1>5. Cash = [c \in Currency |-> Cash[c]] /\ Cash' = [c \in Currency |-> Cash'[c]]
  BY DEF Cash
<1>6. Quote[symbol] \in Currency
  BY <1>1, QuoteAssumption
<1>7. Cash' = [Cash EXCEPT ![Quote[symbol]] = @ - sign * size * price - Ledger!Commission(rate, size, price)]
  <2> HIDE DEF Cash, order, symbol, sign, size, price, rate
  <2> QED
    BY <1>3, <1>4, <1>5, <1>6
<1>8. \A s \in Symbol : Net(s)' = IF s = symbol THEN Net(s) + SignedSize(order) ELSE Net(s)
  BY BookMoves DEF IInv
<1>9. [s \in Symbol |-> Net(s)]' = [[s \in Symbol |-> Net(s)] EXCEPT ![symbol] = @ + sign * size]
  <2>1. SignedSize(order) = sign * size
    BY DEF SignedSize
  <2> HIDE DEF order, symbol, sign, size
  <2> QED
    BY <1>1, <1>8, <2>1
<1>10. Ledger!TradeAt(symbol, sign, size, price, rate)
  <2> HIDE DEF Cash, order, symbol, sign, size, price, rate
  <2> QED
    BY <1>7, <1>9 DEF Ledger!TradeAt
<1> QED
  <2> HIDE DEF Cash, order, symbol, sign, size, price, rate
  <2> QED
    BY <1>1, <1>2, <1>10 DEF Ledger!LedgerNext, TradeSizes, TradePrices

\* At first nothing is bound.
LEMMA LedgerStarts == Init => Ledger!LedgerInit
<1> SUFFICES ASSUME Init
             PROVE  Ledger!LedgerInit
  OBVIOUS
<1>1. \A c \in Currency : Cash[c] = InitialBalance
  <2> SUFFICES ASSUME NEW c \in Currency
               PROVE  Cash[c] = InitialBalance
    OBVIOUS
  <2> DEFINE f == [s \in QuotedIn(c) |-> CostOf(positions[s])]
  <2>1. Cash[c] = balances[c] - SumFunctionOnSet(f, QuotedIn(c))
    BY CashIs
  <2>2. IsFiniteSet(QuotedIn(c)) /\ QuotedIn(c) \subseteq Symbol
    BY QuoteAssumption, FS_Subset DEF QuotedIn
  <2>3. \A s \in QuotedIn(c) : f[s] = 0
    BY <2>2 DEF Init, CostOf
  <2> HIDE DEF f
  <2>4. SumFunctionOnSet(f, QuotedIn(c)) = 0
    BY <2>2, <2>3, SumOfZeros
  <2>5. balances[c] = InitialBalance
    BY DEF Init
  <2> QED
    BY <2>1, <2>4, <2>5, InitialBalanceAssumption
<1>2. Cash = [c \in Currency |-> InitialBalance]
  <2>1. Cash = [c \in Currency |-> Cash[c]]
    BY CashIs
  <2> HIDE DEF Cash
  <2> QED
    BY <1>1, <2>1
<1>3. [s \in Symbol |-> Net(s)] = [s \in Symbol |-> 0]
  BY DEF Init, Net
<1> QED
  BY <1>2, <1>3 DEF Ledger!LedgerInit

\* The broker implements the ledger, for any sequence of fills of which the averages
\* are exact: averaging, reducing, closing and flipping a position make no money and
\* lose none, and each fill pays its value and its commission once, in its currency.
THEOREM LedgerIsImplemented == RequestsRoundToLots /\ Spec /\ AveragesAreExact => ImplementsLedger
<1> DEFINE Exact ==
      \A id \in OrderId : Fills(id) =>
        LET order == orders'[id]
            position == positions[order.symbol]
        IN  (position # None /\ position.side = order.side) =>
              (position.entryPrice * position.size + order.price * order.size)
                % (position.size + order.size) = 0
<1>1. Init => Requested
  BY DEF Init, Requested
<1>2. IInv /\ Requested /\ [Next]_vars => Requested'
  BY SMTT(30), NextIsLedger DEF LedgerFacts
<1>3. IInv /\ Requested /\ [Next]_vars /\ [Exact]_vars => [Ledger!LedgerNext]_(Ledger!ledgerVars)
  <2> SUFFICES ASSUME IInv, Requested, [Next]_vars, [Exact]_vars
               PROVE  [Ledger!LedgerNext]_(Ledger!ledgerVars)
    OBVIOUS
  <2>1. CASE UNCHANGED <<balances, positions>>
    BY SMTT(30), <2>1, QuietLedger
  <2>2. CASE BooksOne /\ Exact
    <3>1. PICK id \in OrderId : Fills(id) /\ orders'[id] \in Orders /\ Book(orders'[id])
      BY <2>2 DEF BooksOne
    <3>2. Requested'
      BY NextIsLedger DEF LedgerFacts
    <3> QED
      BY ZenonT(40), <2>2, <3>1, <3>2, FillIsTrade
  <2>3. CASE UNCHANGED vars
    BY <2>1, <2>3 DEF vars
  <2> QED
    BY SMTT(30), <2>1, <2>2, <2>3, NextIsLedger DEF LedgerFacts
<1> QED
  BY IInvHolds, LedgerStarts, <1>1, <1>2, <1>3, PTL
     DEF Spec, AveragesAreExact, ImplementsLedger, Ledger!LedgerSpec
=============================================================================
