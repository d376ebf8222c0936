----------------------------- MODULE NeutralGrid ----------------------------
(***************************************************************************)
(* The neutral grid strategy against an exchange: levels 0..Number, each   *)
(* with a long and a short slot; a filled order opens its slot, or closes  *)
(* the farthest opened slot of the other side; two stop orders protect the *)
(* position. One next() runs at a time.                                    *)
(*                                                                         *)
(* An action is the code from one answer of the broker to the next call:   *)
(* between any two the exchange may fill orders when it is live. Prices    *)
(* count half grid intervals, level i is at 2 * i, every order is of size  *)
(* one lot per level. Slots and stops are kept by the side of their order: *)
(* stop["short"] is the lower stop, stop["long"] the upper one.            *)
(***************************************************************************)
EXTENDS Integers, Sequences, FiniteSets, Functions, TradeSides

CONSTANTS Number,      \* number of grids: levels 0..Number
          MaxTrial,    \* trials to place an order
          Config,      \* configurations: [live, stops, trigger]
          Price,       \* prices the market moves between
          ZeroPrice,   \* the price of zero
          StopPrice,   \* [short |-> stopLowerPrice, long |-> stopUpperPrice]
          MaxOrders,   \* bound: the orders accepted, for each configuration
          MaxFaults,   \* bound: answers of a live exchange that get lost
          None

ASSUME NumberAssumption == Number \in Nat \ {0}
ASSUME MaxTrialAssumption == MaxTrial \in Nat \ {0}
ASSUME PriceAssumption == Price \subseteq Int
ASSUME ZeroPriceAssumption == ZeroPrice \in Int /\ ZeroPrice <= 0
ASSUME StopPriceAssumption == StopPrice \in [{"long", "short"} -> Int]
ASSUME MaxOrdersAssumption == MaxOrders \in [Config -> Nat]
ASSUME MaxFaultsAssumption == MaxFaults \in Nat
ASSUME NoneAssumption == None \notin Int
ASSUME ConfigAssumption ==
  Config \subseteq [live : BOOLEAN, stops : BOOLEAN, trigger : Int \cup {None}]

Level == 0..Number
Other(side) == IF side = "long" THEN "short" ELSE "long"
LevelPrice(i) == 2 * i

VARIABLES
  config,
  levels,       \* levels[side][i]: [status, order] of a slot
  position, isTriggered, isTerminated,
  stop,         \* id of the stop order of a side, or None
  started,      \* the strategy's init() has returned
  pc,           \* which answer the strategy waits for
  side,         \* the side being checked or placed
  toCheck,      \* levels still to be checked
  updating,     \* the side of the stop order being updated
  near,         \* the level nearest to the market
  trial,        \* orders tried so far
  market,       \* market price
  orders,       \* orders at the exchange, in the order of their ids
  faults,       \* answers lost so far
  booked,       \* history: orders updatePositionByOrder was called for
  lost          \* history: orders whose id the strategy never learned

grid == <<levels, position, isTriggered, isTerminated, stop>>
local == <<side, toCheck, updating, near, trial>>
exchange == <<market, orders>>
history == <<booked, lost>>
vars == <<config, levels, position, isTriggered, isTerminated, stop, started, pc,
          side, toCheck, updating, near, trial, market, orders, faults, booked, lost>>

Closed == [status |-> "closed", order |-> None]

Init ==
  /\ config \in Config
  /\ levels = [s \in Sides |-> [i \in Level |-> Closed]]
  /\ position = 0
  /\ isTriggered = (config.trigger = None)
  /\ isTerminated = FALSE
  /\ stop = [s \in Sides |-> None]
  /\ started = FALSE
  /\ pc = "trigger"
  /\ side = "short" /\ toCheck = {} /\ updating = "long"
  /\ near = 0 /\ trial = 0
  /\ market \in Price
  /\ orders = <<>>
  /\ faults = 0
  /\ booked = {} /\ lost = {}

-----------------------------------------------------------------------------
(* The exchange.                                                           *)

Between(price, from, to) ==
  (from <= price /\ price <= to) \/ (to <= price /\ price <= from)

\* The market moves and fills every order whose price it crosses. A backtest
\* moves its market only while the strategy is not running.
MarketMoves(to) ==
  /\ to # market
  /\ config.live \/ pc = "idle"
  /\ market' = to
  /\ orders' = [id \in DOMAIN orders |->
                  IF /\ orders[id].status = "open"
                     /\ Between(orders[id].price, market, to)
                  THEN [orders[id] EXCEPT !.status = "filled"]
                  ELSE orders[id]]
  /\ UNCHANGED <<config, grid, started, pc, local, faults, history>>

\* In a backtest the price of one candle may begin away from the end of the last
\* one: the orders in between do not fill.
MarketGaps(to) ==
  /\ to # market
  /\ ~config.live /\ pc = "idle"
  /\ market' = to
  /\ UNCHANGED <<config, grid, started, pc, local, orders, faults, history>>

NewId == Len(orders) + 1
CanAccept == Len(orders) < MaxOrders[config]

\* A level order that would trade at once is post-only at a live exchange, which
\* cancels it; the backtest broker fills it.
StatusAtOnce(kind, orderSide, price) ==
  IF kind = "stop" \/ Sign(orderSide) * (market - price) > 0 THEN "open"
  ELSE IF config.live THEN "cancelled" ELSE "filled"

Accept(kind, orderSide, price, size) ==
  orders' = Append(orders,
    [kind |-> kind, side |-> orderSide, price |-> price, size |-> size,
     status |-> StatusAtOnce(kind, orderSide, price)])

\* A live exchange fails to answer, which the broker reports as null.
Fault ==
  /\ config.live
  /\ faults < MaxFaults
  /\ faults' = faults + 1

-----------------------------------------------------------------------------
(* Steps of the strategy. Each waits at pc for an answer and handles it.   *)

Await(at) == pc' = at

\* next() or init() ends, and its local variables with it. The executor forgets
\* a strategy whose init() throws, and catches what next() throws.
ForgetLocals == side' = "short" /\ toCheck' = {} /\ updating' = "long" /\ near' = 0 /\ trial' = 0
Return == Await("idle") /\ started' = TRUE /\ ForgetLocals
Throw == Await(IF started THEN "idle" ELSE "failed") /\ UNCHANGED started /\ ForgetLocals

\* next() is called: checkStopOrders comes first, unless the grid is over or
\* has not been triggered.
NextStarts ==
  /\ pc = "idle"
  /\ ~isTerminated
  /\ Await(IF isTriggered THEN "checkStop" ELSE "trigger")
  /\ UNCHANGED <<config, grid, started, local, exchange, faults, history>>

\* triggerGrid: goes on to open levels when there is no trigger price, or when
\* the market price is within an interval of it.
IsNearTrigger(price) == config.trigger - 2 < price /\ price < config.trigger + 2

TriggerOpens ==
  /\ pc = "trigger"
  /\ config.trigger # None => IsNearTrigger(market)
  /\ Await("market")
  /\ UNCHANGED <<config, grid, started, local, exchange, faults, history>>

TriggerWaits ==
  /\ pc = "trigger"
  /\ config.trigger # None /\ ~IsNearTrigger(market)
  /\ Return
  /\ UNCHANGED <<config, grid, exchange, faults, history>>

\* The market price is null, which compares like zero.
TriggerIsUnknown ==
  /\ pc = "trigger"
  /\ config.trigger # None
  /\ Fault
  /\ IF IsNearTrigger(ZeroPrice)
     THEN Await("market") /\ UNCHANGED <<started, local>>
     ELSE Return
  /\ UNCHANGED <<config, grid, exchange, history>>

\* getNearestLevel, halves rounded up.
Nearest(price) ==
  IF price <= LevelPrice(0) THEN 0
  ELSE IF price >= LevelPrice(Number) THEN Number
  ELSE (price + 1) \div 2

\* openLevelsNearMarketPrice learns the market price.
MarketIsRead ==
  /\ pc = "market"
  /\ near' = Nearest(market)
  /\ side' = "long" /\ trial' = 0
  /\ Await("place")
  /\ UNCHANGED <<config, grid, started, toCheck, updating, exchange, faults, history>>

\* It gets null instead: the lowest level is nearest.
MarketIsUnknown ==
  /\ pc = "market"
  /\ Fault
  /\ near' = Nearest(ZeroPrice)
  /\ side' = "long" /\ trial' = 0
  /\ Await("place")
  /\ UNCHANGED <<config, grid, started, toCheck, updating, exchange, history>>

Status(s, i) == levels[s][i].status
Target == IF side = "long" THEN near - 1 ELSE near + 1

\* Whether an order is due at the level below (long) or above (short).
IsDue ==
  /\ Target \in Level
  /\ \/ Status("long", Target) = "closed" /\ Status("short", Target) = "closed"
     \/ Status(Other(side), near) = "opened" /\ Status(side, Target) = "closed"

\* After the long side comes the short one; after that the grid is triggered.
SideDone ==
  \/ /\ side = "long"
     /\ side' = "short" /\ trial' = 0
     /\ Await("place")
     /\ UNCHANGED <<isTriggered, started, toCheck, updating, near>>
  \/ /\ side = "short"
     /\ isTriggered' = TRUE
     /\ Return

\* Mutant of TrialFails: the trials are not counted.
TrialFailsUncounted ==
  /\ Await("place")
  /\ UNCHANGED <<isTriggered, started, side, toCheck, updating, near, trial>>

\* The last trial is over, or another one follows.
TrialFails ==
  IF trial + 1 = MaxTrial THEN SideDone
  ELSE /\ trial' = trial + 1
       /\ Await("place")
       /\ UNCHANGED <<isTriggered, started, side, toCheck, updating, near>>

NothingDue ==
  /\ pc = "place"
  /\ trial = 0 /\ ~IsDue
  /\ SideDone
  /\ UNCHANGED <<config, levels, position, isTerminated, stop, exchange, faults, history>>

Placing == pc = "place" /\ (trial > 0 \/ IsDue)

\* placeGTXLong or placeGTXShort answers with an order: setLevelOpening.
LevelOrderPlaced ==
  /\ Placing /\ CanAccept
  /\ Accept("level", side, LevelPrice(Target), 1)
  /\ levels' = [levels EXCEPT ![side][Target] = [status |-> "opening", order |-> NewId]]
  /\ Await("placed")
  /\ UNCHANGED <<config, position, isTriggered, isTerminated, stop, started, side, toCheck, updating,
                 near, trial, market, faults, history>>

\* It answers null: the exchange refused the order (it always does at MaxOrders).
LevelOrderRefused ==
  /\ Placing
  /\ IF CanAccept THEN Fault ELSE UNCHANGED faults
  /\ TrialFails
  /\ UNCHANGED <<config, levels, position, isTerminated, stop, exchange, history>>

\* It answers null although the exchange took the order: the answer was lost.
LevelOrderAnswerLost ==
  /\ Placing /\ CanAccept
  /\ Fault
  /\ Accept("level", side, LevelPrice(Target), 1)
  /\ lost' = lost \cup {NewId}
  /\ TrialFails
  /\ UNCHANGED <<config, levels, position, isTerminated, stop, market, booked>>

\* Mutant of IsRetried: an order filled by now is placed again.
IsRetriedUnlessOpen(id) == orders[id].status # "open"

\* getOrder answers for the order just placed: try again if it is cancelled.
IsRetried(id) == orders[id].status = "cancelled"

LevelOrderConfirmed ==
  /\ pc = "placed"
  /\ ~IsRetried(levels[side][Target].order)
  /\ SideDone
  /\ UNCHANGED <<config, levels, position, isTerminated, stop, exchange, faults, history>>

LevelOrderCancelled ==
  /\ pc = "placed"
  /\ IsRetried(levels[side][Target].order)
  /\ TrialFails
  /\ UNCHANGED <<config, levels, position, isTerminated, stop, exchange, faults, history>>

\* A stop order of a side is wanted while the position is on the other side.
StopSize == -Sign(updating) * position
StopIsWanted == config.stops /\ StopSize > 0

\* getOrder answers null where the code reads a status: a TypeError. The same
\* at every place that asks without a test for null.
AnswerIsMissing ==
  /\ pc \in {"placed", "updateStop", "stopPlaced"}
  /\ pc = "updateStop" => StopIsWanted /\ stop[updating] # None
  /\ Fault
  /\ Throw
  /\ UNCHANGED <<config, grid, exchange, history>>

-----------------------------------------------------------------------------
(* checkStopOrders, checkOpeningLongLevels and checkOpeningShortLevels.    *)

OpeningLevels(s) == {i \in Level : Status(s, i) = "opening"}
OpenedLevels(s) == {i \in Level : Status(s, i) = "opened"}

\* The lower stop is checked before the upper one, then the long levels.
StopChecked ==
  \/ /\ side = "short"
     /\ side' = "long"
     /\ UNCHANGED <<pc, toCheck>>
  \/ /\ side = "long"
     /\ UNCHANGED side
     /\ toCheck' = OpeningLevels("long")
     /\ Await("checkLevels")

ClearStop(s) == stop' = [stop EXCEPT ![s] = None]

\* getOrder answers that the stop order is filled: it is booked and forgotten.
StopIsFilled ==
  /\ pc = "checkStop"
  /\ stop[side] # None
  /\ orders[stop[side]].status = "filled"
  /\ position' = position + Sign(side) * orders[stop[side]].size
  /\ booked' = booked \cup {stop[side]}
  /\ ClearStop(side)
  /\ StopChecked
  /\ UNCHANGED <<config, levels, isTriggered, isTerminated, started, updating, near,
                 trial, exchange, faults, lost>>

\* There is no stop order, or it is not filled.
StopIsNotFilled ==
  /\ pc = "checkStop"
  /\ stop[side] # None => orders[stop[side]].status # "filled"
  /\ StopChecked
  /\ UNCHANGED <<config, grid, started, updating, near, trial, exchange,
                 faults, history>>

\* getOrder answers null, which checkStopOrders logs.
StopIsMissing ==
  /\ pc = "checkStop"
  /\ stop[side] # None
  /\ Fault
  /\ StopChecked
  /\ UNCHANGED <<config, grid, started, updating, near, trial, exchange, history>>

\* Long levels are checked from the highest, short levels from the lowest.
IsNextToCheck(i) ==
  /\ pc = "checkLevels"
  /\ i \in toCheck
  /\ \A j \in toCheck : Sign(side) * (i - j) >= 0

\* Mutant of Closable: the next level is passed over.
ClosableBeyondNext(s, i) == {j \in OpenedLevels(Other(s)) : Sign(s) * (j - i) > 1}

\* Opened slots of the other side that an order of side s at level i closes:
\* a long one closes shorts above, a short one longs below.
Closable(s, i) == {j \in OpenedLevels(Other(s)) : Sign(s) * (j - i) > 0}

\* getLongLevelToCloseAt, getShortLevelToCloseAt: the farthest of them.
IsFarthest(s, j, candidates) ==
  /\ j \in candidates
  /\ \A k \in candidates : Sign(s) * (j - k) >= 0

\* Mutants of Match: one resets only the status, the other leaves the slot of
\* the filled order opened.
MatchKeepingIds(i, j) ==
  levels' = [levels EXCEPT ![side][i].status = "closed", ![Other(side)][j].status = "closed"]

MatchLeavingFilled(i, j) ==
  levels' = [levels EXCEPT ![side][i].status = "opened", ![Other(side)][j] = Closed]

\* The order at level i closes the opened slot at level j: both are closed.
Match(i, j) ==
  levels' = [levels EXCEPT ![side][i] = Closed, ![Other(side)][j] = Closed]

\* getOrder answers that the order at the level is filled: the level opens, or
\* closes together with the one it closes; the stop orders are updated next.
LevelIsFilled(i) ==
  LET id == levels[side][i].order
      candidates == Closable(side, i)
  IN  /\ IsNextToCheck(i)
      /\ orders[id].status = "filled"
      /\ position' = position + Sign(side) * orders[id].size
      /\ booked' = booked \cup {id}
      /\ \/ /\ candidates = {}
            /\ levels' = [levels EXCEPT ![side][i].status = "opened"]
         \/ \E j \in Level : IsFarthest(side, j, candidates) /\ Match(i, j)
      /\ toCheck' = toCheck \ {i}
      /\ Await("updateStop")
      /\ UNCHANGED <<config, isTriggered, isTerminated, stop, started, side, updating, near,
                     trial, exchange, faults, lost>>

LevelIsNotFilled(i) ==
  /\ IsNextToCheck(i)
  /\ orders[levels[side][i].order].status # "filled"
  /\ toCheck' = toCheck \ {i}
  /\ UNCHANGED <<config, grid, started, pc, side, updating, near, trial,
                 exchange, faults, history>>

\* getOrder answers null, which the check logs.
LevelIsMissing(i) ==
  /\ IsNextToCheck(i)
  /\ Fault
  /\ toCheck' = toCheck \ {i}
  /\ UNCHANGED <<config, grid, started, pc, side, updating, near, trial,
                 exchange, history>>

\* After the long levels come the short ones, then new orders near the market.
LevelsChecked ==
  /\ pc = "checkLevels"
  /\ toCheck = {}
  /\ \/ /\ side = "long"
        /\ side' = "short"
        /\ toCheck' = OpeningLevels("short")
        /\ UNCHANGED pc
     \/ /\ side = "short"
        /\ Await("market")
        /\ UNCHANGED <<side, toCheck>>
  /\ UNCHANGED <<config, grid, started, updating, near, trial, exchange,
                 faults, history>>

-----------------------------------------------------------------------------
(* updateStopUpperOrder, then updateStopLowerOrder.                        *)

\* Mutant of StopFits: any open stop order will do.
StopFitsAnySize ==
  /\ stop[updating] # None
  /\ orders[stop[updating]].status = "open"

StopUpdated ==
  /\ trial' = 0
  /\ \/ /\ updating = "long"
        /\ updating' = "short"
        /\ Await("updateStop")
     \/ /\ updating = "short"
        /\ updating' = "long"
        /\ Await("checkLevels")

StopFits ==
  /\ stop[updating] # None
  /\ orders[stop[updating]].status = "open"
  /\ orders[stop[updating]].size = StopSize

\* No stop order is wanted, or the open one has the size of the position.
StopStays ==
  /\ pc = "updateStop"
  /\ StopIsWanted => StopFits
  /\ StopUpdated
  /\ UNCHANGED <<config, grid, started, side, toCheck, near, exchange,
                 faults, history>>

\* The open stop order has another size: cancel it first.
StopIsStale ==
  /\ pc = "updateStop"
  /\ StopIsWanted
  /\ stop[updating] # None
  /\ orders[stop[updating]].status = "open"
  /\ orders[stop[updating]].size # StopSize
  /\ Await("cancelStop")
  /\ UNCHANGED <<config, grid, started, local, exchange, faults, history>>

\* There is no open stop order: place one.
StopIsAbsent ==
  /\ pc = "updateStop"
  /\ StopIsWanted
  /\ stop[updating] # None => orders[stop[updating]].status # "open"
  /\ Await("placeStop")
  /\ UNCHANGED <<config, grid, started, side, toCheck, updating, near, trial, exchange,
                 faults, history>>

CancelAtExchange(id) ==
  orders' = [orders EXCEPT ![id].status = IF @ = "open" THEN "cancelled" ELSE @]

\* cancelOrder of the backtest broker. Its answer is not used.
StopIsCancelled ==
  /\ pc = "cancelStop"
  /\ ~config.live
  /\ CancelAtExchange(stop[updating])
  /\ Await("placeStop")
  /\ UNCHANGED <<config, grid, started, side, toCheck, updating, near, trial, market,
                 faults, history>>

\* cancelOrder of Binance's adapter does not reach trigger orders, nor does the request
\* with which it then asks for the order: it throws each time, and the stop order stays.
StopCancelThrows ==
  /\ pc = "cancelStop"
  /\ config.live
  /\ Throw
  /\ UNCHANGED <<config, grid, exchange, faults, history>>

StopTrialFails ==
  IF trial + 1 = MaxTrial THEN StopUpdated
  ELSE trial' = trial + 1 /\ UNCHANGED <<pc, updating>>

\* A live broker places no stop order at the very market price: it answers null.
CanPlaceStop == CanAccept /\ (config.live => market # StopPrice[updating])

StopIsPlaced ==
  /\ pc = "placeStop"
  /\ CanPlaceStop
  /\ Accept("stop", updating, StopPrice[updating], StopSize)
  /\ stop' = [stop EXCEPT ![updating] = NewId]
  /\ Await("stopPlaced")
  /\ UNCHANGED <<config, levels, position, isTriggered, isTerminated, started, side,
                 toCheck, updating, near, trial, market, faults, history>>

StopIsRefused ==
  /\ pc = "placeStop"
  /\ IF CanPlaceStop THEN Fault ELSE UNCHANGED faults
  /\ StopTrialFails
  /\ UNCHANGED <<config, grid, started, side, toCheck, near, exchange, history>>

\* The exchange took the stop order, but the answer was lost.
StopAnswerLost ==
  /\ pc = "placeStop"
  /\ CanPlaceStop
  /\ Fault
  /\ Accept("stop", updating, StopPrice[updating], StopSize)
  /\ lost' = lost \cup {NewId}
  /\ StopTrialFails
  /\ UNCHANGED <<config, grid, started, side, toCheck, near, market, booked>>

\* getOrder answers for the stop order just placed. (Only the strategy cancels
\* stop orders, so that it is never cancelled here.)
StopIsConfirmed ==
  /\ pc = "stopPlaced"
  /\ StopUpdated
  /\ UNCHANGED <<config, grid, started, side, toCheck, near, exchange,
                 faults, history>>

-----------------------------------------------------------------------------
OpenLevelsNearMarketPrice ==
  \/ MarketIsRead \/ MarketIsUnknown \/ NothingDue
  \/ LevelOrderPlaced \/ LevelOrderRefused \/ LevelOrderAnswerLost
  \/ LevelOrderConfirmed \/ LevelOrderCancelled

CheckOrders ==
  \/ StopIsFilled \/ StopIsNotFilled \/ StopIsMissing
  \/ \E i \in Level : LevelIsFilled(i) \/ LevelIsNotFilled(i) \/ LevelIsMissing(i)
  \/ LevelsChecked

UpdateStops ==
  \/ StopStays \/ StopIsStale \/ StopIsAbsent
  \/ StopIsCancelled \/ StopCancelThrows
  \/ StopIsPlaced \/ StopIsRefused \/ StopAnswerLost \/ StopIsConfirmed

\* A step of init() or next() in progress.
Step ==
  \/ TriggerOpens \/ TriggerWaits \/ TriggerIsUnknown \/ AnswerIsMissing
  \/ OpenLevelsNearMarketPrice \/ CheckOrders \/ UpdateStops

Next ==
  \/ \E to \in Price : MarketMoves(to) \/ MarketGaps(to)
  \/ NextStarts
  \/ Step

\* Every call of the broker returns: an answer, or null. (Nothing has to call next().)
Fairness == WF_vars(Step)

Spec == Init /\ [][Next]_vars /\ Fairness

-----------------------------------------------------------------------------
OrderIds == DOMAIN orders

Order == [kind : {"level", "stop"}, side : Sides, price : Int, size : Int,
          status : {"open", "filled", "cancelled"}]
Slot == [status : {"opening", "opened", "closed"}, order : Nat \cup {None}]

\* A slot refers to an order of its own side exactly while it is not closed.
SlotHasOrder(s, i) ==
  LET id == levels[s][i].order
  IN  IF Status(s, i) = "closed" THEN id = None
      ELSE id \in OrderIds /\ orders[id].kind = "level" /\ orders[id].side = s

StopIsOrder(s) ==
  stop[s] # None =>
    stop[s] \in OrderIds /\ orders[stop[s]].kind = "stop" /\ orders[stop[s]].side = s

LocalsOK ==
  /\ pc \in {"idle", "failed", "trigger", "market", "place", "placed", "checkStop",
             "checkLevels", "updateStop", "cancelStop", "placeStop", "stopPlaced"}
  /\ started \in BOOLEAN /\ isTriggered \in BOOLEAN
  /\ side \in Sides /\ updating \in Sides
  /\ toCheck \subseteq Level /\ near \in Level
  /\ trial \in 0..(MaxTrial - 1)

OrdersOK ==
  /\ orders \in Seq(Order)
  /\ levels \in [Sides -> [Level -> Slot]]
  /\ \A s \in Sides, i \in Level : SlotHasOrder(s, i)
  /\ stop \in [Sides -> Nat \cup {None}]
  /\ \A s \in Sides : StopIsOrder(s)
  /\ booked \subseteq OrderIds /\ lost \subseteq OrderIds

\* Every variable has its type; slots (state_manager.ts) and stops refer to orders
\* of their own kind and side, a slot exactly while it is not closed.
TypeOK ==
  /\ config \in Config
  /\ position \in Int /\ market \in Int
  /\ isTerminated \in BOOLEAN
  /\ faults \in 0..MaxFaults
  /\ LocalsOK
  /\ OrdersOK

Signed == [id \in OrderIds |-> Sign(orders[id].side) * orders[id].size]
SumSigned(ids) == SumFunctionOnSet(Signed, ids)

Filled == {id \in OrderIds : orders[id].status = "filled"}
LevelOrders == {id \in OrderIds : orders[id].kind = "level"}
OpeningOrders == UNION {{levels[s][i].order : i \in OpeningLevels(s)} : s \in Sides}

\* The position the grid believes in is the sum of the fills it has booked, each
\* booked once.
PositionIsBookedFills ==
  booked \subseteq Filled /\ position = SumSigned(booked)

\* No fill of a level order is lost or counted twice: a filled order has been
\* booked, or its level still waits for it, or its id never reached the strategy.
LevelFillsAreTracked ==
  \A id \in (Filled \cap LevelOrders) \ lost : (id \in booked) # (id \in OpeningOrders)

\* The same for stop orders in a backtest. (Live, a stop order can fill between
\* two looks at it, and the new one replaces its id.)
StopFillsAreTracked ==
  ~config.live =>
    \A id \in Filled \ LevelOrders : id \in booked \/ id \in {stop[s] : s \in Sides}

\* No stray orders: a level order open at the exchange is the one its level
\* waits for, so that a level never has two orders working at once.
NoStrayLevelOrders ==
  \A id \in LevelOrders \ lost : orders[id].status = "open" => id \in OpeningOrders

\* The grid accounts for every fill, and for every order it works: placeLongOrderAt,
\* checkOpeningLongLevels, checkStopOrders and updateStopLowerOrder, each with its twin.
FillsAreTracked == LevelFillsAreTracked /\ StopFillsAreTracked /\ NoStrayLevelOrders

\* Levels explain the position: opened longs less opened shorts, and what
\* stop orders have closed since.
LevelsExplainPosition ==
  position = Cardinality(OpenedLevels("long")) - Cardinality(OpenedLevels("short"))
               + SumSigned(booked \ LevelOrders)

\* The position of StateManager is what the exchange has filled, and what its levels say.
PositionIsExplained == PositionIsBookedFills /\ LevelsExplainPosition

\* Profit is taken whenever it can be: no opened long lies below an opened short.
NoUnmatchedPair ==
  \A i \in OpenedLevels("long"), j \in OpenedLevels("short") : ~(i < j)

\* In a backtest, once a fill of a level has been handled, the position has an
\* open stop order of its very size on the other side (updateStopUpperOrder,
\* updateStopLowerOrder). Below MaxOrders nothing has been refused.
IsProtected(s) ==
  -Sign(s) * position > 0 =>
    /\ stop[s] # None
    /\ orders[stop[s]].size = -Sign(s) * position
    /\ orders[stop[s]].status = "open"

FillsAreProtected ==
  [][(/\ config.stops /\ ~config.live
      /\ pc \in {"updateStop", "placeStop", "stopPlaced"} /\ pc' = "checkLevels"
      /\ Len(orders)' < MaxOrders[config])
     => (\A s \in Sides : IsProtected(s))']_vars

\* Every init() and next() comes to an end, whatever is refused or cancelled.
CallsEnd == pc \notin {"idle", "failed"} ~> pc \in {"idle", "failed"}

\* state.ts: an OPENING "Level contains an open order" (or one filled since).
OpeningLevelHasOrder ==
  pc = "idle" => \A id \in OpeningOrders : orders[id].status # "cancelled"
=============================================================================
