-------------------------- MODULE NeutralGridProofs -------------------------
(***************************************************************************)
(* Proofs about the neutral grid, for any number of levels, trials, orders *)
(* and faults, any configurations and prices: types, that profit is taken  *)
(* whenever it can be, that every fill is tracked, that the fills and the  *)
(* levels explain the position, and that stop orders protect it.           *)
(***************************************************************************)
EXTENDS NeutralGrid, DataLemmas, TLAPS

\* The code checks levels, or updates stop orders in between.
Checking == {"checkLevels", "updateStop", "cancelStop", "placeStop", "stopPlaced"}

\* What is still to be checked is opening, and is empty outside of the checks.
ToCheckIsOpening ==
  /\ \A i \in toCheck : Status(side, i) = "opening"
  /\ pc \notin Checking => toCheck = {}

\* The inductive invariant: TypeOK needs ToCheckIsOpening (a level that opens has
\* an order), NoUnmatchedPair needs the types.
IInv == TypeOK /\ ToCheckIsOpening /\ NoUnmatchedPair

USE NumberAssumption, MaxTrialAssumption, PriceAssumption, StopPriceAssumption,
    MaxFaultsAssumption, NoneAssumption

-----------------------------------------------------------------------------
\* Orders are only added, and keep their kind and side.
OrdersGrow ==
  /\ orders' \in Seq(Order)
  /\ \A id \in OrderIds :
       /\ id \in OrderIds'
       /\ orders'[id].kind = orders[id].kind
       /\ orders'[id].side = orders[id].side

\* Orders at the exchange are orders.
LEMMA OrderTypes ==
  ASSUME OrdersOK, NEW id \in OrderIds
  PROVE  orders[id] \in Order /\ orders[id].size \in Int
<1>1. orders[id] \in Order
  BY DEF OrdersOK, OrderIds
<1> QED
  BY <1>1 DEF Order

\* An accepted order is the last one, and the others stay as they are.
LEMMA Accepted ==
  ASSUME OrdersOK, NEW kind \in {"level", "stop"}, NEW s \in Sides,
         NEW price \in Int, NEW size \in Int, Accept(kind, s, price, size)
  PROVE  /\ OrdersGrow
         /\ NewId \in OrderIds' /\ NewId \in Nat
         /\ orders'[NewId].kind = kind /\ orders'[NewId].side = s
<1> DEFINE order == [kind |-> kind, side |-> s, price |-> price, size |-> size,
                     status |-> StatusAtOnce(kind, s, price)]
<1>1. order \in Order
  BY DEF Order, StatusAtOnce
<1>2. orders' = Append(orders, order) /\ orders \in Seq(Order)
  BY DEF Accept, OrdersOK
<1> HIDE DEF order
<1>3. /\ orders' \in Seq(Order) /\ Len(orders) \in Nat
      /\ DOMAIN orders = 1..Len(orders) /\ DOMAIN orders' = 1..(Len(orders) + 1)
      /\ \A id \in 1..Len(orders) : orders'[id] = orders[id]
      /\ orders'[Len(orders) + 1] = order
  BY <1>1, <1>2
<1> QED
  BY <1>3 DEF OrdersGrow, OrderIds, NewId, order

\* Orders that only change their status have grown, too.
LEMMA StatusChanged ==
  ASSUME OrdersOK, DOMAIN orders' = DOMAIN orders, 
         orders' = [id \in DOMAIN orders |-> orders'[id]],
         \A id \in DOMAIN orders :
           \/ orders'[id] = orders[id]
           \/ \E status \in {"open", "filled", "cancelled"} :
                orders'[id] = [orders[id] EXCEPT !.status = status]
  PROVE  OrdersGrow
<1>1. orders \in Seq(Order) /\ Len(orders) \in Nat /\ DOMAIN orders = 1..Len(orders)
  BY DEF OrdersOK
<1>2. \A id \in DOMAIN orders : orders[id] \in Order
  BY <1>1
<1>3. \A id \in DOMAIN orders :
        /\ orders'[id] \in Order
        /\ orders'[id].kind = orders[id].kind
        /\ orders'[id].side = orders[id].side
  BY <1>2 DEF Order
<1>4. orders' \in [1..Len(orders) -> Order]
  BY <1>1, <1>3
<1>5. orders' \in Seq(Order)
  BY <1>1, <1>4
<1> QED
  BY <1>3, <1>5 DEF OrdersGrow, OrderIds

\* Slots and stops that stay refer to their orders as before.
LEMMA ReferencesStay ==
  ASSUME OrdersOK, OrdersGrow \/ UNCHANGED orders, UNCHANGED <<levels, stop>>,
         booked' \subseteq booked, lost' \subseteq lost \cup (OrderIds' \ OrderIds)
  PROVE  OrdersOK'
<1>1. OrdersGrow
  BY DEF OrdersGrow, OrdersOK, OrderIds
<1>2. \A s \in Sides, i \in Level : SlotHasOrder(s, i)'
  BY SMTT(30), <1>1 DEF OrdersGrow, OrdersOK, SlotHasOrder, Status
<1>3. \A s \in Sides : StopIsOrder(s)'
  BY <1>1 DEF OrdersGrow, OrdersOK, StopIsOrder
<1>4. booked' \subseteq OrderIds' /\ lost' \subseteq OrderIds'
  BY <1>1 DEF OrdersGrow, OrdersOK
<1> QED
  BY <1>1, <1>2, <1>3, <1>4 DEF OrdersGrow, OrdersOK

-----------------------------------------------------------------------------
\* A lost answer keeps the number of faults in its bound.
LEMMA FaultCounts ==
  ASSUME TypeOK, Fault
  PROVE  faults' \in 0..MaxFaults
  BY DEF TypeOK, Fault

\* The end of a call, of a side and of a trial leave proper local variables, with
\* nothing to check.
LEMMA CallEnds ==
  ASSUME LocalsOK, Return \/ Throw, UNCHANGED isTriggered
  PROVE  LocalsOK' /\ toCheck' = {}
<1>1. 0 \in Level /\ 0 \in 0..(MaxTrial - 1)
  BY DEF Level
<1>2. /\ side' = "short" /\ toCheck' = {} /\ updating' = "long"
      /\ near' = 0 /\ trial' = 0 /\ started' \in BOOLEAN /\ isTriggered' \in BOOLEAN
  BY DEF LocalsOK, Return, Throw, ForgetLocals
<1>3. pc' \in {"idle", "failed"}
  BY DEF Return, Throw, Await
<1> QED
  BY <1>1, <1>2, <1>3 DEF LocalsOK, Sides

LEMMA SideEnds ==
  ASSUME LocalsOK, toCheck = {}, SideDone
  PROVE  LocalsOK' /\ toCheck' = {}
<1>1. 0 \in Level /\ 0 \in 0..(MaxTrial - 1)
  BY DEF Level
<1>2. CASE side = "long"
  BY <1>1, <1>2 DEF LocalsOK, SideDone, Await, Sides
<1>3. CASE side = "short"
  <2>1. /\ side' = "short" /\ toCheck' = {} /\ updating' = "long" /\ near' = 0
        /\ trial' = 0 /\ started' = TRUE /\ isTriggered' = TRUE /\ pc' = "idle"
    BY <1>3 DEF SideDone, Return, ForgetLocals, Await
  <2> QED
    BY <1>1, <2>1 DEF LocalsOK, Sides
<1> QED
  BY <1>2, <1>3 DEF LocalsOK, Sides

LEMMA TrialEnds ==
  ASSUME LocalsOK, toCheck = {}, TrialFails
  PROVE  LocalsOK' /\ toCheck' = {}
<1>1. CASE trial + 1 = MaxTrial
  BY <1>1, SideEnds DEF TrialFails
<1>2. CASE trial + 1 # MaxTrial
  BY <1>2 DEF TrialFails, LocalsOK, Await
<1> QED
  BY <1>1, <1>2

\* The nearest level exists.
LEMMA NearestIsLevel ==
  ASSUME NEW price \in Int
  PROVE  Nearest(price) \in Level
  BY DEF Nearest, Level, LevelPrice

\* A step that only waits, asks or decides keeps the invariant if it keeps the
\* local variables in order.
LEMMA QuietStep ==
  ASSUME IInv,
         UNCHANGED <<config, levels, stop, orders, position, isTerminated, booked, lost>>,
         market' \in Int, faults' \in 0..MaxFaults, LocalsOK', ToCheckIsOpening'
  PROVE  IInv'
<1>1. OrdersOK'
  BY ReferencesStay DEF IInv, TypeOK
<1>2. NoUnmatchedPair'
  BY DEF IInv, NoUnmatchedPair, OpenedLevels, Status
<1> QED
  BY <1>1, <1>2 DEF IInv, TypeOK

\* triggerGrid.
LEMMA TriggerKeepsIInv ==
  ASSUME IInv, NextStarts \/ TriggerOpens \/ TriggerWaits \/ TriggerIsUnknown
  PROVE  IInv'
<1> USE DEF grid, local, exchange, history
<1>0. TypeOK /\ LocalsOK /\ ToCheckIsOpening
  BY DEF IInv, TypeOK
<1>1. CASE NextStarts
  <2>1. LocalsOK' /\ ToCheckIsOpening'
    BY <1>0, <1>1 DEF NextStarts, LocalsOK, ToCheckIsOpening, Checking, Await, Status
  <2> QED
    BY <1>0, <1>1, <2>1, QuietStep DEF NextStarts, TypeOK
<1>2. CASE TriggerOpens
  <2>1. LocalsOK' /\ ToCheckIsOpening'
    BY <1>0, <1>2 DEF TriggerOpens, LocalsOK, ToCheckIsOpening, Checking, Await, Status
  <2> QED
    BY <1>0, <1>2, <2>1, QuietStep DEF TriggerOpens, TypeOK
<1>3. CASE TriggerWaits
  <2>1. LocalsOK' /\ ToCheckIsOpening'
    BY <1>0, <1>3, CallEnds DEF TriggerWaits, ToCheckIsOpening
  <2> QED
    BY <1>0, <1>3, <2>1, QuietStep DEF TriggerWaits, TypeOK
<1>4. CASE TriggerIsUnknown
  <2>1. LocalsOK' /\ ToCheckIsOpening'
    <3>1. CASE Return
      BY <1>0, <1>4, <3>1, CallEnds DEF TriggerIsUnknown, ToCheckIsOpening
    <3>2. CASE Await("market") /\ UNCHANGED <<started, local>>
      BY <1>0, <1>4, <3>2 DEF TriggerIsUnknown, LocalsOK, ToCheckIsOpening, Checking, Await, Status
    <3> QED
      BY <1>4, <3>1, <3>2 DEF TriggerIsUnknown
  <2> QED
    BY <1>0, <1>4, <2>1, QuietStep, FaultCounts DEF TriggerIsUnknown, TypeOK
<1> QED
  BY <1>1, <1>2, <1>3, <1>4

\* openLevelsNearMarketPrice, without a new order.
LEMMA AskingKeepsIInv ==
  ASSUME IInv,
         \/ MarketIsRead \/ MarketIsUnknown \/ NothingDue
         \/ LevelOrderRefused \/ LevelOrderConfirmed \/ LevelOrderCancelled
         \/ AnswerIsMissing
  PROVE  IInv'
<1> USE DEF grid, local, exchange, history
<1>0. TypeOK /\ LocalsOK /\ ToCheckIsOpening
  BY DEF IInv, TypeOK
<1>1. CASE MarketIsRead \/ MarketIsUnknown
  <2>1. near' \in Level
    BY <1>0, <1>1, NearestIsLevel, ZeroPriceAssumption DEF MarketIsRead, MarketIsUnknown, TypeOK
  <2>2. LocalsOK' /\ ToCheckIsOpening'
    BY <1>0, <1>1, <2>1
       DEF MarketIsRead, MarketIsUnknown, LocalsOK, ToCheckIsOpening, Checking, Await, Sides
  <2> QED
    BY <1>0, <1>1, <2>2, QuietStep, FaultCounts DEF MarketIsRead, MarketIsUnknown, TypeOK
<1>2. CASE NothingDue \/ LevelOrderConfirmed
  <2>1. LocalsOK' /\ ToCheckIsOpening'
    BY <1>0, <1>2, SideEnds
       DEF NothingDue, LevelOrderConfirmed, ToCheckIsOpening, Checking
  <2> QED
    BY <1>0, <1>2, <2>1, QuietStep DEF NothingDue, LevelOrderConfirmed, TypeOK
<1>3. CASE LevelOrderRefused \/ LevelOrderCancelled
  <2>1. LocalsOK' /\ ToCheckIsOpening'
    BY <1>0, <1>3, TrialEnds
       DEF LevelOrderRefused, LevelOrderCancelled, Placing, ToCheckIsOpening, Checking
  <2>2. faults' \in 0..MaxFaults
    BY <1>0, <1>3, FaultCounts DEF LevelOrderRefused, LevelOrderCancelled, TypeOK
  <2> QED
    BY <1>0, <1>3, <2>1, <2>2, QuietStep DEF LevelOrderRefused, LevelOrderCancelled, TypeOK
<1>4. CASE AnswerIsMissing
  <2>1. LocalsOK' /\ ToCheckIsOpening'
    BY <1>0, <1>4, CallEnds DEF AnswerIsMissing, ToCheckIsOpening
  <2> QED
    BY <1>0, <1>4, <2>1, QuietStep, FaultCounts DEF AnswerIsMissing, TypeOK
<1> QED
  BY <1>1, <1>2, <1>3, <1>4

-----------------------------------------------------------------------------
\* A step that adds orders or changes their status, with the slots as they are.
LEMMA OrdersStep ==
  ASSUME IInv, OrdersGrow, UNCHANGED <<config, levels, stop, position, isTerminated, booked>>,
         lost' \subseteq lost \cup (OrderIds' \ OrderIds),
         market' \in Int, faults' \in 0..MaxFaults, LocalsOK', ToCheckIsOpening'
  PROVE  IInv'
<1>1. OrdersOK'
  BY ReferencesStay DEF IInv, TypeOK
<1>2. NoUnmatchedPair'
  BY DEF IInv, NoUnmatchedPair, OpenedLevels, Status
<1> QED
  BY <1>1, <1>2 DEF IInv, TypeOK

\* An accepted order whose answer is lost.
LEMMA LostOrder ==
  ASSUME OrdersOK, NEW kind \in {"level", "stop"}, NEW s \in Sides,
         NEW price \in Int, NEW size \in Int, Accept(kind, s, price, size),
         lost' = lost \cup {NewId}
  PROVE  OrdersGrow /\ lost' \subseteq lost \cup (OrderIds' \ OrderIds)
<1>1. OrdersGrow /\ NewId \in OrderIds'
  BY Accepted
<1>2. NewId \notin OrderIds
  BY DEF OrdersOK, NewId, OrderIds
<1> QED
  BY <1>1, <1>2

\* The exchange: a fill changes nothing but the status of orders.
LEMMA MarketKeepsIInv ==
  ASSUME IInv, NEW to \in Price, MarketMoves(to) \/ MarketGaps(to)
  PROVE  IInv'
<1> USE DEF grid, local, exchange, history
<1>0. TypeOK /\ LocalsOK /\ ToCheckIsOpening /\ OrdersOK
  BY DEF IInv, TypeOK
<1>1. LocalsOK' /\ ToCheckIsOpening' /\ market' \in Int /\ faults' \in 0..MaxFaults
  BY <1>0 DEF MarketMoves, MarketGaps, LocalsOK, ToCheckIsOpening, Status, TypeOK
<1>2. CASE MarketMoves(to)
  <2>1. OrdersGrow
    BY <1>0, <1>2, StatusChanged DEF MarketMoves
  <2> QED
    BY <1>1, <1>2, <2>1, OrdersStep DEF MarketMoves
<1>3. CASE MarketGaps(to)
  BY <1>1, <1>3, QuietStep DEF MarketGaps
<1> QED
  BY <1>2, <1>3

\* A level order is placed, or its answer is lost.
LEMMA PlacingKeepsIInv ==
  ASSUME IInv, LevelOrderPlaced \/ LevelOrderAnswerLost
  PROVE  IInv'
<1>0. TypeOK /\ LocalsOK /\ ToCheckIsOpening /\ OrdersOK /\ NoUnmatchedPair
  BY DEF IInv, TypeOK
<1>1. pc = "place" /\ toCheck = {}
  BY <1>0 DEF LevelOrderPlaced, LevelOrderAnswerLost, Placing, ToCheckIsOpening, Checking
<1>2. LevelPrice(Target) \in Int /\ side \in Sides /\ 1 \in Int
  BY <1>0 DEF LocalsOK, LevelPrice, Target, Level
<1>3. CASE LevelOrderPlaced
  <2>1. /\ OrdersGrow /\ NewId \in OrderIds' /\ NewId \in Nat
        /\ orders'[NewId].kind = "level" /\ orders'[NewId].side = side
    BY <1>0, <1>2, <1>3, Accepted DEF LevelOrderPlaced
  <2> DEFINE slot == [status |-> "opening", order |-> NewId]
  <2>2. slot \in Slot /\ slot.status = "opening" /\ slot.order = NewId
    BY <2>1 DEF Slot
  <2> HIDE DEF slot
  <2>3. /\ levels' \in [Sides -> [Level -> Slot]]
        /\ \A s \in Sides, i \in Level :
             \/ levels'[s][i] = levels[s][i]
             \/ s = side /\ levels'[s][i] = slot
    BY <1>0, <1>3, <2>2 DEF LevelOrderPlaced, OrdersOK, slot
  <2>4. \A s \in Sides, i \in Level : SlotHasOrder(s, i)'
    <3> TAKE s \in Sides, i \in Level
    <3>1. SlotHasOrder(s, i)
      BY <1>0 DEF OrdersOK
    <3>2. CASE levels'[s][i] = levels[s][i]
      BY <2>1, <3>1, <3>2 DEF OrdersGrow, SlotHasOrder, Status
    <3>3. CASE s = side /\ levels'[s][i] = slot
      BY <2>1, <2>2, <3>3 DEF SlotHasOrder, Status
    <3> QED
      BY <2>3, <3>2, <3>3
  <2>5. \A s \in Sides : StopIsOrder(s)' /\ stop' = stop
    BY <1>0, <1>3, <2>1 DEF LevelOrderPlaced, OrdersGrow, OrdersOK, StopIsOrder
  <2>6. booked' \subseteq OrderIds' /\ lost' \subseteq OrderIds'
    BY <1>0, <1>3, <2>1 DEF LevelOrderPlaced, history, OrdersGrow, OrdersOK
  <2>7. stop' \in [Sides -> Nat \cup {None}]
    BY <1>0, <1>3 DEF LevelOrderPlaced, OrdersOK
  <2>8. OrdersOK'
    BY <2>1, <2>3, <2>4, <2>5, <2>6, <2>7 DEF OrdersOK, OrdersGrow
  <2>9. \A s \in Sides : OpenedLevels(s)' \subseteq OpenedLevels(s)
    BY <2>2, <2>3 DEF OpenedLevels, Status
  <2>10. NoUnmatchedPair'
    BY <1>0, <2>9 DEF NoUnmatchedPair, Sides
  <2>11. LocalsOK' /\ ToCheckIsOpening'
    BY <1>0, <1>1, <1>3 DEF LevelOrderPlaced, LocalsOK, ToCheckIsOpening, Await
  <2> QED
    BY <1>0, <1>3, <2>8, <2>10, <2>11 DEF LevelOrderPlaced, IInv, TypeOK
<1>4. CASE LevelOrderAnswerLost
  <2>1. OrdersGrow /\ lost' \subseteq lost \cup (OrderIds' \ OrderIds)
    BY <1>0, <1>2, <1>4, LostOrder DEF LevelOrderAnswerLost
  <2>2. LocalsOK' /\ toCheck' = {}
    BY <1>0, <1>1, <1>4, TrialEnds DEF LevelOrderAnswerLost
  <2>3. faults' \in 0..MaxFaults
    BY <1>0, <1>4, FaultCounts DEF LevelOrderAnswerLost
  <2> QED
    BY <1>0, <1>4, <2>1, <2>2, <2>3, OrdersStep
       DEF LevelOrderAnswerLost, ToCheckIsOpening, TypeOK
<1> QED
  BY <1>3, <1>4

-----------------------------------------------------------------------------
\* Going on to the next stop order or to the long levels.
LEMMA CheckGoesOn ==
  ASSUME LocalsOK, toCheck = {}, pc = "checkStop", StopChecked,
         UNCHANGED <<levels, started, isTriggered, updating, near, trial>>
  PROVE  LocalsOK' /\ ToCheckIsOpening'
<1>1. CASE side = "short"
  BY <1>1 DEF StopChecked, LocalsOK, Sides, ToCheckIsOpening
<1>2. CASE side = "long"
  <2>1. side' = "long" /\ pc' = "checkLevels" /\ toCheck' = OpeningLevels("long")
    BY <1>2 DEF StopChecked, Await
  <2>2. toCheck' \subseteq Level
    BY <2>1 DEF OpeningLevels
  <2>3. LocalsOK'
    BY <2>1, <2>2 DEF LocalsOK, Sides
  <2>4. ToCheckIsOpening'
    BY <2>1 DEF ToCheckIsOpening, OpeningLevels, Status, Checking
  <2> QED
    BY <2>3, <2>4
<1> QED
  BY <1>1, <1>2 DEF LocalsOK, Sides

\* checkStopOrders.
LEMMA CheckStopKeepsIInv ==
  ASSUME IInv, StopIsFilled \/ StopIsNotFilled \/ StopIsMissing
  PROVE  IInv'
<1> USE DEF grid, local, exchange, history
<1>0. TypeOK /\ LocalsOK /\ ToCheckIsOpening /\ OrdersOK /\ NoUnmatchedPair
  BY DEF IInv, TypeOK
<1>1. pc = "checkStop" /\ toCheck = {}
  BY <1>0 DEF StopIsFilled, StopIsNotFilled, StopIsMissing, ToCheckIsOpening, Checking
<1>2. LocalsOK' /\ ToCheckIsOpening'
  BY <1>0, <1>1, CheckGoesOn DEF StopIsFilled, StopIsNotFilled, StopIsMissing
<1>3. CASE StopIsFilled
  <2>1. side \in Sides /\ stop[side] \in OrderIds
    BY <1>0, <1>3 DEF StopIsFilled, LocalsOK, OrdersOK, StopIsOrder
  <2>2. orders[stop[side]].size \in Int
    BY <1>0, <2>1, OrderTypes
  <2>3. position' \in Int
    BY <1>0, <1>3, <2>1, <2>2 DEF StopIsFilled, TypeOK, Sign
  <2>4. /\ stop' \in [Sides -> Nat \cup {None}]
        /\ \A s \in Sides : stop'[s] = None \/ stop'[s] = stop[s]
    BY <1>0, <1>3 DEF StopIsFilled, ClearStop, OrdersOK
  <2>5. \A s \in Sides : StopIsOrder(s)'
    BY <1>0, <1>3, <2>4 DEF StopIsFilled, OrdersOK, StopIsOrder, OrderIds
  <2>6. \A s \in Sides, i \in Level : SlotHasOrder(s, i)'
    BY <1>0, <1>3 DEF StopIsFilled, OrdersOK, SlotHasOrder, Status, OrderIds
  <2>7. booked' \subseteq OrderIds' /\ lost' \subseteq OrderIds'
    BY <1>0, <1>3, <2>1 DEF StopIsFilled, OrdersOK, OrderIds
  <2>8. OrdersOK'
    BY <1>0, <1>3, <2>4, <2>5, <2>6, <2>7 DEF StopIsFilled, OrdersOK
  <2>9. NoUnmatchedPair'
    BY <1>0, <1>3 DEF StopIsFilled, NoUnmatchedPair, OpenedLevels, Status
  <2> QED
    BY <1>0, <1>2, <1>3, <2>3, <2>8, <2>9 DEF StopIsFilled, IInv, TypeOK
<1>4. CASE StopIsNotFilled \/ StopIsMissing
  <2>1. faults' \in 0..MaxFaults
    BY <1>0, <1>4, FaultCounts DEF StopIsNotFilled, StopIsMissing, TypeOK
  <2> QED
    BY <1>0, <1>2, <1>4, <2>1, QuietStep DEF StopIsNotFilled, StopIsMissing, TypeOK
<1> QED
  BY <1>3, <1>4

\* The end of the checks of a side.
LEMMA LevelsCheckedKeepsIInv ==
  ASSUME IInv, LevelsChecked
  PROVE  IInv'
<1> USE DEF grid, local, exchange, history
<1>0. TypeOK /\ LocalsOK /\ ToCheckIsOpening
  BY DEF IInv, TypeOK
<1>1. CASE side = "long"
  <2>1. side' = "short" /\ toCheck' = OpeningLevels("short") /\ pc' = "checkLevels"
    BY <1>1 DEF LevelsChecked
  <2>2. toCheck' \subseteq Level
    BY <2>1 DEF OpeningLevels
  <2>3. LocalsOK'
    BY <1>0, <2>1, <2>2 DEF LevelsChecked, LocalsOK, Sides
  <2>4. ToCheckIsOpening'
    BY <2>1 DEF LevelsChecked, ToCheckIsOpening, OpeningLevels, Status, Checking
  <2> QED
    BY <1>0, <2>3, <2>4, QuietStep DEF LevelsChecked, TypeOK
<1>2. CASE side = "short"
  <2>1. LocalsOK' /\ ToCheckIsOpening'
    BY <1>0, <1>2 DEF LevelsChecked, LocalsOK, ToCheckIsOpening, Await
  <2> QED
    BY <1>0, <2>1, QuietStep DEF LevelsChecked, TypeOK
<1> QED
  BY <1>0, <1>1, <1>2 DEF LocalsOK, Sides

\* A level that is not filled, or is not answered for.
LEMMA LevelPassedKeepsIInv ==
  ASSUME IInv, NEW i \in Level, LevelIsNotFilled(i) \/ LevelIsMissing(i)
  PROVE  IInv'
<1> USE DEF grid, local, exchange, history
<1>0. TypeOK /\ LocalsOK /\ ToCheckIsOpening
  BY DEF IInv, TypeOK
<1>1. LocalsOK' /\ ToCheckIsOpening'
  BY <1>0 DEF LevelIsNotFilled, LevelIsMissing, IsNextToCheck, LocalsOK, ToCheckIsOpening,
              Status, Checking
<1>2. faults' \in 0..MaxFaults
  BY <1>0, FaultCounts DEF LevelIsNotFilled, LevelIsMissing, TypeOK
<1> QED
  BY <1>0, <1>1, <1>2, QuietStep DEF LevelIsNotFilled, LevelIsMissing, TypeOK

\* A level is filled: it opens, or closes together with the one it closes.
LEMMA LevelFillKeepsIInv ==
  ASSUME IInv, NEW i \in Level, LevelIsFilled(i)
  PROVE  IInv'
<1> DEFINE id == levels[side][i].order
<1>0. TypeOK /\ LocalsOK /\ ToCheckIsOpening /\ OrdersOK /\ NoUnmatchedPair
  BY DEF IInv, TypeOK
<1>1. /\ i \in toCheck /\ pc = "checkLevels" /\ side \in Sides
      /\ Status(side, i) = "opening" /\ id \in OrderIds
  BY <1>0 DEF LevelIsFilled, IsNextToCheck, LocalsOK, ToCheckIsOpening, OrdersOK, SlotHasOrder
<1>2. position' \in Int
  <2>1. orders[id].size \in Int
    BY <1>0, <1>1, OrderTypes
  <2> QED
    BY <1>0, <2>1 DEF LevelIsFilled, TypeOK, Sign
<1>3. booked' \subseteq OrderIds' /\ lost' \subseteq OrderIds'
  BY <1>0, <1>1 DEF LevelIsFilled, exchange, OrdersOK, OrderIds
<1>4. \A s \in Sides : StopIsOrder(s)'
  BY <1>0 DEF LevelIsFilled, exchange, OrdersOK, StopIsOrder, OrderIds
<1>5. LocalsOK'
  BY <1>0 DEF LevelIsFilled, Await, LocalsOK
<1>6. PICK j \in Level :
        \/ Closable(side, i) = {} /\ levels' = [levels EXCEPT ![side][i].status = "opened"]
        \/ Match(i, j)
  BY <1>1 DEF LevelIsFilled
<1>7. CASE Closable(side, i) = {} /\ levels' = [levels EXCEPT ![side][i].status = "opened"]
  <2> DEFINE slot == [levels[side][i] EXCEPT !.status = "opened"]
  <2>1. slot \in Slot /\ slot.status = "opened" /\ slot.order = id
    BY <1>0, <1>1 DEF OrdersOK, Slot
  <2> HIDE DEF slot
  <2>2. /\ levels' \in [Sides -> [Level -> Slot]]
        /\ levels'[side][i] = slot
        /\ \A s \in Sides, k \in Level : s # side \/ k # i => levels'[s][k] = levels[s][k]
    BY <1>0, <1>1, <1>7, <2>1 DEF OrdersOK, slot
  <2>3. \A s \in Sides, k \in Level : SlotHasOrder(s, k)'
    <3> TAKE s \in Sides, k \in Level
    <3>1. SlotHasOrder(s, k) /\ SlotHasOrder(side, i) /\ UNCHANGED orders
      BY <1>0, <1>1 DEF OrdersOK, LevelIsFilled, exchange
    <3>2. CASE s = side /\ k = i
      BY <1>1, <2>1, <2>2, <3>1, <3>2 DEF SlotHasOrder, Status, OrderIds
    <3>3. CASE s # side \/ k # i
      BY <2>2, <3>1, <3>3 DEF SlotHasOrder, Status, OrderIds
    <3> QED
      BY <3>2, <3>3
  <2>4. OrdersOK'
    BY <1>0, <1>3, <1>4, <2>2, <2>3 DEF OrdersOK, LevelIsFilled, exchange
  <2>5. ToCheckIsOpening'
    BY <1>0, <1>1, <2>2 DEF LevelIsFilled, Await, ToCheckIsOpening, Checking, Status, LocalsOK
  <2>6. NoUnmatchedPair'
    <3> SUFFICES ASSUME NEW a \in OpenedLevels("long")', NEW b \in OpenedLevels("short")', a < b
                 PROVE  FALSE
      BY DEF NoUnmatchedPair
    <3>0. a \in Level /\ b \in Level /\ a \in Int /\ b \in Int
      BY DEF OpenedLevels, Level
    <3>1. \A s \in Sides : \A k \in OpenedLevels(s)' : k \in OpenedLevels(s) \/ (s = side /\ k = i)
      BY <2>2 DEF OpenedLevels, Status
    <3>2. ~(a \in OpenedLevels("long") /\ b \in OpenedLevels("short"))
      BY <1>0, <3>0 DEF NoUnmatchedPair
    <3>3. CASE side = "long"
      <4>1. a = i /\ b \in OpenedLevels("short")
        BY <3>1, <3>2, <3>3 DEF Sides
      <4>2. b \in Closable("long", i)
        BY <3>0, <4>1 DEF Closable, Other, Sign
      <4> QED
        BY <1>7, <3>3, <4>2
    <3>4. CASE side = "short"
      <4>1. b = i /\ a \in OpenedLevels("long")
        BY <3>1, <3>2, <3>4 DEF Sides
      <4>2. a \in Closable("short", i)
        BY <3>0, <4>1 DEF Closable, Other, Sign
      <4> QED
        BY <1>7, <3>4, <4>2
    <3> QED
      BY <1>1, <3>3, <3>4 DEF Sides
  <2> QED
    BY <1>0, <1>2, <1>5, <2>4, <2>5, <2>6 DEF LevelIsFilled, exchange, IInv, TypeOK
<1>8. CASE Match(i, j)
  <2>1. Other(side) \in Sides /\ Other(side) # side /\ Closed \in Slot
        /\ Closed.status = "closed" /\ Closed.order = None
    BY <1>1 DEF Other, Sides, Closed, Slot
  <2>2. /\ levels' \in [Sides -> [Level -> Slot]]
        /\ \A s \in Sides, k \in Level :
             \/ levels'[s][k] = levels[s][k]
             \/ levels'[s][k] = Closed
        /\ \A k \in Level : k # i => levels'[side][k] = levels[side][k]
    BY <1>0, <1>1, <1>8, <2>1 DEF OrdersOK, Match
  <2>3. \A s \in Sides, k \in Level : SlotHasOrder(s, k)'
    <3> TAKE s \in Sides, k \in Level
    <3>1. SlotHasOrder(s, k) /\ UNCHANGED orders
      BY <1>0 DEF OrdersOK, LevelIsFilled, exchange
    <3>2. CASE levels'[s][k] = levels[s][k]
      BY <3>1, <3>2 DEF SlotHasOrder, Status, OrderIds
    <3>3. CASE levels'[s][k] = Closed
      BY <2>1, <3>3 DEF SlotHasOrder, Status
    <3> QED
      BY <2>2, <3>2, <3>3
  <2>4. OrdersOK'
    BY <1>0, <1>3, <1>4, <2>2, <2>3 DEF OrdersOK, LevelIsFilled, exchange
  <2>5. ToCheckIsOpening'
    BY <1>0, <1>1, <2>2 DEF LevelIsFilled, Await, ToCheckIsOpening, Checking, Status, LocalsOK
  <2>6. \A s \in Sides : OpenedLevels(s)' \subseteq OpenedLevels(s)
    BY <2>1, <2>2 DEF OpenedLevels, Status
  <2>7. NoUnmatchedPair'
    BY <1>0, <2>6 DEF NoUnmatchedPair, Sides
  <2> QED
    BY <1>0, <1>2, <1>5, <2>4, <2>5, <2>7 DEF LevelIsFilled, exchange, IInv, TypeOK
<1> QED
  BY <1>6, <1>7, <1>8

-----------------------------------------------------------------------------
\* Going on to the lower stop order, or back to the levels, or to another trial.
LEMMA UpdateGoesOn ==
  ASSUME IInv, pc \in Checking, StopUpdated \/ StopTrialFails,
         UNCHANGED <<levels, started, isTriggered, side, toCheck, near>>
  PROVE  LocalsOK' /\ ToCheckIsOpening'
<1>0. LocalsOK /\ ToCheckIsOpening
  BY DEF IInv, TypeOK
<1>1. /\ pc' \in {"updateStop", "checkLevels", pc}
      /\ updating' \in Sides
      /\ trial' \in 0..(MaxTrial - 1)
  BY <1>0 DEF StopUpdated, StopTrialFails, LocalsOK, Await, Sides
<1> QED
  BY <1>0, <1>1 DEF LocalsOK, ToCheckIsOpening, Checking, Status

\* updateStopUpperOrder and updateStopLowerOrder, as long as the exchange takes
\* or cancels no order.
LEMMA StopDecisionKeepsIInv ==
  ASSUME IInv,
         StopStays \/ StopIsStale \/ StopIsAbsent \/ StopIsRefused \/ StopIsConfirmed
  PROVE  IInv'
<1> USE DEF grid, local, exchange, history
<1>0. TypeOK /\ LocalsOK /\ ToCheckIsOpening
  BY DEF IInv, TypeOK
<1>1. LocalsOK' /\ ToCheckIsOpening'
  <2>1. CASE StopStays \/ StopIsRefused \/ StopIsConfirmed
    BY <2>1, UpdateGoesOn DEF StopStays, StopIsRefused, StopIsConfirmed, Checking
  <2>2. CASE StopIsStale \/ StopIsAbsent
    BY <1>0, <2>2 DEF StopIsStale, StopIsAbsent, LocalsOK, ToCheckIsOpening, Await, Checking, Status
  <2> QED
    BY <2>1, <2>2
<1>2. faults' \in 0..MaxFaults
  BY <1>0, FaultCounts DEF StopStays, StopIsStale, StopIsAbsent, StopIsRefused, StopIsConfirmed, TypeOK
<1> QED
  BY <1>0, <1>1, <1>2, QuietStep
     DEF StopStays, StopIsStale, StopIsAbsent, StopIsRefused, StopIsConfirmed, TypeOK

\* The cancellation of an order changes only its status.
LEMMA Cancelled ==
  ASSUME OrdersOK, NEW id, CancelAtExchange(id)
  PROVE  OrdersGrow
<1>1. /\ DOMAIN orders' = DOMAIN orders
      /\ orders' = [k \in DOMAIN orders |-> orders'[k]]
      /\ \A k \in DOMAIN orders : k # id => orders'[k] = orders[k]
  BY DEF CancelAtExchange
<1>2. ASSUME NEW k \in DOMAIN orders
      PROVE  \/ orders'[k] = orders[k]
             \/ \E status \in {"open", "filled", "cancelled"} :
                  orders'[k] = [orders[k] EXCEPT !.status = status]
  <2>1. orders[k] \in Order
    BY OrderTypes DEF OrderIds
  <2>2. CASE k = id /\ orders[k].status = "open"
    BY <2>2 DEF CancelAtExchange
  <2>3. CASE k = id /\ orders[k].status # "open"
    BY <2>1, <2>3 DEF CancelAtExchange, Order
  <2> QED
    BY <1>1, <2>2, <2>3
<1> QED
  BY <1>1, <1>2, StatusChanged

\* A stop order is cancelled.
LEMMA StopCancelKeepsIInv ==
  ASSUME IInv, StopIsCancelled \/ StopCancelThrows
  PROVE  IInv'
<1> USE DEF grid, local, exchange, history
<1>0. TypeOK /\ LocalsOK /\ ToCheckIsOpening /\ OrdersOK
  BY DEF IInv, TypeOK
<1>1. LocalsOK' /\ ToCheckIsOpening'
  <2>1. CASE StopIsCancelled
    BY <1>0, <2>1 DEF StopIsCancelled, LocalsOK, ToCheckIsOpening, Await, Checking, Status
  <2>2. CASE StopCancelThrows
    BY <1>0, <2>2, CallEnds DEF StopCancelThrows, ToCheckIsOpening
  <2> QED
    BY <2>1, <2>2
<1>2. faults' \in 0..MaxFaults
  BY <1>0, FaultCounts DEF StopIsCancelled, StopCancelThrows, TypeOK
<1>3. OrdersGrow \/ UNCHANGED orders
  BY <1>0, Cancelled DEF StopIsCancelled, StopCancelThrows
<1> QED
  BY <1>0, <1>1, <1>2, <1>3, OrdersStep, QuietStep DEF StopIsCancelled, StopCancelThrows, TypeOK

\* A stop order is placed, or its answer is lost.
LEMMA StopPlacingKeepsIInv ==
  ASSUME IInv, StopIsPlaced \/ StopAnswerLost
  PROVE  IInv'
<1> USE DEF grid, history
<1>0. TypeOK /\ LocalsOK /\ ToCheckIsOpening /\ OrdersOK /\ NoUnmatchedPair
  BY DEF IInv, TypeOK
<1>1. /\ pc = "placeStop" /\ updating \in Sides
      /\ StopPrice[updating] \in Int /\ StopSize \in Int
  BY <1>0 DEF StopIsPlaced, StopAnswerLost, LocalsOK, TypeOK, StopSize, Sign, Sides
<1>2. CASE StopIsPlaced
  <2>1. /\ OrdersGrow /\ NewId \in OrderIds' /\ NewId \in Nat
        /\ orders'[NewId].kind = "stop" /\ orders'[NewId].side = updating
    BY <1>0, <1>1, <1>2, Accepted DEF StopIsPlaced
  <2>2. \A s \in Sides, i \in Level : SlotHasOrder(s, i)'
    BY <1>0, <1>2, <2>1 DEF StopIsPlaced, OrdersGrow, OrdersOK, SlotHasOrder, Status
  <2>3. /\ stop' \in [Sides -> Nat \cup {None}]
        /\ stop'[updating] = NewId
        /\ \A s \in Sides : s # updating => stop'[s] = stop[s]
    BY <1>0, <1>1, <1>2, <2>1 DEF StopIsPlaced, OrdersOK
  <2>4. \A s \in Sides : StopIsOrder(s)'
    BY <1>0, <2>1, <2>3 DEF OrdersGrow, OrdersOK, StopIsOrder
  <2>5. booked' \subseteq OrderIds' /\ lost' \subseteq OrderIds'
    BY <1>0, <1>2, <2>1 DEF StopIsPlaced, OrdersGrow, OrdersOK
  <2>6. OrdersOK'
    BY <1>0, <1>2, <2>1, <2>2, <2>3, <2>4, <2>5 DEF StopIsPlaced, OrdersOK, OrdersGrow
  <2>7. NoUnmatchedPair'
    BY <1>0, <1>2 DEF StopIsPlaced, NoUnmatchedPair, OpenedLevels, Status
  <2>8. LocalsOK' /\ ToCheckIsOpening'
    BY <1>0, <1>1, <1>2 DEF StopIsPlaced, LocalsOK, ToCheckIsOpening, Await, Checking, Status
  <2> QED
    BY <1>0, <1>2, <2>6, <2>7, <2>8 DEF StopIsPlaced, IInv, TypeOK
<1>3. CASE StopAnswerLost
  <2>1. OrdersGrow /\ lost' \subseteq lost \cup (OrderIds' \ OrderIds)
    BY <1>0, <1>1, <1>3, LostOrder DEF StopAnswerLost
  <2>2. LocalsOK' /\ ToCheckIsOpening'
    BY <1>1, <1>3, UpdateGoesOn DEF StopAnswerLost, Checking
  <2>3. faults' \in 0..MaxFaults
    BY <1>0, <1>3, FaultCounts DEF StopAnswerLost
  <2> QED
    BY <1>0, <1>3, <2>1, <2>2, <2>3, OrdersStep DEF StopAnswerLost, TypeOK
<1> QED
  BY <1>2, <1>3

-----------------------------------------------------------------------------
\* Every slot is closed and nothing is ordered at first.
LEMMA InitEstablishesIInv ==
  ASSUME Init
  PROVE  IInv
<1>1. /\ levels \in [Sides -> [Level -> Slot]]
      /\ \A s \in Sides, i \in Level : levels[s][i].status = "closed" /\ levels[s][i].order = None
  BY DEF Init, Closed, Slot
<1>2. OrdersOK
  BY <1>1 DEF Init, OrdersOK, SlotHasOrder, StopIsOrder, Status
<1>3. LocalsOK
  <2>1. isTriggered \in BOOLEAN
    BY DEF Init
  <2>2. near \in Level /\ trial \in 0..(MaxTrial - 1)
    BY DEF Init, Level
  <2> QED
    BY <2>1, <2>2 DEF Init, LocalsOK, Sides
<1>4. TypeOK
  <2>1. market \in Int /\ position \in Int /\ faults \in 0..MaxFaults
    BY DEF Init
  <2> QED
    BY <1>2, <1>3, <2>1 DEF Init, TypeOK
<1>5. ToCheckIsOpening
  BY DEF Init, ToCheckIsOpening
<1>6. NoUnmatchedPair
  BY <1>1 DEF NoUnmatchedPair, OpenedLevels, Status, Sides
<1> QED
  BY <1>4, <1>5, <1>6 DEF IInv

\* Every step keeps the invariant.
LEMMA NextKeepsIInv ==
  ASSUME IInv, [Next]_vars
  PROVE  IInv'
<1>1. CASE \E to \in Price : MarketMoves(to) \/ MarketGaps(to)
  BY <1>1, MarketKeepsIInv
<1>2. CASE NextStarts
  BY <1>2, TriggerKeepsIInv
<1>3. CASE Step
  <2>1. CASE TriggerOpens \/ TriggerWaits \/ TriggerIsUnknown
    BY <2>1, TriggerKeepsIInv
  <2>2. CASE AnswerIsMissing \/ OpenLevelsNearMarketPrice
    BY <2>2, AskingKeepsIInv, PlacingKeepsIInv DEF OpenLevelsNearMarketPrice
  <2>3. CASE CheckOrders
    BY <2>3, CheckStopKeepsIInv, LevelFillKeepsIInv, LevelPassedKeepsIInv,
       LevelsCheckedKeepsIInv DEF CheckOrders
  <2>4. CASE UpdateStops
    BY <2>4, StopDecisionKeepsIInv, StopCancelKeepsIInv, StopPlacingKeepsIInv DEF UpdateStops
  <2> QED
    BY <1>3, <2>1, <2>2, <2>3, <2>4 DEF Step
<1>4. CASE UNCHANGED vars
  <2>1. LocalsOK' /\ ToCheckIsOpening'
    BY <1>4 DEF vars, IInv, TypeOK, LocalsOK, ToCheckIsOpening, Status
  <2> QED
    BY <1>4, <2>1, QuietStep DEF vars, IInv, TypeOK
<1> QED
  BY <1>1, <1>2, <1>3, <1>4 DEF Next

\* The invariant holds whatever the exchange fills, refuses or fails to answer.
THEOREM IInvHolds == Spec => []IInv
  BY InitEstablishesIInv, NextKeepsIInv, PTL DEF Spec

\* Slots and stops refer to orders of their own kind and side, a slot exactly
\* while it is not closed, and every variable has its type (state_manager.ts).
THEOREM TypeCorrect == Spec => []TypeOK
<1>1. IInv => TypeOK
  BY DEF IInv
<1> QED
  BY <1>1, IInvHolds, PTL

\* Profit is taken whenever it can be: no opened long ever stays below an opened
\* short (getLongLevelToCloseAt, getShortLevelToCloseAt).
THEOREM ProfitIsTaken == Spec => []NoUnmatchedPair
<1>1. IInv => NoUnmatchedPair
  BY DEF IInv
<1> QED
  BY <1>1, IInvHolds, PTL

-----------------------------------------------------------------------------
(* Every fill is tracked.                                                  *)

\* A level waits for the order.
IsWaitedFor(id) ==
  \E s \in Sides, i \in Level : Status(s, i) = "opening" /\ levels[s][i].order = id

\* A level order is placed only where no order is lost by it.
IsFree(s, i) ==
  \/ Status(s, i) = "closed"
  \/ Status(s, i) = "opening" /\ orders[levels[s][i].order].status = "cancelled"

\* No two slots have the same order.
SlotsAreApart ==
  \A s, t \in Sides, i, j \in Level :
    Status(s, i) # "closed" /\ levels[t][j].order = levels[s][i].order => s = t /\ i = j

\* An order is booked only once it is filled, and is not waited for any more.
BookedIsFilled == \A id \in booked : orders[id].status = "filled"

WaitingIsUnbooked ==
  \A s \in Sides, i \in Level :
    Status(s, i) = "opening" => levels[s][i].order \notin booked \cup lost

LevelOrdersAreKept ==
  \A id \in OrderIds :
    orders[id].kind = "level" /\ id \notin lost =>
      orders[id].status = "cancelled" \/ id \in booked \/ IsWaitedFor(id)

LevelsTracked == SlotsAreApart /\ BookedIsFilled /\ WaitingIsUnbooked /\ LevelOrdersAreKept

\* The level of a further trial is free, and the one of a placed order waits for it.
TargetIsFree ==
  /\ pc = "place" /\ trial > 0 => Target \in Level /\ IsFree(side, Target)
  /\ pc = "placed" => Target \in Level /\ Status(side, Target) = "opening"

\* In a backtest a stop order is booked or the stop of its side unless it is cancelled,
\* and once next() has looked at it, it does not fill before next() ends.
IsNotFilled(s) == stop[s] # None => orders[stop[s]].status # "filled"

StopOrdersAreKept ==
  \A id \in OrderIds :
    orders[id].kind = "stop" =>
      orders[id].status = "cancelled" \/ id \in booked \/ \E s \in Sides : stop[s] = id

StopsAreLookedAt ==
  /\ pc = "idle" => side = "short"
  /\ pc \in Checking => \A s \in Sides : IsNotFilled(s)
  /\ pc = "checkStop" /\ side = "long" => IsNotFilled("short")
  /\ pc = "placeStop" /\ stop[updating] # None => orders[stop[updating]].status = "cancelled"

StopsTracked == ~config.live => StopOrdersAreKept /\ StopsAreLookedAt

\* The inductive invariant for fills.
FInv == IInv /\ LevelsTracked /\ TargetIsFree /\ StopsTracked

\* Orders go on: an order that is not open keeps its status.
OrdersGoOn ==
  \A id \in OrderIds :
    /\ id \in OrderIds'
    /\ orders'[id].kind = orders[id].kind
    /\ orders[id].status # "open" => orders'[id].status = orders[id].status

\* An accepted order is the last one, and the others stay as they are.
LEMMA AcceptedLast ==
  ASSUME OrdersOK, NEW kind \in {"level", "stop"}, NEW s \in Sides,
         NEW price \in Int, NEW size \in Int, Accept(kind, s, price, size)
  PROVE  /\ OrderIds' = OrderIds \cup {NewId} /\ NewId \notin OrderIds
         /\ \A id \in OrderIds : orders'[id] = orders[id]
         /\ orders'[NewId].kind = kind
         /\ kind = "stop" => orders'[NewId].status = "open"
         /\ OrdersGoOn
<1> DEFINE order == [kind |-> kind, side |-> s, price |-> price, size |-> size,
                     status |-> StatusAtOnce(kind, s, price)]
<1>1. order \in Order /\ order.kind = kind /\ (kind = "stop" => order.status = "open")
  BY DEF Order, StatusAtOnce
<1>2. orders' = Append(orders, order) /\ orders \in Seq(Order)
  BY DEF Accept, OrdersOK
<1> HIDE DEF order
<1>3. /\ Len(orders) \in Nat
      /\ DOMAIN orders = 1..Len(orders) /\ DOMAIN orders' = 1..(Len(orders) + 1)
      /\ \A id \in 1..Len(orders) : orders'[id] = orders[id]
      /\ orders'[Len(orders) + 1] = order
  BY <1>1, <1>2
<1>4. OrderIds' = OrderIds \cup {NewId} /\ NewId \notin OrderIds
  BY <1>3 DEF OrderIds, NewId
<1>5. /\ \A id \in OrderIds : orders'[id] = orders[id]
      /\ orders'[NewId] = order
  BY <1>3 DEF OrderIds, NewId
<1> QED
  BY <1>1, <1>4, <1>5 DEF OrdersGoOn

LEMMA MovedGoOn ==
  ASSUME OrdersOK, NEW to \in Price, MarketMoves(to)
  PROVE  OrdersGoOn /\ OrderIds' = OrderIds
<1>1. OrderIds' = OrderIds
  BY DEF MarketMoves, OrderIds
<1>2. ASSUME NEW id \in OrderIds
      PROVE  /\ orders'[id].kind = orders[id].kind
             /\ orders[id].status # "open" => orders'[id].status = orders[id].status
  <2>1. orders[id] \in Order
    BY OrderTypes
  <2>2. orders'[id] = orders[id] \/ (orders[id].status = "open"
                                     /\ orders'[id] = [orders[id] EXCEPT !.status = "filled"])
    BY DEF MarketMoves, OrderIds
  <2> QED
    BY <2>1, <2>2 DEF Order
<1> QED
  BY <1>1, <1>2 DEF OrdersGoOn

LEMMA CancelledGoOn ==
  ASSUME OrdersOK, NEW id, CancelAtExchange(id)
  PROVE  /\ OrdersGoOn /\ OrderIds' = OrderIds
         /\ \A k \in OrderIds : orders'[k].status \in {orders[k].status, "cancelled"}
         /\ id \in OrderIds /\ orders[id].status # "filled" => orders'[id].status = "cancelled"
<1>1. OrderIds' = OrderIds
  BY DEF CancelAtExchange, OrderIds
<1>2. \A k \in OrderIds : k # id => orders'[k] = orders[k]
  BY DEF CancelAtExchange, OrderIds
<1>3. ASSUME id \in OrderIds
      PROVE  /\ orders[id].status \in {"open", "filled", "cancelled"}
             /\ orders'[id].kind = orders[id].kind
             /\ orders'[id].status = IF orders[id].status = "open" THEN "cancelled"
                                     ELSE orders[id].status
  <2>1. orders[id] \in Order
    BY <1>3, OrderTypes
  <2> QED
    BY <1>3, <2>1 DEF CancelAtExchange, OrderIds, Order
<1> QED
  BY <1>1, <1>2, <1>3 DEF OrdersGoOn

LEMMA UnchangedGoOn ==
  ASSUME UNCHANGED orders
  PROVE  OrdersGoOn /\ OrderIds' = OrderIds
BY DEF OrdersGoOn, OrderIds

\* The order of a slot that is not closed is an order, and hence not None.
LEMMA SlotOrder ==
  ASSUME OrdersOK, NEW s \in Sides, NEW i \in Level
  PROVE  /\ Status(s, i) = "closed" => levels[s][i].order = None
         /\ Status(s, i) # "closed" => /\ levels[s][i].order \in OrderIds
                                       /\ levels[s][i].order # None
                                       /\ orders[levels[s][i].order].kind = "level"
<1>1. SlotHasOrder(s, i)
  BY DEF OrdersOK
<1>2. OrderIds \subseteq Int
  BY DEF OrdersOK, OrderIds
<1> QED
  BY <1>1, <1>2 DEF SlotHasOrder, Status

\* What is known of the level orders stays true as orders go on, and as orders come
\* that are stop orders or whose id is lost.
LEMMA LevelsStay ==
  ASSUME OrdersOK, LevelsTracked, OrdersGoOn, UNCHANGED <<levels, booked>>,
         lost \subseteq lost', lost' \subseteq lost \cup (OrderIds' \ OrderIds),
         \A id \in OrderIds' \ OrderIds : id \in lost' \/ orders'[id].kind = "stop"
  PROVE  LevelsTracked'
<1>1. SlotsAreApart'
  BY DEF LevelsTracked, SlotsAreApart, Status
<1>2. BookedIsFilled'
  BY DEF LevelsTracked, BookedIsFilled, OrdersGoOn, OrdersOK
<1>3. WaitingIsUnbooked'
  BY SlotOrder DEF LevelsTracked, WaitingIsUnbooked, Status
<1>4. \A id : IsWaitedFor(id) => IsWaitedFor(id)'
  BY DEF IsWaitedFor, Status
<1>5. LevelOrdersAreKept'
  <2> SUFFICES ASSUME NEW id \in OrderIds', orders'[id].kind = "level", id \notin lost'
               PROVE  orders'[id].status = "cancelled" \/ id \in booked' \/ IsWaitedFor(id)'
    BY DEF LevelOrdersAreKept
  <2>1. id \in OrderIds /\ id \notin lost
    OBVIOUS
  <2>2. orders[id].kind = "level"
    BY <2>1 DEF OrdersGoOn
  <2>3. orders[id].status = "cancelled" \/ id \in booked \/ IsWaitedFor(id)
    BY <2>1, <2>2 DEF LevelsTracked, LevelOrdersAreKept
  <2> QED
    BY <1>4, <2>1, <2>3 DEF OrdersGoOn
<1> QED
  BY <1>1, <1>2, <1>3, <1>5 DEF LevelsTracked

\* A free level stays free while its order goes on.
LEMMA FreeStays ==
  ASSUME OrdersOK, OrdersGoOn, UNCHANGED levels, NEW s \in Sides, NEW i \in Level, IsFree(s, i)
  PROVE  IsFree(s, i)'
BY SlotOrder DEF IsFree, Status, OrdersGoOn

\* So do the stop orders of a backtest.
LEMMA StopsStay ==
  ASSUME StopOrdersAreKept, OrdersGoOn, UNCHANGED <<stop, booked>>,
         \A id \in OrderIds' \ OrderIds : orders'[id].kind = "level"
  PROVE  StopOrdersAreKept'
BY DEF StopOrdersAreKept, OrdersGoOn

\* A step that only waits, asks or decides, at a place where stops are not looked at.
LEMMA QuietlyTracked ==
  ASSUME FInv, OrdersGoOn, OrderIds' = OrderIds,
         UNCHANGED <<config, levels, stop, booked, lost>>,
         TargetIsFree', ~config.live => StopsAreLookedAt'
  PROVE  LevelsTracked' /\ TargetIsFree' /\ StopsTracked'
<1>1. LevelsTracked'
  BY LevelsStay DEF FInv, IInv, TypeOK
<1>2. ~config.live => StopOrdersAreKept'
  BY StopsStay DEF FInv, StopsTracked
<1> QED
  BY <1>1, <1>2 DEF StopsTracked

\* The market, and a grid that waits for its trigger.
LEMMA MarketIsTracked ==
  ASSUME FInv, NEW to \in Price, MarketMoves(to) \/ MarketGaps(to)
  PROVE  LevelsTracked' /\ TargetIsFree' /\ StopsTracked'
<1>1. OrdersOK /\ LocalsOK
  BY DEF FInv, IInv, TypeOK
<1>2. OrdersGoOn /\ OrderIds' = OrderIds
  BY <1>1, MovedGoOn, UnchangedGoOn DEF MarketMoves, MarketGaps
<1>3. /\ UNCHANGED <<config, levels, stop, booked, lost, pc, side, near, trial>>
      /\ config.live \/ pc = "idle"
  BY DEF MarketMoves, MarketGaps, grid, local, history
<1>4. TargetIsFree'
  BY <1>1, <1>2, <1>3, FreeStays DEF FInv, TargetIsFree, Target, Status, LocalsOK
<1>5. ~config.live => StopsAreLookedAt'
  BY <1>3 DEF FInv, StopsTracked, StopsAreLookedAt, Checking
<1> QED
  BY <1>2, <1>3, <1>4, <1>5, QuietlyTracked

LEMMA TriggerIsTracked ==
  ASSUME FInv, NextStarts \/ TriggerOpens \/ TriggerWaits \/ TriggerIsUnknown
  PROVE  LevelsTracked' /\ TargetIsFree' /\ StopsTracked'
<1>1. UNCHANGED <<config, levels, stop, orders, booked, lost>>
  BY DEF NextStarts, TriggerOpens, TriggerWaits, TriggerIsUnknown, grid, exchange, history
<1>2. \/ pc' \in {"trigger", "market"}
      \/ pc' = "checkStop" /\ pc = "idle" /\ UNCHANGED side
      \/ pc' = "idle" /\ side' = "short"
  BY DEF NextStarts, TriggerOpens, TriggerWaits, TriggerIsUnknown, Return, Await, ForgetLocals, local
<1>3. TargetIsFree'
  BY <1>2 DEF TargetIsFree
<1>4. ~config.live => StopsAreLookedAt'
  BY <1>2 DEF FInv, StopsTracked, StopsAreLookedAt, Checking
<1> QED
  BY <1>1, <1>3, <1>4, QuietlyTracked, UnchangedGoOn

-----------------------------------------------------------------------------
\* A trial that is over, or another one at a level that is free.
LEMMA TrialIsTracked ==
  ASSUME LocalsOK, OrdersOK, OrdersGoOn, UNCHANGED levels, TrialFails,
         Target \in Level, IsFree(side, Target)
  PROVE  TargetIsFree' /\ StopsAreLookedAt'
<1>1. CASE trial + 1 = MaxTrial
  BY <1>1 DEF TrialFails, SideDone, Return, Await, ForgetLocals, TargetIsFree, StopsAreLookedAt,
              Checking
<1>2. CASE trial + 1 # MaxTrial
  <2>1. pc' = "place" /\ UNCHANGED <<side, near>>
    BY <1>2 DEF TrialFails, Await
  <2>2. IsFree(side, Target)' /\ Target' = Target
    BY <2>1, FreeStays DEF LocalsOK, IsFree, Target, Status
  <2> QED
    BY <2>1, <2>2 DEF TargetIsFree, StopsAreLookedAt, Checking
<1> QED
  BY <1>1, <1>2

\* The level an order is placed at is free.
LEMMA PlacedWhereFree ==
  ASSUME FInv, Placing
  PROVE  Target \in Level /\ IsFree(side, Target)
<1>1. side \in Sides
  BY DEF FInv, IInv, TypeOK, LocalsOK
<1>2. CASE trial > 0
  BY <1>2 DEF FInv, Placing, TargetIsFree
<1>3. CASE IsDue
  BY <1>1, <1>3 DEF IsDue, IsFree, Sides
<1> QED
  BY <1>2, <1>3 DEF Placing

\* openLevelsNearMarketPrice, without a new order.
LEMMA AskingIsTracked ==
  ASSUME FInv,
         \/ MarketIsRead \/ MarketIsUnknown \/ NothingDue
         \/ LevelOrderRefused \/ LevelOrderConfirmed \/ LevelOrderCancelled
         \/ AnswerIsMissing
  PROVE  LevelsTracked' /\ TargetIsFree' /\ StopsTracked'
<1>1. LocalsOK /\ OrdersOK
  BY DEF FInv, IInv, TypeOK
<1>2. UNCHANGED <<config, levels, stop, orders, booked, lost>>
  BY DEF MarketIsRead, MarketIsUnknown, NothingDue, LevelOrderRefused, LevelOrderConfirmed,
         LevelOrderCancelled, AnswerIsMissing, grid, exchange, history
<1>3. TargetIsFree' /\ StopsAreLookedAt'
  <2>1. CASE MarketIsRead \/ MarketIsUnknown
    BY <2>1 DEF MarketIsRead, MarketIsUnknown, Await, TargetIsFree, StopsAreLookedAt, Checking
  <2>2. CASE NothingDue \/ LevelOrderConfirmed
    BY <2>2 DEF NothingDue, LevelOrderConfirmed, SideDone, Return, Await, ForgetLocals,
                TargetIsFree, StopsAreLookedAt, Checking
  <2>3. CASE AnswerIsMissing
    BY <2>3 DEF AnswerIsMissing, Throw, Await, ForgetLocals, TargetIsFree, StopsAreLookedAt,
                Checking
  <2>4. CASE LevelOrderRefused
    BY <1>1, <1>2, <2>4, PlacedWhereFree, TrialIsTracked, UnchangedGoOn DEF LevelOrderRefused
  <2>5. CASE LevelOrderCancelled
    <3>1. Target \in Level /\ IsFree(side, Target)
      BY <2>5 DEF FInv, TargetIsFree, LevelOrderCancelled, IsRetried, IsFree
    <3> QED
      BY <1>1, <1>2, <2>5, <3>1, TrialIsTracked, UnchangedGoOn DEF LevelOrderCancelled
  <2> QED
    BY <2>1, <2>2, <2>3, <2>4, <2>5
<1> QED
  BY <1>2, <1>3, QuietlyTracked, UnchangedGoOn

\* A level order is placed: what was in its slot, if anything, is cancelled.
LEMMA LevelOrderIsTracked ==
  ASSUME FInv, LevelOrderPlaced
  PROVE  LevelsTracked' /\ TargetIsFree' /\ StopsTracked'
<1> DEFINE slot == [status |-> "opening", order |-> NewId]
<1>0. OrdersOK /\ LocalsOK /\ LevelsTracked /\ side \in Sides
  BY DEF FInv, IInv, TypeOK, LocalsOK
<1>1. Target \in Level /\ IsFree(side, Target)
  BY PlacedWhereFree DEF LevelOrderPlaced
<1>2. LevelPrice(Target) \in Int /\ 1 \in Int
  BY <1>1 DEF LevelPrice, Level
<1>3. /\ OrderIds' = OrderIds \cup {NewId} /\ NewId \notin OrderIds
      /\ \A id \in OrderIds : orders'[id] = orders[id]
      /\ orders'[NewId].kind = "level" /\ OrdersGoOn
  BY <1>0, <1>2, AcceptedLast DEF LevelOrderPlaced
<1>4. UNCHANGED <<config, stop, side, near, trial, booked, lost>> /\ pc' = "placed"
  BY DEF LevelOrderPlaced, Await, history
<1>5. slot.status = "opening" /\ slot.order = NewId
  OBVIOUS
<1> HIDE DEF slot
<1>6. /\ levels'[side][Target] = slot
      /\ \A s \in Sides, i \in Level : s # side \/ i # Target => levels'[s][i] = levels[s][i]
  BY <1>0, <1>1 DEF LevelOrderPlaced, OrdersOK, slot
<1>7. \A s \in Sides, i \in Level : levels[s][i].order # NewId
  BY <1>0, <1>3, SlotOrder DEF OrdersOK, NewId
<1>8. SlotsAreApart'
  BY <1>0, <1>1, <1>5, <1>6, <1>7 DEF LevelsTracked, SlotsAreApart, Status
<1>9. BookedIsFilled'
  BY <1>0, <1>3, <1>4 DEF LevelsTracked, BookedIsFilled, OrdersOK
<1>10. WaitingIsUnbooked'
  BY <1>0, <1>3, <1>4, <1>5, <1>6 DEF LevelsTracked, WaitingIsUnbooked, Status, OrdersOK
<1>11. LevelOrdersAreKept'
  <2> SUFFICES ASSUME NEW id \in OrderIds', orders'[id].kind = "level", id \notin lost'
               PROVE  orders'[id].status = "cancelled" \/ id \in booked' \/ IsWaitedFor(id)'
    BY DEF LevelOrdersAreKept
  <2>1. CASE id = NewId
    BY <1>0, <1>1, <1>5, <1>6, <2>1 DEF IsWaitedFor, Status
  <2>2. CASE id \in OrderIds
    <3>1. orders'[id] = orders[id] /\ id \notin lost
      BY <1>3, <1>4, <2>2
    <3>2. orders[id].status = "cancelled" \/ id \in booked \/ IsWaitedFor(id)
      BY <1>0, <2>2, <3>1 DEF LevelsTracked, LevelOrdersAreKept
    <3>3. CASE IsWaitedFor(id)
      <4>1. PICK s \in Sides, i \in Level : Status(s, i) = "opening" /\ levels[s][i].order = id
        BY <3>3 DEF IsWaitedFor
      <4>2. CASE s = side /\ i = Target
        BY <1>1, <3>1, <4>1, <4>2 DEF IsFree
      <4>3. CASE s # side \/ i # Target
        BY <1>6, <4>1, <4>3 DEF IsWaitedFor, Status
      <4> QED
        BY <4>2, <4>3
    <3> QED
      BY <1>4, <3>1, <3>2, <3>3
  <2> QED
    BY <1>3, <2>1, <2>2
<1>12. TargetIsFree'
  BY <1>1, <1>4, <1>5, <1>6 DEF TargetIsFree, Target, Status
<1>13. StopsTracked'
  BY <1>3, <1>4, StopsStay DEF FInv, StopsTracked, StopsAreLookedAt, Checking
<1> QED
  BY <1>8, <1>9, <1>10, <1>11, <1>12, <1>13 DEF LevelsTracked

\* The answer to a placement is lost, and with it the id of the order.
LEMMA LostLevelOrderIsTracked ==
  ASSUME FInv, LevelOrderAnswerLost
  PROVE  LevelsTracked' /\ TargetIsFree' /\ StopsTracked'
<1>0. OrdersOK /\ LocalsOK /\ LevelsTracked /\ side \in Sides
  BY DEF FInv, IInv, TypeOK, LocalsOK
<1>1. Target \in Level /\ IsFree(side, Target)
  BY PlacedWhereFree DEF LevelOrderAnswerLost
<1>2. LevelPrice(Target) \in Int /\ 1 \in Int
  BY <1>1 DEF LevelPrice, Level
<1>3. OrderIds' = OrderIds \cup {NewId} /\ NewId \notin OrderIds /\ OrdersGoOn
  BY <1>0, <1>2, AcceptedLast DEF LevelOrderAnswerLost
<1>4. /\ UNCHANGED <<config, levels, booked>> /\ config.live
      /\ lost' = lost \cup {NewId} /\ TrialFails
  BY DEF LevelOrderAnswerLost, Fault
<1>5. LevelsTracked'
  BY <1>0, <1>3, <1>4, LevelsStay
<1>6. TargetIsFree'
  BY <1>0, <1>1, <1>3, <1>4, TrialIsTracked
<1> QED
  BY <1>4, <1>5, <1>6 DEF StopsTracked

-----------------------------------------------------------------------------
\* checkStopOrders: a filled stop order is booked before it is forgotten.
LEMMA StopCheckIsTracked ==
  ASSUME FInv, StopIsFilled \/ StopIsNotFilled \/ StopIsMissing
  PROVE  LevelsTracked' /\ TargetIsFree' /\ StopsTracked'
<1>0. OrdersOK /\ LevelsTracked /\ side \in Sides /\ (~config.live => StopOrdersAreKept /\ StopsAreLookedAt)
  BY DEF FInv, IInv, TypeOK, LocalsOK, StopsTracked
<1>1. /\ UNCHANGED <<config, levels, orders, lost>> /\ pc = "checkStop"
      /\ pc' \in {"checkStop", "checkLevels"} /\ StopChecked
  BY <1>0 DEF StopIsFilled, StopIsNotFilled, StopIsMissing, StopChecked, Await, grid, exchange, history,
              Sides
<1>2. TargetIsFree'
  BY <1>1 DEF TargetIsFree
<1>3. OrdersGoOn /\ OrderIds' = OrderIds
  BY <1>1, UnchangedGoOn
<1>4. ASSUME ~config.live, stop'[side] = None \/ orders[stop'[side]].status # "filled",
             \A s \in Sides : s # side => stop'[s] = stop[s]
      PROVE  StopsAreLookedAt'
  <2>1. CASE side = "short"
    <3>1. side' = "long" /\ pc' = "checkStop"
      BY <1>1, <2>1 DEF StopChecked
    <3> QED
      BY <1>1, <1>4, <2>1, <3>1 DEF StopsAreLookedAt, Checking, IsNotFilled
  <2>2. CASE side = "long"
    <3>1. pc' = "checkLevels" /\ IsNotFilled("short")
      BY <1>0, <1>1, <1>4, <2>2 DEF StopChecked, Await, StopsAreLookedAt
    <3>2. \A s \in Sides : IsNotFilled(s)'
      BY <1>1, <1>4, <2>2, <3>1 DEF IsNotFilled, Sides
    <3> QED
      BY <3>1, <3>2 DEF StopsAreLookedAt
  <2> QED
    BY <1>0, <2>1, <2>2 DEF Sides
<1>5. CASE StopIsNotFilled \/ StopIsMissing
  <2>1. UNCHANGED <<stop, booked>>
    BY <1>5 DEF StopIsNotFilled, StopIsMissing, grid, history
  <2>2. ~config.live => stop'[side] = None \/ orders[stop'[side]].status # "filled"
    BY <1>5, <2>1 DEF StopIsNotFilled, StopIsMissing, Fault
  <2> QED
    BY <1>1, <1>2, <1>3, <1>4, <2>1, <2>2, QuietlyTracked
<1>6. CASE StopIsFilled
  <2> DEFINE id == stop[side]
  <2>1. /\ id \in OrderIds /\ orders[id].kind = "stop" /\ orders[id].status = "filled"
        /\ booked' = booked \cup {id}
    BY <1>0, <1>6 DEF StopIsFilled, OrdersOK, StopIsOrder
  <2>2. stop'[side] = None /\ \A s \in Sides : s # side => stop'[s] = stop[s]
    BY <1>0, <1>6 DEF StopIsFilled, ClearStop, OrdersOK
  <2> HIDE DEF id
  <2>3. SlotsAreApart' /\ BookedIsFilled'
    BY <1>0, <1>1, <2>1 DEF LevelsTracked, SlotsAreApart, Status, BookedIsFilled
  <2>4. WaitingIsUnbooked'
    BY <1>0, <1>1, <2>1, SlotOrder DEF LevelsTracked, WaitingIsUnbooked, Status
  <2>5. LevelOrdersAreKept'
    BY <1>0, <1>1, <1>3, <2>1 DEF LevelsTracked, LevelOrdersAreKept, IsWaitedFor, Status
  <2>6. ~config.live => StopOrdersAreKept'
    BY <1>0, <1>1, <1>3, <2>1, <2>2 DEF StopOrdersAreKept, id
  <2> QED
    BY <1>1, <1>2, <1>4, <2>2, <2>3, <2>4, <2>5, <2>6 DEF LevelsTracked, StopsTracked
<1> QED
  BY <1>5, <1>6

-----------------------------------------------------------------------------
\* A level is filled: its order is booked, and not waited for any more. The level it
\* closes was opened, and no level waits there.
LEMMA LevelFillIsTracked ==
  ASSUME FInv, NEW i \in Level, LevelIsFilled(i)
  PROVE  LevelsTracked' /\ TargetIsFree' /\ StopsTracked'
<1> DEFINE id == levels[side][i].order
<1>0. OrdersOK /\ LevelsTracked /\ side \in Sides
  BY DEF FInv, IInv, TypeOK, LocalsOK
<1>1. /\ UNCHANGED <<config, stop, orders, lost, side>> /\ pc = "checkLevels" /\ pc' = "updateStop"
      /\ booked' = booked \cup {id} /\ orders[id].status = "filled"
  BY DEF LevelIsFilled, IsNextToCheck, Await, exchange
<1>2. Status(side, i) = "opening" /\ id \in OrderIds /\ orders[id].kind = "level"
  <2>1. Status(side, i) = "opening"
    BY DEF FInv, IInv, ToCheckIsOpening, LevelIsFilled, IsNextToCheck
  <2> QED
    BY <1>0, <2>1, SlotOrder
<1>3. OrdersOK'
  BY LevelFillKeepsIInv DEF FInv, IInv, TypeOK
<1>4. OrderIds' = OrderIds
  BY <1>1, UnchangedGoOn
<1>5. /\ Status(side, i)' # "opening"
      /\ \A s \in Sides, k \in Level :
           \/ levels'[s][k] = levels[s][k]
           \/ /\ s = side /\ k = i
              /\ levels'[s][k].order = levels[s][k].order /\ levels'[s][k].status = "opened"
           \/ levels'[s][k] = Closed /\ (Status(s, k) = "opened" \/ (s = side /\ k = i))
  <2>1. CASE levels' = [levels EXCEPT ![side][i].status = "opened"]
    <3> DEFINE slot == [levels[side][i] EXCEPT !.status = "opened"]
    <3>1. slot.status = "opened" /\ slot.order = levels[side][i].order
      BY <1>0 DEF OrdersOK, Slot
    <3> HIDE DEF slot
    <3>2. /\ levels'[side][i] = slot
          /\ \A s \in Sides, k \in Level : s # side \/ k # i => levels'[s][k] = levels[s][k]
      BY <1>0, <2>1 DEF OrdersOK, slot
    <3> QED
      BY <1>0, <1>1, <1>2, <3>1, <3>2 DEF Status
  <2>2. ASSUME NEW j \in Level, j \in OpenedLevels(Other(side)), Match(i, j)
        PROVE  /\ Status(side, i)' # "opening"
               /\ \A s \in Sides, k \in Level :
                    \/ levels'[s][k] = levels[s][k]
                    \/ levels'[s][k] = Closed /\ (Status(s, k) = "opened" \/ (s = side /\ k = i))
    <3>1. Other(side) \in Sides /\ Other(side) # side /\ Closed.status = "closed"
      BY <1>0 DEF Other, Sides, Closed
    <3>2. /\ levels'[side][i] = Closed
          /\ levels'[Other(side)][j] = Closed
          /\ \A s \in Sides, k \in Level :
               (s # side \/ k # i) /\ (s # Other(side) \/ k # j) => levels'[s][k] = levels[s][k]
      BY <1>0, <2>2, <3>1 DEF OrdersOK, Match
    <3>3. Status(Other(side), j) = "opened"
      BY <2>2 DEF OpenedLevels
    <3> QED
      BY <1>1, <3>1, <3>2, <3>3 DEF Status
  <2>3. \/ levels' = [levels EXCEPT ![side][i].status = "opened"]
        \/ \E j \in Level : j \in OpenedLevels(Other(side)) /\ Match(i, j)
    BY DEF LevelIsFilled, IsFarthest, Closable
  <2> QED
    BY <2>1, <2>2, <2>3
<1>6. \A s \in Sides, k \in Level :
        Status(s, k)' # "closed" => Status(s, k) # "closed" /\ levels'[s][k].order = levels[s][k].order
  BY <1>2, <1>5 DEF Status, Closed
<1>7. SlotsAreApart'
  <2> SUFFICES ASSUME NEW s \in Sides, NEW t \in Sides, NEW k \in Level, NEW m \in Level,
                      Status(s, k)' # "closed", levels'[t][m].order = levels'[s][k].order
               PROVE  s = t /\ k = m
    BY DEF SlotsAreApart, Status
  <2>1. levels'[s][k].order # None
    <3>1. Status(s, k) # "closed" /\ levels'[s][k].order = levels[s][k].order
      BY <1>6
    <3> QED
      BY <1>0, <3>1, SlotOrder
  <2>2. levels'[t][m].order = levels[t][m].order
    BY <1>5, <2>1 DEF Closed
  <2>3. Status(s, k) # "closed" /\ levels'[s][k].order = levels[s][k].order
    BY <1>6
  <2>4. levels[t][m].order = levels[s][k].order
    BY <2>2, <2>3
  <2> QED
    BY <1>0, <2>3, <2>4 DEF LevelsTracked, SlotsAreApart
<1>8. BookedIsFilled'
  <2> SUFFICES ASSUME NEW order \in booked' PROVE orders[order].status = "filled"
    BY <1>1 DEF BookedIsFilled
  <2>1. order \in booked \/ order = id
    BY <1>1
  <2> QED
    BY <1>0, <1>1, <2>1 DEF LevelsTracked, BookedIsFilled
<1>9. ASSUME NEW s \in Sides, NEW k \in Level
      PROVE  Status(s, k)' = "opening" <=> Status(s, k) = "opening" /\ ~(s = side /\ k = i)
  BY <1>1, <1>2, <1>5 DEF Status, Closed
<1>10. \A s \in Sides, k \in Level : Status(s, k)' = "opening" =>
         levels'[s][k].order = levels[s][k].order /\ levels[s][k].order # id
  <2> SUFFICES ASSUME NEW s \in Sides, NEW k \in Level, Status(s, k)' = "opening"
               PROVE  levels'[s][k].order = levels[s][k].order /\ levels[s][k].order # id
    OBVIOUS
  <2>1. Status(s, k) = "opening" /\ ~(s = side /\ k = i)
    BY <1>9
  <2> QED
    BY <1>0, <1>2, <1>6, <2>1 DEF LevelsTracked, SlotsAreApart
<1>11. WaitingIsUnbooked'
  BY <1>0, <1>1, <1>9, <1>10 DEF LevelsTracked, WaitingIsUnbooked, Status
<1>12. LevelOrdersAreKept'
  <2> SUFFICES ASSUME NEW order \in OrderIds, orders[order].kind = "level", order \notin lost
               PROVE  orders[order].status = "cancelled" \/ order \in booked' \/ IsWaitedFor(order)'
    BY <1>1, <1>4 DEF LevelOrdersAreKept
  <2>1. orders[order].status = "cancelled" \/ order \in booked \/ IsWaitedFor(order)
    BY <1>0 DEF LevelsTracked, LevelOrdersAreKept
  <2>2. ASSUME IsWaitedFor(order), order # id
        PROVE  IsWaitedFor(order)'
    <3>1. PICK s \in Sides, k \in Level : Status(s, k) = "opening" /\ levels[s][k].order = order
      BY <2>2 DEF IsWaitedFor
    <3>2. Status(s, k)' = "opening"
      BY <1>9, <2>2, <3>1
    <3>3. levels'[s][k].order = order
      BY <1>10, <3>1, <3>2
    <3> QED
      BY <3>2, <3>3 DEF IsWaitedFor, Status
  <2> QED
    BY <1>1, <2>1, <2>2
<1>13. TargetIsFree'
  BY <1>1 DEF TargetIsFree
<1>14. StopsTracked'
  BY <1>1, <1>4 DEF FInv, StopsTracked, StopOrdersAreKept, StopsAreLookedAt, Checking, IsNotFilled
<1> QED
  BY <1>7, <1>8, <1>11, <1>12, <1>13, <1>14 DEF LevelsTracked

\* Checks that find no fill.
LEMMA CheckIsTracked ==
  ASSUME FInv, NEW i \in Level, LevelIsNotFilled(i) \/ LevelIsMissing(i) \/ LevelsChecked
  PROVE  LevelsTracked' /\ TargetIsFree' /\ StopsTracked'
<1>1. /\ UNCHANGED <<config, levels, stop, orders, booked, lost>>
      /\ pc = "checkLevels" /\ pc' \in {"checkLevels", "market"}
  BY DEF LevelIsNotFilled, LevelIsMissing, LevelsChecked, IsNextToCheck, Await, grid, exchange, history
<1>2. TargetIsFree'
  BY <1>1 DEF TargetIsFree
<1>3. ~config.live => StopsAreLookedAt'
  BY <1>1 DEF FInv, StopsTracked, StopsAreLookedAt, Checking, IsNotFilled
<1> QED
  BY <1>1, <1>2, <1>3, QuietlyTracked, UnchangedGoOn

-----------------------------------------------------------------------------
\* updateStopUpperOrder and updateStopLowerOrder, without a new order.
LEMMA StopDecisionIsTracked ==
  ASSUME FInv, StopStays \/ StopIsStale \/ StopIsAbsent \/ StopIsRefused \/ StopIsConfirmed
  PROVE  LevelsTracked' /\ TargetIsFree' /\ StopsTracked'
<1>0. LocalsOK /\ OrdersOK
  BY DEF FInv, IInv, TypeOK
<1>1. /\ UNCHANGED <<config, levels, stop, orders, booked, lost>> /\ pc \in Checking
  BY DEF StopStays, StopIsStale, StopIsAbsent, StopIsRefused, StopIsConfirmed, Checking, grid,
         exchange, history
<1>2. /\ pc' \in Checking
      /\ pc' = "placeStop" => updating' = updating /\ (pc = "placeStop" \/ StopIsAbsent)
  BY DEF StopStays, StopIsStale, StopIsAbsent, StopIsRefused, StopIsConfirmed, StopUpdated,
         StopTrialFails, Await, Checking
<1>3. TargetIsFree'
  BY <1>2 DEF TargetIsFree, Checking
<1>4. ASSUME ~config.live PROVE StopsAreLookedAt'
  <2>1. StopsAreLookedAt
    BY <1>4 DEF FInv, StopsTracked
  <2>2. \A s \in Sides : IsNotFilled(s)'
    BY <1>1, <2>1 DEF StopsAreLookedAt, IsNotFilled
  <2>3. ASSUME StopIsAbsent, stop[updating] # None
        PROVE  orders[stop[updating]].status = "cancelled"
    <3>1. updating \in Sides /\ stop[updating] \in OrderIds
      BY <1>0, <2>3 DEF LocalsOK, OrdersOK, StopIsOrder
    <3>2. orders[stop[updating]].status \in {"open", "filled", "cancelled"}
      BY <1>0, <3>1, OrderTypes DEF Order
    <3>3. orders[stop[updating]].status # "filled"
      BY <1>1, <2>1, <2>3, <3>1 DEF StopsAreLookedAt, IsNotFilled
    <3> QED
      BY <2>3, <3>2, <3>3 DEF StopIsAbsent
  <2> QED
    BY <1>1, <1>2, <2>1, <2>2, <2>3 DEF StopsAreLookedAt, Checking
<1> QED
  BY <1>1, <1>3, <1>4, QuietlyTracked, UnchangedGoOn

\* A stop order is cancelled unless it is filled, which it is not in a backtest.
LEMMA StopCancelIsTracked ==
  ASSUME FInv, StopIsCancelled \/ StopCancelThrows
  PROVE  LevelsTracked' /\ TargetIsFree' /\ StopsTracked'
<1>0. OrdersOK /\ updating \in Sides
  BY DEF FInv, IInv, TypeOK, LocalsOK
<1>1. /\ UNCHANGED <<config, levels, stop, booked, lost>> /\ pc = "cancelStop"
      /\ CancelAtExchange(stop[updating]) \/ (UNCHANGED orders /\ StopCancelThrows)
  BY DEF StopIsCancelled, StopCancelThrows, grid, exchange, history
<1>2. OrdersGoOn /\ OrderIds' = OrderIds
  BY <1>0, <1>1, CancelledGoOn, UnchangedGoOn
<1>3. CASE StopCancelThrows
  <2>1. pc' \in {"idle", "failed"} /\ side' = "short"
    BY <1>3 DEF StopCancelThrows, Throw, Await, ForgetLocals
  <2> QED
    BY <1>1, <1>2, <2>1, QuietlyTracked DEF TargetIsFree, StopsAreLookedAt, Checking
<1>4. CASE StopIsCancelled
  <2>1. pc' = "placeStop" /\ UNCHANGED updating /\ CancelAtExchange(stop[updating])
    BY <1>4 DEF StopIsCancelled, Await
  <2>2. ASSUME ~config.live PROVE StopsAreLookedAt'
    <3>1. \A s \in Sides : IsNotFilled(s)
      BY <1>1, <2>2 DEF FInv, StopsTracked, StopsAreLookedAt, Checking
    <3>2. \A s \in Sides : stop[s] # None => stop[s] \in OrderIds
      BY <1>0 DEF OrdersOK, StopIsOrder
    <3>3. \A k \in OrderIds : orders'[k].status \in {orders[k].status, "cancelled"}
      BY <1>0, <2>1, CancelledGoOn
    <3>4. \A s \in Sides : IsNotFilled(s)'
      BY <1>1, <3>1, <3>2, <3>3 DEF IsNotFilled
    <3>5. stop[updating] # None => orders'[stop[updating]].status = "cancelled"
      BY <1>0, <2>1, <3>1, <3>2, CancelledGoOn DEF IsNotFilled
    <3> QED
      BY <1>1, <2>1, <3>4, <3>5 DEF StopsAreLookedAt
  <2> QED
    BY <1>1, <1>2, <2>1, <2>2, QuietlyTracked DEF TargetIsFree
<1> QED
  BY <1>3, <1>4

\* A stop order is placed in the place of one that is cancelled.
LEMMA StopPlacingIsTracked ==
  ASSUME FInv, StopIsPlaced \/ StopAnswerLost
  PROVE  LevelsTracked' /\ TargetIsFree' /\ StopsTracked'
<1>0. OrdersOK /\ LevelsTracked /\ updating \in Sides
  BY DEF FInv, IInv, TypeOK, LocalsOK
<1>1. StopPrice[updating] \in Int /\ StopSize \in Int
  BY <1>0 DEF FInv, IInv, TypeOK, StopSize, Sign, Sides
<1>2. Accept("stop", updating, StopPrice[updating], StopSize)
  BY DEF StopIsPlaced, StopAnswerLost
<1>3. /\ OrderIds' = OrderIds \cup {NewId} /\ NewId \notin OrderIds
      /\ \A id \in OrderIds : orders'[id] = orders[id]
      /\ orders'[NewId].kind = "stop" /\ orders'[NewId].status = "open"
      /\ OrdersGoOn
  BY <1>0, <1>1, <1>2, AcceptedLast
<1>4. /\ UNCHANGED <<config, levels, booked>> /\ pc = "placeStop"
      /\ lost' = lost \/ lost' = lost \cup {NewId}
  BY DEF StopIsPlaced, StopAnswerLost, grid, history
<1>5. LevelsTracked'
  BY <1>0, <1>3, <1>4, LevelsStay
<1>6. pc' \notin {"place", "placed"}
  BY <1>4 DEF StopIsPlaced, StopAnswerLost, StopTrialFails, StopUpdated, Await
<1>7. TargetIsFree'
  BY <1>6 DEF TargetIsFree
<1>8. ASSUME ~config.live PROVE StopOrdersAreKept' /\ StopsAreLookedAt'
  <2>1. StopIsPlaced /\ StopOrdersAreKept /\ StopsAreLookedAt
    BY <1>8 DEF FInv, StopsTracked, StopAnswerLost, Fault
  <2>2. /\ stop'[updating] = NewId /\ pc' = "stopPlaced"
        /\ \A s \in Sides : s # updating => stop'[s] = stop[s]
    BY <1>0, <2>1 DEF StopIsPlaced, Await, OrdersOK
  <2>3. \A s \in Sides : stop[s] # None => stop[s] \in OrderIds
    BY <1>0 DEF OrdersOK, StopIsOrder
  <2>4. stop[updating] \in OrderIds => orders[stop[updating]].status = "cancelled"
    <3>1. None \notin OrderIds
      BY <1>0 DEF OrdersOK, OrderIds
    <3> QED
      BY <1>4, <2>1, <3>1 DEF StopsAreLookedAt
  <2>5. StopOrdersAreKept'
    <3> SUFFICES ASSUME NEW id \in OrderIds', orders'[id].kind = "stop"
                 PROVE  orders'[id].status = "cancelled" \/ id \in booked' \/ \E s \in Sides : stop'[s] = id
      BY DEF StopOrdersAreKept
    <3>1. CASE id = NewId
      BY <1>0, <2>2, <3>1
    <3>2. CASE id \in OrderIds
      <4>1. orders[id].status = "cancelled" \/ id \in booked \/ \E s \in Sides : stop[s] = id
        BY <1>3, <2>1, <3>2 DEF StopOrdersAreKept
      <4> QED
        BY <1>3, <1>4, <2>2, <2>4, <3>2, <4>1
    <3> QED
      BY <1>3, <3>1, <3>2
  <2>6. \A s \in Sides : IsNotFilled(s)'
    <3>1. \A s \in Sides : IsNotFilled(s)
      BY <1>4, <2>1 DEF StopsAreLookedAt, Checking
    <3> QED
      BY <1>3, <2>2, <2>3, <3>1 DEF IsNotFilled
  <2> QED
    BY <2>2, <2>5, <2>6 DEF StopsAreLookedAt
<1> QED
  BY <1>4, <1>5, <1>7, <1>8 DEF StopsTracked

-----------------------------------------------------------------------------
\* Nothing is ordered at first.
LEMMA InitIsTracked ==
  ASSUME Init
  PROVE  FInv
<1>1. /\ OrderIds = {} /\ booked = {} /\ pc = "trigger"
      /\ \A s \in Sides, i \in Level : Status(s, i) = "closed"
  BY DEF Init, OrderIds, Closed, Status
<1>2. LevelsTracked
  BY <1>1 DEF LevelsTracked, SlotsAreApart, BookedIsFilled, WaitingIsUnbooked, LevelOrdersAreKept
<1>3. TargetIsFree /\ StopsTracked
  BY <1>1 DEF TargetIsFree, StopsTracked, StopOrdersAreKept, StopsAreLookedAt, Checking
<1> QED
  BY <1>2, <1>3, InitEstablishesIInv DEF FInv

\* Every step keeps track of the fills.
LEMMA NextIsTracked ==
  ASSUME FInv, [Next]_vars
  PROVE  FInv'
<1>0. IInv'
  BY NextKeepsIInv DEF FInv
<1>1. CASE \E to \in Price : MarketMoves(to) \/ MarketGaps(to)
  BY <1>0, <1>1, MarketIsTracked DEF FInv
<1>2. CASE NextStarts
  BY <1>0, <1>2, TriggerIsTracked DEF FInv
<1>3. CASE Step
  <2>1. CASE TriggerOpens \/ TriggerWaits \/ TriggerIsUnknown
    BY <1>0, <2>1, TriggerIsTracked DEF FInv
  <2>2. CASE AnswerIsMissing \/ OpenLevelsNearMarketPrice
    BY <1>0, <2>2, AskingIsTracked, LevelOrderIsTracked, LostLevelOrderIsTracked
       DEF FInv, OpenLevelsNearMarketPrice
  <2>3. CASE CheckOrders
    <3>1. 0 \in Level
      BY DEF Level
    <3> QED
      BY <1>0, <2>3, <3>1, StopCheckIsTracked, LevelFillIsTracked, CheckIsTracked
         DEF FInv, CheckOrders
  <2>4. CASE UpdateStops
    BY <1>0, <2>4, StopDecisionIsTracked, StopCancelIsTracked, StopPlacingIsTracked
       DEF FInv, UpdateStops
  <2> QED
    BY <1>3, <2>1, <2>2, <2>3, <2>4 DEF Step
<1>4. CASE UNCHANGED vars
  <2>1. UNCHANGED <<config, levels, stop, orders, booked, lost, pc, side, near, trial, updating>>
    BY <1>4 DEF vars
  <2>2. TargetIsFree' /\ (~config.live => StopsAreLookedAt')
    BY <2>1 DEF FInv, TargetIsFree, Target, IsFree, Status, StopsTracked, StopsAreLookedAt,
                IsNotFilled
  <2> QED
    BY <1>0, <2>1, <2>2, QuietlyTracked, UnchangedGoOn DEF FInv
<1> QED
  BY <1>1, <1>2, <1>3, <1>4 DEF Next

\* The grid accounts for every fill and works no stray order, for any number of levels
\* and orders, whatever the exchange fills, refuses, cancels or fails to answer
\* (placeLongOrderAt, checkOpeningLongLevels, checkStopOrders, updateStopLowerOrder).
THEOREM EveryFillIsTracked == Spec => []FillsAreTracked
<1>1. FInv => FillsAreTracked
  <2> SUFFICES ASSUME FInv PROVE FillsAreTracked
    OBVIOUS
  <2>1. \A id : id \in OpeningOrders <=> IsWaitedFor(id)
    BY DEF OpeningOrders, OpeningLevels, IsWaitedFor
  <2>2. \A id : IsWaitedFor(id) => id \notin booked
    BY DEF FInv, LevelsTracked, WaitingIsUnbooked, IsWaitedFor
  <2>3. LevelFillsAreTracked /\ NoStrayLevelOrders
    BY <2>1, <2>2 DEF FInv, LevelsTracked, LevelOrdersAreKept, BookedIsFilled,
                      LevelFillsAreTracked, NoStrayLevelOrders, Filled, LevelOrders
  <2>4. StopFillsAreTracked
    <3>1. \A id \in OrderIds : orders[id].kind \in {"level", "stop"}
      BY OrderTypes DEF FInv, IInv, TypeOK, Order
    <3> QED
      BY <3>1 DEF FInv, StopsTracked, StopOrdersAreKept, StopFillsAreTracked, Filled, LevelOrders
  <2> QED
    BY <2>3, <2>4 DEF FillsAreTracked
<1>2. Spec => []FInv
  BY InitIsTracked, NextIsTracked, PTL DEF Spec
<1> QED
  BY <1>1, <1>2, PTL

-----------------------------------------------------------------------------
(* The position is explained.                                              *)

\* A level order is of one lot, and the order of a stop has not been booked: it is
\* forgotten with the booking, and an order placed later has another id.
LevelOrdersAreUnits == \A id \in OrderIds : orders[id].kind = "level" => orders[id].size = 1

StopsAreUnbooked == \A s \in Sides : stop[s] # None => stop[s] \notin booked

PositionIsSum == position = SumSigned(booked)

PInv == LevelOrdersAreUnits /\ StopsAreUnbooked /\ PositionIsSum /\ LevelsExplainPosition

\* What the orders at the exchange are for stays as it is, and level orders that come
\* are of one lot.
OrdersStand ==
  /\ \A id \in OrderIds :
       /\ id \in OrderIds'
       /\ orders'[id].kind = orders[id].kind
       /\ orders'[id].side = orders[id].side
       /\ orders'[id].size = orders[id].size
  /\ \A id \in OrderIds' \ OrderIds : orders'[id].kind = "level" => orders'[id].size = 1

LEMMA AcceptedStands ==
  ASSUME OrdersOK, NEW kind \in {"level", "stop"}, NEW s \in Sides,
         NEW price \in Int, NEW size \in Int, Accept(kind, s, price, size),
         kind = "level" => size = 1
  PROVE  OrdersStand
<1> DEFINE order == [kind |-> kind, side |-> s, price |-> price, size |-> size,
                     status |-> StatusAtOnce(kind, s, price)]
<1>1. order \in Order /\ order.kind = kind /\ order.size = size
  BY DEF Order, StatusAtOnce
<1>2. orders' = Append(orders, order) /\ orders \in Seq(Order)
  BY DEF Accept, OrdersOK
<1> HIDE DEF order
<1>3. /\ Len(orders) \in Nat
      /\ DOMAIN orders = 1..Len(orders) /\ DOMAIN orders' = 1..(Len(orders) + 1)
      /\ \A id \in 1..Len(orders) : orders'[id] = orders[id]
      /\ orders'[Len(orders) + 1] = order
  BY <1>1, <1>2
<1> QED
  BY <1>1, <1>3 DEF OrdersStand, OrderIds

\* Orders stand when only their status changes.
LEMMA ChangedStand ==
  ASSUME OrdersOK, OrderIds' = OrderIds,
         \A id \in OrderIds :
           \/ orders'[id] = orders[id]
           \/ \E status \in {"open", "filled", "cancelled"} :
                orders'[id] = [orders[id] EXCEPT !.status = status]
  PROVE  OrdersStand
<1>1. ASSUME NEW id \in OrderIds
      PROVE  /\ orders'[id].kind = orders[id].kind
             /\ orders'[id].side = orders[id].side
             /\ orders'[id].size = orders[id].size
  <2>1. orders[id] \in Order
    BY OrderTypes
  <2> QED
    BY <2>1 DEF Order
<1> QED
  BY <1>1 DEF OrdersStand

LEMMA MovedStand ==
  ASSUME OrdersOK, NEW to \in Price, MarketMoves(to)
  PROVE  OrdersStand
<1>1. OrderIds' = OrderIds
  BY DEF MarketMoves, OrderIds
<1>2. \A id \in OrderIds : \/ orders'[id] = orders[id]
                           \/ orders'[id] = [orders[id] EXCEPT !.status = "filled"]
  BY DEF MarketMoves, OrderIds
<1> QED
  BY <1>1, <1>2, ChangedStand

LEMMA CancelledStand ==
  ASSUME OrdersOK, NEW id, CancelAtExchange(id)
  PROVE  OrdersStand
<1>1. OrderIds' = OrderIds
  BY DEF CancelAtExchange, OrderIds
<1>2. \A k \in OrderIds : orders[k] \in Order
  BY OrderTypes
<1>3. \A k \in OrderIds : k # id => orders'[k] = orders[k]
  BY DEF CancelAtExchange, OrderIds
<1>4. id \in OrderIds => \/ orders'[id] = [orders[id] EXCEPT !.status = "cancelled"]
                         \/ orders'[id] = [orders[id] EXCEPT !.status = orders[id].status]
  BY DEF CancelAtExchange, OrderIds
<1>5. \A k \in OrderIds : orders[k].status \in {"open", "filled", "cancelled"}
  BY <1>2 DEF Order
<1> QED
  BY <1>1, <1>3, <1>4, <1>5, ChangedStand

LEMMA UnchangedStand ==
  ASSUME UNCHANGED orders
  PROVE  OrdersStand
BY DEF OrdersStand, OrderIds

-----------------------------------------------------------------------------
\* Sets of orders are finite, and their signed sizes whole numbers.
LEMMA SignedSizes ==
  ASSUME OrdersOK
  PROVE  /\ IsFiniteSet(OrderIds)
         /\ \A id \in OrderIds : Signed[id] = Sign(orders[id].side) * orders[id].size
         /\ \A id \in OrderIds : Signed[id] \in Int
         /\ \A ids \in SUBSET OrderIds : IsFiniteSet(ids) /\ SumSigned(ids) \in Int
<1>1. Len(orders) \in Nat /\ OrderIds = 1..Len(orders)
  BY DEF OrdersOK, OrderIds
<1>2. IsFiniteSet(OrderIds)
  BY <1>1, FS_Interval
<1>3. \A id \in OrderIds : Signed[id] = Sign(orders[id].side) * orders[id].size
  BY DEF Signed
<1>4. \A id \in OrderIds : Signed[id] \in Int
  BY <1>3, OrderTypes DEF Sign
<1>5. ASSUME NEW ids \in SUBSET OrderIds
      PROVE  IsFiniteSet(ids) /\ SumSigned(ids) \in Int
  <2>1. IsFiniteSet(ids)
    BY <1>2, FS_Subset
  <2> QED
    BY <1>4, <2>1, SumInt DEF SumSigned
<1> QED
  BY <1>2, <1>3, <1>4, <1>5

\* What orders sum up to stays with them.
LEMMA SumStands ==
  ASSUME OrdersOK, OrdersStand, NEW ids \in SUBSET OrderIds
  PROVE  SumFunctionOnSet(Signed', ids) = SumSigned(ids)
<1>1. \A id \in ids : Signed'[id] = Signed[id]
  BY DEF OrdersStand, Signed
<1>2. IsFiniteSet(ids)
  BY SignedSizes
<1> QED
  BY <1>1, <1>2, SumOfEqual DEF SumSigned

\* A booked order adds its signed size.
LEMMA SumBooked ==
  ASSUME OrdersOK, NEW ids \in SUBSET OrderIds, NEW id \in OrderIds, id \notin ids
  PROVE  SumSigned(ids \cup {id}) = SumSigned(ids) + Sign(orders[id].side) * orders[id].size
<1>1. IsFiniteSet(ids) /\ Signed[id] = Sign(orders[id].side) * orders[id].size
  BY SignedSizes
<1>2. \A k \in ids \cup {id} : Signed[k] \in Int
  BY SignedSizes
<1> QED
  BY <1>1, <1>2, SumAdd DEF SumSigned

\* A step that books nothing, and opens and closes no slot.
LEMMA NothingBooked ==
  ASSUME FInv, PInv, OrdersStand, UNCHANGED <<position, booked>>,
         \A s \in Sides : OpenedLevels(s)' = OpenedLevels(s),
         \A s \in Sides : stop'[s] # None => stop'[s] = stop[s] \/ stop'[s] \notin OrderIds
  PROVE  PInv'
<1>0. OrdersOK /\ booked \subseteq OrderIds
  BY DEF FInv, IInv, TypeOK, OrdersOK
<1>1. LevelOrdersAreUnits'
  BY DEF PInv, LevelOrdersAreUnits, OrdersStand
<1>2. StopsAreUnbooked'
  BY <1>0 DEF PInv, StopsAreUnbooked
<1>3. PositionIsSum'
  <2>1. SumFunctionOnSet(Signed', booked) = SumSigned(booked)
    BY <1>0, SumStands
  <2> QED
    BY <2>1 DEF PInv, PositionIsSum, SumSigned
<1>4. LevelsExplainPosition'
  <2> DEFINE ids == booked \ LevelOrders
  <2>1. (booked \ LevelOrders)' = ids
    BY <1>0 DEF LevelOrders, OrdersStand
  <2>2. SumFunctionOnSet(Signed', ids) = SumSigned(ids)
    BY <1>0, SumStands
  <2>3. SumSigned(booked \ LevelOrders)' = SumSigned(ids)
    BY <2>1, <2>2 DEF SumSigned
  <2>4. "long" \in Sides /\ "short" \in Sides
    BY DEF Sides
  <2> QED
    BY <2>3, <2>4 DEF PInv, LevelsExplainPosition
<1> QED
  BY <1>1, <1>2, <1>3, <1>4 DEF PInv

\* The steps that change no slot, stop or booking.
LEMMA NothingChanged ==
  ASSUME FInv, PInv, OrdersStand, UNCHANGED <<position, booked, levels, stop>>
  PROVE  PInv'
<1>1. \A s \in Sides : OpenedLevels(s)' = OpenedLevels(s)
  BY DEF OpenedLevels, Status
<1> QED
  BY <1>1, NothingBooked

-----------------------------------------------------------------------------
\* There are as many opened slots as levels at most.
LEMMA OpenedAreFinite ==
  ASSUME NEW s \in Sides
  PROVE  IsFiniteSet(OpenedLevels(s)) /\ Cardinality(OpenedLevels(s)) \in Nat
<1>1. IsFiniteSet(Level)
  BY FS_Interval DEF Level
<1> QED
  BY <1>1, FS_Subset, FS_CardinalityType DEF OpenedLevels

\* One more slot of a side is opened, or one less, and the other side stays.
OpensOne(s) ==
  /\ Cardinality(OpenedLevels(s))' = Cardinality(OpenedLevels(s)) + 1
  /\ Cardinality(OpenedLevels(Other(s)))' = Cardinality(OpenedLevels(Other(s)))

ClosesOne(s) ==
  /\ Cardinality(OpenedLevels(s))' = Cardinality(OpenedLevels(s)) - 1
  /\ Cardinality(OpenedLevels(Other(s)))' = Cardinality(OpenedLevels(Other(s)))

\* A fill opens its slot or closes the one it matches.
LEMMA FillOpensOrCloses ==
  ASSUME OrdersOK, NEW s \in Sides, s = side, NEW i \in Level, Status(s, i) = "opening",
         LevelIsFilled(i)
  PROVE  OpensOne(s) \/ ClosesOne(Other(s))
<1> DEFINE other == Other(s)
           mine == OpenedLevels(s)
           theirs == OpenedLevels(other)
<1>0. other \in Sides /\ other # s /\ Other(other) = s
  BY DEF Other, Sides
<1>1. /\ IsFiniteSet(mine) /\ Cardinality(mine) \in Nat
      /\ IsFiniteSet(theirs) /\ Cardinality(theirs) \in Nat
  BY <1>0, OpenedAreFinite
<1>2. i \notin mine
  BY DEF OpenedLevels
<1>3. CASE levels' = [levels EXCEPT ![s][i].status = "opened"]
  <2>1. /\ levels'[other] = levels[other]
        /\ \A k \in Level : k # i => levels'[s][k] = levels[s][k]
        /\ levels'[s][i].status = "opened"
    <3>1. levels[s][i] \in Slot
      BY DEF OrdersOK
    <3>2. levels'[s][i] = [levels[s][i] EXCEPT !.status = "opened"]
      BY <1>3 DEF OrdersOK
    <3>3. levels'[s][i].status = "opened"
      BY <3>1, <3>2 DEF Slot
    <3> QED
      BY <1>0, <1>3, <3>3 DEF OrdersOK
  <2>2. OpenedLevels(s)' = mine \cup {i} /\ OpenedLevels(other)' = theirs
    BY <2>1 DEF OpenedLevels, Status
  <2> HIDE DEF mine, theirs
  <2>3. Cardinality(mine \cup {i}) = Cardinality(mine) + 1
    BY <1>1, <1>2, FS_AddElement
  <2> QED
    BY <2>2, <2>3 DEF OpensOne, mine, theirs
<1>4. ASSUME NEW j \in Level, j \in theirs, Match(i, j)
      PROVE  ClosesOne(other)
  <2>1. /\ \A k \in Level : k # i => levels'[s][k] = levels[s][k]
        /\ \A k \in Level : k # j => levels'[other][k] = levels[other][k]
        /\ levels'[s][i] = Closed /\ levels'[other][j] = Closed
    BY <1>0, <1>4 DEF Match, OrdersOK
  <2>2. OpenedLevels(s)' = mine /\ OpenedLevels(other)' = theirs \ {j}
    BY <1>2, <1>4, <2>1 DEF OpenedLevels, Status, Closed
  <2> HIDE DEF mine, theirs
  <2>3. Cardinality(theirs \ {j}) = Cardinality(theirs) - 1
    BY <1>1, <1>4, FS_RemoveElement
  <2> QED
    BY <1>0, <2>2, <2>3 DEF ClosesOne, mine, theirs
<1> QED
  BY <1>3, <1>4 DEF LevelIsFilled, IsFarthest, Closable

-----------------------------------------------------------------------------
\* A filled stop order is booked for what it has closed.
LEMMA StopFillIsExplained ==
  ASSUME FInv, PInv, StopIsFilled
  PROVE  PInv'
<1> DEFINE id == stop[side]
           stopIds == booked \ LevelOrders
<1>0. OrdersOK /\ side \in Sides /\ booked \in SUBSET OrderIds
  BY DEF FInv, IInv, TypeOK, OrdersOK, LocalsOK
<1>1. /\ UNCHANGED <<levels, orders>> /\ id # None
      /\ position' = position + Sign(side) * orders[id].size
      /\ booked' = booked \cup {id}
      /\ ClearStop(side)
  BY DEF StopIsFilled, exchange
<1>2. id \in OrderIds /\ orders[id].kind = "stop" /\ orders[id].side = side
  BY <1>0, <1>1 DEF OrdersOK, StopIsOrder
<1>3. id \notin booked
  BY <1>0, <1>1 DEF PInv, StopsAreUnbooked
<1>4. stop'[side] = None /\ \A s \in Sides : s # side => stop'[s] = stop[s]
  BY <1>0, <1>1 DEF ClearStop, OrdersOK
<1>5. \A s \in Sides : s # side /\ stop[s] # None => stop[s] # id
  BY <1>0, <1>2 DEF OrdersOK, StopIsOrder
<1> HIDE DEF id
<1>6. LevelOrdersAreUnits'
  BY <1>1 DEF PInv, LevelOrdersAreUnits, OrderIds
<1>7. StopsAreUnbooked'
  BY <1>1, <1>4, <1>5 DEF PInv, StopsAreUnbooked
<1>8. SumSigned(booked)' = SumSigned(booked \cup {id}) /\ LevelOrders' = LevelOrders
  BY <1>1 DEF SumSigned, Signed, OrderIds, LevelOrders
<1>9. SumSigned(booked \cup {id}) = SumSigned(booked) + Sign(side) * orders[id].size
  BY <1>0, <1>2, <1>3, SumBooked
<1>10. PositionIsSum'
  BY <1>1, <1>8, <1>9 DEF PInv, PositionIsSum
<1>11. LevelsExplainPosition'
  <2>1. (booked \ LevelOrders)' = stopIds \cup {id} /\ stopIds \in SUBSET OrderIds /\ id \notin stopIds
    BY <1>0, <1>1, <1>2, <1>3, <1>8 DEF LevelOrders
  <2>2. SumSigned(stopIds \cup {id}) = SumSigned(stopIds) + Sign(side) * orders[id].size
    BY <1>0, <1>2, <2>1, SumBooked
  <2>3. (SumSigned(booked \ LevelOrders))' = SumSigned(stopIds \cup {id})
    BY <1>1, <2>1 DEF SumSigned, Signed, OrderIds
  <2>4. \A s \in Sides : OpenedLevels(s)' = OpenedLevels(s)
    BY <1>1 DEF OpenedLevels, Status
  <2>5. position = Cardinality(OpenedLevels("long")) - Cardinality(OpenedLevels("short"))
                     + SumSigned(stopIds)
    BY DEF PInv, LevelsExplainPosition
  <2>6. /\ Cardinality(OpenedLevels("long")) \in Int /\ Cardinality(OpenedLevels("short")) \in Int
        /\ SumSigned(stopIds) \in Int /\ Sign(side) * orders[id].size \in Int
    <3>0. "long" \in Sides /\ "short" \in Sides
      BY DEF Sides
    <3>1. SumSigned(stopIds) \in Int /\ orders[id].size \in Int
      BY <1>0, <1>2, <2>1, SignedSizes, OrderTypes
    <3>2. Sign(side) * orders[id].size \in Int
      BY <3>1 DEF Sign
    <3> QED
      BY <3>0, <3>1, <3>2, OpenedAreFinite
  <2> HIDE DEF stopIds
  <2>7. "long" \in Sides /\ "short" \in Sides
    BY DEF Sides
  <2>8. position' = Cardinality(OpenedLevels("long")) - Cardinality(OpenedLevels("short"))
                      + SumSigned(stopIds \cup {id})
    BY <1>1, <2>2, <2>5, <2>6
  <2> QED
    BY <2>3, <2>4, <2>7, <2>8 DEF LevelsExplainPosition
<1> QED
  BY <1>6, <1>7, <1>10, <1>11 DEF PInv

\* A filled level order opens its slot, or closes a slot of the other side.
LEMMA LevelFillIsExplained ==
  ASSUME FInv, PInv, NEW i \in Level, LevelIsFilled(i)
  PROVE  PInv'
<1> DEFINE id == levels[side][i].order
           stopIds == booked \ LevelOrders
<1>0. OrdersOK /\ side \in Sides /\ booked \in SUBSET OrderIds
  BY DEF FInv, IInv, TypeOK, OrdersOK, LocalsOK
<1>1. /\ UNCHANGED <<stop, orders>>
      /\ position' = position + Sign(side) * orders[id].size
      /\ booked' = booked \cup {id}
  BY DEF LevelIsFilled, exchange
<1>2. Status(side, i) = "opening"
  BY DEF FInv, IInv, ToCheckIsOpening, LevelIsFilled, IsNextToCheck
<1>3. id \in OrderIds /\ orders[id].kind = "level" /\ orders[id].side = side /\ id \notin booked
  BY <1>0, <1>2 DEF FInv, LevelsTracked, WaitingIsUnbooked, OrdersOK, SlotHasOrder
<1>4. orders[id].size = 1
  BY <1>3 DEF PInv, LevelOrdersAreUnits
<1>5. \A s \in Sides : stop[s] # None => stop[s] # id
  BY <1>0, <1>3 DEF OrdersOK, StopIsOrder
<1>6. \A s \in Sides : s = side => OpensOne(s) \/ ClosesOne(Other(s))
  BY <1>0, <1>2, FillOpensOrCloses
<1> HIDE DEF id
<1>7. LevelOrdersAreUnits'
  BY <1>1 DEF PInv, LevelOrdersAreUnits, OrderIds
<1>8. StopsAreUnbooked'
  BY <1>1, <1>5 DEF PInv, StopsAreUnbooked
<1>9. SumSigned(booked)' = SumSigned(booked \cup {id}) /\ LevelOrders' = LevelOrders
  BY <1>1 DEF SumSigned, Signed, OrderIds, LevelOrders
<1>10. SumSigned(booked \cup {id}) = SumSigned(booked) + Sign(side) * orders[id].size
  BY <1>0, <1>3, SumBooked
<1>11. PositionIsSum'
  BY <1>1, <1>9, <1>10 DEF PInv, PositionIsSum
<1>12. LevelsExplainPosition'
  <2>1. (booked \ LevelOrders)' = stopIds /\ stopIds \in SUBSET OrderIds
    BY <1>0, <1>1, <1>3, <1>9 DEF LevelOrders
  <2>2. (SumSigned(booked \ LevelOrders))' = SumSigned(stopIds)
    BY <1>1, <2>1 DEF SumSigned, Signed, OrderIds
  <2>3. position = Cardinality(OpenedLevels("long")) - Cardinality(OpenedLevels("short"))
                     + SumSigned(stopIds)
    BY DEF PInv, LevelsExplainPosition
  <2>4. SumSigned(stopIds) \in Int
    BY <1>0, <2>1, SignedSizes
  <2> HIDE DEF stopIds
  <2> "long" \in Sides /\ "short" \in Sides
    BY DEF Sides
  <2>5. PICK longs \in Nat : longs = Cardinality(OpenedLevels("long"))
    BY OpenedAreFinite
  <2>6. PICK shorts \in Nat : shorts = Cardinality(OpenedLevels("short"))
    BY OpenedAreFinite
  <2>7. PICK sum \in Int : sum = SumSigned(stopIds)
    BY <2>4
  <2>8. position = longs - shorts + sum /\ position' = position + Sign(side)
    BY <1>1, <1>4, <2>3, <2>5, <2>6, <2>7 DEF Sign
  <2>9. CASE side = "long"
    <3>1. Cardinality(OpenedLevels("long"))' - Cardinality(OpenedLevels("short"))' = longs + 1 - shorts
      BY <1>6, <2>5, <2>6, <2>9 DEF OpensOne, ClosesOne, Other
    <3> QED
      BY <2>2, <2>7, <2>8, <2>9, <3>1 DEF LevelsExplainPosition, Sign
  <2>10. CASE side = "short"
    <3>1. Cardinality(OpenedLevels("long"))' - Cardinality(OpenedLevels("short"))' = longs - 1 - shorts
      BY <1>6, <2>5, <2>6, <2>10 DEF OpensOne, ClosesOne, Other
    <3> QED
      BY <2>2, <2>7, <2>8, <2>10, <3>1 DEF LevelsExplainPosition, Sign
  <2> QED
    BY <1>0, <2>9, <2>10 DEF Sides
<1> QED
  BY <1>7, <1>8, <1>11, <1>12 DEF PInv

-----------------------------------------------------------------------------
\* Level orders are placed and stop orders are placed, cancelled or looked at.
LEMMA PlacingIsExplained ==
  ASSUME FInv, PInv, LevelOrderPlaced \/ LevelOrderAnswerLost
  PROVE  PInv'
<1>0. OrdersOK /\ LocalsOK /\ side \in Sides
  BY DEF FInv, IInv, TypeOK, LocalsOK
<1>1. Target \in Level /\ IsFree(side, Target)
  BY PlacedWhereFree DEF LevelOrderPlaced, LevelOrderAnswerLost
<1>2. LevelPrice(Target) \in Int /\ 1 \in Int
  BY <1>1 DEF LevelPrice, Level
<1>3. OrdersStand
  BY <1>0, <1>2, AcceptedStands DEF LevelOrderPlaced, LevelOrderAnswerLost
<1>4. CASE LevelOrderAnswerLost
  BY <1>3, <1>4, NothingChanged DEF LevelOrderAnswerLost
<1>5. CASE LevelOrderPlaced
  <2>1. \A s \in Sides : OpenedLevels(s)' = OpenedLevels(s)
    <3> SUFFICES ASSUME NEW s \in Sides, NEW k \in Level
                 PROVE  Status(s, k)' = "opened" <=> Status(s, k) = "opened"
      BY DEF OpenedLevels
    <3>1. CASE s = side /\ k = Target
      <4>1. levels'[s][k] = [status |-> "opening", order |-> NewId]
        BY <1>0, <1>1, <1>5, <3>1 DEF LevelOrderPlaced, OrdersOK
      <4> QED
        BY <1>1, <3>1, <4>1 DEF IsFree, Status
    <3>2. CASE s # side \/ k # Target
      BY <1>0, <1>1, <1>5, <3>2 DEF LevelOrderPlaced, OrdersOK, Status
    <3> QED
      BY <3>1, <3>2
  <2> QED
    BY <1>3, <1>5, <2>1, NothingBooked DEF LevelOrderPlaced, history
<1> QED
  BY <1>4, <1>5

LEMMA StopPlacingIsExplained ==
  ASSUME FInv, PInv, StopIsPlaced \/ StopAnswerLost
  PROVE  PInv'
<1>0. OrdersOK /\ updating \in Sides
  BY DEF FInv, IInv, TypeOK, LocalsOK
<1>1. StopPrice[updating] \in Int /\ StopSize \in Int
  BY <1>0 DEF FInv, IInv, TypeOK, StopSize, Sign, Sides
<1>2. OrdersStand
  BY <1>0, <1>1, AcceptedStands DEF StopIsPlaced, StopAnswerLost
<1>3. CASE StopAnswerLost
  BY <1>2, <1>3, NothingChanged DEF StopAnswerLost, grid
<1>4. CASE StopIsPlaced
  <2>1. \A s \in Sides : OpenedLevels(s)' = OpenedLevels(s)
    BY <1>4 DEF StopIsPlaced, OpenedLevels, Status
  <2>2. NewId \notin OrderIds
    BY <1>0 DEF OrdersOK, OrderIds, NewId
  <2>3. \A s \in Sides : stop'[s] = stop[s] \/ stop'[s] = NewId
    BY <1>0, <1>4 DEF StopIsPlaced, OrdersOK
  <2> QED
    BY <1>2, <1>4, <2>1, <2>2, <2>3, NothingBooked DEF StopIsPlaced, history
<1> QED
  BY <1>3, <1>4

\* Nothing is ordered or opened at first.
LEMMA InitIsExplained ==
  ASSUME Init
  PROVE  PInv
<1>1. OrderIds = {} /\ booked = {} /\ position = 0 /\ \A s \in Sides : stop[s] = None
  BY DEF Init, OrderIds
<1>2. \A s \in Sides : OpenedLevels(s) = {}
  BY DEF Init, Closed, OpenedLevels, Status
<1>3. SumSigned({}) = 0
  BY SumEmpty DEF SumSigned
<1>4. booked \ LevelOrders = {}
  BY <1>1
<1>5. Cardinality(OpenedLevels("long")) = 0 /\ Cardinality(OpenedLevels("short")) = 0
  BY <1>2, FS_EmptySet DEF Sides
<1> QED
  BY <1>1, <1>3, <1>4, <1>5 DEF PInv, LevelOrdersAreUnits, StopsAreUnbooked, PositionIsSum,
                               LevelsExplainPosition

\* Every step keeps the position explained.
LEMMA NextIsExplained ==
  ASSUME FInv, PInv, [Next]_vars
  PROVE  PInv'
<1> USE DEF grid, local, exchange, history
<1>0. OrdersOK
  BY DEF FInv, IInv, TypeOK
<1>1. CASE \E to \in Price : MarketMoves(to) \/ MarketGaps(to)
  <2>1. PICK to \in Price : MarketMoves(to) \/ MarketGaps(to)
    BY <1>1
  <2>2. OrdersStand
    BY <1>0, <2>1, MovedStand, UnchangedStand DEF MarketGaps
  <2> QED
    BY <2>1, <2>2, NothingChanged DEF MarketMoves, MarketGaps
<1>2. CASE NextStarts
  BY <1>2, UnchangedStand, NothingChanged DEF NextStarts
<1>3. CASE Step
  <2>1. CASE TriggerOpens \/ TriggerWaits \/ TriggerIsUnknown \/ AnswerIsMissing
    BY <2>1, UnchangedStand, NothingChanged
       DEF TriggerOpens, TriggerWaits, TriggerIsUnknown, AnswerIsMissing
  <2>2. CASE OpenLevelsNearMarketPrice
    <3>1. CASE LevelOrderPlaced \/ LevelOrderAnswerLost
      BY <3>1, PlacingIsExplained
    <3>2. CASE \/ MarketIsRead \/ MarketIsUnknown \/ NothingDue \/ LevelOrderRefused
               \/ LevelOrderConfirmed \/ LevelOrderCancelled
      BY <3>2, UnchangedStand, NothingChanged
         DEF MarketIsRead, MarketIsUnknown, NothingDue, LevelOrderRefused, LevelOrderConfirmed,
             LevelOrderCancelled
    <3> QED
      BY <2>2, <3>1, <3>2 DEF OpenLevelsNearMarketPrice
  <2>3. CASE CheckOrders
    <3>1. CASE StopIsFilled
      BY <3>1, StopFillIsExplained
    <3>2. CASE \E i \in Level : LevelIsFilled(i)
      BY <3>2, LevelFillIsExplained
    <3>3. CASE StopIsNotFilled \/ StopIsMissing \/ LevelsChecked
      BY <3>3, UnchangedStand, NothingChanged DEF StopIsNotFilled, StopIsMissing, LevelsChecked
    <3>4. CASE \E i \in Level : LevelIsNotFilled(i) \/ LevelIsMissing(i)
      BY <3>4, UnchangedStand, NothingChanged DEF LevelIsNotFilled, LevelIsMissing
    <3> QED
      BY <2>3, <3>1, <3>2, <3>3, <3>4 DEF CheckOrders
  <2>4. CASE UpdateStops
    <3>1. CASE StopIsPlaced \/ StopAnswerLost
      BY <3>1, StopPlacingIsExplained
    <3>2. CASE StopIsCancelled \/ StopCancelThrows
      <4>1. OrdersStand
        BY <1>0, <3>2, CancelledStand, UnchangedStand DEF StopIsCancelled, StopCancelThrows
      <4> QED
        BY <3>2, <4>1, NothingChanged DEF StopIsCancelled, StopCancelThrows
    <3>3. CASE StopStays \/ StopIsStale \/ StopIsAbsent \/ StopIsRefused \/ StopIsConfirmed
      BY <3>3, UnchangedStand, NothingChanged
         DEF StopStays, StopIsStale, StopIsAbsent, StopIsRefused, StopIsConfirmed
    <3> QED
      BY <2>4, <3>1, <3>2, <3>3 DEF UpdateStops
  <2> QED
    BY <1>3, <2>1, <2>2, <2>3, <2>4 DEF Step
<1>4. CASE UNCHANGED vars
  BY <1>4, UnchangedStand, NothingChanged DEF vars
<1> QED
  BY <1>1, <1>2, <1>3, <1>4 DEF Next

\* The position of StateManager is the sum of the fills it has booked, each of a filled
\* order and once, and what its levels say: opened longs less opened shorts, and what
\* stop orders have closed since (updatePositionByOrder, setLevelOpened, setLevelClosed).
THEOREM PositionIsAlwaysExplained == Spec => []PositionIsExplained
<1>1. FInv /\ PInv => PositionIsExplained
  <2> SUFFICES ASSUME FInv, PInv PROVE PositionIsExplained
    OBVIOUS
  <2>1. booked \subseteq Filled
    BY DEF FInv, IInv, TypeOK, OrdersOK, LevelsTracked, BookedIsFilled, Filled
  <2> QED
    BY <2>1 DEF PInv, PositionIsSum, PositionIsBookedFills, PositionIsExplained
<1>2. Init => FInv /\ PInv
  BY InitIsTracked, InitIsExplained
<1>3. FInv /\ PInv /\ [Next]_vars => FInv' /\ PInv'
  BY NextIsTracked, NextIsExplained
<1> QED
  BY <1>1, <1>2, <1>3, PTL DEF Spec

-----------------------------------------------------------------------------
(* Protection. The upper stop order is brought up to date first, then the   *)
(* lower one, and what is done for the one lasts while the other is done.   *)

Updating == {"updateStop", "cancelStop", "placeStop", "stopPlaced"}

StartsWithUpper == pc \notin Updating => updating = "long"

\* A backtest with stop orders, whose broker has not refused any.
NothingRefused == config.stops /\ ~config.live /\ Len(orders) < MaxOrders[config]

UpperIsDone == (NothingRefused /\ pc \in Updating /\ updating = "short") => IsProtected("long")

PlacedProtects ==
  (NothingRefused /\ pc = "stopPlaced") => \A s \in Sides : s = updating => IsProtected(s)

SInv == StartsWithUpper /\ UpperIsDone /\ PlacedProtects

\* What FillsAreProtected says of a step.
StepProtects ==
  (/\ config.stops /\ ~config.live
   /\ pc \in {"updateStop", "placeStop", "stopPlaced"} /\ pc' = "checkLevels"
   /\ Len(orders)' < MaxOrders[config])
  => (\A s \in Sides : IsProtected(s))'

\* A step that leaves position and stop order alone leaves the protection.
LEMMA ProtectedStays ==
  ASSUME NEW s \in Sides, IsProtected(s), UNCHANGED position, stop'[s] = stop[s],
         stop[s] # None => orders'[stop[s]] = orders[stop[s]]
  PROVE  IsProtected(s)'
  BY DEF IsProtected

\* Outside of the updates, a step begins them with the upper stop order, if at all.
LEMMA OutsideProtects ==
  ASSUME IInv, SInv, [Next]_vars, pc \notin Updating
  PROVE  SInv' /\ StepProtects
<1> USE DEF grid, local, exchange, history, Await, Updating
<1>1. updating = "long"
  BY DEF SInv, StartsWithUpper
<1>2. updating' = "long" /\ pc' # "stopPlaced"
  <2>1. CASE \E to \in Price : MarketMoves(to) \/ MarketGaps(to)
    BY <1>1, <2>1 DEF MarketMoves, MarketGaps
  <2>2. CASE NextStarts
    BY <1>1, <2>2 DEF NextStarts
  <2>3. CASE TriggerOpens \/ TriggerWaits \/ TriggerIsUnknown \/ AnswerIsMissing
    BY <1>1, <2>3 DEF TriggerOpens, TriggerWaits, TriggerIsUnknown, AnswerIsMissing, Return, Throw,
                      ForgetLocals
  <2>4. CASE OpenLevelsNearMarketPrice
    <3>1. CASE MarketIsRead \/ MarketIsUnknown \/ LevelOrderPlaced
      BY <1>1, <3>1 DEF MarketIsRead, MarketIsUnknown, LevelOrderPlaced
    <3>2. SideDone => updating' = "long" /\ pc' # "stopPlaced"
      BY <1>1 DEF SideDone, Return, ForgetLocals
    <3>3. TrialFails => updating' = "long" /\ pc' # "stopPlaced"
      BY <1>1, <3>2 DEF TrialFails
    <3>4. CASE NothingDue \/ LevelOrderConfirmed
      BY <3>2, <3>4 DEF NothingDue, LevelOrderConfirmed
    <3>5. CASE LevelOrderRefused \/ LevelOrderAnswerLost \/ LevelOrderCancelled
      BY <3>3, <3>5 DEF LevelOrderRefused, LevelOrderAnswerLost, LevelOrderCancelled
    <3> QED
      BY <2>4, <3>1, <3>4, <3>5 DEF OpenLevelsNearMarketPrice
  <2>5. CASE CheckOrders
    <3>1. CASE StopIsFilled \/ StopIsNotFilled \/ StopIsMissing
      BY <1>1, <3>1 DEF StopIsFilled, StopIsNotFilled, StopIsMissing, StopChecked
    <3>2. CASE \E i \in Level : LevelIsFilled(i) \/ LevelIsNotFilled(i) \/ LevelIsMissing(i)
      BY <1>1, <3>2 DEF LevelIsFilled, LevelIsNotFilled, LevelIsMissing, IsNextToCheck
    <3>3. CASE LevelsChecked
      BY <1>1, <3>3 DEF LevelsChecked
    <3> QED
      BY <2>5, <3>1, <3>2, <3>3 DEF CheckOrders
  <2>6. ~UpdateStops
    BY DEF UpdateStops, StopStays, StopIsStale, StopIsAbsent, StopIsCancelled, StopCancelThrows,
           StopIsPlaced, StopIsRefused, StopAnswerLost, StopIsConfirmed
  <2>7. CASE UNCHANGED vars
    BY <1>1, <2>7 DEF vars
  <2> QED
    BY <2>1, <2>2, <2>3, <2>4, <2>5, <2>6, <2>7 DEF Next, Step
<1>3. StepProtects
  BY DEF StepProtects
<1> QED
  BY <1>2, <1>3 DEF SInv, StartsWithUpper, UpperIsDone, PlacedProtects

\* A step of a live grid, in which nothing is promised.
LEMMA LiveProtects ==
  ASSUME IInv, config.live, UNCHANGED config, pc' \notin Updating => updating' = "long"
  PROVE  SInv' /\ StepProtects
  BY DEF SInv, StartsWithUpper, UpperIsDone, PlacedProtects, NothingRefused, StepProtects

\* The update of a stop order is done: the other one is next, or both are protecting.
LEMMA DoneProtects ==
  ASSUME IInv, SInv, pc \in Updating, StopUpdated, UNCHANGED <<config, position, stop, orders>>,
         NothingRefused => \A s \in Sides : s = updating => IsProtected(s)
  PROVE  SInv' /\ StepProtects
<1> USE DEF Await, Updating
<1>1. \A s \in Sides : IsProtected(s) => IsProtected(s)'
  BY DEF IsProtected
<1>2. NothingRefused' <=> NothingRefused
  BY DEF NothingRefused
<1>3. CASE updating = "long"
  <2>1. updating' = "short" /\ pc' = "updateStop"
    BY <1>3 DEF StopUpdated
  <2>2. NothingRefused => IsProtected("long")
    BY <1>3 DEF Sides
  <2> HIDE DEF IsProtected, NothingRefused
  <2>3. UpperIsDone'
    BY <1>1, <1>2, <2>2 DEF UpperIsDone, Sides
  <2> QED
    BY <2>1, <2>3 DEF SInv, StartsWithUpper, PlacedProtects, StepProtects
<1>4. CASE updating = "short"
  <2>1. updating' = "long" /\ pc' = "checkLevels"
    BY <1>4 DEF StopUpdated
  <2>2. NothingRefused => IsProtected("long") /\ IsProtected("short")
    BY <1>4 DEF SInv, UpperIsDone, Sides
  <2>3. NothingRefused => \A s \in Sides : IsProtected(s)'
    <3> HIDE DEF IsProtected, NothingRefused
    <3> QED
      BY <1>1, <2>2 DEF Sides
  <2>4. StepProtects
    <3> HIDE DEF IsProtected
    <3> QED
      BY <2>3 DEF StepProtects, NothingRefused
  <2> QED
    BY <2>1, <2>4 DEF SInv, StartsWithUpper, UpperIsDone, PlacedProtects
<1> QED
  BY <1>3, <1>4 DEF StopUpdated

\* The decision about a stop order, and its confirmation.
LEMMA DecisionProtects ==
  ASSUME IInv, SInv, StopStays \/ StopIsConfirmed
  PROVE  SInv' /\ StepProtects
<1>1. /\ pc \in Updating /\ StopUpdated /\ UNCHANGED <<config, position, stop, orders>>
  BY DEF StopStays, StopIsConfirmed, Updating, grid, exchange
<1>2. CASE StopStays
  <2>1. NothingRefused => \A s \in Sides : s = updating => IsProtected(s)
    BY <1>2 DEF StopStays, NothingRefused, StopIsWanted, StopFits, StopSize, IsProtected
  <2> QED
    BY <1>1, <2>1, DoneProtects
<1>3. CASE StopIsConfirmed
  <2>1. NothingRefused => \A s \in Sides : s = updating => IsProtected(s)
    BY <1>3 DEF StopIsConfirmed, SInv, PlacedProtects
  <2> QED
    BY <1>1, <2>1, DoneProtects
<1> QED
  BY <1>2, <1>3

\* A stop order that is stale or absent is replaced: nothing has happened yet.
LEMMA ReplacementProtects ==
  ASSUME IInv, SInv, StopIsStale \/ StopIsAbsent
  PROVE  SInv' /\ StepProtects
<1>1. /\ pc \in Updating /\ pc' \in {"cancelStop", "placeStop"}
      /\ UNCHANGED <<config, position, stop, orders, updating>>
  BY DEF StopIsStale, StopIsAbsent, Updating, grid, exchange, local, Await
<1>2. IsProtected("long") => IsProtected("long")'
  BY <1>1 DEF IsProtected
<1> HIDE DEF IsProtected
<1> QED
  BY <1>1, <1>2 DEF SInv, StartsWithUpper, UpperIsDone, PlacedProtects, StepProtects,
                    NothingRefused, Updating

\* Cancelling the lower stop order leaves the upper one as it is.
LEMMA CancellingProtects ==
  ASSUME IInv, SInv, StopIsCancelled
  PROVE  SInv' /\ StepProtects
<1>1. /\ pc = "cancelStop" /\ pc' = "placeStop" /\ CancelAtExchange(stop[updating])
      /\ UNCHANGED <<config, position, stop, updating>>
  BY DEF StopIsCancelled, grid, Await
<1>2. Len(orders') = Len(orders)
  <2>1. orders \in Seq(Order)
    BY DEF IInv, TypeOK, OrdersOK
  <2>2. DOMAIN orders' = DOMAIN orders
    BY <1>1 DEF CancelAtExchange
  <2>3. orders' \in Seq(Order)
    <3>1. OrdersGrow
      BY <1>1, Cancelled DEF IInv, TypeOK
    <3> QED
      BY <3>1 DEF OrdersGrow
  <2> QED
    BY <2>1, <2>2, <2>3
<1>3. (updating = "short" /\ IsProtected("long")) => IsProtected("long")'
  <2> SUFFICES ASSUME updating = "short", IsProtected("long")
               PROVE  IsProtected("long")'
    OBVIOUS
  <2>1. stop["long"] # None /\ stop["short"] # None => stop["long"] # stop["short"]
    BY DEF IInv, TypeOK, OrdersOK, StopIsOrder, Sides
  <2>2. stop["long"] # None => orders'[stop["long"]] = orders[stop["long"]]
    <3>1. \A k \in DOMAIN orders : k # stop["short"] => orders'[k] = orders[k]
      BY <1>1 DEF CancelAtExchange
    <3>2. stop["long"] # None => stop["long"] \in DOMAIN orders
      BY DEF IInv, TypeOK, OrdersOK, StopIsOrder, Sides, OrderIds
    <3> QED
      BY <2>1, <3>1, <3>2
  <2> QED
    BY <1>1, <2>2, ProtectedStays DEF Sides
<1> HIDE DEF IsProtected
<1> QED
  BY <1>1, <1>2, <1>3 DEF SInv, StartsWithUpper, UpperIsDone, PlacedProtects, StepProtects,
                          NothingRefused, Updating

\* The stop order that is placed protects, and the other one still does.
LEMMA PlacingProtects ==
  ASSUME IInv, SInv, StopIsPlaced
  PROVE  SInv' /\ StepProtects
<1> DEFINE order == [kind |-> "stop", side |-> updating, price |-> StopPrice[updating],
                     size |-> StopSize, status |-> StatusAtOnce("stop", updating, StopPrice[updating])]
<1>1. /\ pc = "placeStop" /\ pc' = "stopPlaced"
      /\ orders' = Append(orders, order)
      /\ stop' = [stop EXCEPT ![updating] = NewId]
      /\ UNCHANGED <<config, position, updating>>
  BY DEF StopIsPlaced, Await, Accept
<1>2. /\ order.status = "open" /\ order.size = StopSize
  BY DEF StatusAtOnce
<1>3. orders \in Seq(Order) /\ order \in Order /\ updating \in Sides /\ stop \in [Sides -> Nat \cup {None}]
  <2>1. updating \in Sides /\ position \in Int /\ orders \in Seq(Order)
        /\ stop \in [Sides -> Nat \cup {None}]
    BY DEF IInv, TypeOK, LocalsOK, OrdersOK
  <2>2. StopSize \in Int /\ StopPrice[updating] \in Int
    BY <2>1 DEF StopSize, Sign, Sides
  <2> QED
    BY <1>2, <2>1, <2>2 DEF Order
<1> HIDE DEF order
<1>4. /\ Len(orders) \in Nat /\ Len(orders') = Len(orders) + 1
      /\ \A id \in 1..Len(orders) : orders'[id] = orders[id]
      /\ orders'[Len(orders) + 1] = order
  BY <1>1, <1>3
<1>5. stop'[updating] = Len(orders) + 1 /\ \A s \in Sides : s # updating => stop'[s] = stop[s]
  BY <1>1, <1>3 DEF NewId
<1>6. \A s \in Sides : s = updating => IsProtected(s)'
  <2>1. stop'[updating] # None
    BY <1>4, <1>5
  <2>2. orders'[stop'[updating]].size = -Sign(updating) * position
    BY <1>2, <1>4, <1>5 DEF StopSize
  <2>3. orders'[stop'[updating]].status = "open"
    BY <1>2, <1>4, <1>5
  <2> QED
    BY <1>1, <2>1, <2>2, <2>3 DEF IsProtected
<1>7. (updating = "short" /\ IsProtected("long")) => IsProtected("long")'
  <2> SUFFICES ASSUME updating = "short", IsProtected("long")
               PROVE  IsProtected("long")'
    OBVIOUS
  <2>1. stop'["long"] = stop["long"]
    BY <1>5 DEF Sides
  <2>2. stop["long"] # None => stop["long"] \in 1..Len(orders)
    BY <1>3 DEF IInv, TypeOK, OrdersOK, StopIsOrder, Sides, OrderIds
  <2> QED
    BY <1>1, <1>4, <2>1, <2>2, ProtectedStays DEF Sides
<1>8. NothingRefused' => NothingRefused
  <2>1. MaxOrders[config] \in Nat
    BY MaxOrdersAssumption DEF IInv, TypeOK
  <2> QED
    BY <1>1, <1>4, <2>1 DEF NothingRefused
<1> HIDE DEF IsProtected, NothingRefused
<1>9. UpperIsDone'
  BY <1>1, <1>7, <1>8 DEF SInv, UpperIsDone, Updating
<1> QED
  BY <1>1, <1>6, <1>9 DEF SInv, StartsWithUpper, PlacedProtects, StepProtects, Updating

\* A stop order is refused in a backtest only when there is no room for it.
LEMMA RefusalProtects ==
  ASSUME IInv, SInv, StopIsRefused, ~config.live
  PROVE  SInv' /\ StepProtects
<1>1. ~CanAccept /\ UNCHANGED <<config, orders>> /\ StopTrialFails /\ pc = "placeStop"
  BY DEF StopIsRefused, CanPlaceStop, Fault, exchange
<1>2. Len(orders) \in Nat /\ MaxOrders[config] \in Nat
  BY MaxOrdersAssumption DEF IInv, TypeOK, OrdersOK
<1>3. ~NothingRefused /\ ~NothingRefused' /\ Len(orders') >= MaxOrders[config]
  BY <1>1, <1>2 DEF NothingRefused, CanAccept
<1>4. pc' \notin Updating => updating' = "long"
  BY <1>1 DEF StopTrialFails, StopUpdated, Updating, Await
<1> QED
  BY <1>1, <1>2, <1>3, <1>4 DEF SInv, StartsWithUpper, UpperIsDone, PlacedProtects, StepProtects

\* Within the updates.
LEMMA InsideProtects ==
  ASSUME IInv, SInv, [Next]_vars, pc \in Updating
  PROVE  SInv' /\ StepProtects
<1> USE DEF Updating, Await, grid, local, exchange, history
<1>1. CASE UpdateStops
  <2>1. CASE StopStays \/ StopIsConfirmed
    BY <2>1, DecisionProtects
  <2>2. CASE StopIsStale \/ StopIsAbsent
    BY <2>2, ReplacementProtects
  <2>3. CASE StopIsCancelled
    BY <2>3, CancellingProtects
  <2>4. CASE StopIsPlaced
    BY <2>4, PlacingProtects
  <2>5. CASE StopCancelThrows
    <3>1. config.live /\ UNCHANGED config /\ updating' = "long"
      BY <2>5 DEF StopCancelThrows, Fault, Throw, ForgetLocals
    <3> QED
      BY <3>1, LiveProtects
  <2>6. CASE StopAnswerLost
    <3>1. config.live /\ UNCHANGED config /\ StopTrialFails /\ pc = "placeStop"
      BY <2>6 DEF StopAnswerLost, Fault
    <3>2. pc' \notin Updating => updating' = "long"
      BY <3>1 DEF StopTrialFails, StopUpdated
    <3> QED
      BY <3>1, <3>2, LiveProtects
  <2>7. CASE StopIsRefused
    <3>1. CASE ~config.live
      BY <2>7, <3>1, RefusalProtects
    <3>2. CASE config.live
      <4>1. UNCHANGED config /\ StopTrialFails /\ pc = "placeStop"
        BY <2>7 DEF StopIsRefused
      <4>2. pc' \notin Updating => updating' = "long"
        BY <4>1 DEF StopTrialFails, StopUpdated
      <4> QED
        BY <3>2, <4>1, <4>2, LiveProtects
    <3> QED
      BY <3>1, <3>2
  <2> QED
    BY <1>1, <2>1, <2>2, <2>3, <2>4, <2>5, <2>6, <2>7 DEF UpdateStops
<1>2. CASE AnswerIsMissing
  <2>1. config.live /\ UNCHANGED config /\ updating' = "long"
    BY <1>2 DEF AnswerIsMissing, Fault, Throw, ForgetLocals
  <2> QED
    BY <2>1, LiveProtects
<1>3. CASE \E to \in Price : MarketMoves(to)
  <2>1. config.live /\ UNCHANGED <<config, pc, updating>>
    BY <1>3 DEF MarketMoves
  <2> QED
    BY <2>1, LiveProtects
<1>4. CASE UNCHANGED vars
  <2>1. UNCHANGED <<config, position, stop, orders, updating, pc>>
    BY <1>4 DEF vars
  <2>2. \A s \in Sides : IsProtected(s)' <=> IsProtected(s)
    BY <2>1 DEF IsProtected
  <2>3. StepProtects
    BY <2>1 DEF StepProtects
  <2>4. SInv'
    BY <2>1 DEF SInv, StartsWithUpper, UpperIsDone, PlacedProtects, NothingRefused, IsProtected
  <2> QED
    BY <2>3, <2>4
<1>5. ~NextStarts /\ \A to \in Price : ~MarketGaps(to)
  BY DEF NextStarts, MarketGaps
<1>6. ~TriggerOpens /\ ~TriggerWaits /\ ~TriggerIsUnknown
  BY DEF TriggerOpens, TriggerWaits, TriggerIsUnknown
<1>7. ~OpenLevelsNearMarketPrice
  BY DEF OpenLevelsNearMarketPrice, MarketIsRead, MarketIsUnknown, NothingDue, LevelOrderPlaced,
         LevelOrderRefused, LevelOrderAnswerLost, LevelOrderConfirmed, LevelOrderCancelled, Placing
<1>8. ~CheckOrders
  BY DEF CheckOrders, StopIsFilled, StopIsNotFilled, StopIsMissing, LevelIsFilled, LevelIsNotFilled,
         LevelIsMissing, LevelsChecked, IsNextToCheck
<1> QED
  BY <1>1, <1>2, <1>3, <1>4, <1>5, <1>6, <1>7, <1>8 DEF Next, Step

\* In a backtest with stop orders, whenever the fill of a level has been handled, the
\* position has an open stop order of its very size on the other side
\* (updateStopUpperOrder, updateStopLowerOrder), unless the broker has refused it.
THEOREM PositionIsProtected == Spec => FillsAreProtected
<1>1. Init => SInv
  BY DEF Init, SInv, StartsWithUpper, UpperIsDone, PlacedProtects, Updating
<1>2. IInv /\ SInv /\ [Next]_vars => SInv' /\ StepProtects
  BY InsideProtects, OutsideProtects
<1>3. IInv /\ SInv /\ [Next]_vars => [StepProtects]_vars
  BY <1>2
<1>4. IInv /\ SInv /\ [Next]_vars => SInv'
  BY <1>2
<1> QED
  BY IInvHolds, <1>1, <1>3, <1>4, PTL DEF Spec, FillsAreProtected, StepProtects
=============================================================================
