-------------------------- MODULE LiveBrokerProofs -------------------------
(***************************************************************************)
(* Proofs about the live adapters, for any orders, batch size and number   *)
(* of faults, and any subset of the adapters: types, that no answer is     *)
(* false, that cancellations reach their orders, and that an answer of     *)
(* null has a reason.                                                      *)
(***************************************************************************)
EXTENDS LiveBroker, FiniteSetTheorems, TLAPS

\* Orders that were final when the call began still are.
OverIsFinal == \A id \in over : Exists(id) /\ ~IsOpen(id)

\* What an answer of the code says of an order: it takes FILLED for filled as a whole.
Fits(a, id) ==
  /\ a.filledSize <= orders[id].filled
  /\ a.status = "FILLED" => orders[id].status = "closed"
  /\ a.status = "CANCELLED" => orders[id].status \in {"canceled", "expired"}
  /\ a.status = "OPEN" => id \notin over
  /\ a.status # "OPEN" => a.filledSize = orders[id].filled

AboutExisting == \A i \in DOMAIN ids : Exists(ids[i])
AnswerIsTrue == answer # None => ids # <<>> /\ Fits(answer, Target)
ListIsTrue == \A entry \in listed : Exists(entry[1]) /\ Fits(entry[2], entry[1])

\* What the call knows is true of the orders it is about.
Truth == OverIsFinal /\ AboutExisting /\ AnswerIsTrue /\ ListIsTrue

\* Which requests a call can wait for: one about one order has it, a lookup is
\* one of the adapter's, and only a call that has found its order has an answer.
Control ==
  /\ pc = "idle" => answer = None /\ listed = {} /\ failed = {}
  /\ pc \in {"idle", "price", "create"} => step = 1
  /\ pc \in {"lookup", "ticker"} => ids # <<>>
  /\ pc \in {"lookup", "list"} => step <= LookupCount
  /\ pc \in {"cancel", "check", "cancelPlan"} => step \in DOMAIN ids
  /\ pc \in {"cancel", "cancelPlan"} /\ venue = "bitget" => step = 1
  /\ pc = "check" => venue \in {"binance", "option"}
  /\ pc = "cancelPlan" => venue = "bitget"
  /\ answer # None => pc \in {"returned", "ticker"}

\* The inductive invariant: what an answer says of an order stays true because
\* orders only go on (OrdersGoOn), and an answer of OPEN is about an order that
\* was not final when the call began because final orders stay final.
IInv == TypeOK /\ Truth /\ Control

\* No order disappears, changes its kind, loses a fill, or leaves a final status.
OrdersGoOn ==
  \A id \in Id : Exists(id) =>
    /\ Exists(id)'
    /\ orders'[id].kind = orders[id].kind
    /\ orders'[id].filled >= orders[id].filled
    /\ ~IsOpen(id) => orders'[id] = orders[id]

USE IdAssumption, VenuesAssumption, BatchSizeAssumption, SizeAssumption, MaxFaultsAssumption, NoneAssumption

-----------------------------------------------------------------------------
\* The fields of an order.
LEMMA OrderFields ==
  ASSUME NEW o \in Order
  PROVE  /\ o.kind \in Kind /\ o.status \in {"open", "closed", "canceled", "expired"}
         /\ o.filled \in 0..Size /\ o # None
         /\ o.status = "closed" <=> o.filled = Size
  BY DEF Order

\* Every initial state satisfies the inductive invariant.
LEMMA InitEstablishes == Init => IInv
<1> SUFFICES ASSUME Init PROVE IInv
  OBVIOUS
<1>1. orders \in [Id -> Order \cup {None}]
  BY DEF Init
<1>2. TypeOK
  <2>1. faults \in 0..MaxFaults /\ ids \in Seq(Id) /\ step \in Nat \ {0} /\ answer = None
    BY DEF Init
  <2> QED
    BY <1>1, <2>1 DEF Init, TypeOK
<1> QED
  BY <1>2 DEF Init, IInv, Truth, OverIsFinal, AboutExisting, AnswerIsTrue, ListIsTrue, Control

-----------------------------------------------------------------------------
(* The exchange.                                                           *)

\* Orders that are cancelled go on, and are orders.
LEMMA CancelledOrders ==
  ASSUME TypeOK, NEW S, orders' = Cancelled(S)
  PROVE  orders' \in [Id -> Order \cup {None}] /\ OrdersGoOn
<1>1. ASSUME NEW id \in Id
      PROVE  /\ orders'[id] \in Order \cup {None}
             /\ Exists(id) => /\ Exists(id)'
                              /\ orders'[id].kind = orders[id].kind
                              /\ orders'[id].filled >= orders[id].filled
                              /\ ~IsOpen(id) => orders'[id] = orders[id]
  <2>1. CASE id \in S /\ IsOpen(id)
    <3>1. orders[id] \in Order /\ orders[id].status = "open"
      BY <2>1 DEF TypeOK, IsOpen, Exists
    <3>2. orders'[id] = [orders[id] EXCEPT !.status = "canceled"]
      BY <2>1 DEF Cancelled
    <3>3. /\ orders'[id] \in Order /\ orders'[id].filled = orders[id].filled
          /\ orders'[id].kind = orders[id].kind
      BY <3>1, <3>2 DEF Order
    <3> QED
      BY <2>1, <3>1, <3>3, OrderFields DEF Exists
  <2>2. CASE ~(id \in S /\ IsOpen(id))
    <3>1. orders'[id] = orders[id]
      BY <2>2 DEF Cancelled
    <3>2. Exists(id) => orders[id].filled \in Int
      BY OrderFields DEF TypeOK, Exists
    <3> QED
      BY <3>1, <3>2 DEF TypeOK, Exists
  <2> QED
    BY <2>1, <2>2
<1>2. orders' \in [Id -> Order \cup {None}]
  BY <1>1 DEF Cancelled
<1> QED
  BY <1>1, <1>2 DEF OrdersGoOn

\* An order that changes or is placed.
LEMMA OneOrder ==
  ASSUME TypeOK, NEW id \in Id, NEW o \in Order,
         orders' = [orders EXCEPT ![id] = o],
         Exists(id) => IsOpen(id) /\ o.kind = orders[id].kind /\ o.filled >= orders[id].filled
  PROVE  orders' \in [Id -> Order \cup {None}] /\ OrdersGoOn
<1>1. orders' \in [Id -> Order \cup {None}]
  BY DEF TypeOK
<1>2. ASSUME NEW other \in Id, Exists(other)
      PROVE  /\ Exists(other)'
             /\ orders'[other].kind = orders[other].kind
             /\ orders'[other].filled >= orders[other].filled
             /\ ~IsOpen(other) => orders'[other] = orders[other]
  <2>1. orders[other].filled \in Int
    BY <1>2, OrderFields DEF TypeOK, Exists
  <2> QED
    BY <1>2, <2>1, OrderFields DEF TypeOK, Exists
<1> QED
  BY <1>1, <1>2 DEF OrdersGoOn

LEMMA SameOrders ==
  ASSUME TypeOK, UNCHANGED orders
  PROVE  OrdersGoOn
<1>1. \A id \in Id : Exists(id) => orders[id].filled \in Int
  BY OrderFields DEF TypeOK, Exists
<1> QED
  BY <1>1 DEF OrdersGoOn, Exists

\* What has been answered about an order stays true while orders go on.
LEMMA TruthStays ==
  ASSUME TypeOK, OrdersGoOn, UNCHANGED over, orders' \in [Id -> Order \cup {None}],
         NEW a \in Answer, NEW id \in Id, Exists(id), Fits(a, id)
  PROVE  Fits(a, id)'
<1>1. orders[id] \in Order /\ orders'[id] \in Order /\ a.filledSize \in Int
  BY DEF TypeOK, OrdersGoOn, Exists, Answer
<1>2. orders[id].filled \in Int /\ orders'[id].filled \in Int
  BY <1>1, OrderFields
<1>3. a.filledSize <= orders'[id].filled
  BY <1>1, <1>2 DEF Fits, OrdersGoOn
<1>4. a.status # "OPEN" => orders'[id] = orders[id]
  BY DEF Fits, OrdersGoOn, IsOpen, Answer
<1> QED
  BY <1>3, <1>4 DEF Fits

LEMMA TruthIsKept ==
  ASSUME TypeOK, Truth, OrdersGoOn, orders' \in [Id -> Order \cup {None}],
         UNCHANGED <<over, ids, answer, listed>>
  PROVE  Truth'
<1>1. OverIsFinal'
  BY DEF Truth, OverIsFinal, OrdersGoOn, Exists, IsOpen, TypeOK
<1>2. AboutExisting'
  BY DEF Truth, AboutExisting, OrdersGoOn, TypeOK
<1>3. AnswerIsTrue'
  <2> SUFFICES ASSUME answer # None PROVE (ids # <<>> /\ Fits(answer, Target))'
    BY DEF AnswerIsTrue
  <2>1. ids # <<>> /\ Fits(answer, ids[1]) /\ ids[1] \in Id /\ Exists(ids[1])
    BY DEF Truth, AnswerIsTrue, Target, AboutExisting, TypeOK
  <2>2. Fits(answer, ids[1])'
    BY <2>1, TruthStays DEF TypeOK
  <2> QED
    BY <2>1, <2>2 DEF Target
<1>4. ListIsTrue'
  <2> SUFFICES ASSUME NEW entry \in listed
               PROVE  (Exists(entry[1]) /\ Fits(entry[2], entry[1]))'
    BY DEF ListIsTrue
  <2>1. entry[1] \in Id /\ entry[2] \in Answer /\ Exists(entry[1]) /\ Fits(entry[2], entry[1])
    BY DEF Truth, ListIsTrue, TypeOK
  <2>2. Fits(entry[2], entry[1])'
    BY <2>1, TruthStays
  <2> QED
    BY <2>1, <2>2 DEF OrdersGoOn
<1> QED
  BY <1>1, <1>2, <1>3, <1>4 DEF Truth

\* What toOrder and triggerToOrder say of an order.
LEMMA ToOrderIsTrue ==
  ASSUME NEW o \in Order, NEW lookup,
         IsPlan(o) => (lookup = PendingPlans <=> o.status = "open")
  PROVE  /\ ToOrder(o, lookup) \in Answer
         /\ ToOrder(o, lookup).filledSize = o.filled
         /\ ToOrder(o, lookup).status = "FILLED" => o.status = "closed"
         /\ ToOrder(o, lookup).status = "CANCELLED" => o.status \in {"canceled", "expired"}
         /\ ToOrder(o, lookup).status = "OPEN" => o.status = "open"
<1>1. o.filled \in 0..Size /\ o.status \in {"open", "closed", "canceled", "expired"}
  BY OrderFields
<1>2. CASE IsPlan(o)
  BY <1>1, <1>2 DEF ToOrder, TriggerStatus, Answer
<1>3. CASE ~IsPlan(o)
  BY <1>1, <1>3 DEF ToOrder, StatusOf, Answer
<1> QED
  BY <1>2, <1>3

\* The order a lookup finds is answered truly.
LEMMA FoundIsTrue ==
  ASSUME TypeOK, OverIsFinal, NEW id \in Id, Finds(id, step), step <= LookupCount
  PROVE  /\ Exists(id)
         /\ ToOrder(orders[id], step) \in Answer
         /\ Fits(ToOrder(orders[id], step), id)
<1>1. Exists(id) /\ orders[id] \in Order /\ Lookups(orders[id])[step]
  BY DEF Finds, Exists, TypeOK
<1>2. ASSUME IsPlan(orders[id]) PROVE step = PendingPlans <=> orders[id].status = "open"
  <2>1. venue = "bitget" /\ orders[id].kind = "trigger" /\ step \in Nat \ {0}
    BY <1>2 DEF IsPlan, TypeOK
  <2>2. step \in {1, 2, 3}
    BY <2>1 DEF LookupCount
  <2>3. BitgetLookups(orders[id])[step]
    BY <1>1, <2>1 DEF Lookups
  <2>4. CASE step = 1
    <3>1. orders[id].kind = "plain"
      BY <2>3, <2>4, Zenon DEF BitgetLookups
    <3> QED
      BY <2>1, <3>1
  <2>5. CASE step = 2
    <3>1. orders[id].status = "open"
      BY <2>3, <2>5, Zenon DEF BitgetLookups
    <3> QED
      BY <2>5, <3>1 DEF PendingPlans
  <2>6. CASE step = 3
    <3>1. orders[id].status # "open"
      BY <2>3, <2>6, Zenon DEF BitgetLookups
    <3> QED
      BY <2>6, <3>1 DEF PendingPlans
  <2> QED
    BY <2>2, <2>4, <2>5, <2>6
<1>3. orders[id].filled \in Int
  BY <1>1, OrderFields
<1> QED
  BY <1>1, <1>2, <1>3, ToOrderIsTrue DEF Fits, OverIsFinal, IsOpen

-----------------------------------------------------------------------------
(* The actions.                                                            *)

\* What a request that fails or not leaves behind.
LEMMA FaultTypes ==
  ASSUME TypeOK, NEW S, S \subseteq Id \cup {None}, NoFault \/ Fault(S)
  PROVE  faults' \in 0..MaxFaults /\ failed' \subseteq Id \cup {None}
BY DEF TypeOK, NoFault, Fault

LEMMA OrderChangesKeeps == ASSUME IInv, OrderChanges PROVE IInv'
<1>1. PICK id \in Id, o \in Order :
        /\ IsOpen(id) /\ o.kind = orders[id].kind /\ o.filled >= orders[id].filled
        /\ orders' = [orders EXCEPT ![id] = o]
  BY DEF OrderChanges
<1>2. orders' \in [Id -> Order \cup {None}] /\ OrdersGoOn
  BY <1>1, OneOrder DEF IInv
<1>3. UNCHANGED <<venue, faults, op, ids, pc, step, direction, answer, listed, result, failed,
                  over, prices>>
  BY DEF OrderChanges, call, history
<1>4. Truth'
  BY <1>2, <1>3, TruthIsKept DEF IInv
<1> QED
  BY <1>2, <1>3, <1>4 DEF IInv, TypeOK, Control, LookupCount

LEMMA ResumeKeeps == ASSUME IInv, Resume PROVE IInv'
<1>1. ids' \in Seq(Id) /\ Truth'
  BY DEF Resume, Truth, OverIsFinal, AboutExisting, AnswerIsTrue, ListIsTrue
<1>2. TypeOK'
  <2>1. /\ step' \in Nat \ {0} /\ op' = "none" /\ pc' = "idle"
        /\ answer' = None /\ direction' = None /\ UNCHANGED <<venue, orders, faults>>
        /\ listed' = {} /\ failed' = {} /\ over' = {} /\ prices' = {}
    BY DEF Resume
  <2>2. result' \in BOOLEAN
    BY Zenon DEF Resume
  <2> QED
    BY <1>1, <2>1, <2>2 DEF IInv, TypeOK
<1>3. Control'
  BY DEF Control, Resume
<1> QED
  BY <1>1, <1>2, <1>3 DEF IInv

\* A call begins with a request its adapter makes.
LEMMA BeginKeeps ==
  ASSUME IInv,
         NEW o \in PlaceOps \cup CancelOps \cup {"getOrder", "getOrders"},
         NEW about \in Seq(Id), \A i \in DOMAIN about : Exists(about[i]),
         NEW request \in {"returned", "price", "create", "lookup", "list", "cancel", "batch"},
         request \in {"lookup", "cancel"} => about # <<>>,
         Begin(o, about, request), direction' \in {"up", "down", None}, result' \in BOOLEAN
  PROVE  IInv'
<1>1. UNCHANGED <<venue, orders, faults, step, answer, listed, failed, prices>>
  BY DEF Begin
<1>2. answer = None /\ listed = {} /\ step = 1
  BY DEF IInv, Control, Begin
<1>3. Truth'
  BY <1>1, <1>2 DEF Begin, Truth, OverIsFinal, AboutExisting, AnswerIsTrue, ListIsTrue, Exists,
                    IsOpen
<1>4. TypeOK'
  BY <1>1 DEF Begin, IInv, TypeOK
<1>5. Control'
  BY <1>1, <1>2 DEF Begin, Control, LookupCount, IInv
<1> QED
  BY <1>3, <1>4, <1>5 DEF IInv

LEMMA IdsAreSequences == Ids \subseteq Seq(Id)
<1>1. Cardinality(Id) \in Nat
  BY FS_CardinalityType
<1> QED
  BY <1>1 DEF Ids

\* Every call.
LEMMA CallKeeps ==
  ASSUME IInv,
         \/ Place \/ \E o \in StopOps : PlaceStop(o)
         \/ \E id \in Id : GetOrder(id) \/ CancelOrder(id)
         \/ GetOrders
         \/ \E about \in Ids : \/ CancelOrders(about)
                               \/ CancelConditionalOrders(about)
                               \/ CancelConditionalOrdersTodo(about)
  PROVE  IInv'
<1>0. /\ direction \in {"up", "down", None} /\ result \in BOOLEAN
      /\ <<>> \in Seq(Id) /\ \A i \in DOMAIN <<>> : FALSE
  BY DEF IInv, TypeOK
<1>1. CASE Place
  BY <1>0, <1>1, BeginKeeps DEF Place, PlaceOps
<1>2. ASSUME NEW o \in StopOps, PlaceStop(o) PROVE IInv'
  <2>1. direction' \in {"up", "down", None} /\ result' \in BOOLEAN
    BY <1>0, <1>2 DEF PlaceStop, BybitDirection
  <2> DEFINE request == IF venue = "binance" THEN "price" ELSE "create"
  <2>2. Begin(o, <<>>, request) /\ request \in {"price", "create"}
    BY <1>2 DEF PlaceStop
  <2> HIDE DEF request
  <2> QED
    BY <1>0, <2>1, <2>2, BeginKeeps DEF PlaceOps
<1>3. ASSUME NEW id \in Id, GetOrder(id) \/ CancelOrder(id) PROVE IInv'
  <2>1. <<id>> \in Seq(Id) /\ <<id>> # <<>> /\ \A i \in DOMAIN <<id>> : Exists(<<id>>[i])
    BY <1>3 DEF GetOrder, CancelOrder
  <2>2. UNCHANGED <<direction, result>>
    BY <1>3 DEF GetOrder, CancelOrder
  <2>3. CASE GetOrder(id)
    BY <1>0, <2>1, <2>2, <2>3, BeginKeeps DEF GetOrder
  <2>4. CASE CancelOrder(id)
    BY <1>0, <2>1, <2>2, <2>4, BeginKeeps DEF CancelOrder, CancelOps
  <2> QED
    BY <1>3, <2>3, <2>4
<1>4. CASE GetOrders
  BY <1>0, <1>4, BeginKeeps DEF GetOrders
<1>5. ASSUME NEW about \in Ids,
             \/ CancelOrders(about)
             \/ CancelConditionalOrders(about)
             \/ CancelConditionalOrdersTodo(about)
      PROVE  IInv'
  <2>1. about \in Seq(Id)
    BY IdsAreSequences
  <2>2. CASE CancelOrders(about)
    <3> DEFINE request == IF about = <<>> THEN "returned" ELSE "batch"
    <3>1. Begin("cancelOrders", about, request) /\ request \in {"returned", "batch"}
      BY <2>2 DEF CancelOrders
    <3> HIDE DEF request
    <3> QED
      BY <1>0, <2>1, <2>2, <3>1, BeginKeeps DEF CancelOrders, CancelOps
  <2>3. CASE CancelConditionalOrders(about)
    <3> DEFINE request == IF about = <<>> THEN "returned" ELSE "cancel"
    <3>1. /\ Begin("cancelConditionalOrders", about, request)
          /\ request \in {"returned", "cancel"}
          /\ request = "cancel" => about # <<>>
      BY <2>3 DEF CancelConditionalOrders
    <3> HIDE DEF request
    <3> QED
      BY <1>0, <2>1, <2>3, <3>1, BeginKeeps DEF CancelConditionalOrders, CancelOps
  <2>4. CASE CancelConditionalOrdersTodo(about)
    BY <1>0, <2>1, <2>4, BeginKeeps DEF CancelConditionalOrdersTodo, CancelOps
  <2> QED
    BY <1>5, <2>2, <2>3, <2>4
<1> QED
  BY <1>1, <1>2, <1>3, <1>4, <1>5

\* A request that leaves orders, answers and lists alone.
LEMMA QuietRequestKeepsTruth ==
  ASSUME IInv, UNCHANGED <<orders, over, ids, answer, listed>>
  PROVE  Truth'
<1>1. OrdersGoOn /\ orders' \in [Id -> Order \cup {None}]
  BY SameOrders DEF IInv, TypeOK
<1> QED
  BY <1>1, TruthIsKept DEF IInv

LEMMA PriceKeeps == ASSUME IInv, PriceIsRead \/ PriceIsMissing PROVE IInv'
<1>1. Truth'
  BY QuietRequestKeepsTruth DEF PriceIsRead, PriceIsMissing, ChooseDirection
<1>2. faults' \in 0..MaxFaults /\ failed' \subseteq Id \cup {None}
  BY FaultTypes DEF IInv, PriceIsRead, PriceIsMissing, NoOrderYet
<1>3. /\ direction' \in {"up", "down", None} /\ prices' \subseteq Market
      /\ pc' \in {"returned", "create"} /\ pc = "price"
      /\ UNCHANGED <<venue, orders, op, ids, step, answer, listed, result, over>>
  BY DEF IInv, TypeOK, PriceIsRead, PriceIsMissing, ChooseDirection, BinanceDirection, Market
<1>4. TypeOK'
  BY <1>2, <1>3 DEF IInv, TypeOK
<1>5. Control'
  BY <1>3 DEF IInv, Control, LookupCount
<1> QED
  BY <1>1, <1>4, <1>5 DEF IInv

LEMMA OrderIsCreatedKeeps ==
  ASSUME IInv, NEW price \in Market, NEW id \in Id, NEW o \in Order, OrderIsCreated(id, o, price)
  PROVE  IInv'
<1>1. /\ pc = "create" /\ ~Exists(id) /\ orders' = [orders EXCEPT ![id] = o] /\ ids' = <<id>>
      /\ UNCHANGED <<venue, op, step, direction, listed, result, over, faults, failed>>
      /\ prices' \subseteq Market
      /\ answer = None /\ step = 1
  BY DEF OrderIsCreated, NoFault, IInv, TypeOK, Control
<1>2. orders' \in [Id -> Order \cup {None}] /\ OrdersGoOn
  BY <1>1, OneOrder DEF IInv
<1>3. orders'[id] = o /\ Exists(id)' /\ id \notin over
  BY <1>1, NoneAssumption DEF IInv, TypeOK, Truth, OverIsFinal, Exists
<1>4. /\ answer' \in Answer \cup {None}
      /\ answer' # None => Fits(answer, id)'
      /\ pc' \in {"returned", "lookup"}
      /\ answer' # None => pc' = "returned"
  <2>1. CASE AnswersFromCreation
    <3>1. ~IsPlan(o) /\ answer' = ToOrder(o, 1) /\ pc' = "returned"
      BY <2>1 DEF OrderIsCreated, AnswersFromCreation, IsPlan
    <3>2. /\ answer' \in Answer /\ answer'.filledSize = o.filled /\ o.filled \in Int
          /\ answer'.status = "FILLED" => o.status = "closed"
          /\ answer'.status = "CANCELLED" => o.status \in {"canceled", "expired"}
      BY <3>1, ToOrderIsTrue, OrderFields
    <3> QED
      BY <1>1, <1>3, <3>1, <3>2 DEF Fits
  <2>2. CASE ~AnswersFromCreation
    BY <1>1, <2>2 DEF OrderIsCreated
  <2> QED
    BY <2>1, <2>2
<1>5. Truth'
  <2>1. OverIsFinal'
    BY <1>1, <1>2 DEF IInv, TypeOK, Truth, OverIsFinal, OrdersGoOn, Exists, IsOpen
  <2>2. ids' # <<>> /\ Target' = id /\ \A i \in DOMAIN ids' : ids'[i] = id
    BY <1>1 DEF Target
  <2>3. AboutExisting' /\ AnswerIsTrue'
    BY <1>3, <1>4, <2>2 DEF AboutExisting, AnswerIsTrue, Exists
  <2>4. ListIsTrue'
    <3> SUFFICES ASSUME NEW entry \in listed
                 PROVE  (Exists(entry[1]) /\ Fits(entry[2], entry[1]))'
      BY <1>1 DEF ListIsTrue
    <3>1. /\ entry[1] \in Id /\ entry[2] \in Answer
          /\ Exists(entry[1]) /\ Fits(entry[2], entry[1])
      BY DEF IInv, Truth, ListIsTrue, TypeOK
    <3>2. Fits(entry[2], entry[1])'
      BY <1>1, <1>2, <3>1, TruthStays DEF IInv
    <3> QED
      BY <1>2, <3>1, <3>2 DEF OrdersGoOn
  <2> QED
    BY <2>1, <2>3, <2>4 DEF Truth
<1>6. TypeOK'
  <2>1. ids' \in Seq(Id)
    BY <1>1
  <2> QED
    BY <1>1, <1>2, <1>4, <2>1 DEF IInv, TypeOK
<1>7. Control'
  BY <1>1, <1>4 DEF Control, LookupCount
<1> QED
  BY <1>5, <1>6, <1>7 DEF IInv

LEMMA CreationIsRefusedKeeps ==
  ASSUME IInv, NEW price \in Market, CreationIsRefused(price) PROVE IInv'
<1>1. Truth'
  BY QuietRequestKeepsTruth DEF CreationIsRefused
<1>2. TypeOK'
  BY DEF IInv, TypeOK, CreationIsRefused, NoFault
<1>3. Control'
  BY DEF IInv, Control, CreationIsRefused, NoFault
<1> QED
  BY <1>1, <1>2, <1>3 DEF IInv

LEMMA CreationFailsKeeps == ASSUME IInv, CreationFails PROVE IInv'
<1>1. orders' \in [Id -> Order \cup {None}] /\ OrdersGoOn
  <2>1. CASE UNCHANGED orders
    BY <2>1, SameOrders DEF IInv, TypeOK
  <2>2. ASSUME NEW id \in Id, NEW o \in Order, ~Exists(id), orders' = [orders EXCEPT ![id] = o]
        PROVE  orders' \in [Id -> Order \cup {None}] /\ OrdersGoOn
    BY <2>2, OneOrder DEF IInv
  <2> QED
    BY <2>1, <2>2 DEF CreationFails
<1>2. /\ pc = "create" /\ pc' = "returned"
      /\ UNCHANGED <<venue, op, ids, step, direction, answer, listed, result, over, prices>>
  BY DEF CreationFails, history
<1>3. faults' \in 0..MaxFaults /\ failed' \subseteq Id \cup {None}
  BY FaultTypes DEF IInv, CreationFails, NoOrderYet
<1>4. Truth'
  BY <1>1, <1>2, TruthIsKept DEF IInv
<1>5. TypeOK'
  BY <1>1, <1>2, <1>3 DEF IInv, TypeOK
<1>6. Control'
  BY <1>2 DEF IInv, Control
<1> QED
  BY <1>4, <1>5, <1>6 DEF IInv

\* A call about one order has it.
LEMMA TargetIsId == ASSUME IInv, ids # <<>> PROVE Target \in Id
BY DEF IInv, TypeOK, Target

LEMMA OrderIsFoundKeeps == ASSUME IInv, OrderIsFound PROVE IInv'
<1>1. /\ pc = "lookup" /\ ids # <<>> /\ Target \in Id /\ Finds(Target, step)
      /\ step <= LookupCount /\ answer' = ToOrder(orders[Target], step)
      /\ UNCHANGED <<venue, orders, op, ids, step, direction, listed, over, prices, faults, failed>>
  BY TargetIsId DEF IInv, Control, OrderIsFound, NoFault, history
<1>2. answer' \in Answer /\ Fits(answer', Target)
  BY <1>1, FoundIsTrue DEF IInv, Truth
<1>3. pc' \in {"returned", "ticker"} /\ result' \in BOOLEAN
  <2>1. CASE LookupAnswers
    BY <2>1 DEF LookupAnswers
  <2>2. CASE pc' = "ticker" /\ UNCHANGED result
    BY <2>2 DEF IInv, TypeOK
  <2> QED
    BY <2>1, <2>2 DEF OrderIsFound
<1>4. Truth'
  <2>1. AnswerIsTrue'
    BY <1>1, <1>2 DEF AnswerIsTrue, Fits, Target
  <2> QED
    BY <1>1, <2>1 DEF IInv, Truth, OverIsFinal, AboutExisting, ListIsTrue, Fits, Exists, IsOpen
<1>5. TypeOK'
  BY <1>1, <1>2, <1>3 DEF IInv, TypeOK
<1>6. Control'
  BY <1>1, <1>3 DEF Control, LookupCount
<1> QED
  BY <1>4, <1>5, <1>6 DEF IInv

LEMMA TickerIsReadKeeps == ASSUME IInv, TickerIsRead PROVE IInv'
<1>1. Truth'
  BY QuietRequestKeepsTruth DEF TickerIsRead, history
<1>2. /\ pc = "ticker" /\ pc' = "returned" /\ result' \in BOOLEAN
      /\ UNCHANGED <<venue, orders, op, ids, step, direction, answer, listed, over, prices>>
  BY DEF TickerIsRead, LookupAnswers, history
<1>3. faults' \in 0..MaxFaults /\ failed' \subseteq Id \cup {None}
  <2>1. {Target} \subseteq Id \cup {None}
    BY <1>2, TargetIsId DEF IInv, Control
  <2> QED
    BY <2>1, FaultTypes DEF IInv, TickerIsRead
<1>4. TypeOK'
  BY <1>2, <1>3 DEF IInv, TypeOK
<1>5. Control'
  BY <1>2 DEF Control, IInv
<1> QED
  BY <1>1, <1>4, <1>5 DEF IInv

LEMMA OrderIsNotFoundKeeps == ASSUME IInv, OrderIsNotFound PROVE IInv'
<1>1. Truth'
  BY QuietRequestKeepsTruth DEF OrderIsNotFound, history
<1>2. /\ pc = "lookup" /\ ids # <<>> /\ answer = None /\ step \in Nat \ {0}
      /\ UNCHANGED <<venue, orders, op, ids, direction, answer, listed, over, prices>>
  BY DEF IInv, TypeOK, Control, OrderIsNotFound, history
<1>3. faults' \in 0..MaxFaults /\ failed' \subseteq Id \cup {None}
  <2>1. {Target} \subseteq Id \cup {None}
    BY <1>2, TargetIsId
  <2> QED
    BY <2>1, FaultTypes DEF IInv, OrderIsNotFound
<1>4. /\ result' \in BOOLEAN /\ step' \in Nat \ {0}
      /\ \/ pc' = "lookup" /\ step' <= LookupCount
         \/ pc' = "returned"
  <2>1. CASE step < LookupCount
    BY <1>2, <2>1 DEF OrderIsNotFound, IInv, TypeOK, LookupCount
  <2>2. CASE ~(step < LookupCount)
    BY <1>2, <2>2 DEF OrderIsNotFound, LookupAnswers
  <2> QED
    BY <2>1, <2>2
<1>5. TypeOK'
  BY <1>2, <1>3, <1>4 DEF IInv, TypeOK
<1>6. Control'
  BY <1>2, <1>4 DEF Control, LookupCount
<1> QED
  BY <1>1, <1>5, <1>6 DEF IInv

LEMMA OrdersAreListedKeeps == ASSUME IInv, OrdersAreListed PROVE IInv'
<1>1. /\ pc = "list" /\ answer = None /\ step \in Nat \ {0} /\ step <= LookupCount
      /\ UNCHANGED <<venue, orders, op, ids, direction, answer, result, over, prices>>
  BY DEF IInv, TypeOK, Control, OrdersAreListed, history
<1>2. faults' \in 0..MaxFaults /\ failed' \subseteq Id \cup {None}
  BY FaultTypes DEF IInv, OrdersAreListed, NoOrderYet
<1>3. ASSUME NEW entry \in listed'
      PROVE  entry \in Id \X Answer /\ Exists(entry[1]) /\ Fits(entry[2], entry[1])
  <2>1. CASE entry \in listed
    BY <2>1 DEF IInv, TypeOK, Truth, ListIsTrue
  <2>2. CASE entry \notin listed
    <3>1. PICK id \in Id : Finds(id, step) /\ entry = <<id, ToOrder(orders[id], step)>>
      BY <2>2 DEF OrdersAreListed
    <3>2. /\ Exists(id) /\ ToOrder(orders[id], step) \in Answer
          /\ Fits(ToOrder(orders[id], step), id)
      BY <1>1, <3>1, FoundIsTrue DEF IInv, Truth
    <3> QED
      BY <3>1, <3>2
  <2> QED
    BY <2>1, <2>2
<1>4. Truth'
  <2>1. ListIsTrue'
    BY <1>1, <1>3 DEF ListIsTrue, Fits, Exists
  <2> QED
    BY <1>1, <2>1 DEF IInv, Truth, OverIsFinal, AboutExisting, AnswerIsTrue, Exists, IsOpen
<1>5. /\ step' \in Nat \ {0}
      /\ \/ pc' = "list" /\ step' <= LookupCount
         \/ pc' = "returned"
  BY <1>1 DEF OrdersAreListed, LookupCount
<1>6. TypeOK'
  BY <1>1, <1>2, <1>3, <1>5 DEF IInv, TypeOK
<1>7. Control'
  BY <1>1, <1>5 DEF Control, LookupCount
<1> QED
  BY <1>4, <1>6, <1>7 DEF IInv

LEMMA OrdersListingThrowsKeeps == ASSUME IInv, OrdersListingThrows PROVE IInv'
<1>1. /\ pc = "list" /\ answer = None /\ pc' = "threw"
      /\ UNCHANGED <<venue, orders, faults, op, ids, step, direction, answer, listed, result,
                    failed, over, prices>>
  BY DEF IInv, Control, OrdersListingThrows, NoFault, history
<1>2. TypeOK'
  BY <1>1 DEF IInv, TypeOK
<1>3. Truth'
  BY <1>1, QuietRequestKeepsTruth DEF IInv
<1>4. Control'
  BY <1>1 DEF Control
<1> QED
  BY <1>2, <1>3, <1>4 DEF IInv

-----------------------------------------------------------------------------
(* Cancellations.                                                          *)

\* Settle goes on with the next order of the call, or ends it.
LEMMA SettleKeepsControl ==
  ASSUME IInv, NEW ok \in BOOLEAN, step \in DOMAIN ids, venue # "bitget", answer = None,
         UNCHANGED <<venue, ids, answer>>, Settle(ok)
  PROVE  /\ step' \in Nat \ {0} /\ result' \in BOOLEAN
         /\ pc' \in {"cancel", "returned"}
         /\ Control'
<1>1. step \in Nat /\ step >= 1 /\ ids \in Seq(Id)
  BY DEF IInv, TypeOK
<1>2. CASE ok /\ step < Len(ids)
  BY <1>1, <1>2 DEF Settle, Control
<1>3. CASE ~(ok /\ step < Len(ids))
  BY <1>1, <1>3 DEF Settle, Control
<1> QED
  BY <1>2, <1>3

\* Types and truth after a cancellation of some orders.
LEMMA CancellationKeeps ==
  ASSUME IInv, NEW S, UNCHANGED orders \/ orders' = Cancelled(S),
         UNCHANGED <<venue, op, ids, direction, answer, listed, over, prices>>,
         faults' \in 0..MaxFaults, failed' \subseteq Id \cup {None},
         step' \in Nat \ {0}, result' \in BOOLEAN,
         pc' \in {"returned", "threw", "lookup", "cancel", "check", "cancelPlan", "batch",
                  "batchPlan"}
  PROVE  TypeOK' /\ Truth'
<1>1. orders' \in [Id -> Order \cup {None}] /\ OrdersGoOn
  <2>1. CASE UNCHANGED orders
    BY <2>1, SameOrders DEF IInv, TypeOK
  <2>2. CASE orders' = Cancelled(S)
    BY <2>2, CancelledOrders DEF IInv
  <2> QED
    BY <2>1, <2>2
<1>2. Truth'
  BY <1>1, TruthIsKept DEF IInv
<1>3. TypeOK'
  BY <1>1 DEF IInv, TypeOK
<1> QED
  BY <1>2, <1>3

\* The order that is being cancelled.
LEMMA CancelTargetIsId ==
  ASSUME IInv, pc \in {"cancel", "check", "cancelPlan"}
  PROVE  step \in DOMAIN ids /\ answer = None /\ {CancelTarget} \subseteq Id \cup {None}
BY DEF IInv, TypeOK, Control, CancelTarget

LEMMA OrderIsCancelledKeeps == ASSUME IInv, OrderIsCancelled PROVE IInv'
<1>1. /\ pc = "cancel" /\ step \in DOMAIN ids /\ answer = None
      /\ UNCHANGED <<venue, op, ids, direction, answer, listed, over, prices>>
  BY CancelTargetIsId DEF OrderIsCancelled, history
<1>2. faults' \in 0..MaxFaults /\ failed' \subseteq Id \cup {None}
  BY <1>1, FaultTypes, CancelTargetIsId DEF IInv, OrderIsCancelled
<1> DEFINE S == Reached(CancelKinds, {CancelTarget})
<1>3. PICK ok \in BOOLEAN : AfterCancel(ok)
  BY DEF OrderIsCancelled
<1>4. UNCHANGED orders \/ orders' = Cancelled(S)
  BY DEF OrderIsCancelled
<1> HIDE DEF S
<1>5. /\ step' \in Nat \ {0} /\ result' \in BOOLEAN
      /\ pc' \in {"cancel", "returned", "cancelPlan", "check"}
      /\ Control'
  <2>1. CASE venue = "bitget"
    <3>1. pc' = "cancelPlan" /\ UNCHANGED <<step, result>> /\ step = 1
      BY <1>1, <1>3, <2>1 DEF AfterCancel, IInv, Control
    <3> QED
      BY <1>1, <2>1, <3>1 DEF IInv, TypeOK, Control
  <2>2. CASE venue \in {"binance", "option"} /\ ~ok
    <3>1. pc' = "check" /\ UNCHANGED <<step, result>>
      BY <1>3, <2>2 DEF AfterCancel
    <3> QED
      BY <1>1, <2>2, <3>1 DEF IInv, TypeOK, Control
  <2>3. CASE venue # "bitget" /\ ~(venue \in {"binance", "option"} /\ ~ok)
    <3>1. Settle(ok)
      BY <1>3, <2>3 DEF AfterCancel
    <3> QED
      BY <1>1, <2>3, <3>1, SettleKeepsControl
  <2> QED
    BY <2>1, <2>2, <2>3
<1> QED
  BY <1>1, <1>2, <1>4, <1>5, CancellationKeeps DEF IInv

LEMMA CancelIsCheckedKeeps == ASSUME IInv, CancelIsChecked PROVE IInv'
<1>1. /\ pc = "check" /\ step \in DOMAIN ids /\ answer = None /\ venue # "bitget"
      /\ UNCHANGED <<venue, orders, op, ids, direction, answer, listed, over, prices, faults, failed>>
  BY CancelTargetIsId DEF CancelIsChecked, NoFault, history, IInv, Control
<1>2. PICK ok \in BOOLEAN : Settle(ok)
  BY DEF CancelIsChecked
<1>3. /\ step' \in Nat \ {0} /\ result' \in BOOLEAN
      /\ pc' \in {"cancel", "returned"} /\ Control'
  BY <1>1, <1>2, SettleKeepsControl
<1>4. faults' \in 0..MaxFaults /\ failed' \subseteq Id \cup {None}
  BY <1>1 DEF IInv, TypeOK
<1> QED
  BY <1>1, <1>3, <1>4, CancellationKeeps DEF IInv

LEMMA CheckThrowsKeeps == ASSUME IInv, CheckThrows PROVE IInv'
<1>1. /\ pc = "check" /\ answer = None /\ pc' = "threw"
      /\ UNCHANGED <<venue, orders, op, ids, step, direction, answer, listed, result, over, prices>>
  BY CancelTargetIsId DEF CheckThrows, history
<1>2. faults' \in 0..MaxFaults /\ failed' \subseteq Id \cup {None}
  BY <1>1, FaultTypes, CancelTargetIsId DEF IInv, CheckThrows
<1>3. step' \in Nat \ {0} /\ result' \in BOOLEAN
  BY <1>1 DEF IInv, TypeOK
<1>4. Control'
  BY <1>1 DEF Control
<1> QED
  BY <1>1, <1>2, <1>3, <1>4, CancellationKeeps DEF IInv

LEMMA PlanIsCancelledKeeps == ASSUME IInv, PlanIsCancelled PROVE IInv'
<1>1. /\ pc = "cancelPlan" /\ step \in DOMAIN ids /\ answer = None
      /\ pc' \in {"lookup", "threw"}
      /\ UNCHANGED <<venue, op, ids, step, direction, answer, listed, result, over, prices>>
  BY CancelTargetIsId DEF PlanIsCancelled, history
<1>2. faults' \in 0..MaxFaults /\ failed' \subseteq Id \cup {None}
  BY <1>1, FaultTypes, CancelTargetIsId DEF IInv, PlanIsCancelled
<1> DEFINE S == Reached({"trigger"}, {CancelTarget})
<1>3. UNCHANGED orders \/ orders' = Cancelled(S)
  BY DEF PlanIsCancelled
<1> HIDE DEF S
<1>4. step' \in Nat \ {0} /\ result' \in BOOLEAN
  BY <1>1 DEF IInv, TypeOK
<1>5. Control'
  BY <1>1 DEF IInv, Control, LookupCount
<1> QED
  BY <1>1, <1>2, <1>3, <1>4, <1>5, CancellationKeeps DEF IInv

\* The orders of a batch, and the batch that follows.
LEMMA BatchIsOfIds == ASSUME IInv PROVE Batch \subseteq Id \cup {None}
BY DEF IInv, TypeOK, Batch

LEMMA NextBatchMoves ==
  ASSUME IInv, pc \in {"batch", "batchPlan"}, NextBatch
  PROVE  step' \in Nat \ {0} /\ pc' \in {"batch", "returned"}
BY DEF IInv, TypeOK, NextBatch

LEMMA BatchIsCancelledKeeps == ASSUME IInv, BatchIsCancelled PROVE IInv'
<1>1. /\ pc = "batch" /\ answer = None
      /\ UNCHANGED <<venue, op, ids, direction, answer, listed, over, prices>>
  BY DEF BatchIsCancelled, history, IInv, Control
<1>2. faults' \in 0..MaxFaults /\ failed' \subseteq Id \cup {None}
  BY FaultTypes, BatchIsOfIds DEF IInv, BatchIsCancelled
<1>3. PICK S : orders' = Cancelled(S)
  BY DEF BatchIsCancelled
<1>4. PICK ok \in BOOLEAN : AfterBatch(ok)
  <2>1. BatchSucceeds(Reached(CancelKinds, Batch)) \in BOOLEAN
    BY DEF BatchSucceeds
  <2> QED
    BY <2>1 DEF BatchIsCancelled
<1>5. step' \in Nat \ {0} /\ result' \in BOOLEAN /\ pc' \in {"batch", "returned", "batchPlan"}
  <2>1. result' \in BOOLEAN
    BY <1>4, Zenon DEF AfterBatch
  <2>2. CASE venue = "bitget"
    BY <1>4, <2>1, <2>2 DEF AfterBatch, IInv, TypeOK
  <2>3. CASE venue # "bitget"
    BY <1>1, <1>4, <2>1, <2>3, NextBatchMoves DEF AfterBatch
  <2> QED
    BY <2>2, <2>3
<1>6. Control'
  BY <1>1, <1>5 DEF Control
<1> QED
  BY <1>1, <1>2, <1>3, <1>5, <1>6, CancellationKeeps DEF IInv

LEMMA PlanBatchIsCancelledKeeps == ASSUME IInv, PlanBatchIsCancelled PROVE IInv'
<1>1. /\ pc = "batchPlan" /\ answer = None
      /\ UNCHANGED <<venue, op, ids, direction, answer, listed, result, over, prices>>
  BY DEF PlanBatchIsCancelled, history, IInv, Control
<1>2. faults' \in 0..MaxFaults /\ failed' \subseteq Id \cup {None}
  BY FaultTypes, BatchIsOfIds DEF IInv, PlanBatchIsCancelled
<1>3. PICK S : orders' = Cancelled(S)
  BY DEF PlanBatchIsCancelled
<1>4. step' \in Nat \ {0} /\ result' \in BOOLEAN /\ pc' \in {"batch", "returned"}
  BY <1>1, NextBatchMoves DEF PlanBatchIsCancelled, IInv, TypeOK
<1>5. Control'
  BY <1>1, <1>4 DEF Control
<1> QED
  BY <1>1, <1>2, <1>3, <1>4, <1>5, CancellationKeeps DEF IInv

-----------------------------------------------------------------------------
(* What cancellations reach.                                               *)

\* A request about the order has failed, or the order is not open, or the call cannot
\* reach it.
Handled(id) == id \in failed \/ ~IsOpen(id) \/ ~IsReachable(id)
HasEnded(id) == orders[id].status \in {"canceled", "expired"}

\* Bitget's adapter has only one request left, the one for plan orders.
PlainIsHandled(id) == id \in failed \/ ~IsOpen(id) \/ HasKind(id, "trigger")

BatchOf(i) == (i - 1) \div BatchSize

\* Which calls wait for which requests.
Shape ==
  /\ pc = "idle" => ~result
  /\ pc \in {"price", "create"} => op \in PlaceOps
  /\ pc = "list" => op = "getOrders"
  /\ pc \in {"lookup", "ticker"} => op \in PlaceOps \cup {"getOrder", "cancelOrder"}
  /\ pc \in {"cancel", "check", "cancelPlan"} =>
       op = "cancelOrder" \/ (op = "cancelConditionalOrders" /\ venue = "binance")
  /\ pc \in {"batch", "batchPlan"} => op = "cancelOrders" /\ venue # "option"
  /\ pc = "batchPlan" => venue = "bitget"
  /\ op = "cancelOrder" => Len(ids) = 1

\* The orders before the present one are cancelled. The batches before the present
\* one are handled, and have ended if the answer may still be true.
Progress ==
  /\ pc \in {"cancel", "check"} => \A j \in 1..(step - 1) : orders[ids[j]].status = "canceled"
  /\ pc = "check" => Handled(CancelTarget)
  /\ pc = "cancelPlan" => PlainIsHandled(CancelTarget)
  /\ pc \in {"lookup", "ticker"} /\ op = "cancelOrder" => Handled(Target)
  /\ pc \in {"batch", "batchPlan"} =>
       \A i \in DOMAIN ids : BatchOf(i) < step - 1 =>
         Handled(ids[i]) /\ (result /\ venue # "bitget" => HasEnded(ids[i]))
  /\ pc = "batchPlan" => \A id \in Batch : PlainIsHandled(id)

Reach == Shape /\ Progress /\ TrueMeansCancelled /\ CancelsReachEveryOrder

\* The inductive invariant for cancellations.
CInv == IInv /\ Reach

\* The orders of a call.
LEMMA MembersExist ==
  ASSUME IInv
  PROVE  /\ \A i \in DOMAIN ids : ids[i] \in Id /\ Exists(ids[i])
         /\ \A id \in Range(ids) : id \in Id /\ Exists(id)
         /\ Batch \subseteq Range(ids)
BY DEF IInv, TypeOK, Truth, AboutExisting, Range, Batch

LEMMA OnlyMember ==
  ASSUME IInv, Len(ids) = 1
  PROVE  Range(ids) = {ids[1]} /\ DOMAIN ids = {1}
BY DEF IInv, TypeOK, Range

\* What is known of an order stays so.
LEMMA HandledStays ==
  ASSUME OrdersGoOn, UNCHANGED <<venue, op>>, failed \subseteq failed', NEW id \in Id, Exists(id)
  PROVE  /\ Handled(id) => Handled(id)'
         /\ PlainIsHandled(id) => PlainIsHandled(id)'
         /\ HasEnded(id) => HasEnded(id)'
         /\ orders[id].status = "canceled" => orders'[id].status = "canceled"
         /\ orders[id].status = "closed" => orders'[id].status = "closed"
         /\ orders[id].status = "expired" => orders'[id].status = "expired"
<1>1. /\ Exists(id)' /\ orders'[id].kind = orders[id].kind
      /\ ~IsOpen(id) => orders'[id] = orders[id]
  BY DEF OrdersGoOn
<1>2. ~IsOpen(id) => ~IsOpen(id)'
  BY <1>1 DEF IsOpen
<1>3. IsReachable(id)' <=> IsReachable(id)
  BY <1>1 DEF IsReachable, CancelKinds
<1>4. Handled(id) => Handled(id)'
  BY <1>2, <1>3 DEF Handled
<1>5. PlainIsHandled(id) => PlainIsHandled(id)'
  BY <1>1, <1>2 DEF PlainIsHandled, HasKind
<1> QED
  BY <1>1, <1>4, <1>5 DEF HasEnded, IsOpen

\* Orders that change while the call waits.
LEMMA ReachStays ==
  ASSUME CInv, OrdersGoOn, UNCHANGED <<venue, op, ids, pc, step, result>>, failed \subseteq failed'
  PROVE  Reach'
<1>1. \A i \in DOMAIN ids :
        /\ Handled(ids[i]) => Handled(ids[i])'
        /\ PlainIsHandled(ids[i]) => PlainIsHandled(ids[i])'
        /\ HasEnded(ids[i]) => HasEnded(ids[i])'
        /\ orders[ids[i]].status = "canceled" => orders'[ids[i]].status = "canceled"
        /\ orders[ids[i]].status = "closed" => orders'[ids[i]].status = "closed"
        /\ orders[ids[i]].status = "expired" => orders'[ids[i]].status = "expired"
  <2> SUFFICES ASSUME NEW id \in Range(ids)
               PROVE  /\ Handled(id) => Handled(id)'
                      /\ PlainIsHandled(id) => PlainIsHandled(id)'
                      /\ HasEnded(id) => HasEnded(id)'
                      /\ orders[id].status = "canceled" => orders'[id].status = "canceled"
                      /\ orders[id].status = "closed" => orders'[id].status = "closed"
                      /\ orders[id].status = "expired" => orders'[id].status = "expired"
    BY DEF Range
  <2> QED
    BY HandledStays, MembersExist DEF CInv
<1>2. Shape'
  BY DEF CInv, Reach, Shape
<1>3. /\ pc \in {"cancel", "check", "cancelPlan"} => step \in DOMAIN ids
      /\ pc \in {"lookup", "ticker"} => 1 \in DOMAIN ids
      /\ ids \in Seq(Id) /\ step \in Nat
  BY DEF CInv, IInv, Control, TypeOK
<1>4. Progress'
  <2>1. pc \in {"cancel", "check"} => \A j \in 1..(step - 1) : orders'[ids[j]].status = "canceled"
    BY <1>1, <1>3 DEF CInv, Reach, Progress
  <2>2. /\ pc = "check" => Handled(CancelTarget)'
        /\ pc = "cancelPlan" => PlainIsHandled(CancelTarget)'
        /\ pc \in {"lookup", "ticker"} /\ op = "cancelOrder" => Handled(Target)'
    BY <1>1, <1>3 DEF CInv, Reach, Progress, CancelTarget, Target
  <2>3. pc \in {"batch", "batchPlan"} =>
          \A i \in DOMAIN ids : BatchOf(i) < step - 1 =>
            Handled(ids[i])' /\ (result /\ venue # "bitget" => HasEnded(ids[i])')
    BY <1>1 DEF CInv, Reach, Progress
  <2>4. pc = "batchPlan" => \A id \in Batch : PlainIsHandled(id)'
    BY <1>1 DEF CInv, Reach, Progress, Batch
  <2>5. Batch' = Batch
    BY DEF Batch
  <2> QED
    BY <2>1, <2>2, <2>3, <2>4, <2>5 DEF Progress, BatchOf
<1>5. TrueMeansCancelled'
  BY <1>1 DEF CInv, Reach, TrueMeansCancelled, HasReturned, Range, HasEnded
<1>6. NoneIsLeftOpen'
  <2> SUFFICES ASSUME HasReturned, op \in {"cancelOrder", "cancelOrders"}, NEW i \in DOMAIN ids,
                      ids[i] \notin failed', IsReachable(ids[i])'
               PROVE  ~IsOpen(ids[i])'
    BY DEF NoneIsLeftOpen, HasReturned, Range
  <2>1. Handled(ids[i])
    BY DEF CInv, Reach, CancelsReachEveryOrder, NoneIsLeftOpen, Handled, Range
  <2> QED
    BY <1>1, <2>1 DEF Handled
<1>7. StopsAtFirstFailure'
  <2> SUFFICES ASSUME HasReturned, op = "cancelConditionalOrders", venue = "binance", ~result
               PROVE  \E i \in DOMAIN ids :
                        /\ \A j \in 1..(i - 1) : orders'[ids[j]].status = "canceled"
                        /\ ids[i] \in failed' \/ orders'[ids[i]].status \in {"closed", "expired"}
    BY DEF StopsAtFirstFailure, HasReturned
  <2>1. PICK i \in DOMAIN ids :
          /\ \A j \in 1..(i - 1) : orders[ids[j]].status = "canceled"
          /\ ids[i] \in failed \/ orders[ids[i]].status \in {"closed", "expired"}
    BY DEF CInv, Reach, CancelsReachEveryOrder, StopsAtFirstFailure
  <2>2. \A j \in 1..(i - 1) : j \in DOMAIN ids
    BY <1>3
  <2> QED
    BY <1>1, <2>1, <2>2
<1> QED
  BY <1>2, <1>4, <1>5, <1>6, <1>7 DEF Reach, CancelsReachEveryOrder

LEMMA QuietlyReaches ==
  ASSUME CInv, UNCHANGED <<orders, venue, op, ids, pc, step, result, failed>>
  PROVE  Reach'
<1>1. OrdersGoOn
  BY SameOrders DEF CInv, IInv
<1> QED
  BY <1>1, ReachStays

\* Calls that cancel nothing.
LEMMA NothingToReach ==
  ASSUME op' \notin CancelOps, Shape'
  PROVE  Reach'
BY DEF CancelOps, Shape, Reach, Progress, TrueMeansCancelled, CancelsReachEveryOrder,
       NoneIsLeftOpen, StopsAtFirstFailure

LEMMA InitReaches == Init => Reach
BY DEF Init, Shape, Reach, Progress, TrueMeansCancelled, CancelsReachEveryOrder,
       NoneIsLeftOpen, StopsAtFirstFailure, HasReturned

LEMMA ResumeReaches == ASSUME CInv, Resume PROVE Reach'
<1>1. op' = "none" /\ pc' = "idle" /\ result' = FALSE
  BY DEF Resume
<1>2. Shape'
  BY <1>1 DEF Shape
<1> QED
  BY <1>1, <1>2, NothingToReach DEF CancelOps

LEMMA BatchOfIsNatural ==
  ASSUME NEW i \in Nat \ {0}
  PROVE  BatchOf(i) \in Nat
BY SMT DEF BatchOf

LEMMA CallReaches ==
  ASSUME CInv,
         \/ Place \/ \E o \in StopOps : PlaceStop(o)
         \/ \E id \in Id : GetOrder(id) \/ CancelOrder(id)
         \/ GetOrders
         \/ \E about \in Ids : \/ CancelOrders(about)
                               \/ CancelConditionalOrders(about)
                               \/ CancelConditionalOrdersTodo(about)
  PROVE  Reach'
<1>1. ASSUME Place \/ (\E o \in StopOps : PlaceStop(o)) \/ (\E id \in Id : GetOrder(id)) \/ GetOrders
      PROVE  Reach'
  <2>1. op' \in PlaceOps \cup {"getOrder", "getOrders"}
    BY <1>1 DEF Place, PlaceStop, GetOrder, GetOrders, Begin, PlaceOps
  <2>2. \/ pc' \in {"price", "create"} /\ op' \in PlaceOps
        \/ pc' = "lookup" /\ op' = "getOrder"
        \/ pc' = "list" /\ op' = "getOrders"
    BY <1>1 DEF Place, PlaceStop, GetOrder, GetOrders, Begin, PlaceOps
  <2>3. op' \notin CancelOps
    BY <2>1 DEF PlaceOps, StopOps, CancelOps
  <2>4. Shape'
    BY <2>2, <2>3 DEF Shape, CancelOps
  <2> QED
    BY <2>3, <2>4, NothingToReach
<1>2. ASSUME NEW id \in Id, CancelOrder(id) PROVE Reach'
  <2>1. op' = "cancelOrder" /\ ids' = <<id>> /\ pc' = "cancel" /\ step' = 1
    BY <1>2 DEF CancelOrder, Begin, CInv, IInv, Control
  <2> QED
    BY <2>1 DEF Reach, Shape, Progress, TrueMeansCancelled, CancelsReachEveryOrder,
                NoneIsLeftOpen, StopsAtFirstFailure, HasReturned
<1>3. ASSUME NEW about \in Ids, CancelOrders(about) PROVE Reach'
  <2>1. /\ op' = "cancelOrders" /\ ids' = about /\ venue' # "option" /\ step' = 1
        /\ pc' = IF about = <<>> THEN "returned" ELSE "batch"
    BY <1>3 DEF CancelOrders, Begin, CInv, IInv, Control
  <2>2. \A i \in DOMAIN ids' : ~(BatchOf(i) < 0)
    <3>1. DOMAIN ids' \subseteq Nat \ {0}
      BY <2>1, IdsAreSequences
    <3> QED
      BY <3>1, BatchOfIsNatural
  <2>3. about = <<>> => Range(ids') = {}
    BY <2>1 DEF Range
  <2> QED
    BY <2>1, <2>2, <2>3 DEF Reach, Shape, Progress, BatchOf, TrueMeansCancelled,
                            CancelsReachEveryOrder, NoneIsLeftOpen, StopsAtFirstFailure, HasReturned
<1>4. ASSUME NEW about \in Ids, CancelConditionalOrders(about) PROVE Reach'
  <2>1. /\ op' = "cancelConditionalOrders" /\ ids' = about /\ venue' = "binance" /\ step' = 1
        /\ pc' = IF about = <<>> THEN "returned" ELSE "cancel"
        /\ result'
    BY <1>4 DEF CancelConditionalOrders, Begin, CInv, IInv, Control
  <2>2. about = <<>> => Range(ids') = {}
    BY <2>1 DEF Range
  <2> QED
    BY <2>1, <2>2 DEF Reach, Shape, Progress, TrueMeansCancelled, CancelsReachEveryOrder,
                      NoneIsLeftOpen, StopsAtFirstFailure, HasReturned
<1>5. ASSUME NEW about \in Ids, CancelConditionalOrdersTodo(about) PROVE Reach'
  <2>1. /\ op' = "cancelConditionalOrders" /\ venue' # "binance" /\ pc' = "returned"
        /\ ~result'
    BY <1>5 DEF CancelConditionalOrdersTodo, Begin, CInv, Reach, Shape
  <2> QED
    BY <2>1 DEF Reach, Shape, Progress, TrueMeansCancelled, CancelsReachEveryOrder,
                NoneIsLeftOpen, StopsAtFirstFailure, HasReturned
<1> QED
  BY <1>1, <1>2, <1>3, <1>4, <1>5

LEMMA PlacementReaches ==
  ASSUME CInv,
         \/ PriceIsRead \/ PriceIsMissing \/ CreationFails
         \/ \E price \in Market : \/ \E id \in Id, o \in Order : OrderIsCreated(id, o, price)
                                  \/ CreationIsRefused(price)
  PROVE  Reach'
<1>1. op' = op /\ pc \in {"price", "create"} /\ pc' \in {"create", "returned", "lookup"}
  BY DEF PriceIsRead, PriceIsMissing, ChooseDirection, CreationFails, OrderIsCreated,
         CreationIsRefused
<1>2. op' \in PlaceOps
  BY <1>1 DEF CInv, Reach, Shape
<1>3. op' \notin CancelOps
  BY <1>2 DEF PlaceOps, StopOps, CancelOps
<1>4. Shape'
  BY <1>1, <1>2, <1>3 DEF Shape, CancelOps
<1> QED
  BY <1>3, <1>4, NothingToReach

LEMMA ListingReaches == ASSUME CInv, OrdersAreListed \/ OrdersListingThrows PROVE Reach'
<1>1. op' = op /\ pc = "list" /\ pc' \in {"list", "returned", "threw"}
  BY DEF OrdersAreListed, OrdersListingThrows
<1>2. op' = "getOrders"
  BY <1>1 DEF CInv, Reach, Shape
<1>3. Shape'
  BY <1>1, <1>2 DEF Shape
<1> QED
  BY <1>2, <1>3, NothingToReach DEF CancelOps

\* Bitget's cancelOrder answers what a lookup says of the order.
LEMMA LookupReaches ==
  ASSUME CInv, IInv', OrderIsFound \/ TickerIsRead \/ OrderIsNotFound
  PROVE  Reach'
<1>1. /\ pc \in {"lookup", "ticker"} /\ pc' \in {"lookup", "ticker", "returned"} /\ ids # <<>>
      /\ pc' = "returned" => LookupAnswers
      /\ failed \subseteq failed'
      /\ UNCHANGED <<venue, orders, op, ids>>
  BY DEF CInv, IInv, Control, OrderIsFound, TickerIsRead, OrderIsNotFound, LookupAnswers, NoFault,
         Fault
<1>2. Shape'
  BY <1>1 DEF CInv, Reach, Shape
<1>3. CASE op # "cancelOrder"
  <2>1. op' \in PlaceOps \cup {"getOrder"}
    BY <1>1, <1>3 DEF CInv, Reach, Shape
  <2>2. op' \notin CancelOps
    BY <2>1 DEF PlaceOps, StopOps, CancelOps
  <2> QED
    BY <1>2, <2>2, NothingToReach
<1>4. CASE op = "cancelOrder"
  <2>1. Len(ids) = 1 /\ Range(ids) = {ids[1]} /\ Target = ids[1] /\ Target \in Id /\ Exists(Target)
    BY <1>4, OnlyMember, MembersExist DEF CInv, Reach, Shape, Target
  <2>2. Handled(Target) /\ OrdersGoOn
    BY <1>1, <1>4, SameOrders DEF CInv, IInv, Reach, Progress
  <2>3. Handled(ids[1])'
    BY <1>1, <2>1, <2>2, HandledStays
  <2>4. Progress'
    BY <1>1, <2>3 DEF Progress, Target
  <2>5. TrueMeansCancelled'
    <3> SUFFICES ASSUME pc' = "returned", result' PROVE HasEnded(ids[1])'
      BY <1>1, <2>1 DEF TrueMeansCancelled, HasReturned, HasEnded, Range
    <3>1. answer' # None /\ answer'.status = "CANCELLED"
      BY <1>1, <1>4 DEF LookupAnswers
    <3>2. Fits(answer, Target)'
      BY <3>1 DEF IInv, Truth, AnswerIsTrue
    <3> QED
      BY <3>1, <3>2 DEF Fits, Target, HasEnded
  <2>6. CancelsReachEveryOrder'
    BY <1>1, <1>4, <2>1, <2>3 DEF CancelsReachEveryOrder, NoneIsLeftOpen, StopsAtFirstFailure,
                                  Handled, Range
  <2> QED
    BY <1>2, <2>4, <2>5, <2>6 DEF Reach
<1> QED
  BY <1>3, <1>4

LEMMA CancelledGoOn ==
  ASSUME TypeOK, NEW S, UNCHANGED orders \/ orders' = Cancelled(S)
  PROVE  OrdersGoOn
BY CancelledOrders, SameOrders

\* After the answer to a cancellation, whatever it is, the order is handled.
LEMMA SettleReaches ==
  ASSUME CInv, OrdersGoOn, UNCHANGED <<venue, op, ids>>, failed \subseteq failed',
         pc \in {"cancel", "check"}, venue # "bitget", step \in DOMAIN ids,
         NEW id, id = ids[step], NEW ok \in BOOLEAN, Settle(ok),
         Handled(id)', ok => orders'[id].status = "canceled",
         ~ok /\ op = "cancelConditionalOrders" =>
           id \in failed' \/ orders'[id].status \in {"closed", "expired"}
  PROVE  Reach'
<1>1. ids \in Seq(Id) /\ step \in 1..Len(ids) /\ Len(ids) \in Nat
  BY DEF CInv, IInv, TypeOK
<1>2. \A j \in 1..(step - 1) : orders'[ids[j]].status = "canceled"
  <2> SUFFICES ASSUME NEW j \in 1..(step - 1) PROVE orders'[ids[j]].status = "canceled"
    OBVIOUS
  <2>1. ids[j] \in Id /\ Exists(ids[j]) /\ orders[ids[j]].status = "canceled"
    BY <1>1, MembersExist DEF CInv, Reach, Progress
  <2> QED
    BY <2>1, HandledStays
<1>3. op = "cancelOrder" \/ (op = "cancelConditionalOrders" /\ venue = "binance")
  BY DEF CInv, Reach, Shape
<1>4. op = "cancelOrder" => Len(ids) = 1
  BY DEF CInv, Reach, Shape
<1>5. CASE ok /\ step < Len(ids)
  <2>1. pc' = "cancel" /\ step' = step + 1
    BY <1>5 DEF Settle
  <2>2. \A j \in 1..(step' - 1) : orders'[ids'[j]].status = "canceled"
    BY <1>1, <1>2, <1>5, <2>1
  <2> QED
    BY <1>3, <1>4, <2>1, <2>2 DEF Reach, Shape, Progress, TrueMeansCancelled,
       CancelsReachEveryOrder, NoneIsLeftOpen, StopsAtFirstFailure, HasReturned
<1>6. CASE ~(ok /\ step < Len(ids))
  <2>1. pc' = "returned" /\ result' = ok
    BY <1>6 DEF Settle
  <2>2. Shape' /\ Progress'
    BY <1>3, <1>4, <2>1 DEF Shape, Progress
  <2>3. TrueMeansCancelled'
    <3> SUFFICES ASSUME ok, NEW i \in DOMAIN ids
                 PROVE  orders'[ids[i]].status \in {"canceled", "expired"}
      BY <2>1 DEF TrueMeansCancelled, Range
    <3> QED
      BY <1>1, <1>2, <1>6
  <2>4. NoneIsLeftOpen'
    <3> SUFFICES ASSUME op = "cancelOrder", id \notin failed', IsReachable(id)' PROVE ~IsOpen(id)'
      <4>1. op = "cancelOrder" => Range(ids) = {id}
        BY <1>1, <1>4, OnlyMember DEF CInv
      <4> QED
        BY <1>3, <4>1 DEF NoneIsLeftOpen, Range
    <3> QED
      BY DEF Handled
  <2>5. StopsAtFirstFailure'
    BY <1>2, <2>1 DEF StopsAtFirstFailure
  <2> QED
    BY <2>2, <2>3, <2>4, <2>5 DEF Reach, CancelsReachEveryOrder
<1> QED
  BY <1>5, <1>6

\* An order that a cancellation can reach and has reached, or whose request has failed.
LEMMA CancelledIsHandled ==
  ASSUME TypeOK, NEW S \in SUBSET Id, NEW kinds, NEW id \in S, Exists(id),
         orders' = Cancelled(Reached(kinds, S))
  PROVE  /\ orders[id].kind \in kinds => ~IsOpen(id)'
         /\ id \in Reached(kinds, S) => orders'[id].status = "canceled"
         /\ ~IsOpen(id) => ~IsOpen(id)'
<1>1. orders'[id] = IF id \in Reached(kinds, S) /\ IsOpen(id)
                    THEN [orders[id] EXCEPT !.status = "canceled"] ELSE orders[id]
  BY DEF Cancelled
<1>2. orders[id] \in Order
  BY DEF TypeOK, Exists
<1>3. [orders[id] EXCEPT !.status = "canceled"].status = "canceled"
  BY <1>2 DEF Order
<1> QED
  BY <1>1, <1>3 DEF Reached, IsOpen, Exists

LEMMA OrderIsCancelledReaches == ASSUME CInv, OrderIsCancelled PROVE Reach'
<1>1. /\ pc = "cancel" /\ step \in DOMAIN ids /\ answer = None
      /\ UNCHANGED <<venue, op, ids>>
  BY CancelTargetIsId DEF CInv, OrderIsCancelled
<1>2. PICK id \in Id : id = ids[step] /\ Exists(id) /\ TypeOK /\ CancelTarget = id
  BY <1>1, MembersExist DEF CInv, IInv, CancelTarget
<1> DEFINE R == Reached(CancelKinds, {id})
<1>3. PICK ok \in BOOLEAN :
        /\ AfterCancel(ok)
        /\ \/ NoFault /\ orders' = Cancelled(R) /\ ok = (R # {})
           \/ Fault({id}) /\ orders' \in {orders, Cancelled(R)} /\ ok = FALSE
  BY <1>2 DEF OrderIsCancelled
<1>4. /\ OrdersGoOn /\ failed \subseteq failed'
      /\ id \in failed' \/ (orders' = Cancelled(R) /\ UNCHANGED failed)
  BY <1>2, <1>3, CancelledGoOn DEF NoFault, Fault
<1>5. ok => orders'[id].status = "canceled"
  <2> SUFFICES ASSUME ok PROVE orders'[id].status = "canceled"
    OBVIOUS
  <2>1. orders' = Cancelled(R) /\ id \in R
    BY <1>3 DEF Reached
  <2> QED
    BY <1>2, <2>1, CancelledIsHandled
<1>6. venue = "bitget" \/ Handled(id)'
  <2> SUFFICES ASSUME venue # "bitget", id \notin failed', IsReachable(id)' PROVE ~IsOpen(id)'
    BY DEF Handled
  <2>1. orders[id].kind \in CancelKinds
    BY <1>1, <1>2, <1>4 DEF IsReachable, CancelKinds, OrdersGoOn
  <2> QED
    BY <1>2, <1>4, <2>1, CancelledIsHandled
<1>7. op = "cancelOrder" \/ (op = "cancelConditionalOrders" /\ venue = "binance")
  BY <1>1 DEF CInv, Reach, Shape
<1>8. op = "cancelOrder" => Len(ids) = 1
  BY DEF CInv, Reach, Shape
<1>9. CASE venue = "bitget"
  <2>1. pc' = "cancelPlan" /\ UNCHANGED <<step, result>> /\ op = "cancelOrder"
    BY <1>3, <1>7, <1>9 DEF AfterCancel
  <2>2. PlainIsHandled(id)'
    <3> SUFFICES ASSUME id \notin failed', orders'[id].kind # "trigger" PROVE ~IsOpen(id)'
      BY <1>2, <1>4 DEF PlainIsHandled, HasKind, OrdersGoOn
    <3>1. orders[id].kind = "plain" /\ CancelKinds = {"plain"}
      <4>1. orders[id] \in Order
        BY <1>2 DEF TypeOK, Exists
      <4>2. orders[id].kind \in Kind /\ orders'[id].kind = orders[id].kind
        BY <1>2, <1>4, <4>1, OrderFields DEF OrdersGoOn
      <4> QED
        BY <1>9, <2>1, <4>2 DEF Kind, CancelKinds
    <3> QED
      BY ZenonT(40), <1>2, <1>4, <3>1, CancelledIsHandled
  <2>3. CancelTarget' = id
    BY <1>1, <1>2, <2>1 DEF CancelTarget
  <2>4. PlainIsHandled(CancelTarget)'
    BY <2>2, <2>3 DEF PlainIsHandled, HasKind, IsOpen
  <2> QED
    BY <1>1, <1>8, <2>1, <2>4 DEF Reach, Shape, Progress, TrueMeansCancelled,
       CancelsReachEveryOrder, NoneIsLeftOpen, StopsAtFirstFailure, HasReturned
<1>10. CASE venue \in {"binance", "option"} /\ ~ok
  <2>1. pc' = "check" /\ UNCHANGED <<step, result>>
    BY <1>3, <1>10 DEF AfterCancel
  <2>2. Handled(CancelTarget)'
    <3>1. CancelTarget' = id /\ Handled(id)'
      BY <1>1, <1>2, <1>6, <1>10, <2>1 DEF CancelTarget
    <3> QED
      BY <3>1 DEF Handled, IsOpen, IsReachable
  <2>3. \A j \in 1..(step - 1) : orders'[ids[j]].status = "canceled"
    <3> SUFFICES ASSUME NEW j \in 1..(step - 1) PROVE orders'[ids[j]].status = "canceled"
      OBVIOUS
    <3>1. j \in DOMAIN ids
      BY <1>1 DEF CInv, IInv, TypeOK
    <3>2. ids[j] \in Id /\ Exists(ids[j]) /\ orders[ids[j]].status = "canceled"
      BY <1>1, <3>1, MembersExist DEF CInv, Reach, Progress
    <3> QED
      BY <1>1, <1>4, <3>2, HandledStays
  <2> QED
    BY <1>1, <1>7, <1>8, <2>1, <2>2, <2>3 DEF Reach, Shape, Progress, TrueMeansCancelled,
       CancelsReachEveryOrder, NoneIsLeftOpen, StopsAtFirstFailure, HasReturned
<1>11. CASE venue # "bitget" /\ ~(venue \in {"binance", "option"} /\ ~ok)
  <2>1. Settle(ok)
    BY <1>3, <1>11 DEF AfterCancel
  <2>2. ~(~ok /\ op = "cancelConditionalOrders")
    BY <1>7, <1>11
  <2> QED
    BY <1>1, <1>2, <1>4, <1>5, <1>6, <1>11, <2>1, <2>2, SettleReaches
<1> QED
  BY <1>9, <1>10, <1>11

LEMMA CheckReaches == ASSUME CInv, CancelIsChecked PROVE Reach'
<1>1. /\ pc = "check" /\ step \in DOMAIN ids /\ venue # "bitget" /\ OrdersGoOn
      /\ UNCHANGED <<venue, orders, op, ids, failed>>
  BY CancelTargetIsId, SameOrders DEF CancelIsChecked, NoFault, CInv, IInv, Control
<1>2. PICK id \in Id : id = ids[step] /\ Exists(id) /\ orders[id] \in Order /\ CancelTarget = id
  BY <1>1, MembersExist DEF CInv, IInv, TypeOK, Exists, CancelTarget
<1> PICK ok \in BOOLEAN : ok <=> orders[id].status = "canceled"
  OBVIOUS
<1>3. Handled(id) /\ Handled(id)'
  BY <1>1, <1>2, HandledStays DEF CInv, Reach, Progress
<1>4. Settle(ok) /\ IsReachable(id)
  <2>1. Settle(orders[id].status = "canceled")
    BY <1>2 DEF CancelIsChecked
  <2> QED
    BY <1>2, <2>1 DEF CancelIsChecked, IsAnswered, HasKind, IsReachable, Settle
<1>5. ~ok => id \in failed' \/ orders'[id].status \in {"closed", "expired"}
  BY <1>1, <1>2, <1>3, <1>4, OrderFields DEF Handled, IsOpen
<1>6. ok => orders'[id].status = "canceled"
  BY <1>1
<1> QED
  BY <1>1, <1>2, <1>3, <1>4, <1>5, <1>6, SettleReaches

LEMMA CheckThrowsReaches == ASSUME CInv, CheckThrows PROVE Reach'
BY DEF CheckThrows, CInv, Reach, Shape, Progress, TrueMeansCancelled, CancelsReachEveryOrder,
       NoneIsLeftOpen, StopsAtFirstFailure, HasReturned

LEMMA PlanIsCancelledReaches == ASSUME CInv, PlanIsCancelled PROVE Reach'
<1>1. /\ pc = "cancelPlan" /\ venue = "bitget" /\ step = 1 /\ step \in DOMAIN ids
      /\ op = "cancelOrder" /\ Len(ids) = 1
      /\ UNCHANGED <<venue, op, ids, step, result>>
      /\ pc' \in {"lookup", "threw"}
  BY CancelTargetIsId DEF CInv, IInv, Control, Reach, Shape, PlanIsCancelled
<1>2. PICK id \in Id : /\ id = ids[1] /\ Exists(id) /\ TypeOK
                      /\ CancelTarget = id /\ PlainIsHandled(id)
  BY <1>1, MembersExist DEF CInv, IInv, CancelTarget, Reach, Progress
<1>3. pc' = "lookup" => Handled(id)'
  <2> SUFFICES ASSUME pc' = "lookup", id \notin failed' PROVE ~IsOpen(id)'
    BY DEF Handled
  <2>1. orders' = Cancelled(Reached({"trigger"}, {id})) /\ UNCHANGED failed
    BY <1>2 DEF PlanIsCancelled, NoFault
  <2>2. ~IsOpen(id) \/ orders[id].kind = "trigger"
    BY <1>2, <2>1 DEF PlainIsHandled, HasKind
  <2> QED
    BY <1>2, <2>1, <2>2, CancelledIsHandled
<1> QED
  BY <1>1, <1>2, <1>3 DEF Reach, Shape, Progress, TrueMeansCancelled, CancelsReachEveryOrder,
     NoneIsLeftOpen, StopsAtFirstFailure, HasReturned, Target

-----------------------------------------------------------------------------
(* Batches.                                                                *)

\* Every order is in one of the batches.
LEMMA BatchesCover ==
  ASSUME NEW len \in Nat, NEW i \in 1..len
  PROVE  BatchOf(i) < (len + BatchSize - 1) \div BatchSize
<1> DEFINE q == BatchOf(i)
           c == (len + BatchSize - 1) \div BatchSize
<1>1. q \in Int /\ BatchSize * q <= i - 1
  BY SMT DEF BatchOf
<1>2. c \in Int /\ len + BatchSize - 1 < BatchSize * (c + 1)
  BY SMT
<1> HIDE DEF q, c
<1>3. BatchSize * (q + 1) < BatchSize * (c + 1)
  <2>1. BatchSize * (q + 1) = BatchSize * q + BatchSize
    BY <1>1, SMT
  <2> QED
    BY <1>1, <1>2, <2>1, SMT
<1>4. ~(c <= q)
  <2> SUFFICES ASSUME c <= q PROVE FALSE
    OBVIOUS
  <2>1. BatchSize * (q - c) >= 0
    BY <1>1, <1>2, SMT
  <2>2. BatchSize * (q + 1) = BatchSize * (c + 1) + BatchSize * (q - c)
    BY <1>1, <1>2, SMT
  <2>3. BatchSize * (q + 1) \in Int /\ BatchSize * (c + 1) \in Int /\ BatchSize * (q - c) \in Int
    BY <1>1, <1>2, SMT
  <2> QED
    BY <1>3, <2>1, <2>2, <2>3, SMT
<1>5. q < c
  BY <1>1, <1>2, <1>4
<1> QED
  BY <1>5 DEF q, c

\* As many different orders as the call has are all of them.
LEMMA AllOfThem ==
  ASSUME IInv, NEW done, done \subseteq Batch, Cardinality(done) = Len(ids)
  PROVE  Batch \subseteq done
<1>1. ids \in Seq(Id) /\ Len(ids) \in Nat /\ DOMAIN ids = 1..Len(ids)
  BY DEF IInv, TypeOK
<1>2. ids \in Surjection(1..Len(ids), Range(ids))
  <2>1. ids \in [1..Len(ids) -> Range(ids)]
    BY <1>1 DEF Range
  <2>2. \A t \in Range(ids) : \E s \in 1..Len(ids) : ids[s] = t
    BY <1>1 DEF Range
  <2> QED
    BY <2>1, <2>2 DEF Surjection
<1>3. IsFiniteSet(1..Len(ids)) /\ Cardinality(1..Len(ids)) = Len(ids)
  <2> DEFINE n == Len(ids)
  <2>1. n \in Nat
    BY <1>1
  <2> HIDE DEF n
  <2>2. /\ IsFiniteSet(1..n)
        /\ Cardinality(1..n) = IF 1 > n THEN 0 ELSE n - 1 + 1
    BY <2>1, FS_Interval
  <2>3. IsFiniteSet(1..n) /\ Cardinality(1..n) = n
    BY <2>1, <2>2
  <2> QED
    BY <2>3 DEF n
<1>4. IsFiniteSet(Range(ids)) /\ Cardinality(Range(ids)) <= Len(ids)
  BY <1>2, <1>3, FS_Surjection
<1>5. done \subseteq Range(ids) /\ Batch \subseteq Range(ids)
  BY MembersExist
<1>6. /\ Cardinality(done) <= Cardinality(Range(ids))
      /\ Cardinality(Range(ids)) = Cardinality(done) => Range(ids) = done
  BY <1>4, <1>5, FS_Subset
<1>7. Cardinality(Range(ids)) \in Nat
  BY <1>4, FS_CardinalityType
<1> QED
  BY <1>1, <1>4, <1>5, <1>6, <1>7

\* The next batch, or the end of the call, when the present one is handled.
LEMMA NextBatchReaches ==
  ASSUME CInv, OrdersGoOn, UNCHANGED <<venue, op, ids>>, failed \subseteq failed',
         pc \in {"batch", "batchPlan"}, NextBatch, result' => result,
         \A id \in Batch : Handled(id)' /\ (result' /\ venue # "bitget" => HasEnded(id)')
  PROVE  Reach'
<1>1. ids \in Seq(Id) /\ step \in Nat /\ Len(ids) \in Nat /\ DOMAIN ids = 1..Len(ids)
  BY DEF CInv, IInv, TypeOK
<1>2. op = "cancelOrders" /\ venue # "option"
  BY DEF CInv, Reach, Shape
<1>3. ASSUME NEW i \in DOMAIN ids, BatchOf(i) < step
      PROVE  Handled(ids[i])' /\ (result' /\ venue # "bitget" => HasEnded(ids[i])')
  <2>1. BatchOf(i) \in Nat
    BY <1>1, BatchOfIsNatural
  <2>2. CASE BatchOf(i) < step - 1
    <3>1. Handled(ids[i]) /\ (result /\ venue # "bitget" => HasEnded(ids[i]))
      BY <2>2 DEF CInv, Reach, Progress
    <3>2. ids[i] \in Id /\ Exists(ids[i])
      BY MembersExist DEF CInv
    <3> QED
      BY <3>1, <3>2, HandledStays
  <2>3. CASE BatchOf(i) = step - 1
    <3>1. ids[i] \in Batch
      BY <2>3 DEF Batch, BatchOf
    <3> QED
      BY <3>1
  <2> QED
    BY <1>1, <1>3, <2>1, <2>2, <2>3
<1>4. CASE step < BatchCount
  <2>1. pc' = "batch" /\ step' = step + 1 /\ step' - 1 = step
    BY <1>1, <1>4 DEF NextBatch
  <2>2. Progress'
    BY <1>3, <2>1 DEF Progress, BatchOf
  <2> QED
    BY <1>2, <2>1, <2>2 DEF Reach, Shape, TrueMeansCancelled, CancelsReachEveryOrder,
       NoneIsLeftOpen, StopsAtFirstFailure, HasReturned
<1>5. CASE ~(step < BatchCount)
  <2>1. pc' = "returned"
    BY <1>5 DEF NextBatch
  <2>2. ASSUME NEW i \in DOMAIN ids
        PROVE  Handled(ids[i])' /\ (result' /\ venue # "bitget" => HasEnded(ids[i])')
    <3>1. i \in 1..Len(ids) /\ i \in Nat \ {0}
      BY <1>1
    <3>2. BatchOf(i) < BatchCount /\ BatchOf(i) \in Nat
      BY <1>1, <3>1, BatchesCover, BatchOfIsNatural DEF BatchCount
    <3>3. BatchCount \in Int
      BY <1>1, SMT DEF BatchCount
    <3> QED
      BY <1>1, <1>3, <1>5, <3>2, <3>3
  <2>3. TrueMeansCancelled'
    BY <1>2, <2>2 DEF TrueMeansCancelled, Range, HasEnded
  <2>4. NoneIsLeftOpen'
    BY <2>2 DEF NoneIsLeftOpen, Range, Handled
  <2> QED
    BY <1>2, <2>1, <2>3, <2>4 DEF Reach, Shape, Progress, CancelsReachEveryOrder,
       StopsAtFirstFailure
<1> QED
  BY <1>4, <1>5

LEMMA BatchIsCancelledReaches == ASSUME CInv, BatchIsCancelled PROVE Reach'
<1>1. /\ pc = "batch" /\ UNCHANGED <<venue, op, ids>> /\ TypeOK
      /\ op = "cancelOrders" /\ venue # "option"
  BY DEF BatchIsCancelled, CInv, IInv, Reach, Shape
<1> DEFINE R == Reached(CancelKinds, Batch)
<1>2. PICK ok \in BOOLEAN :
        /\ AfterBatch(ok)
        /\ \/ NoFault /\ orders' = Cancelled(R) /\ ok = BatchSucceeds(R)
           \/ /\ Fault(Batch) /\ ok = (venue = "bitget")
              /\ \E S \in SUBSET R : orders' = Cancelled(S)
  <2>1. BatchSucceeds(R) \in BOOLEAN
    BY DEF BatchSucceeds
  <2> QED
    BY <2>1 DEF BatchIsCancelled
<1>3. OrdersGoOn /\ failed \subseteq failed'
  BY <1>1, <1>2, CancelledGoOn DEF NoFault, Fault
<1>4. \A id \in Batch : id \in failed' \/ (orders' = Cancelled(R) /\ UNCHANGED failed)
  BY <1>2 DEF NoFault, Fault
<1>5. Batch \subseteq Id /\ \A id \in Batch : Exists(id)
  BY MembersExist DEF CInv
<1>6. ASSUME NEW id \in Batch, venue # "bitget" PROVE Handled(id)'
  <2> SUFFICES ASSUME id \notin failed', IsReachable(id)' PROVE ~IsOpen(id)'
    BY DEF Handled
  <2>1. orders[id].kind \in CancelKinds
    BY <1>1, <1>3, <1>5, <1>6 DEF IsReachable, CancelKinds, OrdersGoOn
  <2> QED
    BY <1>1, <1>4, <1>5, <2>1, CancelledIsHandled
<1>7. ASSUME NEW id \in Batch, venue # "bitget", ok PROVE HasEnded(id)'
  <2>1. orders' = Cancelled(R) /\ BatchSucceeds(R)
    BY <1>2, <1>7
  <2>2. R \subseteq Batch
    BY DEF Reached
  <2>3. Batch \subseteq R
    <3>1. CASE venue = "binance"
      BY <2>1, <3>1 DEF BatchSucceeds
    <3>2. CASE venue = "bybit"
      BY <2>1, <2>2, <3>2, AllOfThem DEF BatchSucceeds, CInv
    <3> QED
      BY <1>1, <1>7, <3>1, <3>2, VenuesAssumption DEF TypeOK, AnyVenue
  <2> QED
    BY <1>1, <1>5, <2>1, <2>3, CancelledIsHandled DEF HasEnded
<1>8. result' => result /\ ok
  BY <1>2 DEF AfterBatch
<1>9. CASE venue = "bitget"
  <2>1. pc' = "batchPlan" /\ UNCHANGED step /\ Batch' = Batch
    BY <1>1, <1>2, <1>9 DEF AfterBatch, Batch
  <2>2. ASSUME NEW id \in Batch PROVE PlainIsHandled(id)'
    <3> SUFFICES ASSUME id \notin failed', orders'[id].kind # "trigger" PROVE ~IsOpen(id)'
      BY <1>3, <1>5 DEF PlainIsHandled, HasKind, OrdersGoOn
    <3>1. orders[id] \in Order
      BY <1>1, <1>5 DEF TypeOK, Exists
    <3>2. orders[id].kind = "plain" /\ CancelKinds = {"plain"}
      BY <1>1, <1>3, <1>5, <1>9, <3>1, OrderFields DEF Kind, CancelKinds, OrdersGoOn
    <3> QED
      BY <1>1, <1>4, <1>5, <3>2, CancelledIsHandled
  <2>3. ASSUME NEW i \in DOMAIN ids, BatchOf(i) < step - 1 PROVE Handled(ids[i])'
    <3>1. ids[i] \in Id /\ Exists(ids[i]) /\ Handled(ids[i])
      BY <1>1, <2>3, MembersExist DEF CInv, Reach, Progress
    <3> QED
      BY <1>1, <1>3, <3>1, HandledStays
  <2>4. Progress'
    BY <1>1, <1>9, <2>1, <2>2, <2>3 DEF Progress, BatchOf
  <2> QED
    BY <1>1, <1>9, <2>1, <2>4 DEF Reach, Shape, TrueMeansCancelled, CancelsReachEveryOrder,
       NoneIsLeftOpen, StopsAtFirstFailure, HasReturned
<1>10. CASE venue # "bitget"
  <2>1. NextBatch
    BY <1>2, <1>10 DEF AfterBatch
  <2> QED
    BY <1>1, <1>3, <1>6, <1>7, <1>8, <1>10, <2>1, NextBatchReaches
<1> QED
  BY <1>9, <1>10

LEMMA PlanBatchIsCancelledReaches == ASSUME CInv, PlanBatchIsCancelled PROVE Reach'
<1>1. /\ pc = "batchPlan" /\ venue = "bitget" /\ TypeOK /\ NextBatch
      /\ UNCHANGED <<venue, op, ids, result>>
  BY DEF PlanBatchIsCancelled, CInv, IInv, Reach, Shape
<1> DEFINE R == Reached({"trigger"}, Batch)
<1>2. OrdersGoOn /\ failed \subseteq failed'
  <2>1. PICK S : orders' = Cancelled(S)
    BY DEF PlanBatchIsCancelled
  <2> QED
    BY <1>1, <2>1, CancelledGoOn DEF PlanBatchIsCancelled, NoFault, Fault
<1>3. ASSUME NEW id \in Batch PROVE Handled(id)'
  <2>1. id \in Id /\ Exists(id) /\ Batch \subseteq Id /\ PlainIsHandled(id)
    BY <1>1, MembersExist DEF CInv, Reach, Progress
  <2> SUFFICES ASSUME id \notin failed' PROVE ~IsOpen(id)'
    BY DEF Handled
  <2>2. orders' = Cancelled(R) /\ UNCHANGED failed
    BY DEF PlanBatchIsCancelled, NoFault, Fault
  <2>3. ~IsOpen(id) \/ orders[id].kind = "trigger"
    BY <2>1, <2>2 DEF PlainIsHandled, HasKind
  <2> QED
    BY <1>1, <2>1, <2>2, <2>3, CancelledIsHandled
<1> QED
  BY <1>1, <1>2, <1>3, NextBatchReaches

LEMMA OrderChangesReaches == ASSUME CInv, OrderChanges PROVE Reach'
<1>1. PICK id \in Id, o \in Order :
        /\ IsOpen(id) /\ o.kind = orders[id].kind /\ o.filled >= orders[id].filled
        /\ orders' = [orders EXCEPT ![id] = o]
  BY DEF OrderChanges
<1>2. OrdersGoOn
  BY <1>1, OneOrder DEF CInv, IInv
<1> QED
  BY <1>2, ReachStays DEF OrderChanges, call

-----------------------------------------------------------------------------
(* Why a call answers null.                                                *)

\* The lookups before the present one have not found the order, and no later one
\* of them would: it is of another kind, or not open any more.
Passed(id) ==
  /\ venue \in {"binance", "bitget"} /\ step > 1 => orders[id].kind = "trigger"
  /\ (venue = "bybit" /\ step > 1) \/ (venue = "bitget" /\ step > 2) => ~IsOpen(id)

IsListed(id) == \E entry \in listed : entry[1] = id

\* The adapter waits with a stop order for the market to come from where it was, or
\* from the only side it serves.
DirectionIsExplained ==
  /\ venue = "binance" => \E price \in prices : price # 0 /\ direction = BinanceDirection(price)
  /\ venue = "bybit" => direction = BybitDirection(op)
  /\ venue = "bitget" => direction = None

\* What holds as long as no request of the call has failed.
Explained ==
  /\ pc \in {"price", "create"} => ids = <<>>
  /\ pc = "price" => venue = "binance" /\ op \in StopOps
  /\ pc = "create" /\ op \in StopOps => DirectionIsExplained
  /\ pc = "lookup" /\ op # "cancelOrder" => Passed(Target)
  /\ pc = "ticker" /\ op # "cancelOrder" => answer # None
  /\ pc = "list" => \A id \in Id : Exists(id) => Passed(id) \/ IsListed(id)
  /\ NullHasReason

\* The adapter for options and its exchange know plain orders only.
OptionsArePlain ==
  venue = "option" => op \notin StopOps /\ \A id \in Id : Exists(id) => HasKind(id, "plain")

\* The inductive invariant for calls that answer null.
NInv == CInv /\ OptionsArePlain /\ (failed = {} => Explained)

\* Calls whose answer needs no reason.
LEMMA NothingToExplain ==
  ASSUME Shape', op' \notin PlaceOps \cup {"getOrder", "getOrders"}
  PROVE  Explained'
BY DEF Shape, Explained, NullHasReason, PlaceOps

\* No order appears, and those there are go on.
OrdersRemain == OrdersGoOn /\ \A id \in Id : Exists(id)' => Exists(id)

LEMMA SameOrdersRemain ==
  ASSUME TypeOK, UNCHANGED orders
  PROVE  OrdersRemain
BY SameOrders DEF OrdersRemain, Exists

LEMMA CancelledOrdersRemain ==
  ASSUME TypeOK, NEW S, UNCHANGED orders \/ orders' = Cancelled(S)
  PROVE  OrdersRemain
BY CancelledGoOn DEF OrdersRemain, Cancelled, Exists, IsOpen

LEMMA PlainStays ==
  ASSUME OptionsArePlain, OrdersRemain, UNCHANGED <<venue, op>>
  PROVE  OptionsArePlain'
BY DEF OptionsArePlain, OrdersRemain, OrdersGoOn, HasKind, Exists

LEMMA PassedStays ==
  ASSUME OrdersGoOn, UNCHANGED <<venue, step>>, NEW id \in Id, Exists(id), Passed(id)
  PROVE  Passed(id)'
<1>1. orders'[id].kind = orders[id].kind /\ (~IsOpen(id) => orders'[id].status = orders[id].status)
  BY DEF OrdersGoOn
<1> QED
  BY <1>1 DEF Passed, IsOpen

\* The lookups of an adapter are exhaustive: an order that the present one does not
\* find is left to a later one, and the last one finds every order left to it.
LEMMA LookupsAreExhaustive ==
  ASSUME IInv, OptionsArePlain, NEW id \in Id, Exists(id), Passed(id), ~Finds(id, step),
         step <= LookupCount
  PROVE  /\ step < LookupCount
         /\ UNCHANGED <<venue, orders>> /\ step' = step + 1 => Passed(id)'
<1>1. orders[id] \in Order /\ orders[id].kind \in Kind /\ venue \in AnyVenue /\ step \in Nat \ {0}
  BY OrderFields, VenuesAssumption DEF IInv, TypeOK, Exists
<1>2. ~Lookups(orders[id])[step]
  BY DEF Finds
<1>3. CASE venue = "binance"
  <2>1. ~BinanceLookups(orders[id])[step] /\ step \in {1, 2} /\ LookupCount = 2
    BY <1>1, <1>2, <1>3 DEF Lookups, LookupCount
  <2>2. CASE step = 1
    <3>1. orders[id].kind # "plain"
      BY <2>1, <2>2, Zenon DEF BinanceLookups
    <3> QED
      BY <1>1, <1>3, <2>1, <2>2, <3>1 DEF Passed, Kind
  <2>3. CASE step = 2
    <3>1. orders[id].kind # "trigger"
      BY <2>1, <2>3, Zenon DEF BinanceLookups
    <3> QED
      BY <1>3, <2>3, <3>1 DEF Passed
  <2> QED
    BY <2>1, <2>2, <2>3
<1>4. CASE venue = "bybit"
  <2>1. ~BybitLookups(orders[id])[step] /\ step \in {1, 2} /\ LookupCount = 2
    BY <1>1, <1>2, <1>4 DEF Lookups, LookupCount
  <2>2. CASE step = 1
    <3>1. orders[id].status # "open"
      BY <2>1, <2>2, Zenon DEF BybitLookups
    <3> QED
      BY <1>4, <2>1, <2>2, <3>1 DEF Passed, IsOpen
  <2>3. CASE step = 2
    <3>1. orders[id].status = "open"
      BY <2>1, <2>3, Zenon DEF BybitLookups
    <3> QED
      BY <1>4, <2>3, <3>1 DEF Passed, IsOpen
  <2> QED
    BY <2>1, <2>2, <2>3
<1>5. CASE venue = "option"
  <2>1. ~OptionLookups(orders[id])[step] /\ step = 1
    BY <1>1, <1>2, <1>5 DEF Lookups, LookupCount
  <2>2. orders[id].kind # "plain"
    BY <2>1, Zenon DEF OptionLookups
  <2> QED
    BY <1>5, <2>2 DEF OptionsArePlain, HasKind
<1>6. CASE venue = "bitget"
  <2>1. ~BitgetLookups(orders[id])[step] /\ step \in {1, 2, 3} /\ LookupCount = 3
    BY <1>1, <1>2, <1>6 DEF Lookups, LookupCount
  <2>2. CASE step = 1
    <3>1. orders[id].kind # "plain"
      BY <2>1, <2>2, Zenon DEF BitgetLookups
    <3> QED
      BY <1>1, <1>6, <2>1, <2>2, <3>1 DEF Passed, Kind
  <2>3. CASE step = 2
    <3>1. ~(orders[id].kind = "trigger" /\ orders[id].status = "open")
      BY <2>1, <2>3, Zenon DEF BitgetLookups
    <3> QED
      BY <1>6, <2>1, <2>3, <3>1 DEF Passed, IsOpen
  <2>4. CASE step = 3
    <3>1. ~(orders[id].kind = "trigger" /\ orders[id].status # "open")
      BY <2>1, <2>4, Zenon DEF BitgetLookups
    <3> QED
      BY <1>6, <2>4, <3>1 DEF Passed, IsOpen
  <2> QED
    BY <2>1, <2>2, <2>3, <2>4
<1> QED
  BY <1>1, <1>3, <1>4, <1>5, <1>6 DEF AnyVenue

LEMMA InitIsExplained == Init => OptionsArePlain /\ Explained
BY DEF Init, OptionsArePlain, HasKind, Exists, Explained, NullHasReason, HasReturned, StopOps

\* Orders that change while the call waits.
LEMMA ExplainedStays ==
  ASSUME NInv, OrdersRemain,
         UNCHANGED <<venue, op, ids, pc, step, direction, answer, listed, failed, prices>>
  PROVE  OptionsArePlain' /\ (failed' = {} => Explained')
<1>1. OptionsArePlain'
  BY PlainStays DEF NInv
<1>2. ASSUME failed = {} PROVE Explained'
  <2>1. OrdersGoOn /\ \A id \in Id : Exists(id)' <=> Exists(id)
    BY DEF OrdersRemain, OrdersGoOn
  <2>2. pc = "lookup" /\ op # "cancelOrder" => Passed(Target)'
    <3> SUFFICES ASSUME pc = "lookup", op # "cancelOrder" PROVE Passed(Target)'
      OBVIOUS
    <3>1. Target \in Id /\ Exists(Target) /\ Passed(Target)
      BY <1>2, TargetIsId, MembersExist DEF NInv, CInv, IInv, Control, Explained, Target, TypeOK
    <3> DEFINE id == Target
    <3>2. id' = id
      BY DEF Target
    <3> HIDE DEF id
    <3>3. id \in Id /\ Exists(id) /\ Passed(id)
      BY <3>1 DEF id
    <3>4. Passed(id)'
      BY <2>1, <3>2, <3>3, PassedStays
    <3> QED
      BY <3>2, <3>4 DEF id
  <2>3. pc = "list" => \A id \in Id : Exists(id)' => Passed(id)' \/ IsListed(id)'
    BY <1>2, <2>1, PassedStays DEF NInv, Explained, IsListed
  <2>4. NullHasReason'
    <3>1. {id \in Id : Exists(id)'} = {id \in Id : Exists(id)}
      BY <2>1
    <3> QED
      BY <1>2, <3>1 DEF NInv, Explained, NullHasReason, HasReturned, StopIsRefusable
  <2> QED
    BY <1>2, <2>2, <2>3, <2>4 DEF NInv, Explained, DirectionIsExplained
<1> QED
  BY <1>1, <1>2

\* Actions that leave everything but the orders, faults and control of a cancellation.
LEMMA CancellationsNeedNoReason ==
  ASSUME NInv, CInv', pc \in {"cancel", "check", "cancelPlan", "batch", "batchPlan"},
         UNCHANGED <<venue, op>>, NEW S, UNCHANGED orders \/ orders' = Cancelled(S)
  PROVE  OptionsArePlain' /\ Explained'
<1>1. OptionsArePlain'
  BY CancelledOrdersRemain, PlainStays DEF NInv, CInv, IInv
<1>2. op \in CancelOps
  BY DEF NInv, CInv, Reach, Shape, CancelOps
<1>3. Explained'
  BY <1>2, NothingToExplain DEF CInv, Reach, CancelOps, PlaceOps, StopOps
<1> QED
  BY <1>1, <1>3

LEMMA CancellationIsExplained ==
  ASSUME NInv, CInv',
         \/ OrderIsCancelled \/ CancelIsChecked \/ CheckThrows \/ PlanIsCancelled
         \/ BatchIsCancelled \/ PlanBatchIsCancelled
  PROVE  OptionsArePlain' /\ Explained'
<1>1. /\ pc \in {"cancel", "check", "cancelPlan", "batch", "batchPlan"}
      /\ UNCHANGED <<venue, op>>
  BY DEF OrderIsCancelled, CancelIsChecked, CheckThrows, PlanIsCancelled, BatchIsCancelled,
         PlanBatchIsCancelled
<1>2. \E S : UNCHANGED orders \/ orders' = Cancelled(S)
  BY DEF OrderIsCancelled, CancelIsChecked, CheckThrows, PlanIsCancelled, BatchIsCancelled,
         PlanBatchIsCancelled
<1> QED
  BY <1>1, <1>2, CancellationsNeedNoReason

LEMMA ResumeIsExplained == ASSUME NInv, CInv', Resume PROVE OptionsArePlain' /\ Explained'
<1>1. UNCHANGED <<venue, orders>> /\ op' = "none"
  BY DEF Resume
<1>2. OptionsArePlain'
  BY <1>1 DEF NInv, OptionsArePlain, HasKind, Exists, StopOps
<1>3. Explained'
  BY <1>1, NothingToExplain DEF CInv, Reach, PlaceOps, StopOps
<1> QED
  BY <1>2, <1>3

\* Every call begins with its first lookup, which has passed no order.
LEMMA CallIsExplained ==
  ASSUME NInv, CInv',
         \/ Place \/ \E o \in StopOps : PlaceStop(o)
         \/ \E id \in Id : GetOrder(id) \/ CancelOrder(id)
         \/ GetOrders
         \/ \E about \in Ids : \/ CancelOrders(about)
                               \/ CancelConditionalOrders(about)
                               \/ CancelConditionalOrdersTodo(about)
  PROVE  OptionsArePlain' /\ Explained'
<1>1. UNCHANGED <<venue, orders, step>> /\ step = 1 /\ venue \in AnyVenue
  BY VenuesAssumption DEF NInv, CInv, IInv, TypeOK, Control, Place, PlaceStop, GetOrder,
     CancelOrder, GetOrders, CancelOrders, CancelConditionalOrders, CancelConditionalOrdersTodo,
     Begin
<1>2. op' \notin StopOps => OptionsArePlain'
  BY <1>1 DEF NInv, OptionsArePlain, HasKind, Exists
<1>3. \A id : Passed(id)'
  BY <1>1 DEF Passed
<1>4. CASE Place
  <2>1. op' = "place" /\ pc' = "create" /\ ids' = <<>>
    BY <1>4 DEF Place, Begin
  <2> QED
    BY <1>2, <2>1 DEF Explained, NullHasReason, HasReturned, StopOps
<1>5. ASSUME NEW o \in StopOps, PlaceStop(o) PROVE OptionsArePlain' /\ Explained'
  <2>1. /\ op' = o /\ ids' = <<>> /\ venue # "option"
        /\ pc' = IF venue = "binance" THEN "price" ELSE "create"
        /\ direction' = IF venue = "bybit" THEN BybitDirection(o) ELSE None
    BY <1>5 DEF PlaceStop, Begin
  <2>2. OptionsArePlain'
    BY <1>1, <2>1 DEF OptionsArePlain
  <2>3. Explained'
    BY <1>1, <2>1 DEF Explained, DirectionIsExplained, NullHasReason, HasReturned
  <2> QED
    BY <2>2, <2>3
<1>6. ASSUME NEW id \in Id, GetOrder(id) PROVE OptionsArePlain' /\ Explained'
  <2>1. op' = "getOrder" /\ pc' = "lookup"
    BY <1>6 DEF GetOrder, Begin
  <2>2. Passed(Target)'
    BY <1>1 DEF Passed
  <2> QED
    BY <1>2, <2>1, <2>2 DEF Explained, NullHasReason, HasReturned, StopOps
<1>7. CASE GetOrders
  <2>1. op' = "getOrders" /\ pc' = "list"
    BY <1>7 DEF GetOrders, Begin
  <2> QED
    BY <1>2, <1>3, <2>1 DEF Explained, NullHasReason, HasReturned, StopOps
<1>8. ASSUME \/ \E id \in Id : CancelOrder(id)
             \/ \E about \in Ids : \/ CancelOrders(about)
                                   \/ CancelConditionalOrders(about)
                                   \/ CancelConditionalOrdersTodo(about)
      PROVE  OptionsArePlain' /\ Explained'
  <2>1. op' \in CancelOps
    BY <1>8 DEF CancelOrder, CancelOrders, CancelConditionalOrders, CancelConditionalOrdersTodo,
                Begin, CancelOps
  <2> QED
    BY <1>2, <2>1, NothingToExplain DEF CInv, Reach, CancelOps, PlaceOps, StopOps
<1> QED
  BY <1>4, <1>5, <1>6, <1>7, <1>8

\* Binance's adapter places no stop order when the market is at its price.
LEMMA PriceIsExplained ==
  ASSUME NInv, CInv', PriceIsRead \/ PriceIsMissing
  PROVE  OptionsArePlain' /\ (failed' = {} => Explained')
<1>1. /\ pc = "price" /\ pc' \in {"returned", "create"} /\ UNCHANGED <<venue, orders, op, ids>>
  BY DEF PriceIsRead, PriceIsMissing, ChooseDirection
<1>2. OptionsArePlain'
  BY <1>1, SameOrdersRemain, PlainStays DEF NInv, CInv, IInv
<1>3. ASSUME failed' = {} PROVE Explained'
  <2>1. failed = {} /\ PriceIsRead
    BY <1>3 DEF PriceIsRead, PriceIsMissing, NoFault, Fault, NoOrderYet
  <2>2. ids = <<>> /\ venue = "binance" /\ op \in StopOps
    BY <1>1, <2>1 DEF NInv, Explained
  <2>3. PICK price \in Market :
          direction' = BinanceDirection(price) /\ prices' = prices \cup {price}
    BY <2>1 DEF PriceIsRead, ChooseDirection
  <2>4. pc' = IF direction' = None THEN "returned" ELSE "create"
    BY <2>1 DEF PriceIsRead, ChooseDirection
  <2>5. CASE price = 0
    <3>1. StopIsRefusable'
      BY <2>3, <2>5 DEF StopIsRefusable
    <3>2. pc' = "returned"
      BY <2>3, <2>4, <2>5 DEF BinanceDirection
    <3> QED
      BY <1>1, <2>2, <3>1, <3>2 DEF Explained, NullHasReason, StopOps
  <2>6. CASE price # 0
    <3>1. direction' \in {"up", "down"}
      BY <2>3, <2>6 DEF BinanceDirection, Market
    <3>2. pc' = "create"
      BY <2>4, <3>1
    <3> QED
      BY <1>1, <2>2, <2>3, <2>6, <3>2 DEF Explained, DirectionIsExplained, NullHasReason, HasReturned
  <2> QED
    BY <2>5, <2>6
<1> QED
  BY <1>2, <1>3

\* The exchange refuses a stop order only when the market has moved after the
\* adapter read its price, or is on the side that the adapter does not serve.
LEMMA RefusalIsExplained ==
  ASSUME NInv, CInv', NEW price \in Market, CreationIsRefused(price)
  PROVE  OptionsArePlain' /\ (failed' = {} => Explained')
<1>1. /\ pc = "create" /\ pc' = "returned" /\ UNCHANGED <<venue, orders, op, ids, failed>>
      /\ op \in StopOps /\ ~CanWait(direction, price) /\ prices' = prices \cup {price}
  BY DEF CreationIsRefused, NoFault
<1>2. OptionsArePlain'
  BY <1>1, SameOrdersRemain, PlainStays DEF NInv, CInv, IInv
<1>3. ASSUME failed = {} PROVE StopIsRefusable'
  <2>1. DirectionIsExplained /\ venue \in AnyVenue /\ venue # "option"
    BY <1>1, <1>3, VenuesAssumption DEF NInv, CInv, IInv, TypeOK, Explained, OptionsArePlain
  <2>2. CASE venue = "binance"
    <3>1. PICK read \in prices : read # 0 /\ direction = BinanceDirection(read)
      BY <2>1, <2>2 DEF DirectionIsExplained
    <3>2. read \in Market /\ prices \subseteq Market
      BY <3>1 DEF NInv, CInv, IInv, TypeOK
    <3>3. CanWait(direction, read)
      BY <3>1, <3>2, NoneAssumption DEF CanWait, BinanceDirection, Market
    <3>4. price # read /\ {price, read} \subseteq prices'
      BY <1>1, <3>1, <3>3
    <3>5. IsFiniteSet(prices') /\ prices' \subseteq Market
      <4>1. IsFiniteSet({}) /\ IsFiniteSet({-1}) /\ IsFiniteSet({-1, 0}) /\ IsFiniteSet(Market)
        <5>1. IsFiniteSet({})
          BY FS_EmptySet
        <5>2. IsFiniteSet({} \cup {-1})
          BY <5>1, FS_AddElement
        <5>3. IsFiniteSet(({} \cup {-1}) \cup {0})
          BY <5>2, FS_AddElement
        <5>4. IsFiniteSet((({} \cup {-1}) \cup {0}) \cup {1})
          BY <5>3, FS_AddElement
        <5>5. /\ {} \cup {-1} = {-1} /\ ({} \cup {-1}) \cup {0} = {-1, 0}
              /\ (({} \cup {-1}) \cup {0}) \cup {1} = Market
          BY DEF Market
        <5> QED
          BY <5>1, <5>2, <5>3, <5>4, <5>5
      <4>2. prices' \subseteq Market
        BY <1>1, <3>2
      <4> QED
        BY <4>1, <4>2, FS_Subset
    <3>6. Cardinality(prices') > 1
      <4>1. /\ Cardinality({read}) = 1 /\ IsFiniteSet({read})
            /\ Cardinality({read} \cup {price}) = 2
        <5>1. Cardinality({read}) = 1 /\ IsFiniteSet({read})
          BY FS_Singleton
        <5>2. price \notin {read}
          BY <3>4
        <5>3. Cardinality({read} \cup {price}) = Cardinality({read}) + 1
          BY <5>1, <5>2, FS_AddElement
        <5> QED
          BY <5>1, <5>3
      <4>2. {read} \cup {price} \subseteq prices'
        BY <3>4
      <4>3. Cardinality({read} \cup {price}) <= Cardinality(prices') /\ Cardinality(prices') \in Nat
        BY <3>5, <4>2, FS_Subset, FS_CardinalityType
      <4> QED
        BY <4>1, <4>3
    <3> QED
      BY <3>6 DEF StopIsRefusable
  <2>3. CASE venue = "bybit"
    BY <1>1, <2>1, <2>3 DEF DirectionIsExplained, StopIsRefusable
  <2>4. CASE venue = "bitget"
    BY <1>1, <2>1, <2>4, NoneAssumption DEF DirectionIsExplained, CanWait
  <2> QED
    BY <2>1, <2>2, <2>3, <2>4 DEF AnyVenue
<1>4. ASSUME failed = {} PROVE Explained'
  <2>1. ids' = <<>> /\ op' \in StopOps
    BY <1>1, <1>4 DEF NInv, Explained
  <2> QED
    BY <1>1, <1>3, <1>4, <2>1 DEF Explained, NullHasReason, StopOps
<1> QED
  BY <1>1, <1>2, <1>4

\* A placed order is answered from the response, or found by a lookup.
LEMMA CreationIsExplained ==
  ASSUME NInv, CInv', NEW price \in Market, NEW id \in Id, NEW o \in Order,
         OrderIsCreated(id, o, price)
  PROVE  OptionsArePlain' /\ Explained'
<1>1. /\ pc = "create" /\ ~Exists(id) /\ Accepts(o, price) /\ orders' = [orders EXCEPT ![id] = o]
      /\ ids' = <<id>> /\ UNCHANGED <<venue, op, step>>
      /\ pc' = "lookup" \/ (pc' = "returned" /\ answer' = ToOrder(o, 1))
      /\ step = 1 /\ op \in PlaceOps
  BY DEF OrderIsCreated, NInv, CInv, IInv, Control, Reach, Shape
<1>2. OptionsArePlain'
  <2>1. venue = "option" => op \notin StopOps /\ o.kind = "plain"
    BY <1>1 DEF NInv, OptionsArePlain, Accepts
  <2> SUFFICES ASSUME venue = "option", NEW other \in Id, Exists(other)'
               PROVE  HasKind(other, "plain")'
    BY <1>1, <2>1 DEF OptionsArePlain, HasKind, Exists
  <2>2. CASE other = id
    BY <1>1, <2>1, <2>2 DEF NInv, CInv, IInv, TypeOK, HasKind
  <2>3. CASE other # id
    BY <1>1, <2>3 DEF NInv, CInv, IInv, TypeOK, HasKind, Exists, OptionsArePlain
  <2> QED
    BY <2>1, <2>2, <2>3
<1>3. op' \notin {"getOrder", "getOrders", "cancelOrder"} /\ ids' # <<>>
  BY <1>1 DEF PlaceOps, StopOps
<1>4. CASE pc' = "lookup"
  <2>1. Passed(Target)'
    BY <1>1 DEF Passed
  <2> QED
    BY <1>2, <1>4, <2>1 DEF Explained, NullHasReason, HasReturned
<1>5. CASE pc' = "returned" /\ answer' = ToOrder(o, 1)
  <2>1. answer' \in Answer
    <3>1. CASE IsPlan(o)
      BY <1>5, <3>1, OrderFields DEF ToOrder, TriggerStatus, Answer
    <3>2. CASE ~IsPlan(o)
      BY <1>5, <3>2, ToOrderIsTrue
    <3> QED
      BY <3>1, <3>2
  <2> QED
    BY <1>2, <1>3, <1>5, <2>1, NoneAssumption DEF Explained, NullHasReason
<1> QED
  BY <1>1, <1>2, <1>4, <1>5

LEMMA FailureIsExplained ==
  ASSUME NInv, CInv', CreationFails
  PROVE  OptionsArePlain' /\ failed' # {}
<1>1. UNCHANGED <<venue, op>> /\ failed' # {}
  BY DEF CreationFails, Fault, NoOrderYet
<1>2. OptionsArePlain'
  <2>1. CASE UNCHANGED orders
    BY <1>1, <2>1, SameOrdersRemain, PlainStays DEF NInv, CInv, IInv
  <2>2. ASSUME NEW id \in Id, NEW o \in Order, NEW price \in Market,
               Accepts(o, price), orders' = [orders EXCEPT ![id] = o]
        PROVE  OptionsArePlain'
    <3>1. venue = "option" => op \notin StopOps /\ o.kind = "plain"
      BY <2>2 DEF NInv, OptionsArePlain, Accepts
    <3> SUFFICES ASSUME venue = "option", NEW other \in Id, Exists(other)'
                 PROVE  HasKind(other, "plain")'
      BY <1>1, <3>1 DEF OptionsArePlain, HasKind, Exists
    <3>2. CASE other = id
      BY <2>2, <3>1, <3>2 DEF NInv, CInv, IInv, TypeOK, HasKind
    <3>3. CASE other # id
      BY <2>2, <3>3 DEF NInv, CInv, IInv, TypeOK, HasKind, Exists, OptionsArePlain
    <3> QED
      BY <3>1, <3>2, <3>3
  <2> QED
    BY <2>1, <2>2 DEF CreationFails
<1> QED
  BY <1>1, <1>2

LEMMA FoundIsExplained ==
  ASSUME NInv, CInv', OrderIsFound
  PROVE  OptionsArePlain' /\ Explained'
<1>1. /\ pc = "lookup" /\ pc' \in {"returned", "ticker"}
      /\ UNCHANGED <<venue, orders, op, ids>> /\ ids # <<>>
      /\ answer' = ToOrder(orders[Target], step) /\ Finds(Target, step)
      /\ op \in PlaceOps \cup {"getOrder", "cancelOrder"}
  BY DEF OrderIsFound, LookupAnswers, NInv, CInv, IInv, Control, Reach, Shape
<1>2. OptionsArePlain'
  BY <1>1, SameOrdersRemain, PlainStays DEF NInv, CInv, IInv
<1>3. answer' # None
  <2>1. answer' \in Answer
    BY <1>1, TargetIsId, FoundIsTrue DEF NInv, CInv, IInv, Control, Truth
  <2> QED
    BY <2>1, NoneAssumption
<1>4. op' # "getOrders" /\ ids' # <<>>
  BY <1>1 DEF PlaceOps, StopOps
<1> QED
  BY <1>1, <1>2, <1>3, <1>4 DEF Explained, NullHasReason, HasReturned

LEMMA TickerIsExplained ==
  ASSUME NInv, CInv', TickerIsRead
  PROVE  OptionsArePlain' /\ (failed' = {} => Explained')
<1>1. /\ pc = "ticker" /\ pc' = "returned" /\ UNCHANGED <<venue, orders, op, ids, answer>>
      /\ ids # <<>> /\ op \in PlaceOps \cup {"getOrder", "cancelOrder"}
  BY DEF TickerIsRead, LookupAnswers, NInv, CInv, IInv, Control, Reach, Shape
<1>2. OptionsArePlain'
  BY <1>1, SameOrdersRemain, PlainStays DEF NInv, CInv, IInv
<1>3. ASSUME failed' = {} PROVE Explained'
  <2>1. failed = {}
    BY <1>3 DEF TickerIsRead, NoFault, Fault
  <2>2. op # "cancelOrder" => answer' # None
    BY <1>1, <2>1 DEF NInv, Explained
  <2>3. op \notin {"getOrders"} /\ "cancelOrder" \notin PlaceOps
    BY <1>1 DEF PlaceOps, StopOps
  <2> QED
    BY <1>1, <2>2, <2>3 DEF Explained, NullHasReason, PlaceOps
<1> QED
  BY <1>2, <1>3

LEMMA NotFoundIsExplained ==
  ASSUME NInv, CInv', OrderIsNotFound
  PROVE  OptionsArePlain' /\ (failed' = {} => Explained')
<1>1. /\ pc = "lookup" /\ UNCHANGED <<venue, orders, op, ids, answer>>
      /\ ids # <<>> /\ op \in PlaceOps \cup {"getOrder", "cancelOrder"} /\ step <= LookupCount
  BY DEF OrderIsNotFound, NInv, CInv, IInv, Control, Reach, Shape
<1>2. OptionsArePlain'
  BY <1>1, SameOrdersRemain, PlainStays DEF NInv, CInv, IInv
<1>3. ASSUME failed' = {}, op # "cancelOrder" PROVE Explained'
  <2>1. failed = {} /\ ~Finds(Target, step)
    BY <1>3 DEF OrderIsNotFound, NoFault, Fault
  <2> DEFINE id == Target
  <2>2. id \in Id /\ Exists(id) /\ Passed(id) /\ id' = id /\ Target = id
    BY <1>1, <1>3, <2>1, TargetIsId, MembersExist DEF NInv, CInv, IInv, Explained, Target, TypeOK
  <2> HIDE DEF id
  <2>3. step < LookupCount
    BY <1>1, <2>1, <2>2, LookupsAreExhaustive DEF NInv, CInv
  <2>4. step' = step + 1 /\ pc' = "lookup"
    BY <1>1, <2>3 DEF OrderIsNotFound
  <2>5. Passed(id)'
    BY <1>1, <2>1, <2>2, <2>4, LookupsAreExhaustive DEF NInv, CInv
  <2>6. Passed(Target)'
    BY <1>1, <2>2, <2>5 DEF Target
  <2> QED
    BY <2>4, <2>6 DEF Explained, NullHasReason, HasReturned
<1>4. CASE op = "cancelOrder"
  <2>1. op' = "cancelOrder"
    BY <1>1, <1>4
  <2> QED
    BY <1>2, <2>1, NothingToExplain DEF CInv, Reach, PlaceOps, StopOps
<1> QED
  BY <1>2, <1>3, <1>4

\* getOrders lists an order with the first lookup that finds it, so that none is left
\* out that goes from the list of one to the list of the next meanwhile.
LEMMA ListIsExplained ==
  ASSUME NInv, CInv', OrdersAreListed
  PROVE  OptionsArePlain' /\ (failed' = {} => Explained')
<1>1. /\ pc = "list" /\ UNCHANGED <<venue, orders, op, ids, answer>>
      /\ op = "getOrders" /\ step <= LookupCount
  BY DEF OrdersAreListed, NInv, CInv, IInv, Control, Reach, Shape
<1>2. OptionsArePlain'
  BY <1>1, SameOrdersRemain, PlainStays DEF NInv, CInv, IInv
<1>3. ASSUME failed' = {} PROVE Explained'
  <2>1. /\ failed = {}
        /\ listed' = listed \cup {<<id, ToOrder(orders[id], step)>> : id \in {i \in Id : Finds(i, step)}}
    BY <1>3 DEF OrdersAreListed, NoFault, Fault, NoOrderYet
  <2>2. \A id \in Id : IsListed(id) \/ Finds(id, step) => IsListed(id)'
    <3> TAKE id \in Id
    <3>1. CASE IsListed(id)
      BY <2>1, <3>1 DEF IsListed
    <3>2. CASE Finds(id, step)
      <4> DEFINE entry == <<id, ToOrder(orders[id], step)>>
      <4>1. entry \in listed' /\ entry[1] = id
        BY <2>1, <3>2
      <4> QED
        BY <4>1 DEF IsListed
    <3> QED
      BY <3>1, <3>2
  <2>3. ASSUME NEW id \in Id, Exists(id), ~IsListed(id)'
        PROVE  /\ step < LookupCount
               /\ step' = step + 1 => Passed(id)'
    <3>1. ~IsListed(id) /\ ~Finds(id, step)
      BY <2>2, <2>3
    <3>2. Passed(id)
      BY <1>1, <2>1, <2>3, <3>1 DEF NInv, Explained
    <3> QED
      BY <1>1, <2>3, <3>1, <3>2, LookupsAreExhaustive DEF NInv, CInv
  <2>4. CASE step < LookupCount
    <3>1. pc' = "list" /\ step' = step + 1
      BY <2>4 DEF OrdersAreListed
    <3>2. \A id \in Id : Exists(id)' => Passed(id)' \/ IsListed(id)'
      BY <1>1, <2>3, <3>1 DEF Exists
    <3> QED
      BY <3>1, <3>2 DEF Explained, NullHasReason, HasReturned
  <2>5. CASE ~(step < LookupCount)
    <3>1. pc' = "returned"
      BY <2>5 DEF OrdersAreListed
    <3>2. \A id \in Id : Exists(id)' => IsListed(id)'
      BY <1>1, <2>3, <2>5 DEF Exists
    <3>3. \A entry \in listed' : entry[1] \in Id /\ Exists(entry[1])'
      BY DEF CInv, IInv, TypeOK, Truth, ListIsTrue
    <3>4. {id \in Id : Exists(id)'} = {entry[1] : entry \in listed'}
      BY <3>2, <3>3 DEF IsListed
    <3>5. op' = "getOrders"
      BY <1>1
    <3> QED
      BY <3>1, <3>4, <3>5 DEF Explained, NullHasReason, PlaceOps, StopOps
  <2> QED
    BY <2>4, <2>5
<1> QED
  BY <1>2, <1>3

LEMMA ThrowIsExplained ==
  ASSUME NInv, CInv', OrdersListingThrows
  PROVE  OptionsArePlain' /\ Explained'
<1>1. pc' = "threw" /\ UNCHANGED <<venue, orders, op>>
  BY DEF OrdersListingThrows
<1>2. OptionsArePlain'
  BY <1>1, SameOrdersRemain, PlainStays DEF NInv, CInv, IInv
<1> QED
  BY <1>1, <1>2 DEF Explained, NullHasReason, HasReturned

-----------------------------------------------------------------------------
(* The theorems.                                                           *)

\* Every step preserves the inductive invariant.
LEMMA NextPreserves == ASSUME IInv, [Next]_vars PROVE IInv'
<1>1. CASE UNCHANGED vars
  <2>1. Truth'
    BY <1>1, QuietRequestKeepsTruth DEF vars
  <2> QED
    BY <1>1, <2>1 DEF vars, IInv, TypeOK, Control, LookupCount
<1>2. CASE Next
  BY <1>2, OrderChangesKeeps, ResumeKeeps, CallKeeps, PriceKeeps, OrderIsCreatedKeeps,
     CreationIsRefusedKeeps, CreationFailsKeeps, OrderIsFoundKeeps, TickerIsReadKeeps,
     OrderIsNotFoundKeeps, OrdersAreListedKeeps, OrdersListingThrowsKeeps,
     OrderIsCancelledKeeps, CancelIsCheckedKeeps,
     CheckThrowsKeeps, PlanIsCancelledKeeps, BatchIsCancelledKeeps, PlanBatchIsCancelledKeeps
  DEF Next
<1> QED
  BY <1>1, <1>2

LEMMA Invariance == Spec => []IInv
BY InitEstablishes, NextPreserves, PTL DEF Spec

\* The variables of the adapters and of the exchange keep their types, whatever
\* happens to orders and requests in between.
THEOREM TypeCorrect == Spec => []TypeOK
<1>1. IInv => TypeOK
  BY DEF IInv
<1> QED
  BY <1>1, Invariance, PTL

\* An answer that fits its order is true of it.
LEMMA FittingIsTrue ==
  ASSUME TypeOK, NEW a \in Answer, NEW id \in Id, Exists(id), Fits(a, id)
  PROVE  IsTrueOf(a, id)
<1>1. orders[id] \in Order
  BY DEF TypeOK, Exists
<1>2. /\ orders[id].filled \in 0..Size /\ orders[id].status = "closed" <=> orders[id].filled = Size
      /\ a.status \in {"OPEN", "FILLED", "CANCELLED"} /\ a.filledSize \in 0..Size
  BY <1>1, OrderFields DEF Answer
<1>3. a.status # "OPEN" => ~IsOpen(id) /\ a.filledSize = orders[id].filled
  BY <1>2 DEF Fits, IsOpen
<1>4. a.status = "FILLED" => a.filledSize = Size
  BY <1>2, <1>3 DEF Fits
<1>5. a.status = "CANCELLED" => a.filledSize < Size
  BY <1>2, <1>3 DEF Fits
<1> QED
  BY <1>3, <1>4, <1>5 DEF Fits, IsTrueOf

\* No adapter ever answers an order as final that is not, with other fills than it has
\* then, as filled when nothing is or as cancelled when all is, or as open that was final
\* when the call began: getOrder, getOrders, placements.
THEOREM NoFalseAnswer == Spec => []AnswersAreTrue
<1>1. ASSUME IInv PROVE AnswersAreTrue
  <2>1. ASSUME answer # None PROVE IsTrueOf(answer, Target)
    <3>1. answer \in Answer /\ Target \in Id /\ Exists(Target) /\ Fits(answer, Target)
      BY <1>1, <2>1, TargetIsId DEF IInv, TypeOK, Truth, AnswerIsTrue, AboutExisting, Target
    <3> QED
      BY <1>1, <3>1, FittingIsTrue DEF IInv
  <2>2. ASSUME NEW entry \in listed PROVE IsTrueOf(entry[2], entry[1])
    <3>1. entry[1] \in Id /\ entry[2] \in Answer /\ Exists(entry[1]) /\ Fits(entry[2], entry[1])
      BY <1>1 DEF IInv, TypeOK, Truth, ListIsTrue
    <3> QED
      BY <1>1, <3>1, FittingIsTrue DEF IInv
  <2> QED
    BY <2>1, <2>2 DEF AnswersAreTrue
<1> QED
  BY <1>1, Invariance, PTL

\* Every step preserves what cancellations reach.
LEMMA NextReaches == ASSUME CInv, [Next]_vars PROVE CInv'
<1>1. IInv'
  BY NextPreserves DEF CInv
<1>2. CASE UNCHANGED vars
  BY <1>1, <1>2, QuietlyReaches DEF CInv, vars
<1>3. CASE Next
  <2>1. Reach'
    BY <1>1, <1>3, OrderChangesReaches, ResumeReaches, CallReaches, PlacementReaches,
       LookupReaches, ListingReaches, OrderIsCancelledReaches, CheckReaches, CheckThrowsReaches,
       PlanIsCancelledReaches, BatchIsCancelledReaches, PlanBatchIsCancelledReaches
    DEF Next
  <2> QED
    BY <1>1, <2>1 DEF CInv
<1> QED
  BY <1>2, <1>3

LEMMA ReachInvariance == Spec => []CInv
<1>1. Init => CInv
  BY InitEstablishes, InitReaches DEF CInv
<1> QED
  BY <1>1, NextReaches, PTL DEF Spec

\* When a cancellation answers true, every one of its orders has ended unfilled or in
\* part, in batches of any size, whatever happens to orders and requests meanwhile.
THEOREM TrueCancelsAll == Spec => []TrueMeansCancelled
<1>1. CInv => TrueMeansCancelled
  BY DEF CInv, Reach
<1> QED
  BY <1>1, ReachInvariance, PTL

\* Every order is in a batch, no failure keeps another order from being cancelled, and
\* cancelConditionalOrders stops only at an order that it had reason to stop at.
THEOREM NoOrderIsForgotten == Spec => []CancelsReachEveryOrder
<1>1. CInv => CancelsReachEveryOrder
  BY DEF CInv, Reach
<1> QED
  BY <1>1, ReachInvariance, PTL

\* Every step preserves what explains an answer of null.
LEMMA NextIsExplained == ASSUME NInv, [Next]_vars PROVE NInv'
<1>1. CInv'
  BY NextReaches DEF NInv
<1>2. CASE UNCHANGED vars
  <2>1. OrdersRemain
    BY <1>2, SameOrdersRemain DEF NInv, CInv, IInv, vars
  <2> QED
    BY <1>1, <1>2, <2>1, ExplainedStays DEF NInv, vars
<1>3. CASE OrderChanges
  <2>1. PICK id \in Id, o \in Order :
          /\ IsOpen(id) /\ o.kind = orders[id].kind /\ o.filled >= orders[id].filled
          /\ orders' = [orders EXCEPT ![id] = o]
    BY <1>3 DEF OrderChanges
  <2>2. OrdersRemain
    BY <2>1, OneOrder DEF NInv, CInv, IInv, TypeOK, OrdersRemain, Exists, IsOpen
  <2> QED
    BY <1>1, <1>3, <2>2, ExplainedStays DEF NInv, OrderChanges, call, history
<1>4. CASE Next /\ ~OrderChanges
  BY <1>1, <1>4, ResumeIsExplained, CallIsExplained, PriceIsExplained, CreationIsExplained,
     RefusalIsExplained, FailureIsExplained, FoundIsExplained, TickerIsExplained,
     NotFoundIsExplained, ListIsExplained, ThrowIsExplained, CancellationIsExplained
  DEF Next, NInv
<1> QED
  BY <1>2, <1>3, <1>4

\* As long as no request of the call fails, an adapter answers null, or leaves an order
\* out of a list, only because there is no order or the exchange has to refuse it.
THEOREM NullIsExplained == Spec => []NullHasReason
<1>1. Init => NInv
  BY InitEstablishes, InitReaches, InitIsExplained DEF NInv, CInv
<1>2. NInv => NullHasReason
  <2>1. ASSUME NInv, failed # {} PROVE NullHasReason
    BY <2>1 DEF NullHasReason
  <2>2. ASSUME NInv, failed = {} PROVE NullHasReason
    BY <2>2 DEF NInv, Explained
  <2> QED
    BY <2>1, <2>2
<1> QED
  BY <1>1, <1>2, NextIsExplained, PTL DEF Spec
=============================================================================
