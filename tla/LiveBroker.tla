----------------------------- MODULE LiveBroker -----------------------------
(***************************************************************************)
(* The live adapters for perpetuals of Binance, Bybit and Bitget, the one  *)
(* for options of Binance, and the orders at their exchange. The adapter   *)
(* for spot pairs of Binance makes the requests of the perpetual one.      *)
(*                                                                         *)
(* An adapter keeps no state between calls, and a call is a sequence of    *)
(* requests to the exchange. An action handles the answer to one of them;  *)
(* orders fill, expire and are cancelled between any two. What other calls *)
(* do meanwhile is, for this call, something that happens at the exchange. *)
(***************************************************************************)
EXTENDS Integers, Sequences, FiniteSets, Functions

CONSTANTS Id,         \* order ids of the exchange
          Venues,     \* the adapters: a subset of AnyVenue
          BatchSize,  \* orders cancelled by one request (10 in the code)
          Size,       \* size of an order
          MaxFaults,  \* bound: requests that fail for no reason of the order's
          None

AnyVenue == {"binance", "bybit", "bitget", "option"}

ASSUME IdAssumption == IsFiniteSet(Id)
ASSUME VenuesAssumption == Venues \subseteq AnyVenue
ASSUME BatchSizeAssumption == BatchSize \in Nat \ {0}
ASSUME SizeAssumption == Size \in Nat \ {0}
ASSUME MaxFaultsAssumption == MaxFaults \in Nat

VARIABLES
  venue,
  orders,    \* orders[id] at the exchange, None if there is none yet
  faults,
  op, ids,   \* the call, and the orders it is about
  pc,        \* the request it waits for, and "returned" or "threw" at its end
  step,      \* which lookup, or which batch
  direction, \* the way the market goes to fire the stop order to be placed
  answer,    \* the order it answers, or None
  listed,    \* the orders it lists, as <<id, order>>
  result,    \* the Boolean it answers
  failed,    \* history: orders that failed requests of the call were about
  over,      \* history: orders that were final when the call began
  prices     \* history: the market prices it has met, the stop price being 0

call == <<op, ids, pc, step, direction, answer, listed, result, failed>>
history == <<over, prices>>
vars == <<venue, orders, faults, op, ids, pc, step, direction, answer, listed,
          result, failed, over, prices>>

Market == {-1, 0, 1}
Kind == {"plain", "trigger"}
Exists(id) == orders[id] # None
IsOpen(id) == Exists(id) /\ orders[id].status = "open"
HasKind(id, kind) == Exists(id) /\ orders[id].kind = kind

\* Orders as the exchange keeps them. A trigger order fires as a whole.
Order ==
  {o \in [kind : Kind, status : {"open", "closed", "canceled", "expired"}, filled : 0..Size] :
     /\ o.status = "closed" <=> o.filled = Size
     /\ o.kind = "trigger" => o.filled \in {0, Size}}

\* Orders as the adapters answer them.
Answer == [status : {"OPEN", "FILLED", "CANCELLED"}, filledSize : 0..Size]

ASSUME NoneAssumption ==
  /\ None \notin Order /\ None \notin Answer
  /\ None \notin Market /\ None \notin {"up", "down"}

Init ==
  /\ venue \in Venues
  /\ orders \in [Id -> {None} \cup {o \in Order : o.status = "open" /\ o.filled = 0}]
  /\ venue = "option" => \A id \in Id : orders[id] # None => orders[id].kind = "plain"
  /\ faults = 0
  /\ op = "none" /\ ids = <<>> /\ pc = "idle" /\ step = 1 /\ direction = None
  /\ answer = None /\ listed = {} /\ result = FALSE /\ failed = {}
  /\ over = {} /\ prices = {}

-----------------------------------------------------------------------------
(* The exchange.                                                           *)

\* An open order is filled further, fires, expires or is cancelled.
OrderChanges ==
  /\ \E id \in Id : \E o \in Order :
       /\ IsOpen(id)
       /\ o.kind = orders[id].kind
       /\ o.filled >= orders[id].filled
       /\ orders' = [orders EXCEPT ![id] = o]
  /\ UNCHANGED <<venue, faults, call, history>>

\* The orders when the open ones among some have been cancelled.
Cancelled(S) ==
  [id \in Id |-> IF id \in S /\ IsOpen(id) THEN [orders[id] EXCEPT !.status = "canceled"]
                                           ELSE orders[id]]

\* A request about some orders fails: the connection, a rate limit, a balance.
Fault(S) == faults < MaxFaults /\ faults' = faults + 1 /\ failed' = failed \cup S
NoFault == UNCHANGED <<faults, failed>>
NoOrderYet == {None}

\* A stop order waits for the market to rise or fall to its price; the exchange
\* refuses one that would fire at once. Bitget finds the direction by itself.
CanWait(towards, price) ==
  CASE towards = "up" -> price < 0
    [] towards = "down" -> price > 0
    [] OTHER -> TRUE

-----------------------------------------------------------------------------
(* Orders as the adapters answer them.                                     *)

\* Mutant of StatusOf: the exchange's word is passed on.
StatusOfUntranslated(o) == o.status

\* Mutant of StatusOf: an expired order counts as filled.
StatusOfExpiredFilled(o) ==
  CASE o.status = "open" -> "OPEN"
    [] o.status \in {"closed", "expired"} -> "FILLED"
    [] OTHER -> "CANCELLED"

\* The status in toOrder. In the last case FILLED is assigned if filled > 0, and
\* overwritten.
StatusOf(o) ==
  CASE o.status = "open" -> "OPEN"
    [] o.status = "closed" -> "FILLED"
    [] OTHER -> "CANCELLED"

\* triggerToOrder of Bitget takes the list it found a trigger order in for its status.
TriggerStatus(o, isOpen) ==
  IF isOpen THEN "OPEN" ELSE IF o.status = "closed" THEN "FILLED" ELSE "CANCELLED"

IsPlan(o) == venue = "bitget" /\ o.kind = "trigger"
PendingPlans == 2

ToOrder(o, lookup) ==
  [status |-> IF IsPlan(o) THEN TriggerStatus(o, lookup = PendingPlans) ELSE StatusOf(o),
   filledSize |-> o.filled]

\* The requests getOrder makes until one of them finds the order: whether it
\* finds order o. Bybit also lists all orders this way.
BinanceLookups(o) == <<o.kind = "plain", o.kind = "trigger">>

\* Mutant of BybitLookups: the final orders are asked for first.
BybitLookupsFinalFirst(o) == <<o.status # "open", o.status = "open">>

BybitLookups(o) == <<o.status = "open", o.status # "open">>

\* The adapter for options knows orders of one kind only.
OptionLookups(o) == <<o.kind = "plain">>

BitgetLookups(o) ==
  <<o.kind = "plain",
    o.kind = "trigger" /\ o.status = "open",
    o.kind = "trigger" /\ o.status # "open">>

Lookups(o) ==
  CASE venue = "binance" -> BinanceLookups(o)
    [] venue = "bybit" -> BybitLookups(o)
    [] venue = "option" -> OptionLookups(o)
    [] OTHER -> BitgetLookups(o)

LookupCount ==
  CASE venue = "bitget" -> 3
    [] venue = "option" -> 1
    [] OTHER -> 2
Finds(id, lookup) == Exists(id) /\ Lookups(orders[id])[lookup]

-----------------------------------------------------------------------------
(* A strategy calls an adapter.                                            *)

Begin(o, about, request) ==
  /\ pc = "idle"
  /\ op' = o /\ ids' = about /\ pc' = request
  /\ over' = {id \in Id : Exists(id) /\ ~IsOpen(id)}
  /\ UNCHANGED <<venue, orders, faults, step, answer, listed, failed, prices>>

\* It goes on with the answer, and nothing of the call is left.
Resume ==
  /\ pc \in {"returned", "threw"}
  /\ op' = "none" /\ ids' = <<>> /\ pc' = "idle" /\ step' = 1 /\ direction' = None
  /\ answer' = None /\ listed' = {} /\ result' = FALSE /\ failed' = {}
  /\ over' = {} /\ prices' = {}
  /\ UNCHANGED <<venue, orders, faults>>

HasFreeId == \E id \in Id : ~Exists(id)
StopOps == {"placeStopMarketLong", "placeStopMarketShort"}
PlaceOps == StopOps \cup {"place"}
CancelOps == {"cancelOrder", "cancelOrders", "cancelConditionalOrders"}

\* placeMarketLong, placeLimitLong, placeGTXLong and their short twins pass their
\* arguments on.
Place ==
  /\ HasFreeId
  /\ Begin("place", <<>>, "create")
  /\ UNCHANGED <<direction, result>>

\* Bybit takes a long stop for one above the market, and a short one for one
\* below; Bitget says nothing of it.
BybitDirection(o) == IF o = "placeStopMarketLong" THEN "up" ELSE "down"

\* The adapter for options places limit orders, and cancels them one by one: it
\* has no stop orders and no batches.
PlaceStop(o) ==
  /\ venue # "option"
  /\ HasFreeId
  /\ Begin(o, <<>>, IF venue = "binance" THEN "price" ELSE "create")
  /\ direction' = IF venue = "bybit" THEN BybitDirection(o) ELSE None
  /\ UNCHANGED result

GetOrder(id) ==
  /\ Exists(id)
  /\ Begin("getOrder", <<id>>, "lookup")
  /\ UNCHANGED <<direction, result>>

\* Bitget has no getOrders.
GetOrders ==
  /\ venue # "bitget"
  /\ Begin("getOrders", <<>>, "list")
  /\ UNCHANGED <<direction, result>>

CancelOrder(id) ==
  /\ Exists(id)
  /\ Begin("cancelOrder", <<id>>, "cancel")
  /\ UNCHANGED <<direction, result>>

\* cancelConditionalOrder is cancelConditionalOrders of one order.
CancelConditionalOrders(about) ==
  /\ \A i \in DOMAIN about : Exists(about[i])
  /\ venue = "binance"
  /\ Begin("cancelConditionalOrders", about, IF about = <<>> THEN "returned" ELSE "cancel")
  /\ result' = TRUE
  /\ UNCHANGED direction

\* Bybit's and Bitget's have not implemented them.
CancelConditionalOrdersTodo(about) ==
  /\ \A i \in DOMAIN about : Exists(about[i])
  /\ venue \in {"bybit", "bitget"}
  /\ Begin("cancelConditionalOrders", about, "returned")
  /\ UNCHANGED <<direction, result>>

CancelOrders(about) ==
  /\ venue # "option"
  /\ \A i \in DOMAIN about : Exists(about[i])
  /\ Begin("cancelOrders", about, IF about = <<>> THEN "returned" ELSE "batch")
  /\ result' = TRUE
  /\ UNCHANGED direction

-----------------------------------------------------------------------------
(* Placements.                                                             *)

\* A missing price compares like zero, which every stop price is above. At the
\* stop price there is no order to place.
BinanceDirection(price) ==
  CASE price = None -> "up"
    [] price < 0 -> "up"
    [] price > 0 -> "down"
    [] OTHER -> None

ChooseDirection(price) ==
  /\ direction' = BinanceDirection(price)
  /\ pc' = IF direction' = None THEN "returned" ELSE "create"
  /\ UNCHANGED <<venue, orders, op, ids, step, answer, listed, result, over>>

\* The market may have moved whenever its price matters.
PriceIsRead ==
  /\ pc = "price"
  /\ \E price \in Market : ChooseDirection(price) /\ prices' = prices \cup {price}
  /\ NoFault

PriceIsMissing ==
  /\ pc = "price"
  /\ ChooseDirection(None) /\ UNCHANGED prices
  /\ Fault(NoOrderYet)

\* What the exchange makes of a placement at a market price.
Accepts(o, price) ==
  IF op \in StopOps
  THEN o.kind = "trigger" /\ o.status = "open" /\ CanWait(direction, price)
  ELSE o.kind = "plain"

AnswersFromCreation == venue \in {"binance", "option"}

\* Binance's adapters answer the order of this response, the others look it up.
OrderIsCreated(id, o, price) ==
  /\ pc = "create"
  /\ ~Exists(id) /\ Accepts(o, price)
  /\ prices' = IF op \in StopOps THEN prices \cup {price} ELSE prices
  /\ orders' = [orders EXCEPT ![id] = o]
  /\ ids' = <<id>>
  /\ IF AnswersFromCreation
     THEN pc' = "returned" /\ answer' = ToOrder(o, 1)
     ELSE pc' = "lookup" /\ UNCHANGED answer
  /\ NoFault
  /\ UNCHANGED <<venue, op, step, direction, listed, result, over>>

\* The adapter answers null: the exchange has refused the order, or its response
\* is lost.
CreationIsRefused(price) ==
  /\ pc = "create"
  /\ op \in StopOps /\ ~CanWait(direction, price)
  /\ pc' = "returned"
  /\ prices' = prices \cup {price}
  /\ NoFault
  /\ UNCHANGED <<venue, orders, op, ids, step, direction, answer, listed, result, over>>

CreationFails ==
  /\ pc = "create"
  /\ pc' = "returned"
  /\ \/ UNCHANGED orders
     \/ \E id \in Id, o \in Order, price \in Market :
          ~Exists(id) /\ Accepts(o, price) /\ orders' = [orders EXCEPT ![id] = o]
  /\ Fault(NoOrderYet)
  /\ UNCHANGED <<venue, op, ids, step, direction, answer, listed, result, history>>

-----------------------------------------------------------------------------
(* Lookups.                                                                *)

Target == ids[1]

\* getOrder ends, and a cancelOrder of Bitget that asks for its outcome.
LookupAnswers ==
  /\ pc' = "returned"
  /\ result' = (op = "cancelOrder" /\ answer' # None /\ answer'.status = "CANCELLED")

\* Bitget asks for the market price before it answers a market order without one.
NeedsPrice == venue = "bitget" /\ orders[Target].kind = "plain"

OrderIsFound ==
  /\ pc = "lookup"
  /\ Finds(Target, step)
  /\ answer' = ToOrder(orders[Target], step)
  /\ \/ LookupAnswers
     \/ NeedsPrice /\ pc' = "ticker" /\ UNCHANGED result
  /\ NoFault
  /\ UNCHANGED <<venue, orders, op, ids, step, direction, listed, history>>

TickerIsRead ==
  /\ pc = "ticker"
  /\ NoFault \/ Fault({Target})
  /\ UNCHANGED answer
  /\ LookupAnswers
  /\ UNCHANGED <<venue, orders, op, ids, step, direction, listed, history>>

OrderIsNotFound ==
  /\ pc = "lookup"
  /\ \/ ~Finds(Target, step) /\ NoFault
     \/ Fault({Target})
  /\ UNCHANGED answer
  /\ IF step < LookupCount
     THEN step' = step + 1 /\ UNCHANGED <<pc, result>>
     ELSE LookupAnswers /\ UNCHANGED step
  /\ UNCHANGED <<venue, orders, op, ids, direction, listed, history>>

\* toOrder logs that it met an order with fills that is neither open nor closed. The
\* adapter for options maps its orders to it without the object that has the log.
CannotBeListed(o) == venue = "option" /\ StatusOf(o) = "CANCELLED" /\ o.filled > 0
ListThrows == \E id \in Id : Finds(id, step) /\ CannotBeListed(orders[id])

OrdersListingThrows ==
  /\ pc = "list"
  /\ ListThrows
  /\ pc' = "threw"
  /\ NoFault
  /\ UNCHANGED <<venue, orders, op, ids, step, direction, answer, listed, result, history>>

\* getOrders lists what each of the lookups finds.
OrdersAreListed ==
  /\ pc = "list"
  /\ \/ /\ NoFault
        /\ ~ListThrows
        /\ listed' = listed \cup {<<id, ToOrder(orders[id], step)>> : id \in {i \in Id : Finds(i, step)}}
     \/ Fault(NoOrderYet) /\ UNCHANGED listed
  /\ IF step < LookupCount
     THEN step' = step + 1 /\ UNCHANGED pc
     ELSE pc' = "returned" /\ UNCHANGED step
  /\ UNCHANGED <<venue, orders, op, ids, direction, answer, result, history>>

-----------------------------------------------------------------------------
(* Cancellations one by one.                                               *)

\* The orders a cancellation reaches: Binance and Bitget keep trigger orders
\* apart, and Bitget's adapter cancels in both places.
CancelKinds ==
  CASE op = "cancelConditionalOrders" -> {"trigger"}
    [] venue = "bybit" -> Kind
    [] OTHER -> {"plain"}
Reached(kinds, S) == {id \in S : IsOpen(id) /\ orders[id].kind \in kinds}
CancelTarget == ids[step]

\* Mutant of Settle: the order that could not be cancelled does not count.
SettleIgnoringFailure(ok) ==
  IF step < Len(ids)
  THEN step' = step + 1 /\ pc' = "cancel" /\ UNCHANGED result
  ELSE pc' = "returned" /\ result' = ok /\ UNCHANGED step

\* The first order that cannot be cancelled ends the loop: `result && await ...`.
Settle(ok) ==
  /\ result' = ok
  /\ IF ok /\ step < Len(ids)
     THEN step' = step + 1 /\ pc' = "cancel"
     ELSE pc' = "returned" /\ UNCHANGED step

\* Bitget's adapter goes on whatever the answer is, Binance's ask for the order
\* when they have none.
AfterCancel(ok) ==
  CASE venue = "bitget" -> pc' = "cancelPlan" /\ UNCHANGED <<step, result>>
    [] venue \in {"binance", "option"} /\ ~ok -> pc' = "check" /\ UNCHANGED <<step, result>>
    [] OTHER -> Settle(ok)

OrderIsCancelled ==
  /\ pc = "cancel"
  /\ \/ /\ NoFault
        /\ orders' = Cancelled(Reached(CancelKinds, {CancelTarget}))
        /\ AfterCancel(Reached(CancelKinds, {CancelTarget}) # {})
     \/ /\ Fault({CancelTarget})
        /\ orders' \in {orders, Cancelled(Reached(CancelKinds, {CancelTarget}))}
        /\ AfterCancel(FALSE)
  /\ UNCHANGED <<venue, op, ids, direction, answer, listed, history>>

\* Binance: fetchOrder is not caught.
IsAnswered == \E kind \in CancelKinds : HasKind(CancelTarget, kind)

CancelIsChecked ==
  /\ pc = "check"
  /\ IsAnswered
  /\ Settle(orders[CancelTarget].status = "canceled")
  /\ NoFault
  /\ UNCHANGED <<venue, orders, op, ids, direction, answer, listed, history>>

CheckThrows ==
  /\ pc = "check"
  /\ (~IsAnswered /\ NoFault) \/ Fault({CancelTarget})
  /\ pc' = "threw"
  /\ UNCHANGED <<venue, orders, op, ids, step, direction, answer, listed, result, history>>

\* Bitget: the second request is not caught; then the order is looked up.
PlanIsCancelled ==
  /\ pc = "cancelPlan"
  /\ \/ /\ NoFault
        /\ orders' = Cancelled(Reached({"trigger"}, {CancelTarget}))
        /\ pc' = "lookup"
     \/ /\ Fault({CancelTarget})
        /\ orders' \in {orders, Cancelled(Reached({"trigger"}, {CancelTarget}))}
        /\ pc' = "threw"
  /\ UNCHANGED <<venue, op, ids, step, direction, answer, listed, result, history>>

-----------------------------------------------------------------------------
(* Cancellations in batches.                                               *)

\* Mutant of BatchCount: rounded down.
BatchCountFloor == Len(ids) \div BatchSize

BatchCount == (Len(ids) + BatchSize - 1) \div BatchSize
Batch == {ids[i] : i \in {j \in DOMAIN ids : (j - 1) \div BatchSize = step - 1}}

NextBatch ==
  IF step < BatchCount
  THEN step' = step + 1 /\ pc' = "batch"
  ELSE pc' = "returned" /\ UNCHANGED step

\* Binance's adapter wants each order of the batch cancelled, Bybit's compares with
\* the number of all orders, and Bitget's does not look.
BatchSucceeds(done) ==
  CASE venue = "binance" -> done = Batch
    [] venue = "bybit" -> Cardinality(done) = Len(ids)
    [] OTHER -> TRUE

AfterBatch(ok) ==
  /\ result' = (result /\ ok)
  /\ IF venue = "bitget" THEN pc' = "batchPlan" /\ UNCHANGED step ELSE NextBatch

BatchIsCancelled ==
  /\ pc = "batch"
  /\ \/ /\ NoFault
        /\ orders' = Cancelled(Reached(CancelKinds, Batch))
        /\ AfterBatch(BatchSucceeds(Reached(CancelKinds, Batch)))
     \/ /\ Fault(Batch)
        /\ \E S \in SUBSET Reached(CancelKinds, Batch) : orders' = Cancelled(S)
        /\ AfterBatch(venue = "bitget")
  /\ UNCHANGED <<venue, op, ids, direction, answer, listed, history>>

PlanBatchIsCancelled ==
  /\ pc = "batchPlan"
  /\ \/ /\ NoFault
        /\ orders' = Cancelled(Reached({"trigger"}, Batch))
     \/ /\ Fault(Batch)
        /\ \E S \in SUBSET Reached({"trigger"}, Batch) : orders' = Cancelled(S)
  /\ NextBatch
  /\ UNCHANGED <<venue, op, ids, direction, answer, listed, result, history>>

-----------------------------------------------------------------------------
(* The specification.                                                      *)

\* The orders of a call, each at most once.
Ids == UNION {{s \in [1..n -> Id] : IsInjective(s)} : n \in 0..Cardinality(Id)}

Next ==
  \/ OrderChanges \/ Resume
  \/ Place \/ \E o \in StopOps : PlaceStop(o)
  \/ \E id \in Id : GetOrder(id) \/ CancelOrder(id)
  \/ GetOrders
  \/ \E about \in Ids : \/ CancelOrders(about)
                        \/ CancelConditionalOrders(about)
                        \/ CancelConditionalOrdersTodo(about)
  \/ PriceIsRead \/ PriceIsMissing
  \/ \E price \in Market : \/ \E id \in Id, o \in Order : OrderIsCreated(id, o, price)
                          \/ CreationIsRefused(price)
  \/ CreationFails
  \/ OrderIsFound \/ TickerIsRead \/ OrderIsNotFound \/ OrdersAreListed \/ OrdersListingThrows
  \/ OrderIsCancelled \/ CancelIsChecked \/ CheckThrows \/ PlanIsCancelled
  \/ BatchIsCancelled \/ PlanBatchIsCancelled

Spec == Init /\ [][Next]_vars

-----------------------------------------------------------------------------
(* Properties.                                                             *)

\* Every variable has its type; in particular no order changes its kind or is filled
\* beyond its size, and a call waits for a request its adapter makes.
TypeOK ==
  /\ venue \in Venues
  /\ orders \in [Id -> Order \cup {None}]
  /\ faults \in 0..MaxFaults
  /\ op \in PlaceOps \cup CancelOps \cup {"none", "getOrder", "getOrders"}
  /\ ids \in Seq(Id)
  /\ pc \in {"idle", "returned", "threw", "price", "create", "lookup", "ticker", "list", "cancel",
             "check", "cancelPlan", "batch", "batchPlan"}
  /\ step \in Nat \ {0}
  /\ direction \in {"up", "down", None}
  /\ answer \in Answer \cup {None}
  /\ listed \subseteq Id \X Answer
  /\ result \in BOOLEAN
  /\ failed \subseteq Id \cup {None}
  /\ over \subseteq Id
  /\ prices \subseteq Market

HasReturned == pc = "returned"
IsTrueOf(a, id) ==
  /\ a.filledSize <= orders[id].filled
  /\ a.status = "OPEN" => id \notin over
  /\ a.status # "OPEN" => ~IsOpen(id) /\ a.filledSize = orders[id].filled
  /\ a.status = "FILLED" => a.filledSize > 0
  /\ a.status = "CANCELLED" => a.filledSize < Size

\* An order answered as filled or cancelled has ended at the exchange, with the fills it
\* is answered with, some if it is FILLED and not all if it is CANCELLED; one answered as
\* open was open at some time during the call (getOrder, placements and getOrders of each
\* adapter, with the orders changing between their requests). Which of the two an order is
\* that has ended with a part filled is left open: core/constants.ts:11 says FILLED, as
\* toOrder means to (:447), which then answers CANCELLED (:452).
AnswersAreTrue ==
  HasReturned =>
    /\ answer # None => IsTrueOf(answer, Target)
    /\ \A entry \in listed : IsTrueOf(entry[2], entry[1])

\* A stop order is not placed because the market was at its price, or moved after
\* the price was read, or was on the side Bybit's adapter does not serve.
StopIsRefusable ==
  \/ 0 \in prices
  \/ Cardinality(prices) > 1
  \/ venue = "bybit" /\ \E price \in prices : ~CanWait(BybitDirection(op), price)

\* As long as no request fails, getOrder answers an order that exists, whatever
\* happens to it between two lookups, getOrders lists all of them, and a placement
\* answers the order it has placed, and places one unless the market forbids it.
NullHasReason ==
  HasReturned /\ failed = {} =>
    /\ op = "getOrder" => answer # None
    /\ op = "getOrders" => {id \in Id : Exists(id)} = {entry[1] : entry \in listed}
    /\ op \in PlaceOps /\ ids # <<>> => answer # None
    /\ op \in StopOps /\ ids = <<>> => StopIsRefusable
    /\ op = "place" => ids # <<>>

\* After a cancellation that answers true all of its orders have ended unfilled or in
\* part, also when they change during the call or requests fail (except for Bitget's
\* cancelOrders, which always answers true).
TrueMeansCancelled ==
  HasReturned /\ op \in CancelOps /\ result /\ ~(venue = "bitget" /\ op = "cancelOrders") =>
    \A id \in Range(ids) : orders[id].status \in {"canceled", "expired"}

\* Orders a cancellation can reach at all: cancelOrder and cancelOrders of Binance's adapter
\* never reach a trigger order.
IsReachable(id) == \/ venue = "bitget" \/ orders[id].kind \in CancelKinds

\* When cancelOrder or cancelOrders returns, none of the orders it can reach is open
\* unless a request about it has failed: every order is in a batch, and a failed batch or
\* an order that was filled before keeps no other from being cancelled.
NoneIsLeftOpen ==
  HasReturned /\ op \in {"cancelOrder", "cancelOrders"} =>
    \A id \in Range(ids) \ failed : IsReachable(id) => ~IsOpen(id)

\* cancelConditionalOrders stops at an order only because that order was over without
\* being cancelled or its request failed, and has cancelled every order before it.
StopsAtFirstFailure ==
  HasReturned /\ op = "cancelConditionalOrders" /\ venue = "binance" /\ ~result =>
    \E i \in DOMAIN ids :
      /\ \A j \in 1..(i - 1) : orders[ids[j]].status = "canceled"
      /\ ids[i] \in failed \/ orders[ids[i]].status \in {"closed", "expired"}

\* Cancellations of several orders reach all of them, or all up to the one that stops
\* them (cancelOrder, cancelOrders, cancelConditionalOrders of each adapter).
CancelsReachEveryOrder == NoneIsLeftOpen /\ StopsAtFirstFailure
=============================================================================
