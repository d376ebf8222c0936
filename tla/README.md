# Quantstorm in TLA+

Quantstorm runs trading strategies: live, on a cron job that calls `next()` every few
seconds, and in backtests, where a loop moves a clock over recorded candles. This directory
specifies the parts of it in which order, overlap and failure matter, checks them with TLC
on small instances, and proves the most important results with TLAPS for every value of the
constants. Paths below are relative to the repository (`src/...`).

## 1. Inventory

| Component (source) | State | Operations | Talks to |
|---|---|---|---|
| **Live executor** (`executor/executor.service.ts`, `executor.controller.ts`) | scheduler registry (id → cron job), lock per id, execution counter | `execute`/`run`, cron callback, `stop` | strategies (`init`, `next`), Nest's `SchedulerRegistry` |
| **Neutral grid strategy** (`strategy/neutral_grid/`) | levels with a long and a short slot, position, two stop orders, trigger flag | `init`, `next` (trigger, check stop orders, check level orders, update stops, open levels) | a perpetual broker, live or backtest |
| **Backtest perpetual broker** (`broker/backtest/perp/`) | clock, balances, positions, order map, history | placements, cancellations, `nextClock`, `getBalance` | feeder (candles), history |
| **Backtest spot broker** (`broker/backtest/spot/`) | clock, balances, order map, history | the same without positions | feeder, history |
| **History, result** (`backtest/structures/`) | finished records, current record | `addTrade`, `flush`; balances, drawdown | brokers, controller |
| **Backtest service** (`backtest/backtest.service.ts`) | clock and interval, *fields of a shared singleton* | `run` | strategy, its brokers |
| **Backtest feeder** (`backtest/feeder/`) | one candle cache per pair and interval; data files, and a file per day and interval they are built from | `getBinanceKLines`, `buildBinanceKLineData` | brokers, controller |
| **Backtest controller, view** | a feeder of its own, shared by requests | page of a backtest, build of data | service, feeder |
| **Strategy base class** (`strategy/strategy.abstract.ts`) | backtest brokers, saved state in a database | broker creation, `setState`, `getState` | brokers, TypeORM |
| **Live adapters** (Binance perp, spot, option; Bybit; Bitget) | none but a REST client | placements, stop orders, lookups, cancellations one by one and in batches; each is a sequence of requests whose failures become `null` or `false` | exchanges |
| **Indicators, series** (`indicator/`, `core/structures/series.ts`) | none | `sma`, `ema`, `rma`, `bollingerBands`, `rsi`, `atr`, `adx`, `macd`, `superTrend`; `sub`, `crossingOver`, `crossingUnder` | strategies |
| **Pairs, option tool** | none | rounding; Black–Scholes | strategies, brokers |
| **Logger, config, demo** | — | I/O, wiring | — |

What is hard in it: Node runs one callback at a time, but every `await` lets other requests in.
Execute and stop requests overlap; a cron tick does not wait for the `next()` before it;
backtest requests share one service and one feeder; an exchange moves, fills, refuses or
does not answer between any two calls of a strategy. The hazards, each at its line and with the
properties aimed at it, are listed in `PROJECT.json`.

What makes each part correct: *executor* – one job per id, reachable by `/stop`; a lock that is
always given back. *Grid* – every fill booked once, no stray orders, levels that explain the
position, profit taken when it can be, a stop order of the position's size. *Brokers* – orders fill
once and at prices the candles touched; trades, balances, positions and records agree; no
money is made by averaging or flipping. *Adapters* – no answer that is false, no `null` without
a reason, cancellations that reach every order. *Service* – all clocks at the same instant when `next()`
runs, a record for each interval, an end. *Feeder* – a cache that does not show, data files that are whole. *Indicators* – what
their definitions say, of every window; a value that was given stays.

## 2. Modules

| Module | Models | Composed by |
|---|---|---|
| `Executor` | executor service and controller | |
| `TradeSides` | sides of orders, trades and positions (operators) | `History`, `NeutralGrid` |
| `History` | records and trades of a backtest (operators on a value) | both brokers |
| `CashLedger` | abstract: what a perpetual broker promises about money | refined by `BacktestPerpBroker` |
| `BacktestPerpBroker` | the perpetual broker, with `History` | |
| `BacktestSpotBroker` | the spot broker, with `History` | |
| `NeutralGrid` | the grid and the exchange it trades on | |
| `LiveBroker` | live adapters of Binance (perpetual, spot, option), Bybit and Bitget, request by request | |
| `Fraction`, `Indicator`, `Series` | exact numbers; the indicators; comparing two series (operators) | `Chart` |
| `GridLevels` | level prices and the nearest level, with the rounding of the code (operators) | `Chart` |
| `Chart` | k-lines that arrive, and what a strategy computes from them | |
| `BacktestFeeder` | candle cache, concurrent calls | `DataBuild`, `BacktestController` |
| `DataBuild` | builds of data files, while calls read them | |
| `BacktestService` | the clock loop, results | `BacktestController` |
| `BacktestController` | requests: the service, then the feeder | |
| `MC…` | instances for TLC | |
| `…Proofs` | theorems, a module for each component or two of them | |
| `DataLemmas` | lemmas about sums, sorted trades, histories and loops | the proofs |

Operators whose comment begins with "Mutant of" are wrong variants of a definition: each is
used in its place to see that a property notices (`mutants` in `PROJECT.json`). No
specification uses them.

### Executor

A `Strategy` is one strategy object, that is, one call of `run()`. The code between two awaits
is one action. `Execute` is the controller's test of `isRunning` and the call of `init()`;
`InitReturns` or `InitCrashes` is what follows the await, with the reset of the lock, the counter
that picks the cron pattern, and `addCronJob`, which throws when the id is taken. A firing
job takes the lock and starts `next()` (`TickStarts`) or finds it held (`TickSkips`);
`NextReturns` is the `finally`. `stop()` awaits the job's own `stop()`: `StopActive`, then `StopResumes`;
a job that another request has already stopped is deleted at once (`StopInactive`).

### BacktestPerpBroker, CashLedger

A call of a strategy is one action: the strategies of the repository await every call, and
nothing else calls a strategy's broker. `nextClock()` is a phase of several actions: the clock
moves (`NextClockBegins`), the orders are visited in the order of the map (`VisitPasses`,
`VisitFills`), and the record is closed (`NextClockEnds`); a missing candle throws in the middle
(`VisitThrows`, `ValuationThrows`). `Book` is `updatePositionAndBalanceByFilledOrder`: average, reduce,
close or flip the position, realize profit, deduct the commission, add the trade.

Money is integral. Averages are divisions, which are exact for the instance checked (prices
are multiples of 1200); `ImplementsLedger` would fail on a rounding. `CashLedger` is the abstraction:
a trade moves the net size and pays size × price and a commission. The refinement maps cash to the
balance less the cost of open positions.

### BacktestSpotBroker

The same calls; a fill moves base against quote currency and pays its commission in base.
`nextClock()` is one action here, a fold over the open orders that the new candles touch, in id
order, because a fill of the spot broker reads nothing another fill has changed except the
balances it adds to. It throws at the first open order without a candle, after the fills
before it. The broker does not check funds, and neither does the model: balances may be negative.

### NeutralGrid

An action is the code from one answer of the broker to the next call; `pc` says which answer the
strategy waits for. Slots and stop orders are kept by the side of their order, which lets one action
stand for the long and the short twin of a method. `MarketMoves` fills every order whose price the
market crosses: at any time if `config.live`, and only between two `next()` in a backtest, where the
market may also gap (`MarketGaps`). A live exchange cancels post-only orders that would trade; it may
refuse an order, take it and lose the answer, or not answer at all (`Fault`, at most `MaxFaults` times).
Where the code reads a property of a missing answer, `next()` throws (`AnswerIsMissing`); where it compares one, `null` counts as
zero (`ZeroPrice`), which is near a trigger price smaller than the interval (`TriggerIsUnknown`). Live, `cancelOrder` of
Binance's adapter does not reach a stop order, nor does the request it makes next: it throws each time (`StopCancelThrows`), `next()` ends there, and a
live stop order keeps the size it was placed with. In a backtest it is cancelled and placed anew (`StopIsCancelled`). The level prices
are exact, one every two units, and every order is one lot per level.

### LiveBroker

The adapters for perpetuals of the three exchanges, and the one for options, a venue of its own: it has no
conditional orders, one type of stop order and one lookup. The spot adapter of Binance makes the requests of
the perpetual one, in methods that are the same line by line, and is not a venue of its own. An adapter keeps nothing between two calls, so one call at a time is enough: what other calls do
to its orders is among the things that happen at the exchange (`OrderChanges`: an open order fills further,
fires, expires or is cancelled) before any request. `op` and `ids` are the call and its orders,
`pc` the request it waits for, and an action handles one answer, or its failure (`Fault`, at most
`MaxFaults` times), after which the exchange may or may not have done what it was asked.

* *Placements*: `Place` and `PlaceStop`. Binance reads the market price first and picks the type of the stop
  order by it; Bybit picks a direction by the side; Bitget leaves it to the exchange. Binance answers the order of the
  response, the other two look it up.
* *Lookups*: `BinanceLookups`, `BybitLookups` and `BitgetLookups` are the requests of `getOrder` in their order: plain
  and conditional; open and final; plain, pending and past plans. Between two of them an order may move
  from one list to another.
* *Cancellations*: `cancelOrder` (Binance checks a failed one by a lookup that may throw, Bitget cancels a plain and a plan order
  and looks the outcome up), `cancelConditionalOrders` of Binance (a loop that stops at the first failure; the other two
  have a TODO), and `cancelOrders` in batches of `BatchSize`, each adapter with its own idea of success.

`cancelOrder` and `cancelOrders` of Binance do not reach trigger orders (`CancelKinds`): `CancelsReachEveryOrder` says nothing of those
that are given to them.

An order is its kind, status and filled size. `failed` (orders whose requests failed), `over` (orders
that were final when the call began) and `prices` (the market prices a placement met) are history variables.

Three details of the adapters that are in the model, and that a reader of the code may miss: `getOrders` of the
option adapter passes its `toOrder` unbound, so that an order which ended with a part filled makes it throw
(`binance.option.broker.service.ts:222`, `:268`); `cancelConditionalOrders` ends at the first order it cannot
cancel, and leaves the rest open (`StopsAtFirstFailure`); an order that was filled in part and then cancelled is
assigned FILLED, which the next statement overwrites with CANCELLED (`binance.perp.broker.service.ts:447`,
`:452`), where `core/constants.ts:11` says FILLED is "Fully or partially filled". Which of the two such an order ought to be is left
open: `AnswersAreTrue` asks of an answer that is not OPEN that the order has ended with just the fills it shows, some if it is
FILLED and not all if it is CANCELLED, and both answers pass.

### Chart, Indicator, Series, GridLevels

A behaviour of `Chart` is a chart: k-lines arrive, and after each one a strategy computes its indicators from all
of them. The operators of `Indicator` keep the loops, the running values, the index arithmetic and the errors of
`indicator.ts`: a loop that pushes is a recursive function from an index to the array so far. `Chart` states each of
them a second time without a loop – weights, means of windows – and compares. Numbers are exact fractions; a
standard deviation is kept as its square, and a division by zero, which the code answers with `NaN`, as the code
does. `GridLevels` has the rounding of `state_manager.ts` and `roundPrice` on integers, of a unit as fine as wanted.

What the model shows besides: the averages return a series that is not longer than their length as it is; RSI of a
market that has not moved is 100; MACD asks for the maximum of its lengths in closes, while the comment at `indicator.ts:163` calls its arrays
aligned, which they are from `slow + signal` closes on; ATR throws at a series of just its length (`:255`), of which its loop (`:266`) could give a first
value. Of the answers in between, and of averages of a series that is too short, `IndicatorsMatchDefinitions` says nothing; where ADX and MACD throw, it says that
there was nothing to answer. The bands of SuperTrend can cross after a jump over both, and its line is then on the
wrong side of the close; an interval rounded down leaves a gap below the upper price in which `getNearestLevel` is
undefined and `next()` throws, and an interval rounded to zero leaves nothing else (`FindsLevel`).

### BacktestService, BacktestFeeder, BacktestController, DataBuild

`BacktestService` keeps the shared clock. `Begin` sets it and calls `init()`; each return of an
awaited call is an action (`InitReturns`, `NextReturns`, `NextClockReturns` for each broker in turn), so that
requests interleave at each of them. `BeginThrows` is a request with an unknown interval, which has
set the clock when it fails. A broker is its clock, a balance and its records; what happens in an interval
is a profit. `overlapped` is a history variable: the runs that were not alone at some time.

`BacktestFeeder` represents candles by their close times. A call is answered from the cache, or waits for
the file (`Load` replaces the cache) and then reads the cache again (`Answer`), which a concurrent call
may have replaced meanwhile; `raced` is a history variable that says so. `BacktestController` runs the two
one after the other for each request: the page asks for as many candles as there are balance records.

`DataBuild` adds the builds. A build downloads its days one after the other (`BuildStarts`, `DownloadEnds`), each into a
file that the next build of the day will open again, and then writes the data file from them in one piece (`FileIsBuilt`).
Opening a day's file empties it, so that of two downloads of a day at the same time one may leave the other's file in
pieces (`DayArrives`); a download may also fail, and its file stays as it is (`DownloadFails`). Calls read the data file as a stream:
one that is being read while it is written gives rows of both (`FileIsWritten`, `RowsRead`), or a row cut in two, at which the parser
throws (`LoadThrows`). A file that does not exist raises an error that nothing catches, and so may a download that breaks off (the stream of its answer has no
listener, that of its file only once the answer has come: `DownloadMayBreak`). Either ends the process, which starts again with the files as they
are (`Restart`). `collided` and `source` are history variables.

## 3. Runs

| Run | Question | Result |
|---|---|---|
| `executor` | Do overlapping requests leave an orphan job, a lock without a holder, or a stopped strategy that fires? Is a lock ever held for good? | holds |
| `executor_lock` | "Execution lock to ensure singleton" (`executor.service.ts:21`) | violated |
| `executor_interval` | fixed intervals, "5 seconds" (`README.md:68`, `:73`) | violated |
| `perp_broker` | Do orders, positions, balances, records and the ledger agree? | holds |
| `spot_broker` | Do the records lead from each balance to the next, with every fill once? | holds |
| `grid` | Does the grid lose fills, leave stray orders, or get stuck, live and with faults? Does a backtest lose stop fills or leave a filled level unprotected? | holds |
| `grid_opening` | OPENING: "Level contains an open order" (`state.ts:35`) | violated |
| `backtest` | Clocks, records, drawdown, page and cache, alone and overlapping; does every backtest end? | holds |
| `backtest_shared` | "until reaching the end time" (`backtest.service.ts:43`) | violated |
| `live_broker` | Is an answer of an adapter ever false, or `null` without a reason? Do cancellations reach every order? | holds |
| `data_build` | Do overlapping builds, failures and crashes spoil a data file? Is an answer of the feeder what one file said? | holds |
| `chart` | Do the indicators say what their definitions do, for good, and the same upside down? Does a price find its level? | holds |

The violated ones are the `findings` of `PROJECT.json`, each with the code and the line it disagrees
with:

* the `finally` of a skipped tick releases a lock it never took, so `next()` overlaps with itself;
* the cron pattern's first second grows with each execution, and the gap at the minute with it;
* a level whose last trial was cancelled stays OPENING with a dead order, and is never used again;
* the clock of overlapping backtests is one field: they cut each other short.

One more disagreement is not a run of its own: a filled stop order does not terminate the grid, as `config.ts:39`
says it does, because both calls of `terminate()` are commented out (`grid.ts:122`, `:142`); in `NeutralGrid` the grid trades on.

Some properties are conjunctions of named parts, which are one statement about the code: `FillsAreTracked`
(`LevelFillsAreTracked`, `StopFillsAreTracked`, `NoStrayLevelOrders`) and `PositionIsExplained` (`PositionIsBookedFills`,
`LevelsExplainPosition`) of the grid, `FillsAreAccountedFor` of the backtest brokers (`TouchedOrdersAreFilled`, and the trades
against positions, balances and records), `CancelsReachEveryOrder` of the adapters (`NoneIsLeftOpen`, `StopsAtFirstFailure`).

### Bounds

* **executor**: two ids, three strategy objects, two stop requests, at most two `next()` in flight on
  an object; the counter starts at 3 or 59. Three objects on one id are what a race of two executes
  against a re-execution takes; two stops, what a race of stops takes; 59 is the wrap, 3 leads into
  the range where the interval is irregular.
* **perp_broker**: two symbols with different quote currencies, three orders, two intervals, two
  candles (one touches the limit price, one has jumped over it) and a missing one. Requests of one and
  two lots on both sides make a position grow, shrink, close and flip.
* **spot_broker**: two symbols that share a currency (base of one, quote of the other), otherwise the same.
* **grid**: three levels, two trials, one fault; four orders live (three where there are no stop orders) and five in a backtest; prices on both sides of, between and on the
  level nearest to them. Three levels are needed for a match over a distance and an idle level. Four
  orders open, close and reopen a level. One configuration has a trigger price so low that a missing answer is near it. When `MaxOrders` is reached the exchange refuses further orders, which is a behaviour the code has.
* **live_broker**: all venues; three orders in batches of two, which make a full batch and a smaller one, of size two, so that they may be
  filled in part, and one failing request. Order ids are symmetric: nothing compares them.
* **backtest**: two requests out of four (one that fills the cache to its limit, one within it with two
  brokers, one off the interval, one without brokers), a cache of two (three candles, as the code
  counts), a file with a gap. Two requests are enough for every race of two; the proofs cover more.
* **data_build**: two builds out of three stretches of days (three days; two of them and one that is not published; none),
  two calls out of three windows, a file that exists or not. The windows are all the cache holds, its newest candle at the same
  clock, and one of its middle. Two builds collide or come one after the other; two calls race, or one reads while a build writes.
* **chart**: up to six k-lines out of four, lengths two and three, signals of two and three: enough for the averages to move beyond their first
  value, for ADX (twice its length) and for MACD (aligned from five closes). The candles are a flat one, two that jump both ways over the
  one before, so that SuperTrend turns and its bands cross, and one that opens a gap. Four grids: an exact interval, one rounded
  down, one rounded up, one rounded to zero.

`CHECK_DEADLOCK FALSE` is set where the modelled system stops by itself: all strategy objects used
up, all intervals over, all requests served. The grid runs check deadlock.

### Fairness

* *Executor*: an active job keeps ticking (`WF` of `Tick`), and an awaited `stop()` of a job resumes
  (`StopResumes`). Nothing forces `next()` to return: it waits for an exchange. `LockIsReleased` holds all
  the same – thanks to the very `finally` that breaks `NextIsSingleton`.
* *Grid*: every broker call returns an answer or null (the adapters catch errors; `WF` of `Step`); that the
  executor calls `next()` again is not needed. Then every `init()` and `next()` ends (`CallsEnd`).
* *Service*: every `init()`, `next()` and `nextClock()` returns unless it throws (`WF` of `CallReturns`); the
  file of the feeder is not assumed to be read. Then every backtest ends (`BacktestsEnd`), even if others set
  the clock back, because there are finitely many of them.
* The properties of the backtest brokers, of the live adapters and of the data builds are safety, and assume no fairness: a
  download that hangs is never given up.

## 4. Proofs

Every theorem is about arbitrary constants that satisfy the named assumptions of its module;
TLC evaluates these on the instances. What they say is what a type of the code says (sizes and prices are numbers, a
pair has its currencies), and two things about the data: candles of a file are in order and an interval or more apart (`FileAssumption`, `ArchiveAssumption`), and the prices of a k-line
are fractions in lowest terms, its close between its low and its high (`ChartAssumption`); that `NaN` is no fraction (`NaNAssumption`)
is what the name says. Nothing in the brokers keeps a strategy from asking for a size that rounds to zero, with which the perpetual broker divides zero by
zero sooner or later: the theorems about it have `RequestsRoundToLots` as a hypothesis of their own, those about the spot broker take it for granted
(`RequestAssumption`). A symbol set is finite where its positions are added up (`QuoteAssumption`).

`DataLemmas` has what the other modules need of data: sums over functions (a sum that is taken apart, renamed, or changed at
one point), the sorting of trades as a permutation, histories (what `AddTrade` and `Flush` do to the trades of all records and to their
sum), and loops. The library's induction theorems take an operator, which no installed prover can instantiate; induction rests on
`LeastExists` instead – a set of naturals has a least element – in the form of `NatSetInduction`, for a set. A recursive function of
the model is unfolded where it is used: first that some function satisfies the recursion, then what the one chosen is.

* **ExecutorProofs**: `TypeCorrect`, `NoOrphanJob` (`ActiveIsRegistered`), `LockHasHolder`
  (`HeldLockHasHolder`), `StoppedStaysStopped` (`StoppedForGood`). The inductive invariant adds that a
  registered job belongs to the id it is registered under and was started – otherwise deleting a job could
  stop one and forget another – and that an object that was never executed has no `next()` in flight.
* **BacktestPerpBrokerProofs**: `TypeCorrect` (if no size asked for rounds to zero, no position is left empty or negative by closing and flipping),
  `FillsMovePositions` (`PositionsMoveByFills`), `OrdersAreFinal` (`FinalOrdersStay`). Each placement and
  visit is shown to be one of a few shapes of a step (`StepFacts`): the account stays, or one order
  fills and its symbol's net size moves by exactly its signed size. `PositionAfterMoves`, on the five
  branches of the position update, is the lemma that carries it.
  `FillsAccountedFor` (`FillsAreAccountedFor`) and `RecordsAreEquity` (`RecordsShowEquity`) rest on `AccountInv`: what the trades
  of all records add up to, symbol by symbol and currency by currency, is the open positions and the realized
  balances, in the middle of a `nextClock()` too; an order that the candles touch is open only if it is still to be
  visited; and a record opens with the balances and the worth of the positions at its time.
  `LedgerIsImplemented` is the refinement of `CashLedger`: each step is a trade of the ledger or leaves it alone. It
  is about behaviours all of whose averages are exact (`AveragesAreExact`), because the model divides integers and the
  code floating-point numbers: what a rounded average loses is a matter of the numbers and not of the
  cases, which is what the theorem covers – averaging, reducing, closing, flipping. TLC finds that the averages of its instance are exact.
* **BacktestSpotBrokerProofs**: `OrdersAreFinal` from `OrderMapIsCorrect`; `TypeCorrect` and `FillsAccountedFor`
  (`FillsAreAccountedFor`) from `AccountIsCorrect`. `nextClock()` is a loop in one action, so its steps are a second induction
  (`LoopKeepsAccount`): after each visit the trades of the current record lead from its balances to the account's, and there is
  one trade for each order filled so far (`CorrespondenceExtends`).
* **NeutralGridProofs**: `TypeCorrect` and `ProfitIsTaken` (`NoUnmatchedPair`): whatever the exchange
  does, no opened long lies below an opened short. It is inductive with the types and
  `ToCheckIsOpening` – levels still to be checked are opening, and there are none outside the checks.
  The step that matters is the fill of a level (`LevelFillKeepsIInv`): it closes the *farthest* opened slot it
  can, or there is none, and then opening it makes no pair.
  `EveryFillIsTracked` (`FillsAreTracked`) rests on a second invariant (`FInv`): no two slots have the same order, an order that is
  waited for is not booked, an order is placed only at a level that is free – closed, or left by a cancelled order (`TargetIsFree`, which the
  trials keep) – and in a backtest a stop order that `next()` has looked at does not fill before `next()` ends (`StopsAreLookedAt`).
  `PositionIsAlwaysExplained` (`PositionIsExplained`) adds the sums (`PInv`): every order is booked once because the fill that books it is
  not booked yet, which `FInv` says, and a level that opens or closes moves the position by its lot.
  `PositionIsProtected` (`FillsAreProtected`), on backtests with stop orders, needs what `next()` knows in the middle of an update
  (`SInv`): the upper stop order is replaced first, and when the lower one is being replaced the upper one
  is as it should be (`UpperIsDone`); a stop order that was placed is of the position's size (`PlacedProtects`).
* **LiveBrokerProofs**: `TypeCorrect` and `NoFalseAnswer` (`AnswersAreTrue`), for any finite set of orders and any number of
  faults. An answer given stays true because orders only go on (`OrdersGoOn`: no fill is taken back, no final
  status is left), and an order answered as open was not final when the call began because a final order
  stays so (`OverIsFinal`). The lookups matter in one place (`FoundIsTrue`): Bitget takes the list a plan order was
  found in for its status, which is right only as it asks for pending plans in the second request.
  `TrueCancelsAll` (`TrueMeansCancelled`) and `NoOrderIsForgotten` (`CancelsReachEveryOrder`), for batches of any size, rest on an
  invariant of their own (`CInv`): the orders before the present one are cancelled, those of the batches before the present one are
  handled – cancelled, over, out of reach, or a request about them has failed – and every order is in a batch (`BatchesCover`).
  `NullIsExplained` (`NullHasReason`) follows from `NInv`: as long as no request fails, an order that the lookups so far have
  not found is of another kind, or not open any more (`Passed`), so that some later lookup finds it (`LookupsAreExhaustive`); and a stop order
  waits for the market to come from a price the adapter has met (`DirectionIsExplained`). It needs the assumption that `None` is none of
  the prices, directions and answers.
* **BacktestControllerProofs**, on builds: `FilesAreSpoiledByCollisions` (`OnlyCollisionsSpoilFile`), for any builds, days and archives. The inductive
  invariant (`OwnDays`): of a download that has not collided, the files of the days behind it are whole, it is the last to
  have opened the file of its present day, and its days are apart from those of all others that download. A build that starts
  either keeps the latter, or both have collided (`Rivals`); so no other touches the days of one that has not.
  On the service: `ClocksOfOneRun` (`ClocksAgree`) and `LoneRunReachesEnd`, for any number of
  requests: a run that was never overlapped is the only active one (`AloneIsOnly`); then the brokers that have
  moved in this round are on the service's clock, and the others one interval behind (`ClocksFollow`). The
  second theorem shows that overlap is the only reason for `backtest_shared`. `RecordsAreOfTheRun` (`RecordsCoverRun`) says which times the records of such a run have; the k-th of them
  begins k - 1 intervals after the start (`BrokerFollows`), and `DrawdownIsCorrect` (`DrawdownIsWorstStreak`) is
  about the loop of `getMaxDrawdown`: the running drawdown is the loss of the streak the last record is in, and the worst so far is that of some streak.
  On the feeder: `CacheIsTransparent` (`AnswersAreExact`) and `RacesKeepNewest` (`AnswersAreRecent`). The cache is a stretch of the file in `source`, as long as the
  cache allows (`FeederInv`), and what a call reads next is a stretch of what it has loaded; that candles are an interval or
  more apart makes the window's candles fit. `FilesIInv` keeps this while builds write and processes restart.
  Together: `TypeCorrect`, `DataTypeCorrect`, and `PagesShowCandles` (`PageHasCandles`), from `PageIInv`: a page asks the feeder for the
  window of the records of its backtest.
* **ChartProofs**: `NearestLevel` (`NearestLevelIsFound`), for any grid, rounding unit and price. Hardly any of it is about
  steps: the proof is arithmetic on nearest multiples (`Distance`, `Drift`).
  `ValuesAreKept` (`HistoryIsKept`): what an indicator has said of a k-line it says for good. All loops of `indicator.ts` are instances of one
  (`IsRun`: a first value, and each other from the one before), two loops with the same steps agree as far as both go (`RunsAgree`), and an array
  that is pushed to has the values of its loop (`PushingEnds`). Of numbers this proof uses nothing: the argument is one about loops, and not about how numbers are rounded.
  The other four rest on the arithmetic of fractions, which is proved from the greatest common divisor on: `Gcd` computes it (`GcdDivides`, `GcdScaled`), so
  `Frac` gives equal values equal forms (`FracSame`), and `Shows(a, n, d)` – a is n / d – is what every operator is told by, with any numerator and
  denominator (`AddShows`, `DivideShows`, `LessShows`). Laws and comparisons of up to four fractions then are those of integers over a common
  denominator (`CommonOfFour`, `CommonSum`, `CommonEqual`, `CommonOrder`). On this:
  `SuperTrendIsATrailingStop` (`SuperTrendFollowsClose`): a band that has not crossed the other one sticks unless the candle before closed beyond it, and then
  the trend has turned (`NextStateFollows`).
  `SignalsTellTheSide` (`CrossingsTellTheSide`): since the last report the close has not changed its side of the average (`SideIsKept`), only touched it.
  `IndicatorsAreDefined` (`IndicatorsMatchDefinitions`): a value that moves on with a weight is the sum of all values so far by powers of the rest
  (`WeightedStep`, `SmoothedIsWeighted`, `WilderIsWeighted`), the sum that moves along is that of the window (`SMAIsMean`), smoothing of a sum is the sum
  of the smoothed (`WilderAdds`), and a smoothed value is zero only as long as all its values are (`WilderNotNegative`) – which makes RSI the share
  of the gains in the moves (`StrengthIs`) and shows that the test for a zero range changes nothing in ADX (`DirectionsAreDirected`). That a true range is
  what the candle and the close before it span (`TrueRangeSpans`) is where the order of low, close and high is needed.
  `UpAndDownAreAlike` (`MirrorSymmetry`): negation commutes with sums, means and weights (`NegativeSums`, `MeanNegates`, `WeightedNegates`), gains and losses change
  places (`MovesSwap`), and so do the moves up and down (`MovesAreMirrored`).

Only model-checked: all liveness (`LockIsReleased`, `CallsEnd`, `BacktestsEnd`), whose proof needs `ENABLED`. Every other property of a passing run is
a theorem.

## 5. Not modelled, and why

* **Requests of the live adapters that only read** (balances, positions, K-lines, prices, lists of open orders). `getPosition` of Binance
  leaves the market type it needs in the options of the shared client (`binance.perp.broker.service.ts:361`), which is not covered.
  The grid meets an adapter as an exchange that may answer null.
* **Earn products, RWUSD and greeks** of the Binance adapters: single requests (and one paged read) that no strategy calls.
* **Concurrent calls of one adapter** as such: see `LiveBroker`, which has no state they could share.
* **What no property covers**, though it is modelled: the fill of a live stop order between two looks at it, whose id is then replaced; a stop order that
  is not needed any more and left working; the size of live stop orders; orders whose id was lost; calls whose file was rewritten while they read it.
  The hazards in `PROJECT.json` say why.
* **Numbers**: floating point, and `NaN` after a size that rounds to zero. `roundSize` is modelled as rounding to a lot,
  `roundPrice` to a tick; the levels of `NeutralGrid` are exact, and their rounding is in `GridLevels`. The square root of Bollinger's
  deviation is left squared. The option tool (Black–Scholes) is out of reach of TLC.
* **A window longer than the cache** is answered with the oldest candles of it, where the newest are wanted; `Fits` leaves it
  out of `AnswersAreExact`.
* **A perpetual position's `unrealizedPnL`**, which no code of the broker reads; readers that change no
  state (bid, ask, K-lines); `getBalanceRange`.
* **`terminate()` of the grid**: nothing calls it.
* **Unzip, parse, view, logger, demo**: I/O, data and layout.
* **Saved strategy state** (`setState`, `getState`): planned.
* **Brokers created in `next()`** start at the start timestamp; the strategies of the repository create
  them in `init()`, and the model does.

## 6. Plan

Done, in this order: executor; history and perpetual broker with its ledger; grid; spot broker; feeder,
service and controller; live adapters; indicators, series and the numbers of the grid; data builds; the option adapter; the
proofs above. Next:

1. `StrategyState`: find, then save, by overlapping `next()` of one id; and the grid under an executor
   that lets `next()` overlap (a fill booked twice).
2. Proofs about what (1) adds; and, beside `LedgerIsImplemented`, how much money an average that is rounded can make or lose at most.
