--------------------------- MODULE BacktestService --------------------------
(***************************************************************************)
(* The service that runs a strategy over a stretch of time: next(), then   *)
(* nextClock() of every broker, until the clock reaches the end. One       *)
(* service serves every request, and its clock is a field of it: requests  *)
(* that overlap share it. A result is the brokers' finished records.       *)
(*                                                                         *)
(* A broker is its clock, its balance in the currency of interest and the  *)
(* history; what a strategy and the market do in an interval is a change   *)
(* of the balance, the profit of the interval's record.                    *)
(***************************************************************************)
EXTENDS Integers, FiniteSets, Sequences, Functions

CONSTANTS Run,              \* backtests requested
          Request,          \* [start, end, interval, brokers]: brokers counts
                            \* the ones the strategy creates in init()
          Profit,           \* changes of a balance in an interval
          InitialBalance

ASSUME RequestAssumption ==
  Request \subseteq [start : Nat, end : Nat, interval : Nat \ {0}, brokers : Nat]
ASSUME ProfitAssumption == Profit \subseteq Int
ASSUME BalanceAssumption == InitialBalance \in Int

VARIABLES
  currentClock, clockInterval,   \* the service's
  runs,       \* [state, request, brokers, ticking]; ticking: brokers whose
              \* clock has moved in this round
  overlapped  \* history: runs that were not alone at some time

serviceVars == <<currentClock, clockInterval, runs, overlapped>>

NoRun == [state |-> "none", request |-> [start |-> 0, end |-> 0, interval |-> 1, brokers |-> 0],
          brokers |-> <<>>, ticking |-> 0]

\* initClockAndInterval: the first flush opens a record at the start.
NewBroker(req) ==
  [clock |-> req.start, balance |-> InitialBalance, records |-> <<>>,
   current |-> [timestamp |-> req.start, balance |-> InitialBalance, profit |-> 0]]

\* Mutant of Flushed: the record is stamped with the clock that closes it.
FlushedAtClose(broker, clock) ==
  [broker EXCEPT
     !.clock = clock,
     !.records = Append(@, [broker.current EXCEPT !.timestamp = clock]),
     !.current = [timestamp |-> clock, balance |-> broker.balance, profit |-> 0]]

\* The current record is finished, and the next one opens at the new clock.
Flushed(broker, clock) ==
  [broker EXCEPT
     !.clock = clock,
     !.records = Append(@, broker.current),
     !.current = [timestamp |-> clock, balance |-> broker.balance, profit |-> 0]]

\* Orders fill for a profit (in next() or nextClock()), which the current record
\* shows.
Earned(broker, profit) ==
  [broker EXCEPT !.balance = @ + profit, !.current.profit = @ + profit]

ServiceInit ==
  /\ currentClock = 0 /\ clockInterval = 1
  /\ runs = [r \in Run |-> NoRun]
  /\ overlapped = {}

Active == {r \in Run : runs[r].state \in {"init", "next", "clock"}}

\* Mutant of Begin: the service's clock is not set back to the start.
BeginKeepingClock(r, req) ==
  /\ runs[r].state = "none"
  /\ currentClock' = IF currentClock < req.start THEN req.start ELSE currentClock
  /\ clockInterval' = req.interval
  /\ runs' = [runs EXCEPT ![r] = [NoRun EXCEPT !.state = "init", !.request = req]]
  /\ overlapped' = IF Active = {} THEN overlapped ELSE overlapped \cup Active \cup {r}

\* run(): the service's clock is set, and init() awaited.
Begin(r, req) ==
  /\ runs[r].state = "none"
  /\ currentClock' = req.start
  /\ clockInterval' = req.interval
  /\ runs' = [runs EXCEPT ![r] = [NoRun EXCEPT !.state = "init", !.request = req]]
  /\ overlapped' = IF Active = {} THEN overlapped ELSE overlapped \cup Active \cup {r}

\* toTimestampInterval throws on an interval it does not know, and the request
\* fails; the clock is set by then.
BeginThrows(r, start) ==
  /\ runs[r].state = "none"
  /\ currentClock' = start
  /\ runs' = [runs EXCEPT ![r].state = "failed"]
  /\ overlapped' = overlapped \cup Active
  /\ UNCHANGED clockInterval

\* The loop goes on with another next(), or is over.
LoopState(r, clock) == IF clock < runs[r].request.end THEN "next" ELSE "done"

\* init() returns, having created the brokers.
InitReturns(r) ==
  LET req == runs[r].request
  IN  /\ runs[r].state = "init"
      /\ runs' = [runs EXCEPT ![r].brokers = [b \in 1..req.brokers |-> NewBroker(req)],
                              ![r].state = LoopState(r, currentClock)]
      /\ UNCHANGED <<currentClock, clockInterval, overlapped>>

\* Mutant of NextReturns: the brokers move the clock, and there may be none.
NextReturnsWithoutBroker(r) ==
  LET clock == IF runs[r].brokers = <<>> THEN currentClock ELSE currentClock + clockInterval
  IN  /\ runs[r].state = "next"
      /\ currentClock' = clock
      /\ runs' = [runs EXCEPT ![r].ticking = 0,
                              ![r].state = IF runs[r].brokers = <<>> THEN LoopState(r, clock)
                                           ELSE "clock"]
      /\ UNCHANGED <<clockInterval, overlapped>>

\* next() returns: the service's clock moves, then those of the brokers.
NextReturns(r) ==
  LET clock == currentClock + clockInterval
  IN  /\ runs[r].state = "next"
      /\ currentClock' = clock
      /\ runs' = [runs EXCEPT ![r].ticking = 0,
                              ![r].state = IF runs[r].brokers = <<>> THEN LoopState(r, clock)
                                           ELSE "clock"]
      /\ UNCHANGED <<clockInterval, overlapped>>

\* nextClock() of the next broker returns; it moves by its own interval. The loop
\* is decided anew by the service's clock after the last one.
NextClockReturns(r, profit) ==
  LET b == runs[r].ticking + 1
      broker == runs[r].brokers[b]
      clock == broker.clock + runs[r].request.interval
  IN  /\ runs[r].state = "clock"
      /\ runs' = [runs EXCEPT
           ![r].brokers[b] = Flushed(Earned(broker, profit), clock),
           ![r].ticking = b,
           ![r].state = IF b < Len(runs[r].brokers) THEN "clock" ELSE LoopState(r, currentClock)]
      /\ UNCHANGED <<currentClock, clockInterval, overlapped>>

\* init(), next() or nextClock() throws, and the request fails.
CallThrows(r) ==
  /\ r \in Active
  /\ runs' = [runs EXCEPT ![r].state = "failed"]
  /\ UNCHANGED <<currentClock, clockInterval, overlapped>>

CallReturns(r) ==
  \/ InitReturns(r)
  \/ NextReturns(r)
  \/ \E profit \in Profit : NextClockReturns(r, profit)

-----------------------------------------------------------------------------
(* BacktestResult.                                                         *)

Smaller(a, b) == IF a < b THEN a ELSE b

\* The greatest drawdown that is over and the one that goes on: losses add up until a
\* record without one.
DrawdownStep(acc, record) ==
  IF record.profit < 0 THEN [max |-> acc.max, drawdown |-> acc.drawdown + record.profit]
  ELSE [max |-> Smaller(acc.max, acc.drawdown), drawdown |-> 0]

DrawdownAfter(records) ==
  LET acc[k \in 0..Len(records)] ==
        IF k = 0 THEN [max |-> 0, drawdown |-> 0] ELSE DrawdownStep(acc[k - 1], records[k])
  IN  acc[Len(records)]

\* Mutant of MaxDrawdown: a streak that lasts to the end is not counted.
MaxDrawdownBeforeEnd(records) == DrawdownAfter(records).max

\* getMaxDrawdown
MaxDrawdown(records) ==
  LET last == DrawdownAfter(records)
  IN  Smaller(last.max, last.drawdown)

-----------------------------------------------------------------------------
ServiceTypeOK ==
  /\ currentClock \in Nat /\ clockInterval \in Nat \ {0}
  /\ overlapped \subseteq Run
  /\ \A r \in Run :
       /\ runs[r].state \in {"none", "init", "next", "clock", "done", "failed"}
       /\ runs[r].request \in Request \cup {NoRun.request}
       /\ runs[r].ticking \in 0..Len(runs[r].brokers)
       /\ \A b \in DOMAIN runs[r].brokers : runs[r].brokers[b].balance \in Int

Brokers(r) == {runs[r].brokers[b] : b \in DOMAIN runs[r].brokers}

\* Whenever next() runs, the clocks of all brokers are the clock of the service, if
\* no other backtest has run meanwhile: next() never trades in the past of one.
ClocksAgree ==
  \A r \in Run \ overlapped :
    runs[r].state = "next" => \A broker \in Brokers(r) : broker.clock = currentClock

\* A backtest that was alone has a record for every interval from its start up to
\* its end, and for no other (their times, as a set).
RecordsCoverRun ==
  \A r \in Run \ overlapped :
    LET req == runs[r].request
    IN  runs[r].state = "done" =>
          \A broker \in Brokers(r) :
            {broker.records[k].timestamp : k \in DOMAIN broker.records}
              = {t \in req.start..(req.end - 1) : (t - req.start) % req.interval = 0}

\* The drawdown reported is the greatest loss over records in a row that all lose.
LosingStreaks(records) ==
  {s \in (DOMAIN records) \X (DOMAIN records) :
     s[1] <= s[2] /\ \A k \in s[1]..s[2] : records[k].profit < 0}

ProfitOver(records, s) ==
  SumFunctionOnSet([k \in DOMAIN records |-> records[k].profit], s[1]..s[2])

DrawdownIsWorstStreak ==
  \A r \in Run : \A broker \in Brokers(r) :
    LET losses == {ProfitOver(broker.records, s) : s \in LosingStreaks(broker.records)}
        drawdown == MaxDrawdown(broker.records)
    IN  drawdown \in losses \cup {0} /\ \A loss \in losses : drawdown <= loss

\* Every backtest comes to an end, even if others set the clock back.
BacktestsEnd ==
  \A r \in Run : r \in Active ~> r \notin Active

\* backtest.service.ts: "Continue executing strategy until reaching the end time".
BacktestReachesEnd ==
  \A r \in Run :
    runs[r].state = "done" =>
      \A broker \in Brokers(r) : broker.clock >= runs[r].request.end
=============================================================================
