-------------------------- MODULE BacktestController ------------------------
(***************************************************************************)
(* The page of a backtest: the service runs it, then the controller asks   *)
(* its own feeder, which all requests share, for as many candles up to the *)
(* end as there are balance records. (Requests that build data files are   *)
(* in DataBuild.)                                                          *)
(***************************************************************************)
EXTENDS BacktestService, BacktestFeeder

vars == <<serviceVars, feederVars>>

ASSUME OneCallPerRun == Call = Run
ASSUME PageAssumption == \A req \in Request : req.interval \in Interval

Init == ServiceInit /\ FeederInit

\* A request for a known strategy.
BacktestStrategy(r, req) ==
  /\ calls[r].state = "idle"
  /\ Begin(r, req)
  /\ UNCHANGED feederVars

\* The same with an interval that is not supported.
BacktestFails(r, req) ==
  /\ calls[r].state = "idle"
  /\ BeginThrows(r, req.start)
  /\ UNCHANGED feederVars

PageWindow(req, limit) == [clock |-> req.end, interval |-> req.interval, limit |-> limit]

\* A request for an unknown one gets a page of no candles.
UnknownStrategy(r, req) ==
  /\ runs[r].state = "none"
  /\ Ask(r, PageWindow(req, 0))
  /\ UNCHANGED serviceVars

\* The service goes on.
ServiceStep(r) ==
  /\ CallReturns(r) \/ CallThrows(r)
  /\ UNCHANGED feederVars

\* The result of the first broker is shown, with its candles.
ShowPage(r) ==
  /\ runs[r].state = "done"
  /\ runs[r].brokers # <<>>
  /\ Ask(r, PageWindow(runs[r].request, Len(runs[r].brokers[1].records)))
  /\ UNCHANGED serviceVars

\* result[0] does not exist when the strategy has created no broker.
PageFails(r) ==
  /\ runs[r].state = "done"
  /\ runs[r].brokers = <<>>
  /\ runs' = [runs EXCEPT ![r].state = "failed"]
  /\ UNCHANGED <<currentClock, clockInterval, overlapped, feederVars>>

FeederStep(r) ==
  /\ Load(r) \/ Answer(r)
  /\ UNCHANGED serviceVars

Next ==
  \E r \in Run :
    \/ \E req \in Request : BacktestStrategy(r, req) \/ BacktestFails(r, req)
                            \/ UnknownStrategy(r, req)
    \/ ServiceStep(r) \/ ShowPage(r) \/ PageFails(r) \/ FeederStep(r)

\* Every init(), next() and nextClock() returns, unless it throws.
Fairness == \A r \in Run : WF_vars(CallReturns(r) /\ UNCHANGED feederVars)

Spec == Init /\ [][Next]_vars /\ Fairness

\* Every variable has its type; the cache keeps its limit.
TypeOK == ServiceTypeOK /\ FeederTypeOK

\* The page of a backtest that was alone shows a candle for every balance record, and
\* that of the record's very interval if the backtest ends with one: when the file had
\* all candles of the window, which close just before the next interval, and nothing
\* has raced for the cache.
PageHasCandles ==
  \A r \in Run \ overlapped :
    LET req == runs[r].request
        w == calls[r].window
        answer == calls[r].answer
        records == runs[r].brokers[1].records
        complete == {t \in (Start(w) + 1)..w.clock : (t + 1) % w.interval = 0}
    IN  (/\ Answered(r) /\ runs[r].state = "done" /\ calls[r].raced = {}
         /\ Fits(w) /\ complete \subseteq ToSet(calls[r].source))
        => /\ Len(answer) = Len(records)
           /\ (req.end - req.start) % req.interval = 0 =>
                \A k \in DOMAIN records :
                  /\ records[k].timestamp < answer[k]
                  /\ answer[k] <= records[k].timestamp + req.interval
=============================================================================
