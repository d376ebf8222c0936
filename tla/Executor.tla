------------------------------ MODULE Executor ------------------------------
(***************************************************************************)
(* The live strategy executor: the controller's execute and stop handlers, *)
(* the service behind them, and the cron job each strategy object gets.    *)
(* Node runs one callback at a time, so everything between two awaits is   *)
(* one action; the awaits are strategy.init(), strategy.next() and the     *)
(* stop() of a cron job.                                                   *)
(*                                                                         *)
(* A Strategy is one strategy object, hence one call of run(); strategies  *)
(* that share an id share the registry slot and the execution lock.        *)
(***************************************************************************)
EXTENDS Naturals, FiniteSets

CONSTANTS Id,             \* ids callers pass to /executor/execute and /stop
          Strategy,       \* strategy objects: bounds the calls of run()
          StopRequest,    \* concurrent /executor/stop requests
          MaxOverlap,     \* bound: next() calls in flight on one strategy
          StartCounter,   \* values the counter may have before the first run
          NoId, NoJob

ASSUME NoIdAssumption == NoId \notin Id
ASSUME NoJobAssumption == NoJob \notin Strategy
ASSUME MaxOverlapAssumption == MaxOverlap \in Nat \ {0}
ASSUME StartCounterAssumption == StartCounter \subseteq 0..59

VARIABLES
  phase,      \* life of a strategy object and of its cron job
  idOf,       \* the id a strategy object was executed under
  registry,   \* the scheduler registry: id -> the strategy whose job it holds
  isLocked,   \* the execution lock of an id; "absent" when the map has no entry
  counter,    \* the execution counter
  offset,     \* first second of the minute a strategy's cron job fires at
  running,    \* next() calls in flight on a strategy
  stopping    \* the id a stop request suspended in runningJob.stop() is for

vars == <<phase, idOf, registry, isLocked, counter, offset, running, stopping>>

Phase == {"unborn", "init", "failed", "active", "stopped"}
Lock == {"absent", "free", "held"}

Init ==
  /\ phase = [s \in Strategy |-> "unborn"]
  /\ idOf = [s \in Strategy |-> NoId]
  /\ registry = [i \in Id |-> NoJob]
  /\ isLocked = [i \in Id |-> "absent"]
  /\ counter \in StartCounter
  /\ offset = [s \in Strategy |-> 0]
  /\ running = [s \in Strategy |-> 0]
  /\ stopping = [q \in StopRequest |-> NoId]

Registered(id) == registry[id] # NoJob

\* A registered job is active from job.start() to the stop() of the job.
IsRunning(id) == Registered(id) /\ phase[registry[id]] = "active"

\* The cron pattern `${counter}-59/5 * * * * *`, as the seconds it fires at.
FireSeconds(first) == {second \in first..59 : (second - first) % 5 = 0}

-----------------------------------------------------------------------------
\* execute(): refused when the id is running, otherwise init() starts.
Execute(s, id) ==
  /\ phase[s] = "unborn"
  /\ ~IsRunning(id)
  /\ phase' = [phase EXCEPT ![s] = "init"]
  /\ idOf' = [idOf EXCEPT ![s] = id]
  /\ UNCHANGED <<registry, isLocked, counter, offset, running, stopping>>

\* init() throws: run() returns false.
InitCrashes(s) ==
  /\ phase[s] = "init"
  /\ phase' = [phase EXCEPT ![s] = "failed"]
  /\ UNCHANGED <<idOf, registry, isLocked, counter, offset, running, stopping>>

\* Mutant of NextCounter: wraps one second late.
NextCounterWrapsLate == IF counter > 59 THEN 0 ELSE counter + 1

NextCounter == IF counter > 58 THEN 0 ELSE counter + 1

\* Mutant of InitReturns: the new job replaces the registered one.
InitReturnsReplacingJob(s) ==
  /\ phase[s] = "init"
  /\ isLocked' = [isLocked EXCEPT ![idOf[s]] = "free"]
  /\ counter' = NextCounter
  /\ offset' = [offset EXCEPT ![s] = NextCounter]
  /\ phase' = [phase EXCEPT ![s] = "active"]
  /\ registry' = [registry EXCEPT ![idOf[s]] = s]
  /\ UNCHANGED <<idOf, running, stopping>>

\* init() returns: the lock is reset and the counter advanced, then addCronJob
\* throws when the id has a job by now, else registers the job and starts it.
InitReturns(s) ==
  LET id == idOf[s] IN
  /\ phase[s] = "init"
  /\ isLocked' = [isLocked EXCEPT ![id] = "free"]
  /\ counter' = NextCounter
  /\ offset' = [offset EXCEPT ![s] = NextCounter]
  /\ \/ /\ Registered(id)
        /\ phase' = [phase EXCEPT ![s] = "failed"]
        /\ UNCHANGED registry
     \/ /\ ~Registered(id)
        /\ phase' = [phase EXCEPT ![s] = "active"]
        /\ registry' = [registry EXCEPT ![id] = s]
  /\ UNCHANGED <<idOf, running, stopping>>

-----------------------------------------------------------------------------
\* Mutant of TickStarts: a job fires until it is deleted, not until it is stopped.
TickStartsWhileRegistered(s) ==
  /\ idOf[s] # NoId
  /\ registry[idOf[s]] = s
  /\ isLocked[idOf[s]] # "held"
  /\ running[s] < MaxOverlap
  /\ isLocked' = [isLocked EXCEPT ![idOf[s]] = "held"]
  /\ running' = [running EXCEPT ![s] = @ + 1]
  /\ UNCHANGED <<phase, idOf, registry, counter, offset, stopping>>

\* The cron callback when the lock is not held: next() starts. A missing lock
\* entry reads as undefined, that is, as not held.
TickStarts(s) ==
  /\ phase[s] = "active"
  /\ isLocked[idOf[s]] # "held"
  /\ running[s] < MaxOverlap
  /\ isLocked' = [isLocked EXCEPT ![idOf[s]] = "held"]
  /\ running' = [running EXCEPT ![s] = @ + 1]
  /\ UNCHANGED <<phase, idOf, registry, counter, offset, stopping>>

\* Mutant of TickSkips: only the call that took the lock releases it.
TickSkipsKeepingLock(s) ==
  /\ phase[s] = "active"
  /\ isLocked[idOf[s]] = "held"
  /\ UNCHANGED vars

\* The callback when the lock is held: it warns, and its finally releases the
\* lock all the same.
TickSkips(s) ==
  /\ phase[s] = "active"
  /\ isLocked[idOf[s]] = "held"
  /\ isLocked' = [isLocked EXCEPT ![idOf[s]] = "free"]
  /\ UNCHANGED <<phase, idOf, registry, counter, offset, running, stopping>>

\* Mutant of NextReturns: the release is not in a finally, and next() throws.
NextReturnsKeepingLock(s) ==
  /\ running[s] > 0
  /\ running' = [running EXCEPT ![s] = @ - 1]
  /\ UNCHANGED <<phase, idOf, registry, isLocked, counter, offset, stopping>>

\* next() returns or throws; the callback's finally releases the lock, also
\* when the job was stopped, or another one started, in the meantime.
NextReturns(s) ==
  /\ running[s] > 0
  /\ running' = [running EXCEPT ![s] = @ - 1]
  /\ isLocked' = [isLocked EXCEPT ![idOf[s]] = "free"]
  /\ UNCHANGED <<phase, idOf, registry, counter, offset, stopping>>

-----------------------------------------------------------------------------
\* deleteCronJob(id) stops whatever job the id has now; then isLocked.delete(id).
Unregister(id) ==
  /\ phase' = [phase EXCEPT ![registry[id]] = "stopped"]
  /\ registry' = [registry EXCEPT ![id] = NoJob]
  /\ isLocked' = [isLocked EXCEPT ![id] = "absent"]

\* stop() of an active job: the job stops and the request awaits.
StopActive(q, id) ==
  /\ stopping[q] = NoId
  /\ IsRunning(id)
  /\ phase' = [phase EXCEPT ![registry[id]] = "stopped"]
  /\ stopping' = [stopping EXCEPT ![q] = id]
  /\ UNCHANGED <<idOf, registry, isLocked, counter, offset, running>>

\* The awaiting request resumes; deleteCronJob throws when the job has gone.
StopResumes(q) ==
  LET id == stopping[q] IN
  /\ id # NoId
  /\ stopping' = [stopping EXCEPT ![q] = NoId]
  /\ \/ Registered(id) /\ Unregister(id)
     \/ ~Registered(id) /\ UNCHANGED <<phase, registry, isLocked>>
  /\ UNCHANGED <<idOf, counter, offset, running>>

\* stop() of a job another request has stopped and not yet deleted.
StopInactive(q, id) ==
  /\ stopping[q] = NoId
  /\ Registered(id) /\ ~IsRunning(id)
  /\ Unregister(id)
  /\ UNCHANGED <<idOf, counter, offset, running, stopping>>

-----------------------------------------------------------------------------
Tick(s) == TickStarts(s) \/ TickSkips(s)

Next ==
  \/ \E s \in Strategy, id \in Id : Execute(s, id)
  \/ \E s \in Strategy : InitCrashes(s)
  \/ \E s \in Strategy : InitReturns(s)
  \/ \E s \in Strategy : TickStarts(s)
  \/ \E s \in Strategy : TickSkips(s)
  \/ \E s \in Strategy : NextReturns(s)
  \/ \E q \in StopRequest, id \in Id : StopActive(q, id)
  \/ \E q \in StopRequest : StopResumes(q)
  \/ \E q \in StopRequest, id \in Id : StopInactive(q, id)

\* The cron library keeps ticking and a resolved await resumes. Nothing forces
\* next() to return: it waits for an exchange.
Fairness ==
  /\ \A s \in Strategy : WF_vars(Tick(s))
  /\ \A q \in StopRequest : WF_vars(StopResumes(q))

Spec == Init /\ [][Next]_vars /\ Fairness

-----------------------------------------------------------------------------
\* Every variable has its type, and an id that was never executed has no job.
TypeOK ==
  /\ phase \in [Strategy -> Phase]
  /\ idOf \in [Strategy -> Id \cup {NoId}]
  /\ \A s \in Strategy : phase[s] # "unborn" => idOf[s] \in Id
  /\ registry \in [Id -> Strategy \cup {NoJob}]
  /\ isLocked \in [Id -> Lock]
  /\ counter \in 0..59
  /\ offset \in [Strategy -> 0..59]
  /\ running \in [Strategy -> 0..MaxOverlap]
  /\ stopping \in [StopRequest -> Id \cup {NoId}]

\* No orphan job: whatever execute and stop requests interleave, a cron job
\* that still fires is the one registered under its id, so that /stop reaches
\* it and at most one job trades for an id. (The awaits of run() and stop()
\* let requests for one id overlap.)
ActiveIsRegistered ==
  \A s \in Strategy : phase[s] = "active" => registry[idOf[s]] = s

InFlight(id) == {s \in Strategy : idOf[s] = id /\ running[s] > 0}

\* A held lock always has a next() in flight that will release it: no path
\* through stop, a failed addCronJob or a re-execution leaves it held by nobody.
HeldLockHasHolder ==
  \A id \in Id : isLocked[id] = "held" => InFlight(id) # {}

\* An execution lock is never held for ever, even when the next() that took it
\* hangs: the strategy can trade again or has been stopped.
LockIsReleased ==
  \A id \in Id : isLocked[id] = "held" ~> isLocked[id] # "held"

\* A stopped strategy stays stopped: a job that stopped never fires again, and
\* a strategy whose execution failed never gets a job.
StoppedForGood ==
  [][\A s \in Strategy :
       phase[s] \in {"stopped", "failed"} =>
         /\ phase'[s] = phase[s]
         /\ running'[s] <= running[s]]_vars

\* "Execution lock to ensure singleton": at most one next() of an id is in
\* flight at a time.
NextIsSingleton ==
  \A id \in Id : \A s, t \in InFlight(id) : s = t /\ running[s] = 1

\* "Defaults to 5 seconds for live trading": an active job fires five seconds
\* after each firing.
FiresEveryFiveSeconds ==
  \A s \in Strategy : phase[s] = "active" =>
    \A second \in FireSeconds(offset[s]) :
      (second + 5) % 60 \in FireSeconds(offset[s])
=============================================================================
