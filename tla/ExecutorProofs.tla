--------------------------- MODULE ExecutorProofs ---------------------------
(***************************************************************************)
(* Proofs about the executor, for any sets of ids, strategies and stop     *)
(* requests: types, no orphan job, a held lock has a holder, and a stopped *)
(* strategy stays stopped.                                                 *)
(***************************************************************************)
EXTENDS Executor, TLAPS

\* A registered job was built by a strategy executed under that very id, and
\* has been started.
RegisteredIsOwn ==
  \A id \in Id : Registered(id) =>
    /\ idOf[registry[id]] = id
    /\ phase[registry[id]] \in {"active", "stopped"}

\* A strategy object that was never executed has no next() in flight.
UnbornIsIdle == \A s \in Strategy : phase[s] = "unborn" => running[s] = 0

\* The inductive invariant: ActiveIsRegistered needs RegisteredIsOwn (else
\* Unregister could stop one job and forget another), HeldLockHasHolder needs
\* UnbornIsIdle (else Execute could move a holder to another id).
IInv ==
  /\ TypeOK
  /\ RegisteredIsOwn
  /\ ActiveIsRegistered
  /\ UnbornIsIdle
  /\ HeldLockHasHolder

USE NoIdAssumption, NoJobAssumption, MaxOverlapAssumption, StartCounterAssumption

-----------------------------------------------------------------------------
\* Every initial state satisfies the inductive invariant.
LEMMA InitEstablishes == Init => IInv
  BY DEF Init, IInv, TypeOK, Phase, Lock, RegisteredIsOwn, Registered,
     ActiveIsRegistered, UnbornIsIdle, HeldLockHasHolder

\* The counter stays a second of the minute.
LEMMA CounterInRange == counter \in 0..59 => NextCounter \in 0..59
  BY DEF NextCounter

\* Deleting a registered job keeps the parts that relate jobs to the registry.
LEMMA UnregisterKeepsIInv ==
  ASSUME IInv, NEW id \in Id, Registered(id), Unregister(id),
         UNCHANGED <<idOf, counter, offset, running>>,
         stopping' \in [StopRequest -> Id \cup {NoId}]
  PROVE  IInv'
<1> USE DEF IInv, Unregister
<1>1. registry[id] \in Strategy
  BY DEF TypeOK, Registered
<1>2. TypeOK'
  BY <1>1 DEF TypeOK, Phase, Lock, RegisteredIsOwn
<1>3. RegisteredIsOwn'
  BY <1>1 DEF TypeOK, RegisteredIsOwn, Registered
<1>4. ActiveIsRegistered'
  BY <1>1 DEF TypeOK, RegisteredIsOwn, Registered, ActiveIsRegistered
<1>5. UnbornIsIdle'
  BY <1>1 DEF TypeOK, UnbornIsIdle
<1>6. HeldLockHasHolder'
  BY <1>1 DEF TypeOK, HeldLockHasHolder, InFlight
<1> QED
  BY <1>2, <1>3, <1>4, <1>5, <1>6

\* Every step keeps the inductive invariant.
LEMMA NextKeepsIInv == IInv /\ [Next]_vars => IInv'
<1> SUFFICES ASSUME IInv, [Next]_vars
             PROVE  IInv'
  OBVIOUS
<1> USE DEF IInv
<1>1. ASSUME NEW s \in Strategy, NEW id \in Id, Execute(s, id)
      PROVE  IInv'
  <2> USE <1>1 DEF Execute
  <2>1. TypeOK'
    BY DEF TypeOK, Phase
  <2>2. RegisteredIsOwn'
    BY DEF TypeOK, RegisteredIsOwn, Registered
  <2>3. ActiveIsRegistered'
    BY DEF TypeOK, ActiveIsRegistered
  <2>4. UnbornIsIdle'
    BY DEF TypeOK, UnbornIsIdle
  <2>5. HeldLockHasHolder'
    BY DEF TypeOK, UnbornIsIdle, HeldLockHasHolder, InFlight
  <2> QED
    BY <2>1, <2>2, <2>3, <2>4, <2>5
<1>2. ASSUME NEW s \in Strategy, InitCrashes(s)
      PROVE  IInv'
  <2> USE <1>2 DEF InitCrashes
  <2>1. TypeOK'
    BY DEF TypeOK, Phase
  <2>2. RegisteredIsOwn'
    BY DEF TypeOK, RegisteredIsOwn, Registered
  <2>3. ActiveIsRegistered' /\ UnbornIsIdle'
    BY DEF TypeOK, ActiveIsRegistered, UnbornIsIdle
  <2>4. HeldLockHasHolder'
    BY DEF HeldLockHasHolder, InFlight
  <2> QED
    BY <2>1, <2>2, <2>3, <2>4
<1>3. ASSUME NEW s \in Strategy, InitReturns(s)
      PROVE  IInv'
  <2> USE <1>3 DEF InitReturns
  <2>1. idOf[s] \in Id
    BY DEF TypeOK
  <2>2. TypeOK'
    BY <2>1, CounterInRange DEF TypeOK, Phase, Lock
  <2>3. RegisteredIsOwn'
    BY <2>1 DEF TypeOK, RegisteredIsOwn, Registered
  <2>4. ActiveIsRegistered'
    BY <2>1 DEF TypeOK, ActiveIsRegistered, Registered
  <2>5. UnbornIsIdle'
    BY DEF TypeOK, UnbornIsIdle
  <2>6. HeldLockHasHolder'
    BY <2>1 DEF TypeOK, HeldLockHasHolder, InFlight
  <2> QED
    BY <2>2, <2>3, <2>4, <2>5, <2>6
<1>4. ASSUME NEW s \in Strategy, TickStarts(s)
      PROVE  IInv'
  <2> USE <1>4 DEF TickStarts
  <2>1. idOf[s] \in Id
    BY DEF TypeOK
  <2>2. TypeOK'
    BY <2>1 DEF TypeOK, Lock
  <2>3. RegisteredIsOwn' /\ ActiveIsRegistered'
    BY DEF RegisteredIsOwn, Registered, ActiveIsRegistered
  <2>4. UnbornIsIdle'
    BY DEF TypeOK, UnbornIsIdle
  <2>5. HeldLockHasHolder'
    BY <2>1 DEF TypeOK, HeldLockHasHolder, InFlight
  <2> QED
    BY <2>2, <2>3, <2>4, <2>5
<1>5. ASSUME NEW s \in Strategy, TickSkips(s)
      PROVE  IInv'
  <2> USE <1>5 DEF TickSkips
  <2>1. TypeOK'
    BY DEF TypeOK, Lock
  <2>2. RegisteredIsOwn' /\ ActiveIsRegistered' /\ UnbornIsIdle'
    BY DEF RegisteredIsOwn, Registered, ActiveIsRegistered, UnbornIsIdle
  <2>3. HeldLockHasHolder'
    BY DEF TypeOK, HeldLockHasHolder, InFlight
  <2> QED
    BY <2>1, <2>2, <2>3
<1>6. ASSUME NEW s \in Strategy, NextReturns(s)
      PROVE  IInv'
  <2> USE <1>6 DEF NextReturns
  <2>1. idOf[s] \in Id
    BY DEF TypeOK, UnbornIsIdle
  <2>2. TypeOK'
    BY <2>1 DEF TypeOK, Lock
  <2>3. RegisteredIsOwn' /\ ActiveIsRegistered'
    BY DEF RegisteredIsOwn, Registered, ActiveIsRegistered
  <2>4. UnbornIsIdle'
    BY DEF TypeOK, UnbornIsIdle
  <2>5. HeldLockHasHolder'
    BY <2>1 DEF TypeOK, HeldLockHasHolder, InFlight
  <2> QED
    BY <2>2, <2>3, <2>4, <2>5
<1>7. ASSUME NEW q \in StopRequest, NEW id \in Id, StopActive(q, id)
      PROVE  IInv'
  <2> USE <1>7 DEF StopActive, IsRunning
  <2>1. registry[id] \in Strategy
    BY DEF TypeOK, Registered
  <2>2. TypeOK'
    BY <2>1 DEF TypeOK, Phase
  <2>3. RegisteredIsOwn' /\ ActiveIsRegistered' /\ UnbornIsIdle'
    BY <2>1 DEF TypeOK, RegisteredIsOwn, Registered, ActiveIsRegistered,
       UnbornIsIdle
  <2>4. HeldLockHasHolder'
    BY DEF HeldLockHasHolder, InFlight
  <2> QED
    BY <2>2, <2>3, <2>4
<1>8. ASSUME NEW q \in StopRequest, StopResumes(q)
      PROVE  IInv'
  <2> USE <1>8 DEF StopResumes
  <2>1. stopping[q] \in Id /\ stopping' \in [StopRequest -> Id \cup {NoId}]
    BY DEF TypeOK
  <2>2. CASE Registered(stopping[q])
    BY <2>1, <2>2, UnregisterKeepsIInv
  <2>3. CASE ~Registered(stopping[q])
    BY <2>1, <2>3 DEF TypeOK, RegisteredIsOwn, Registered, ActiveIsRegistered,
       UnbornIsIdle, HeldLockHasHolder, InFlight
  <2> QED
    BY <2>2, <2>3
<1>9. ASSUME NEW q \in StopRequest, NEW id \in Id, StopInactive(q, id)
      PROVE  IInv'
  <2>1. stopping' \in [StopRequest -> Id \cup {NoId}]
    BY <1>9 DEF StopInactive, TypeOK
  <2> QED
    BY <1>9, <2>1, UnregisterKeepsIInv DEF StopInactive
<1>10. CASE UNCHANGED vars
  BY <1>10 DEF vars, TypeOK, RegisteredIsOwn, Registered, ActiveIsRegistered,
     UnbornIsIdle, HeldLockHasHolder, InFlight
<1> QED
  BY <1>1, <1>2, <1>3, <1>4, <1>5, <1>6, <1>7, <1>8, <1>9, <1>10 DEF Next

\* The inductive invariant holds in every reachable state.
THEOREM IInvHolds == Spec => []IInv
<1> QED
  BY InitEstablishes, NextKeepsIInv, PTL DEF Spec

-----------------------------------------------------------------------------
\* Every variable of the executor keeps its type.
THEOREM TypeCorrect == Spec => []TypeOK
<1>1. IInv => TypeOK
  BY DEF IInv
<1> QED
  BY IInvHolds, <1>1, PTL

\* However executes and stops interleave, a job that fires is the registered
\* one of its id: /stop reaches it, and no two jobs trade under one id.
THEOREM NoOrphanJob == Spec => []ActiveIsRegistered
<1>1. IInv => ActiveIsRegistered
  BY DEF IInv
<1> QED
  BY IInvHolds, <1>1, PTL

\* A held execution lock has a next() in flight to release it.
THEOREM LockHasHolder == Spec => []HeldLockHasHolder
<1>1. IInv => HeldLockHasHolder
  BY DEF IInv
<1> QED
  BY IInvHolds, <1>1, PTL

\* A stopped or failed strategy never fires, nor comes back to life.
THEOREM StoppedStaysStopped == Spec => StoppedForGood
<1> DEFINE Stays ==
      \A s \in Strategy :
        phase[s] \in {"stopped", "failed"} =>
          /\ phase'[s] = phase[s]
          /\ running'[s] <= running[s]
<1>1. ASSUME IInv, [Next]_vars
      PROVE  [Stays]_vars
  <2> SUFFICES ASSUME Next, NEW s \in Strategy, phase[s] \in {"stopped", "failed"}
               PROVE  phase'[s] = phase[s] /\ running'[s] <= running[s]
    BY <1>1
  <2> USE <1>1 DEF IInv, TypeOK
  <2>1. running[s] \in Nat
    OBVIOUS
  <2>2. ASSUME NEW id \in Id, Registered(id)
        PROVE  registry[id] \in Strategy /\ phase[registry[id]] # "failed"
    BY <2>2 DEF Registered, RegisteredIsOwn
  <2>3. CASE \E t \in Strategy, id \in Id : Execute(t, id)
    BY <2>1, <2>3 DEF Execute
  <2>4. CASE \E t \in Strategy : InitCrashes(t) \/ InitReturns(t)
    BY <2>1, <2>4 DEF InitCrashes, InitReturns
  <2>5. CASE \E t \in Strategy : TickStarts(t) \/ TickSkips(t) \/ NextReturns(t)
    BY <2>1, <2>5 DEF TickStarts, TickSkips, NextReturns
  <2>6. CASE \E q \in StopRequest, id \in Id : StopActive(q, id) \/ StopInactive(q, id)
    BY <2>1, <2>2, <2>6 DEF StopActive, StopInactive, IsRunning, Unregister
  <2>7. CASE \E q \in StopRequest : StopResumes(q)
    BY <2>1, <2>2, <2>7 DEF StopResumes, Unregister
  <2> QED
    BY <2>3, <2>4, <2>5, <2>6, <2>7 DEF Next
<1> QED
  BY <1>1, IInvHolds, PTL DEF Spec, StoppedForGood
=============================================================================
