-------------------------- MODULE XrayEngineProofs --------------------------
(***************************************************************************)
(* XrayEngine keeps EngineContract, for any number of callers and calls.   *)
(***************************************************************************)
EXTENDS XrayEngine, TLAPS

USE DEF goVars, callVars, vars

\* Whoever is in Go has the lock, and nothing it looked at has changed since.
Exclusive ==
    \A c \in Caller :
        /\ pc[c] = "inGo" => xrayLock = Me(c) /\ found[c] = runningServer
        /\ stopper[c] = "inGo" => xrayLock = Stop(c)

LEMMA ThreadsDiffer ==
    \A b, c \in Caller : /\ Me(b) = Me(c) => b = c
                         /\ Stop(b) = Stop(c) => b = c
                         /\ Me(b) # Stop(c)
                         /\ Me(b) # Free /\ Stop(b) # Free
BY DEF Me, Stop, Free

LEMMA InitTypes == Init => TypeOK
<1> SUFFICES ASSUME Init PROVE TypeOK
  OBVIOUS
<1>1. [kind |-> "none", fd |-> NoFd] \in Call
  BY DEF Call
<1>2. call \in [Caller -> Call]
  BY <1>1 DEF Init
<1>3. result \in [Caller -> Result]
  BY DEF Init, Result
<1> QED BY <1>2, <1>3 DEF Init, TypeOK

LEMMA NextTypes == TypeOK /\ [Next]_vars => TypeOK'
<1> SUFFICES ASSUME TypeOK, [Next]_vars PROVE TypeOK'
  OBVIOUS
<1> USE DEF TypeOK
<1>0. \A c, kind, f, label :
          /\ c \in Caller
          /\ [kind |-> kind, fd |-> f] \in Call
          /\ label \in {"lock", "join"}
          /\ Begin(c, kind, f, label)
          => /\ pc' \in [Caller -> {"idle", "lock", "inGo", "join", "verdict"}]
             /\ call' \in [Caller -> Call] /\ result' \in [Caller -> Result] /\ calls' \in Nat
             /\ UNCHANGED <<goVars, isWedged, xrayLock>>
  BY DEF Begin, Result
<1>1. ASSUME NEW c \in Caller, CallStart(c) \/ CallStats(c) \/ CallStop(c)
      PROVE  TypeOK'
  <2>1. \A f \in Fds : [kind |-> "start", fd |-> f] \in Call
    BY DEF Call
  <2>2. [kind |-> "stats", fd |-> NoFd] \in Call /\ [kind |-> "stop", fd |-> NoFd] \in Call
    BY DEF Call
  <2>3. stopper' \in [Caller -> {"none", "lock", "inGo", "ended"}]
    BY <1>1 DEF CallStart, CallStats, CallStop
  <2> QED BY <1>0, <1>1, <2>1, <2>2, <2>3 DEF CallStart, CallStats, CallStop
<1>2. ASSUME NEW c \in Caller, CallerStep(c)
      PROVE  TypeOK'
  <2>1. CASE EnterGo(c)
    BY <2>1 DEF EnterGo, Acquire, Me, Thread
  <2>2. CASE LockBusy(c) \/ Wedge(c)
    BY <2>2 DEF LockBusy, Wedge, Return, Result
  <2>3. CASE JoinReturns(c) \/ JoinTimesOut(c)
    BY <2>3 DEF JoinReturns, JoinTimesOut
  <2> QED BY <1>2, <2>1, <2>2, <2>3 DEF CallerStep
<1>3. ASSUME NEW c \in Caller, StartReturns(c) \/ StatsReturns(c)
      PROVE  TypeOK'
  <2>1. call[c].kind = "start" => call[c].fd \in Fds
    BY DEF Call
  <2> QED BY <1>3, <2>1 DEF StartReturns, StatsReturns, LeaveGo, Return, Result
<1>4. ASSUME NEW c \in Caller, StopEntersGo(c) \/ StopGivesUp(c) \/ StopLeavesGo(c)
      PROVE  TypeOK'
  BY <1>4 DEF StopEntersGo, StopGivesUp, StopLeavesGo, Acquire, Stop, Thread, Result
<1>5. CASE UNCHANGED vars
  BY <1>5
<1> QED BY <1>1, <1>2, <1>3, <1>4, <1>5 DEF Next

\* The gate's variables keep their types.
THEOREM EngineTypeCorrect == Spec => []TypeOK
BY InitTypes, NextTypes, PTL DEF Spec

LEMMA InitExclusive == Init => Exclusive
BY DEF Init, Exclusive

LEMMA NextExclusive == TypeOK /\ Exclusive /\ [Next]_vars => Exclusive'
<1> SUFFICES ASSUME TypeOK, Exclusive, [Next]_vars PROVE Exclusive'
  OBVIOUS
<1> USE ThreadsDiffer DEF TypeOK, Exclusive
<1>1. ASSUME NEW c \in Caller, CallStart(c) \/ CallStats(c) \/ CallStop(c)
      PROVE  Exclusive'
  BY <1>1 DEF CallStart, CallStats, CallStop, Begin
<1>2. ASSUME NEW c \in Caller, CallerStep(c)
      PROVE  Exclusive'
  BY <1>2 DEF CallerStep, EnterGo, LockBusy, JoinReturns, JoinTimesOut, Wedge, Return, Acquire
<1>3. ASSUME NEW c \in Caller, StartReturns(c) \/ StatsReturns(c)
      PROVE  Exclusive'
  BY <1>3 DEF StartReturns, StatsReturns, LeaveGo, Return
<1>4. ASSUME NEW c \in Caller, StopEntersGo(c) \/ StopGivesUp(c) \/ StopLeavesGo(c)
      PROVE  Exclusive'
  BY <1>4 DEF StopEntersGo, StopGivesUp, StopLeavesGo, Acquire
<1>5. CASE UNCHANGED vars
  BY <1>5
<1> QED BY <1>1, <1>2, <1>3, <1>4, <1>5 DEF Next

\* Every step of the gate is a step of the contract, or none.
LEMMA NextContract == TypeOK /\ Exclusive /\ [Next]_vars => [Contract!Next]_(Contract!engineVars)
<1> SUFFICES ASSUME TypeOK, Exclusive, [Next]_vars
             PROVE  [Contract!Next]_(Contract!engineVars)
  OBVIOUS
<1> USE DEF Contract!engineVars
<1>1. ASSUME NEW c \in Caller, StartReturns(c)
      PROVE  [Contract!Next]_(Contract!engineVars)
  <2>1. call[c].kind = "start" => call[c].fd \in Fds
    BY DEF TypeOK, Call
  <2>2. pc[c] = "inGo" /\ UNCHANGED isWedged
    BY <1>1 DEF StartReturns, LeaveGo
  <2>3. found[c] = runningServer
    BY <2>2 DEF Exclusive
  <2> QED BY <1>1, <2>1, <2>2, <2>3 DEF StartReturns, Contract!Next, Contract!StartEngine
<1>2. ASSUME NEW c \in Caller, StopLeavesGo(c)
      PROVE  [Contract!Next]_(Contract!engineVars)
  BY <1>2 DEF StopLeavesGo, TypeOK, Contract!Next, Contract!StopEngine, Contract!LateStop
<1>3. ASSUME NEW c \in Caller, Wedge(c)
      PROVE  [Contract!Next]_(Contract!engineVars)
  BY <1>3 DEF Wedge, Contract!Next, Contract!StopEngineWedged
<1>4. ASSUME NEW c \in Caller,
             \/ CallStart(c) \/ CallStats(c) \/ CallStop(c) \/ StatsReturns(c)
             \/ EnterGo(c) \/ LockBusy(c) \/ JoinReturns(c) \/ JoinTimesOut(c)
             \/ StopEntersGo(c) \/ StopGivesUp(c)
      PROVE  UNCHANGED <<runningServer, isWedged>>
  BY <1>4 DEF CallStart, CallStats, CallStop, Begin, StatsReturns, LeaveGo, EnterGo, LockBusy,
              JoinReturns, JoinTimesOut, StopEntersGo, StopGivesUp
<1>5. CASE UNCHANGED vars
  BY <1>5
<1> QED BY <1>1, <1>2, <1>3, <1>4, <1>5 DEF Next, CallerStep

\* The gate implements the contract XrayVpnService is built on, for any number of
\* threads in startEngine, stopEngineBounded and stats at once, also with stops that
\* were abandoned inside Go.
THEOREM EngineImplementsContract == Spec => ImplementsContract
<1>1. Init => Contract!EngineInit
  BY DEF Init, Contract!EngineInit
<1> QED
  BY <1>1, InitTypes, NextTypes, InitExclusive, NextExclusive, NextContract, PTL
     DEF Spec, ImplementsContract, Contract!Spec
-----------------------------------------------------------------------------
\* A stop thread that ended within its call went through Go.
Joined == \A c \in Caller : pc[c] = "join" =>
              /\ stopper[c] # "none"
              /\ stopper[c] = "ended" => result[c] \in {"ok", "failed"}

LEMMA NextJoined ==
    ASSUME LockWait > StopWait
    PROVE  TypeOK /\ Joined /\ [Next]_vars => Joined'
<1> SUFFICES ASSUME TypeOK, Joined, [Next]_vars PROVE Joined'
  OBVIOUS
<1> USE DEF TypeOK, Joined
<1>1. ASSUME NEW c \in Caller, CallStart(c) \/ CallStats(c) \/ CallStop(c)
      PROVE  Joined'
  BY <1>1 DEF CallStart, CallStats, CallStop, Begin
<1>2. ASSUME NEW c \in Caller, CallerStep(c)
      PROVE  Joined'
  BY <1>2 DEF CallerStep, EnterGo, LockBusy, JoinReturns, JoinTimesOut, Wedge, Return
<1>3. ASSUME NEW c \in Caller, StartReturns(c) \/ StatsReturns(c)
      PROVE  Joined'
  BY <1>3 DEF StartReturns, StatsReturns, LeaveGo, Return
<1>4. ASSUME NEW c \in Caller, StopEntersGo(c) \/ StopGivesUp(c) \/ StopLeavesGo(c)
      PROVE  Joined'
  BY <1>4 DEF StopEntersGo, StopGivesUp, StopLeavesGo
<1>5. CASE UNCHANGED vars
  BY <1>5
<1> QED BY <1>1, <1>2, <1>3, <1>4, <1>5 DEF Next

\* With LOCK_WAIT_MS above ENGINE_STOP_TIMEOUT_MS, as they are, stopEngineBounded never
\* returns ERR_BUSY: a caller that is not told ERR_WEDGED has had its stop run in Go.
THEOREM EngineStopMeansStopped == LockWait > StopWait => (Spec => StopMeansStopped)
<1> SUFFICES ASSUME LockWait > StopWait PROVE Spec => StopMeansStopped
  OBVIOUS
<1>1. Init => Joined
  BY DEF Init, Joined
<1>2. ASSUME TypeOK, Joined, [Next]_vars
      PROVE  [\A c \in Caller : pc[c] = "join" /\ pc'[c] = "idle"
                                    => result'[c] \in {"ok", "failed"}]_vars
  <2> SUFFICES ASSUME NEW c \in Caller, pc[c] = "join", pc'[c] = "idle"
               PROVE  result'[c] \in {"ok", "failed"}
    OBVIOUS
  <2>1. JoinReturns(c)
    BY <1>2 DEF TypeOK, Next, CallStart, CallStats, CallStop, Begin, CallerStep, EnterGo, LockBusy,
                JoinReturns, JoinTimesOut, Wedge, Return, StartReturns, StatsReturns, LeaveGo,
                StopEntersGo, StopGivesUp, StopLeavesGo
  <2> QED BY <1>2, <2>1 DEF JoinReturns, Joined
<1> QED
  BY <1>1, <1>2, InitTypes, NextTypes, NextJoined, PTL DEF Spec, StopMeansStopped
=============================================================================
