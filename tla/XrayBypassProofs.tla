-------------------------- MODULE XrayBypassProofs --------------------------
(***************************************************************************)
(* The readers of the olcrtc side-channel, for any number of               *)
(* configurations, attempts, stop threads and calls.  Whoever is inside Go *)
(* holds olcrtcLock, so the recorded port belongs to the client that runs  *)
(* except between its start and its readiness, and the mirrors follow Go   *)
(* whenever the lock is given back.                                        *)
(***************************************************************************)
EXTENDS XrayBypass, TLAPS

USE DEF goVars, mirrorVars, callVars, gateVars, svcVars, vars

InGo == {"attempt", "ready", "stopGo", "refresh"}

Exclusive == \A t \in Thread : pc[t] \in InGo => olcrtcLock = t

\* The port is recorded when the client is ready, and not before.
PortRecorded ==
    client # NoConfig /\ (\A t \in Thread : pc[t] # "ready")
        => client \in Config /\ olcrtcSocksPort = Port[client]

ReadyRuns == \A t \in Thread :
    /\ pc[t] = "ready" => client = config[t] /\ config[t] \in Config
    /\ pc[t] \in {"lock", "attempt"} => config[t] \in Config
    /\ pc[t] = "attempt" => client = NoConfig

Shape == /\ pc \in [Thread -> {"idle", "lock", "attempt", "ready", "stopGo", "refresh", "done"}]
         /\ config \in [Thread -> Config \cup {NoConfig}]
         /\ joined \in Stopper \cup {NoThread}
         /\ stored.olcrtc \in Config \cup {NoConfig}
         /\ lastBypassConfig \in Config \cup {NoConfig}

Inv == Shape /\ Exclusive /\ PortRecorded /\ ReadyRuns /\ MirrorsTruthful /\ NoStaleRunning

LEMMA InitInv == Init => Inv
<1> SUFFICES ASSUME Init PROVE Inv
  OBVIOUS
<1>1. Shape
  BY DEF Init, Shape, NothingStored
<1>2. Exclusive /\ PortRecorded /\ ReadyRuns /\ NoStaleRunning
  BY DEF Init, Exclusive, PortRecorded, ReadyRuns, NoStaleRunning, InGo
<1>3. MirrorsTruthful
  BY DEF Init, MirrorsTruthful
<1> QED BY <1>1, <1>2, <1>3 DEF Inv

\* What a call does to the gate, whoever makes it and whatever else it changes.
Stays == UNCHANGED <<joined, stored>>

LEMMA GateKeepsInv ==
    ASSUME Inv, NEW t \in Thread, InGate(t), Stays
    PROVE  Inv'
<1> USE BypassAssumption DEF Inv, Stays
<1>0. \A u \in Thread : u # NoThread
  BY DEF Thread
<1>1. CASE StartEnters(t) /\ config[t] \in Unparsable
  BY <1>1, <1>0 DEF StartEnters, StartReturns, Goto, Mirror, GetOlcrtcSocksPort, Shape, Exclusive,
     PortRecorded, ReadyRuns, MirrorsTruthful, NoStaleRunning, InGo
<1>2. CASE StartEnters(t) /\ config[t] \notin Unparsable
  BY <1>2, <1>0 DEF StartEnters, Goto, Shape, Exclusive,
     PortRecorded, ReadyRuns, MirrorsTruthful, NoStaleRunning, InGo
<1>3. ASSUME NEW code, AttemptFails(t, code), pc[t] \in {"attempt", "ready"},
             code # 0, config' = config
      PROVE  Inv'
  <2>1. CASE attempt[t] = 1
    BY <1>3, <2>1, <1>0 DEF AttemptFails, StartReturns, Goto, Mirror, GetOlcrtcSocksPort, Shape,
       Exclusive, PortRecorded, ReadyRuns, MirrorsTruthful, NoStaleRunning, InGo
  <2>2. CASE attempt[t] # 1
    BY <1>3, <2>2, <1>0 DEF AttemptFails, Goto, Shape, Exclusive, PortRecorded, ReadyRuns,
       MirrorsTruthful, NoStaleRunning, InGo
  <2> QED BY <2>1, <2>2
<1>4. CASE Attempt(t)
  <2>1. CASE AttemptFails(t, 2)
    BY <1>3, <1>4, <2>1 DEF Attempt
  <2>2. CASE ~AttemptFails(t, 2)
    BY <1>4, <2>2, <1>0 DEF Attempt, Goto, Shape, Exclusive, PortRecorded, ReadyRuns,
       MirrorsTruthful, NoStaleRunning, InGo
  <2> QED BY <2>1, <2>2
<1>5. CASE WaitReady(t)
  <2>1. CASE AttemptFails(t, 3)
    BY <1>3, <1>5, <2>1 DEF WaitReady
  <2>2. CASE ~AttemptFails(t, 3)
    BY <1>5, <2>2, <1>0 DEF WaitReady, StartReturns, Goto, Mirror, GetOlcrtcSocksPort, Shape,
       Exclusive, PortRecorded, ReadyRuns, MirrorsTruthful, NoStaleRunning, InGo
  <2> QED BY <2>1, <2>2
<1>6. CASE StopReturns(t)
  BY <1>6, <1>0 DEF StopReturns, Goto, Mirror, GetOlcrtcSocksPort, Shape, Exclusive,
     PortRecorded, ReadyRuns, MirrorsTruthful, NoStaleRunning, InGo
<1>7. CASE RefreshReturns(t)
  BY <1>7, <1>0 DEF RefreshReturns, Goto, Mirror, GetOlcrtcSocksPort, Shape, Exclusive,
     PortRecorded, ReadyRuns, MirrorsTruthful, NoStaleRunning, InGo
<1> QED BY <1>1, <1>2, <1>4, <1>5, <1>6, <1>7 DEF InGate

\* A call that begins or ends, or a step outside the gate.
LEMMA CallsKeepInv ==
    ASSUME Inv, NEW t \in Thread,
           \/ \E cfg \in Config : CallStart(t, cfg)
           \/ pc[t] = "idle" /\ StopEnters(t)
           \/ Refresh(t)
           \/ Returned(t)
           \/ UNCHANGED gateVars,
           joined' \in Stopper \cup {NoThread},
           stored'.olcrtc \in Config \cup {NoConfig}
    PROVE  Inv'
<1> USE DEF Inv
<1>0. \A u \in Thread : u # NoThread
  BY BypassAssumption DEF Thread
<1> USE DEF Goto, Shape, Exclusive, PortRecorded, ReadyRuns, MirrorsTruthful, NoStaleRunning, InGo
<1>1. ASSUME NEW cfg \in Config, CallStart(t, cfg) PROVE Inv'
  BY <1>1 DEF CallStart
<1>2. CASE pc[t] = "idle" /\ StopEnters(t) /\ olcrtcLock = NoThread
  BY <1>2, <1>0 DEF StopEnters
<1>3. CASE pc[t] = "idle" /\ StopEnters(t) /\ olcrtcLock # NoThread
  BY <1>3 DEF StopEnters
<1>4. CASE Refresh(t) /\ olcrtcLock = NoThread
  BY <1>4, <1>0 DEF Refresh
<1>5. CASE Refresh(t) /\ olcrtcLock # NoThread
  BY <1>5 DEF Refresh
<1>6. CASE Returned(t)
  BY <1>6 DEF Returned
<1>7. CASE UNCHANGED gateVars
  BY <1>7
<1> QED BY <1>1, <1>2, <1>3, <1>4, <1>5, <1>6, <1>7

LEMMA NextInv == Inv /\ [Next]_vars => Inv'
<1> SUFFICES ASSUME Inv, [Next]_vars PROVE Inv'
  OBVIOUS
<1>0. /\ "io" \in Thread /\ "js" \in Thread /\ "service" \in Thread
      /\ \A t \in Stopper : t \in Thread
      /\ joined \in Stopper \cup {NoThread}
      /\ stored.olcrtc \in Config \cup {NoConfig}
  BY DEF Thread, Inv, Shape
<1>1. CASE UNCHANGED vars
  BY <1>0, <1>1, CallsKeepInv
<1>2. ASSUME NEW t \in Thread, GateStep(t) PROVE Inv'
  BY <1>2, GateKeepsInv DEF GateStep, Stays
<1>3. CASE Js
  <2>1. CASE StartOlcrtc
    BY <1>0, <2>1, CallsKeepInv DEF StartOlcrtc
  <2>2. CASE StopOlcrtc
    BY <1>0, <2>2, CallsKeepInv DEF StopOlcrtc
  <2>3. CASE OlcrtcSettles \/ Connect \/ Look
    BY <1>0, <2>3, CallsKeepInv DEF OlcrtcSettles, Connect, Look
  <2>4. CASE ConnectDirect
    BY <1>0, <2>4, CallsKeepInv DEF ConnectDirect, SendStart
  <2>5. CASE StoppedForDirect
    BY <1>0, <2>5 DEF StoppedForDirect, SendStart, Inv, Shape, Exclusive, PortRecorded, ReadyRuns,
       MirrorsTruthful, NoStaleRunning, InGo
  <2>6. CASE ConnectOnly
    BY <1>0, <2>6, CallsKeepInv DEF ConnectOnly, SendStart
  <2> QED BY <1>3, <2>1, <2>2, <2>3, <2>4, <2>5, <2>6 DEF Js
<1>4. CASE Tap \/ LateStop
  BY <1>0, <1>4, CallsKeepInv DEF Tap, LateStop
<1>5. ASSUME NEW t \in Stopper, Teardown(t) PROVE Inv'
  BY <1>0, <1>5, CallsKeepInv DEF Teardown
<1>6. CASE Stop
  BY <1>5, <1>6 DEF Stop
<1>7. CASE Service
  <2>1. CASE Peeked
    <3>1. CASE Returned("service")
      BY <1>0, <2>1, <3>1, CallsKeepInv DEF Peeked
    <3>2. CASE ~Returned("service")
      BY <1>0, <2>1, <3>2 DEF Peeked, Inv, Shape, Exclusive, PortRecorded, ReadyRuns,
         MirrorsTruthful, NoStaleRunning, InGo
    <3> QED BY <3>1, <3>2
  <2>2. CASE StartBypassReturns
    BY <1>0, <2>2, CallsKeepInv DEF StartBypassReturns
  <2>3. CASE StartEngine
    <3>1. stored'.olcrtc \in Config \cup {NoConfig}
      BY <1>0, <2>3 DEF StartEngine, Inv, Shape
    <3> QED BY <1>0, <2>3, <3>1, CallsKeepInv DEF StartEngine
  <2>4. CASE StartFails
    BY <1>0, <1>5, <2>4, CallsKeepInv DEF StartFails
  <2>5. CASE JoinReturns \/ JoinTimesOut
    BY <1>0, <2>5 DEF JoinReturns, JoinTimesOut, JoinEnds, Goto, Inv, Shape, Exclusive,
       PortRecorded, ReadyRuns, MirrorsTruthful, NoStaleRunning, InGo
  <2>6. CASE StartBegins
    BY <1>0, <2>6, CallsKeepInv DEF StartBegins
  <2> QED BY <1>7, <2>1, <2>2, <2>3, <2>4, <2>5, <2>6 DEF Service
<1> QED BY <1>1, <1>2, <1>3, <1>4, <1>6, <1>7 DEF Next

\* With nobody inside Go, whoever reads the mirrors gets what Go would have answered.
THEOREM BypassMirrorsTruthful == Spec => []MirrorsTruthful
<1>1. Inv => MirrorsTruthful
  BY DEF Inv
<1> QED BY <1>1, InitInv, NextInv, PTL DEF Spec

\* No refresh puts a running bypass back into the mirrors behind a stop.
THEOREM BypassNoStaleRunning == Spec => []NoStaleRunning
<1>1. Inv => NoStaleRunning
  BY DEF Inv
<1> QED BY <1>1, InitInv, NextInv, PTL DEF Spec
-----------------------------------------------------------------------------
(* Types.                                                                  *)

\* A start that is not over has an attempt left.
GateType ==
    /\ client \in Config \cup {NoConfig} /\ olcrtcSocksPort \in Nat
    /\ bypassRunning \in BOOLEAN /\ bypassPort \in Nat
    /\ olcrtcLock \in Thread \cup {NoThread}
    /\ attempt \in [Thread -> 0..Retries] /\ result \in [Thread -> {0, 1, 2, 3}]
    /\ \A t \in Thread : pc[t] \in {"attempt", "ready"} => attempt[t] >= 1

SvcType ==
    /\ jsOp \in {"none", "startOlcrtc", "stopOlcrtc", "direct", "only", "sent", "sentChained",
               "start", "disconnect"}
    /\ svc \in {"idle", "peek", "bypass", "engine", "failed", "join"}
    /\ chained \in BOOLEAN
    /\ stored \in [xray : BOOLEAN, chained : BOOLEAN, olcrtc : Config \cup {NoConfig}]
    /\ calls \in Nat /\ taps \in Nat

TypeInv == Inv /\ GateType /\ SvcType

LEMMA TypeInvTypeOK == TypeInv => TypeOK
BY DEF TypeInv, Inv, Shape, GateType, SvcType, TypeOK

LEMMA InitType == Init => TypeInv
<1> SUFFICES ASSUME Init PROVE TypeInv
  OBVIOUS
<1>1. GateType
  <2>1. attempt \in [Thread -> 0..Retries] /\ result \in [Thread -> {0, 1, 2, 3}]
    BY BypassAssumption DEF Init
  <2>2. \A t \in Thread : pc[t] = "idle"
    BY DEF Init
  <2> QED BY <2>1, <2>2 DEF Init, GateType
<1>2. SvcType
  BY DEF Init, SvcType, NothingStored
<1> QED BY <1>1, <1>2, InitInv DEF TypeInv

LEMMA MirrorType ==
    ASSUME TypeInv, Mirror, client' \in Config \cup {NoConfig}, olcrtcSocksPort' \in Nat
    PROVE  bypassRunning' \in BOOLEAN /\ bypassPort' \in Nat
BY DEF Mirror, GetOlcrtcSocksPort

LEMMA GateKeepsType ==
    ASSUME TypeInv, NEW t \in Thread, InGate(t)
    PROVE  GateType'
<1> USE DEF TypeInv, GateType, Inv, Shape
<1>1. ASSUME NEW code \in {2, 3}, AttemptFails(t, code), pc[t] \in {"attempt", "ready"}
      PROVE  GateType'
  <2>1. /\ attempt[t] \in 1..Retries /\ client' = NoConfig /\ olcrtcSocksPort' = olcrtcSocksPort
        /\ attempt' = [attempt EXCEPT ![t] = attempt[t] - 1]
    BY <1>1 DEF AttemptFails
  <2>2. /\ attempt' \in [Thread -> 0..Retries]
        /\ \A u \in Thread \ {t} : attempt'[u] = attempt[u]
        /\ attempt[t] # 1 => attempt'[t] >= 1
    <3>1. PICK left \in 0..Retries : left = attempt[t] - 1
      BY <2>1, BypassAssumption
    <3>2. attempt' = [attempt EXCEPT ![t] = left]
      BY <2>1, <3>1
    <3>3. attempt' \in [Thread -> 0..Retries] /\ attempt'[t] = left
      BY <3>2
    <3>4. \A u \in Thread \ {t} : attempt'[u] = attempt[u]
      BY <3>2
    <3>5. attempt[t] # 1 => left >= 1
      BY <2>1, <3>1, BypassAssumption
    <3> QED BY <3>3, <3>4, <3>5
  <2>3. CASE attempt[t] = 1
    <3>1. Mirror /\ olcrtcLock' = NoThread /\ pc' = [pc EXCEPT ![t] = "done"]
          /\ result' = [result EXCEPT ![t] = code]
      BY <1>1, <2>3 DEF AttemptFails, StartReturns, Goto
    <3>2. \A u \in Thread : pc'[u] \in {"attempt", "ready"} => u # t /\ pc'[u] = pc[u]
      BY <3>1
    <3> QED BY <2>1, <2>2, <3>1, <3>2, MirrorType
  <2>4. CASE attempt[t] # 1
    <3>1. UNCHANGED <<mirrorVars, olcrtcLock, result>> /\ pc' = [pc EXCEPT ![t] = "attempt"]
      BY <1>1, <2>4 DEF AttemptFails, Goto
    <3>2. \A u \in Thread \ {t} : pc'[u] = pc[u]
      BY <3>1
    <3> QED BY <2>1, <2>2, <2>4, <3>1, <3>2
  <2> QED BY <2>3, <2>4
<1>2. CASE StartEnters(t)
  <2>1. CASE config[t] \in Unparsable
    BY <1>2, <2>1, MirrorType DEF StartEnters, StartReturns, Goto
  <2>2. CASE config[t] \notin Unparsable
    BY <1>2, <2>2, BypassAssumption DEF StartEnters, Goto
  <2> QED BY <2>1, <2>2
<1>3. CASE Attempt(t)
  <2>1. CASE AttemptFails(t, 2)
    BY <1>1, <1>3, <2>1 DEF Attempt
  <2>2. CASE ~AttemptFails(t, 2)
    BY <1>3, <2>2 DEF Attempt, Goto, ReadyRuns
  <2> QED BY <2>1, <2>2
<1>4. CASE WaitReady(t)
  <2>1. CASE AttemptFails(t, 3)
    BY <1>1, <1>4, <2>1 DEF WaitReady
  <2>2. CASE ~AttemptFails(t, 3)
    <3>1. olcrtcSocksPort' \in Nat
      BY <1>4, <2>2, BypassAssumption DEF WaitReady, ReadyRuns
    <3> QED BY <1>4, <2>2, <3>1, MirrorType DEF WaitReady, StartReturns, Goto
  <2> QED BY <2>1, <2>2
<1>5. CASE StopReturns(t)
  BY <1>5, MirrorType DEF StopReturns, Goto
<1>6. CASE RefreshReturns(t)
  BY <1>6, MirrorType DEF RefreshReturns, Goto
<1> QED BY <1>2, <1>3, <1>4, <1>5, <1>6 DEF InGate

LEMMA CallsKeepType ==
    ASSUME TypeInv, NEW t \in Thread,
           \/ \E cfg \in Config : CallStart(t, cfg)
           \/ pc[t] = "idle" /\ StopEnters(t)
           \/ Refresh(t)
           \/ Returned(t)
           \/ UNCHANGED gateVars
    PROVE  GateType'
<1> USE DEF TypeInv, GateType, Inv, Shape
<1>1. CASE \E cfg \in Config : CallStart(t, cfg)
  BY <1>1 DEF CallStart, Goto
<1>2. CASE pc[t] = "idle" /\ StopEnters(t)
  <2>1. CASE olcrtcLock = NoThread
    <3>1. /\ pc' = [pc EXCEPT ![t] = "stopGo"] /\ olcrtcLock' = t
          /\ bypassRunning' = FALSE /\ bypassPort' = 0
          /\ UNCHANGED <<client, olcrtcSocksPort, attempt, result>>
      BY <1>2, <2>1 DEF StopEnters, Goto
    <3>2. \A u \in Thread : pc'[u] \in {"attempt", "ready"} => pc[u] = pc'[u]
      BY <3>1
    <3> QED BY <3>1, <3>2
  <2>2. CASE olcrtcLock # NoThread
    <3>1. /\ pc' = [pc EXCEPT ![t] = "done"]
          /\ UNCHANGED <<client, olcrtcSocksPort, bypassRunning, bypassPort, olcrtcLock, attempt,
                         result>>
      BY <1>2, <2>2 DEF StopEnters, Goto
    <3>2. \A u \in Thread : pc'[u] \in {"attempt", "ready"} => pc[u] = pc'[u]
      BY <3>1
    <3> QED BY <3>1, <3>2
  <2> QED BY <2>1, <2>2
<1>3. CASE Refresh(t)
  BY <1>3 DEF Refresh, Goto
<1>4. CASE Returned(t)
  BY <1>4 DEF Returned, Goto
<1>5. CASE UNCHANGED gateVars
  BY <1>5
<1> QED BY <1>1, <1>2, <1>3, <1>4, <1>5

LEMMA StepType == TypeInv /\ [Next]_vars => TypeInv'
<1> SUFFICES ASSUME TypeInv, [Next]_vars PROVE TypeInv'
  OBVIOUS
<1>0. /\ "io" \in Thread /\ "js" \in Thread /\ "service" \in Thread
      /\ \A t \in Stopper : t \in Thread
  BY DEF Thread
<1>1. Inv'
  BY NextInv DEF TypeInv
<1>2. GateType'
  <2>1. CASE UNCHANGED vars
    BY <1>0, <2>1, CallsKeepType
  <2>2. ASSUME NEW t \in Thread, GateStep(t) PROVE GateType'
    BY <2>2, GateKeepsType DEF GateStep
  <2>3. CASE StartOlcrtc \/ StopOlcrtc \/ OlcrtcSettles \/ Connect \/ Look \/ Tap \/ LateStop
    BY <1>0, <2>3, CallsKeepType
       DEF StartOlcrtc, StopOlcrtc, OlcrtcSettles, Connect, Look, Tap, LateStop
  <2>4. CASE ConnectDirect \/ ConnectOnly \/ StartBegins \/ StartBypassReturns \/ StartEngine
    BY <1>0, <2>4, CallsKeepType
       DEF ConnectDirect, ConnectOnly, StartBegins, StartBypassReturns, StartEngine
  <2>5. CASE Stop \/ StartFails
    BY <1>0, <2>5, CallsKeepType DEF Stop, StartFails, Teardown
  <2>6. CASE StoppedForDirect
    BY <1>0, <2>6 DEF StoppedForDirect, TypeInv, GateType, Inv, Shape
  <2>7. CASE Peeked
    <3>1. CASE Returned("service")
      BY <1>0, <3>1, CallsKeepType
    <3>2. CASE ~Returned("service")
      BY <1>0, <2>7, <3>2 DEF Peeked, TypeInv, GateType, Inv, Shape
    <3> QED BY <3>1, <3>2
  <2>8. CASE JoinReturns \/ JoinTimesOut
    BY <1>0, <2>8 DEF JoinReturns, JoinTimesOut, JoinEnds, Goto, TypeInv, GateType, Inv, Shape
  <2> QED BY <2>1, <2>2, <2>3, <2>4, <2>5, <2>6, <2>7, <2>8 DEF Next, Js, Service
<1>3. SvcType'
  <2> USE DEF TypeInv, SvcType
  <2>1. CASE Js
    <3>1. CASE StartOlcrtc \/ StopOlcrtc \/ OlcrtcSettles \/ Connect \/ Look
      BY <3>1 DEF StartOlcrtc, StopOlcrtc, OlcrtcSettles, Connect, Look, Call
    <3>2. CASE ConnectDirect \/ StoppedForDirect \/ ConnectOnly
      BY <3>2 DEF ConnectDirect, StoppedForDirect, ConnectOnly, SendStart
    <3> QED BY <2>1, <3>1, <3>2 DEF Js
  <2>2. CASE Tap \/ Stop \/ LateStop
    <3>1. CASE Tap
      BY <3>1 DEF Tap
    <3>2. CASE Stop \/ LateStop
      BY <3>2 DEF Stop, LateStop, Teardown, Call
    <3> QED BY <2>2, <3>1, <3>2
  <2>3. CASE Service
    <3>1. CASE StartEngine
      <4>1. stored' \in [xray : BOOLEAN, chained : BOOLEAN, olcrtc : Config \cup {NoConfig}]
        <5>1. \/ stored' = stored
              \/ stored' = [xray |-> TRUE, chained |-> chained, olcrtc |-> lastBypassConfig]
          BY <3>1 DEF StartEngine
        <5>2. PICK bypass \in Config \cup {NoConfig} : bypass = lastBypassConfig
          BY DEF Inv, Shape
        <5>3. PICK through \in BOOLEAN : through = chained
          OBVIOUS
        <5>4. stored \in [xray : BOOLEAN, chained : BOOLEAN, olcrtc : Config \cup {NoConfig}]
          OBVIOUS
        <5>5. CASE stored' = [xray |-> TRUE, chained |-> through, olcrtc |-> bypass]
          BY <5>5
        <5> QED BY <5>1, <5>2, <5>3, <5>4, <5>5
      <4>2. jsOp' \in {"none", jsOp} /\ svc' \in {"idle", "failed"} /\ UNCHANGED <<chained, calls, taps>>
        BY <3>1 DEF StartEngine
      <4> QED BY <4>1, <4>2
    <3>2. CASE StartBegins \/ Peeked \/ StartBypassReturns \/ StartFails
      BY <3>2 DEF StartBegins, Peeked, StartBypassReturns, StartFails, Teardown
    <3>3. CASE JoinReturns \/ JoinTimesOut
      BY <3>3 DEF JoinReturns, JoinTimesOut, JoinEnds
    <3> QED BY <2>3, <3>1, <3>2, <3>3 DEF Service
  <2>4. CASE (\E t \in Thread : GateStep(t)) \/ UNCHANGED vars
    BY <2>4 DEF GateStep
  <2> QED BY <2>1, <2>2, <2>3, <2>4 DEF Next
<1> QED BY <1>1, <1>2, <1>3 DEF TypeInv

\* Whatever attempts fail and whichever thread ends them, none is made that is not left.
THEOREM BypassTypeCorrect == Spec => []TypeOK
BY InitType, StepType, TypeInvTypeOK, PTL DEF Spec
-----------------------------------------------------------------------------
(* What connectOlcrtcOnly() dials.                                         *)

Starting == {"lock", "attempt", "ready"}

\* The port JS is told while a reader asks Go is that of the client that runs.
MirrorsHold == /\ bypassRunning = (client # NoConfig)
               /\ bypassPort = IF client = NoConfig THEN 0 ELSE Port[client]

\* Whoever starts the bypass is the call JS awaits, or the service for a quick connect, and
\* whoever has the lock is in Go.
StartersInv ==
    /\ \A t \in Thread : pc[t] \in Starting => t \in {"io", "service"}
    /\ pc["io"] \in Starting => jsOp = "startOlcrtc"
    /\ (\E t \in Thread : pc[t] = "refresh") => MirrorsHold
    /\ olcrtcLock # NoThread => olcrtcLock \in Thread /\ pc[olcrtcLock] \in InGo

LEMMA GateKeepsStarters ==
    ASSUME Inv, StartersInv, NEW t \in Thread, InGate(t), UNCHANGED jsOp
    PROVE  StartersInv'
<1>1. \A u \in Thread : u # NoThread
  BY BypassAssumption DEF Thread
<1>2. /\ pc \in [Thread -> {"idle", "lock", "attempt", "ready", "stopGo", "refresh", "done"}]
      /\ \A u \in Thread : pc[u] \in InGo => olcrtcLock = u
  BY DEF Inv, Shape, Exclusive
<1>3. /\ pc[t] \in {"lock", "attempt", "ready", "stopGo", "refresh"}
      /\ olcrtcLock \in {t, NoThread}
      /\ pc[t] = "lock" => olcrtcLock = NoThread
      /\ pc[t] # "lock" => olcrtcLock = t
  BY <1>2 DEF InGate, StartEnters, Attempt, WaitReady, StopReturns, RefreshReturns, InGo
<1>4. \/ pc' = [pc EXCEPT ![t] = "done"] /\ olcrtcLock' = NoThread
      \/ /\ pc' = [pc EXCEPT ![t] = "attempt"] /\ pc[t] = "lock" /\ olcrtcLock' = t
      \/ /\ pc' = [pc EXCEPT ![t] = "attempt"] /\ pc[t] \in {"attempt", "ready"}
         /\ olcrtcLock' = olcrtcLock
      \/ /\ pc' = [pc EXCEPT ![t] = "ready"] /\ pc[t] = "attempt" /\ olcrtcLock' = olcrtcLock
  <2>1. ASSUME NEW code, AttemptFails(t, code)
        PROVE  \/ pc' = [pc EXCEPT ![t] = "done"] /\ olcrtcLock' = NoThread
               \/ pc' = [pc EXCEPT ![t] = "attempt"] /\ olcrtcLock' = olcrtcLock
    BY <2>1 DEF AttemptFails, StartReturns, Goto
  <2>2. CASE StartEnters(t)
    BY <2>2 DEF StartEnters, StartReturns, Goto
  <2>3. CASE Attempt(t) \/ WaitReady(t)
    BY <2>1, <2>3 DEF Attempt, WaitReady, StartReturns, Goto
  <2>4. CASE StopReturns(t) \/ RefreshReturns(t)
    BY <2>4 DEF StopReturns, RefreshReturns, Goto
  <2> QED
    BY <2>2, <2>3, <2>4 DEF InGate
<1>5. \A u \in Thread : u # t => pc'[u] = pc[u]
  BY <1>2, <1>4
<1>6. \A u \in Thread : pc'[u] # "refresh"
  <2>1. \A u \in Thread : u # t => pc[u] # "refresh"
    BY <1>1, <1>2, <1>3 DEF InGo
  <2>2. pc'[t] # "refresh"
    BY <1>2, <1>4
  <2> QED
    BY <1>5, <2>1, <2>2
<1>7. \A u \in Thread : pc'[u] \in Starting => pc[u] \in Starting
  BY <1>2, <1>4, <1>5 DEF Starting
<1>8. olcrtcLock' # NoThread => olcrtcLock' = t /\ pc'[t] \in InGo
  BY <1>2, <1>3, <1>4 DEF InGo
<1>9. "io" \in Thread
  BY DEF Thread
<1> QED
  BY <1>6, <1>7, <1>8, <1>9 DEF StartersInv

LEMMA CallsKeepStarters ==
    ASSUME Inv, StartersInv, NEW t \in Thread,
           \/ pc[t] = "idle" /\ StopEnters(t)
           \/ Refresh(t)
           \/ Returned(t)
           \/ UNCHANGED gateVars,
           jsOp = "startOlcrtc" => jsOp' = "startOlcrtc" \/ pc["io"] \notin Starting
    PROVE  StartersInv'
<1>1. \A u \in Thread : u # NoThread
  BY BypassAssumption DEF Thread
<1>2. /\ pc \in [Thread -> {"idle", "lock", "attempt", "ready", "stopGo", "refresh", "done"}]
      /\ \A u \in Thread : pc[u] \in InGo => olcrtcLock = u
      /\ olcrtcLock = NoThread => MirrorsHold
  BY DEF Inv, Shape, Exclusive, MirrorsTruthful, MirrorsHold
<1>3. "io" \in Thread
  BY DEF Thread
<1>4. CASE pc' = [pc EXCEPT ![t] = pc'[t]] /\ pc'[t] \in {"idle", "done"} /\ pc[t] \in {"idle", "done"}
           /\ UNCHANGED <<goVars, mirrorVars, olcrtcLock>>
  <2>1. \A u \in Thread : pc'[u] \in Starting \cup InGo => pc'[u] = pc[u]
    BY <1>2, <1>4 DEF Starting, InGo
  <2>2. \A u \in Thread : pc[u] \in InGo => pc'[u] = pc[u]
    BY <1>2, <1>4 DEF InGo
  <2>3. (\E u \in Thread : pc'[u] = "refresh") => MirrorsHold
    BY <2>1 DEF StartersInv, InGo
  <2>4. MirrorsHold' <=> MirrorsHold
    BY <1>4 DEF MirrorsHold
  <2> QED
    BY <1>3, <1>4, <2>1, <2>2, <2>3, <2>4 DEF StartersInv
<1>5. CASE /\ olcrtcLock = NoThread /\ olcrtcLock' = t /\ UNCHANGED client
           /\ \/ pc' = [pc EXCEPT ![t] = "stopGo"]
              \/ pc' = [pc EXCEPT ![t] = "refresh"] /\ UNCHANGED mirrorVars
  <2>1. \A u \in Thread : pc[u] \notin InGo
    BY <1>1, <1>2, <1>5
  <2>2. \A u \in Thread : pc'[u] \in Starting => pc'[u] = pc[u]
    BY <1>2, <1>5 DEF Starting
  <2>3. (\E u \in Thread : pc'[u] = "refresh") => MirrorsHold /\ UNCHANGED mirrorVars
    BY <1>2, <1>5, <2>1 DEF InGo
  <2>4. UNCHANGED mirrorVars => (MirrorsHold' <=> MirrorsHold)
    BY <1>5 DEF MirrorsHold
  <2>5. pc'[t] \in InGo
    BY <1>2, <1>5 DEF InGo
  <2> QED
    BY <1>3, <1>5, <2>2, <2>3, <2>4, <2>5 DEF StartersInv
<1>6. CASE UNCHANGED gateVars
  BY <1>3, <1>6 DEF StartersInv, MirrorsHold
<1>7. CASE pc[t] = "idle" /\ StopEnters(t)
  <2>1. CASE olcrtcLock = NoThread
    BY <1>5, <1>7, <2>1 DEF StopEnters, Goto
  <2>2. CASE olcrtcLock # NoThread
    BY <1>2, <1>4, <1>7, <2>2 DEF StopEnters, Goto
  <2> QED
    BY <2>1, <2>2
<1>8. CASE Refresh(t)
  <2>1. CASE olcrtcLock = NoThread
    BY <1>5, <1>8, <2>1 DEF Refresh, Goto
  <2>2. CASE olcrtcLock # NoThread
    BY <1>2, <1>4, <1>8, <2>2 DEF Refresh, Goto
  <2> QED
    BY <2>1, <2>2
<1>9. CASE Returned(t)
  BY <1>2, <1>4, <1>9 DEF Returned, Goto
<1> QED
  BY <1>6, <1>7, <1>8, <1>9

LEMMA StepStarters == Inv /\ StartersInv /\ [Next]_vars => StartersInv'
<1> SUFFICES ASSUME Inv, StartersInv, [Next]_vars PROVE StartersInv'
  OBVIOUS
<1>0. /\ "io" \in Thread /\ "js" \in Thread /\ "service" \in Thread
      /\ \A t \in Stopper : t \in Thread
  BY DEF Thread
<1>1. /\ pc \in [Thread -> {"idle", "lock", "attempt", "ready", "stopGo", "refresh", "done"}]
      /\ joined \in Stopper \cup {NoThread}
  BY DEF Inv, Shape
<1>2. ASSUME UNCHANGED <<goVars, mirrorVars, olcrtcLock>>,
             pc' \in [Thread -> {"idle", "lock", "attempt", "ready", "stopGo", "refresh", "done"}],
             \A t \in Thread : pc'[t] # pc[t] => /\ pc[t] \in {"idle", "done"}
                                                 /\ pc'[t] \in {"idle", "lock"},
             \A t \in Thread : pc'[t] # pc[t] /\ pc'[t] = "lock"
                => t = "service" \/ (t = "io" /\ jsOp' = "startOlcrtc"),
             pc["io"] \in Starting => jsOp' = jsOp
      PROVE  StartersInv'
  <2>1. \A t \in Thread : pc[t] \in InGo \/ pc'[t] \in InGo => pc'[t] = pc[t]
    BY <1>2 DEF InGo
  <2>2. \A t \in Thread : pc'[t] \in Starting => pc'[t] = pc[t] \/ pc'[t] = "lock"
    BY <1>2 DEF Starting
  <2>3. MirrorsHold' <=> MirrorsHold
    BY <1>2 DEF MirrorsHold
  <2>4. (\E t \in Thread : pc'[t] = "refresh") => MirrorsHold
    BY <2>1 DEF StartersInv, InGo
  <2>5. pc'["io"] \in Starting => jsOp' = "startOlcrtc"
    BY <1>0, <1>2, <2>2 DEF StartersInv
  <2>6. \A t \in Thread : pc'[t] \in Starting => t \in {"io", "service"}
    BY <1>2, <2>2 DEF StartersInv
  <2>7. olcrtcLock' # NoThread => olcrtcLock' \in Thread /\ pc'[olcrtcLock'] \in InGo
    BY <1>2, <2>1 DEF StartersInv
  <2> QED
    BY <2>3, <2>4, <2>5, <2>6, <2>7 DEF StartersInv
<1>3. CASE UNCHANGED vars
  BY <1>0, <1>3, CallsKeepStarters
<1>4. ASSUME NEW t \in Thread, GateStep(t) PROVE StartersInv'
  BY <1>4, GateKeepsStarters DEF GateStep
<1>5. CASE Js
  <2>1. CASE StartOlcrtc
    <3>1. /\ pc["io"] = "idle" /\ pc' = [pc EXCEPT !["io"] = "lock"]
          /\ jsOp' = "startOlcrtc" /\ UNCHANGED <<goVars, mirrorVars, olcrtcLock>>
      BY <2>1 DEF StartOlcrtc, Call, CallStart, Goto
    <3> QED
      BY <1>0, <1>1, <1>2, <3>1 DEF Starting
  <2>2. CASE StopOlcrtc
    BY <1>0, <2>2, CallsKeepStarters DEF StopOlcrtc, JsFree
  <2>3. CASE OlcrtcSettles
    BY <1>0, <2>3, CallsKeepStarters DEF OlcrtcSettles, Returned, Starting
  <2>4. CASE Connect \/ Look
    BY <1>0, <2>4, CallsKeepStarters DEF Connect, Look, JsFree
  <2>5. CASE ConnectDirect
    BY <1>0, <2>5, CallsKeepStarters DEF ConnectDirect, SendStart
  <2>6. CASE StoppedForDirect
    <3>1. /\ pc["io"] = "done" /\ pc["js"] = "done"
          /\ pc' = [pc EXCEPT !["io"] = "idle", !["js"] = "idle"]
          /\ UNCHANGED <<goVars, mirrorVars, olcrtcLock>>
      BY <2>6 DEF StoppedForDirect
    <3> QED
      BY <1>0, <1>1, <1>2, <3>1 DEF Starting
  <2>7. CASE ConnectOnly
    BY <1>0, <2>7, CallsKeepStarters DEF ConnectOnly, SendStart
  <2> QED
    BY <1>5, <2>1, <2>2, <2>3, <2>4, <2>5, <2>6, <2>7 DEF Js
<1>6. CASE Tap \/ LateStop
  BY <1>0, <1>6, CallsKeepStarters DEF Tap, LateStop
<1>7. ASSUME NEW t \in Stopper, Teardown(t),
             jsOp = "startOlcrtc" => jsOp' = "startOlcrtc"
      PROVE  StartersInv'
  BY <1>0, <1>7, CallsKeepStarters DEF Teardown
<1>8. CASE Stop
  BY <1>7, <1>8 DEF Stop, JsFree
<1>9. CASE Service
  <2>1. CASE StartBegins \/ StartEngine
    BY <1>0, <2>1, CallsKeepStarters DEF StartBegins, StartEngine
  <2>2. CASE Peeked
    <3>1. CASE Returned("service")
      BY <1>0, <2>2, <3>1, CallsKeepStarters DEF Peeked
    <3>2. CASE ~Returned("service")
      <4>1. pc["service"] = "done" /\ pc' = [pc EXCEPT !["service"] = "lock"] /\ jsOp' = jsOp
        BY <2>2, <3>2 DEF Peeked
      <4>2. UNCHANGED <<goVars, mirrorVars, olcrtcLock>>
        BY <2>2, <3>2 DEF Peeked
      <4>3. \A t \in Thread : pc'[t] # pc[t] => t = "service"
        BY <1>1, <4>1
      <4>4. pc'["service"] = "lock"
        BY <1>0, <1>1, <4>1
      <4>5. pc' \in [Thread -> {"idle", "lock", "attempt", "ready", "stopGo", "refresh", "done"}]
        BY <1>1, <4>1
      <4> QED
        BY <1>2, <4>1, <4>2, <4>3, <4>4, <4>5
    <3> QED
      BY <3>1, <3>2
  <2>3. CASE StartBypassReturns
    BY <1>0, <2>3, CallsKeepStarters DEF StartBypassReturns
  <2>4. CASE StartFails
    BY <1>0, <1>7, <2>4, CallsKeepStarters DEF StartFails
  <2>5. CASE JoinReturns \/ JoinTimesOut
    <3>1. \/ pc' = pc
          \/ pc' = [pc EXCEPT ![joined] = "idle"] /\ pc[joined] = "done"
      BY <2>5 DEF JoinReturns, JoinTimesOut, Goto
    <3>2. UNCHANGED <<goVars, mirrorVars, olcrtcLock>>
      BY <2>5 DEF JoinReturns, JoinTimesOut, JoinEnds
    <3>3. jsOp = "startOlcrtc" => jsOp' = jsOp
      BY <2>5 DEF JoinReturns, JoinTimesOut, JoinEnds
    <3>4. pc["io"] \in Starting => jsOp' = jsOp
      BY <3>3 DEF StartersInv
    <3> QED
      BY <1>0, <1>1, <1>2, <3>1, <3>2, <3>4
  <2> QED
    BY <1>9, <2>1, <2>2, <2>3, <2>4, <2>5 DEF Service
<1> QED
  BY <1>3, <1>4, <1>5, <1>6, <1>8, <1>9 DEF Next

\* JS dials when its reader has answered: with the lock free the answer is what runs; a
\* stop that holds it has published its zero; and a start that holds it is not JS's own.
LEMMA DialsWhatRuns ==
    ASSUME Inv, StartersInv, jsOp = "only", bypassPort > 0
    PROVE  \/ client # NoConfig /\ Port[client] = bypassPort
           \/ pc["service"] \in {"attempt", "ready"}
<1>1. CASE olcrtcLock = NoThread
  BY <1>1 DEF Inv, MirrorsTruthful
<1>2. CASE olcrtcLock # NoThread
  <2>1. PICK t \in Thread : t = olcrtcLock /\ pc[t] \in InGo
    BY <1>2 DEF StartersInv
  <2>2. pc[t] # "stopGo"
    BY <2>1 DEF Inv, NoStaleRunning
  <2>3. CASE pc[t] = "refresh"
    BY <2>3 DEF StartersInv, MirrorsHold
  <2>4. CASE pc[t] \in {"attempt", "ready"}
    BY <2>1, <2>4 DEF StartersInv, Starting
  <2> QED
    BY <2>1, <2>2, <2>3, <2>4 DEF InGo
<1> QED
  BY <1>1, <1>2

\* connectOlcrtcOnly() dials the port its client listens on, unless a quick connect is
\* starting another one over it.
THEOREM BypassDialsLivePort == Spec => DialsLivePort
<1> DEFINE Live == \/ client # NoConfig /\ Port[client] = bypassPort
                   \/ pc["service"] \in {"attempt", "ready"}
<1>1. Init => StartersInv
  BY DEF Init, StartersInv, Starting, Thread
<1>2. ASSUME Inv, StartersInv, [Next]_vars
      PROVE  [jsOp = "only" /\ jsOp' = "sentChained" => Live]_vars
  <2> SUFFICES ASSUME Next, jsOp = "only", jsOp' = "sentChained" PROVE Live
    BY <1>2
  <2>1. ConnectOnly
    BY DEF Next, Js, Service, StartOlcrtc, StopOlcrtc, OlcrtcSettles, Connect, Look, ConnectDirect,
       StoppedForDirect, Tap, Stop, StartBegins, Peeked, StartBypassReturns, StartEngine,
       StartFails, Teardown, JoinReturns, JoinTimesOut, JoinEnds, LateStop, GateStep, JsFree, Call,
       SendStart
  <2>2. bypassPort > 0
    BY <2>1 DEF ConnectOnly
  <2> QED
    BY <1>2, <2>2, DialsWhatRuns
<1> QED
  BY <1>1, <1>2, InitInv, NextInv, StepStarters, PTL DEF Spec, DialsLivePort
=============================================================================
