----------------------- MODULE XrayVpnServiceProofs -----------------------
(***************************************************************************)
(* What holds of XrayVpnService for any number of service objects, calls,  *)
(* commands, revocations and destructions: the types, and that the service *)
(* uses the bus as XrayStateBus allows for, so that what that module       *)
(* promises of the promises holds here.                                    *)
(***************************************************************************)
EXTENDS XrayVpnService, SequenceTheorems, TLAPS

USE DEF flagVars, engineVars, busVars, prefVars, tunVars, cmdVars, threadVars,
        amsVars, netVars, boundVars, jsVars, vars, outside, effectVars, notJs
-----------------------------------------------------------------------------
(* Types.                                                                  *)

\* Bus!TypeOK without the tokens the workers hold.
BusTypeOK ==
    /\ pendingStart \in StartCall \cup {None}
    /\ pendingStartToken \in Nat /\ startTokenSeq \in Nat
    /\ tokenOf \in [StartCall -> Nat]
    /\ startPromise \in [StartCall -> {"new", "armed", "ok", "failed"}]
    /\ pendingStop \in StopCall \cup {None}
    /\ stopPromise \in [StopCall -> {"new", "armed", "done"}]
    /\ fired \in [StartCall \cup StopCall -> Nat]

\* The threads that were started are the first ones, and each serves an object.
Threads ==
    \A w \in Worker : /\ pc[w] # "none" <=> w <= spawned
                      /\ pc[w] # "none" => Obj(w) \in Object

Types == /\ Threads /\ ProcessTypeOK /\ ObjectTypeOK /\ ThreadTypeOK /\ SystemTypeOK
         /\ CallerTypeOK /\ BusTypeOK

LEMMA BoundTypes ==
    /\ Object \subseteq Nat /\ Worker \subseteq Nat
    /\ StartCall \subseteq Nat /\ StopCall \subseteq Nat
    /\ None \notin Object /\ None \notin Worker
    /\ None \notin StartCall /\ None \notin StopCall
    /\ StartCall \cap StopCall = {}
BY BoundsAssumption DEF Object, Worker, StartCall, StopCall, None

LEMMA TypesIsTypeOK == Types <=> TypeOK /\ Threads
<1>1. ASSUME ThreadTypeOK
      PROVE  {worker[w].token : w \in {v \in 1..spawned :
                                         worker[v].kind \in {"start", "stop"}}} \subseteq Nat
  <2>1. 1..spawned \subseteq Worker
    BY <1>1, BoundsAssumption DEF ThreadTypeOK, Worker, None
  <2> QED
    BY <1>1, <2>1 DEF ThreadTypeOK, WorkerRecord
<1> QED BY <1>1 DEF Types, TypeOK, BusTypeOK, Bus!TypeOK

LEMMA ResolveStartTypes ==
    ASSUME BusTypeOK, NEW token, NEW success \in BOOLEAN, Bus!ResolveStart(token, success)
    PROVE  BusTypeOK'
BY DEF BusTypeOK, Bus!ResolveStart, Bus!Settled, Bus!Invoke, Bus!busVars, Bus!startVars, Bus!stopVars

LEMMA ResolveStopTypes ==
    ASSUME BusTypeOK, Bus!ResolveStop
    PROVE  BusTypeOK'
BY DEF BusTypeOK, Bus!ResolveStop, Bus!Settled, Bus!Invoke, Bus!startVars

LEMMA SetPendingStartTypes ==
    ASSUME BusTypeOK, NEW c \in StartCall, Bus!SetPendingStart(c)
    PROVE  BusTypeOK'
BY DEF BusTypeOK, Bus!SetPendingStart, Bus!Settled, Bus!Invoke, Bus!stopVars

LEMMA SetPendingStopTypes ==
    ASSUME BusTypeOK, NEW c \in StopCall, Bus!SetPendingStop(c)
    PROVE  BusTypeOK'
BY DEF BusTypeOK, Bus!SetPendingStop, Bus!Settled, Bus!Invoke, Bus!startVars

LEMMA InitTypes == Init => Types
<1> SUFFICES ASSUME Init PROVE Types
  OBVIOUS
<1>1. ProcessTypeOK
  BY BoundsAssumption DEF Init, ProcessTypeOK, Engine!EngineInit, Event
<1>2. ObjectTypeOK
  BY DEF Init, ObjectTypeOK
<1>3. ThreadTypeOK
  <2>1. IdleWorker \in WorkerRecord
    BY DEF IdleWorker, WorkerRecord, Kind, Reason, None
  <2>2. pc \in [Worker -> Label]
    BY DEF Init, Label
  <2> QED BY <2>1, <2>2 DEF Init, ThreadTypeOK, None
<1>4. SystemTypeOK
  <2>1. <<>> \in Seq(Message)
    OBVIOUS
  <2> QED BY <2>1 DEF Init, SystemTypeOK, None
<1>5. CallerTypeOK
  BY DEF Init, CallerTypeOK
<1>6. BusTypeOK
  BY DEF Init, BusTypeOK, Bus!BusInit
<1>7. Threads
  BY BoundTypes DEF Init, Threads, None
<1> QED BY <1>1, <1>2, <1>3, <1>4, <1>5, <1>6, <1>7 DEF Types

\* The shape of every step of a worker: it moves on, it may note something in its
\* locals, it may take or give back the lock, and it leaves the outside alone.
Labelled(w)  == pc[w] # "none" /\ \E label \in Label \ {"none"} : Goto(w, label)
Noted(w)     == \/ UNCHANGED worker
                \/ \E f \in Worker \cup {None} : TakeTun(w, f)
                \/ \E reason \in Reason : Because(w, reason)
Locked(w)    == Enter(w) \/ Leave(w) \/ UNCHANGED engineLock

LEMMA StepShape ==
    ASSUME Types, NEW w \in Worker, WorkerStep(w)
    PROVE  Labelled(w) /\ Noted(w) /\ Locked(w) /\ UNCHANGED outside
<1>0. \A label \in {"halt", "tun", "install", "check", "bypass", "engine", "verify", "publish",
                    "fail", "hold", "error", "stopEngine", "dropTunnel", "after", "settle",
                    "done"} : pc[w] # "none" /\ Goto(w, label) => Labelled(w)
  BY DEF Labelled, Label
<1>1. Because(w, "destroyed") \/ Because(w, "superseded") \/ Because(w, "failed") => Noted(w)
  BY DEF Noted, Reason
<1>2. TakeTun(w, w) \/ UNCHANGED worker => Noted(w)
  BY DEF Noted
<1>3. CASE ReuseTun(w)
  <2>1. Obj(w) \in Object => tunnel[Obj(w)] \in Worker \cup {None}
    BY DEF Types, ObjectTypeOK
  <2>2. Obj(w) \in Object
    BY <1>3 DEF ReuseTun, At, Types, Threads
  <2> QED BY <1>0, <1>3, <2>1, <2>2 DEF ReuseTun, Noted, Locked, At
<1>4. CASE StartSuperseded(w) \/ StopSuperseded(w) \/ StartBegins(w) \/ StopBegins(w) \/ TeardownBegins(w)
  BY <1>0, <1>1, <1>2, <1>4
     DEF StartSuperseded, StopSuperseded, StartBegins, StopBegins, TeardownBegins, Locked, At
<1>5. CASE Halt(w) \/ Establish(w) \/ EstablishFails(w) \/ InstallTun(w) \/ CheckDestroyed(w)
  BY <1>0, <1>1, <1>2, <1>5
     DEF Halt, Establish, EstablishFails, InstallTun, CheckDestroyed, Locked, At
<1>6. CASE StartBypass(w) \/ StartEngine(w) \/ Verify(w) \/ Publish(w) \/ DecideFailure(w)
  BY <1>0, <1>1, <1>2, <1>6
     DEF StartBypass, StartEngine, Verify, Publish, DecideFailure, Locked, At
<1>7. CASE HoldTunnel(w) \/ ReportError(w) \/ StopEngineBounded(w) \/ DropTunnel(w)
  BY <1>0, <1>1, <1>2, <1>7
     DEF HoldTunnel, ReportError, StopEngineBounded, DropTunnel, Locked, At
<1>8. CASE AfterStart(w) \/ AfterStop(w) \/ AfterDestroy(w) \/ SettleStop(w)
  BY <1>0, <1>1, <1>2, <1>8
     DEF AfterStart, AfterStop, AfterDestroy, SettleStop, Locked, At
<1> QED BY <1>3, <1>4, <1>5, <1>6, <1>7, <1>8 DEF WorkerStep

LEMMA WorkerStepThreads ==
    ASSUME Types, NEW w \in Worker, WorkerStep(w)
    PROVE  ThreadTypeOK' /\ Threads' /\ CallerTypeOK'
<1>1. Labelled(w) /\ Noted(w) /\ UNCHANGED outside
  BY StepShape
<1>2. worker' \in [Worker -> WorkerRecord] /\ \A v \in Worker : Obj(v)' = Obj(v)
  BY <1>1 DEF Noted, Types, ThreadTypeOK, WorkerRecord, TakeTun, Because, Obj
<1>3. PICK label \in Label \ {"none"} : Goto(w, label)
  BY <1>1 DEF Labelled
<1>4. pc[w] # "none"
  BY <1>1 DEF Labelled
<1>5. pc' = [pc EXCEPT ![w] = label]
  BY <1>3 DEF Goto
<1>6. ThreadTypeOK'
  BY <1>1, <1>2, <1>5 DEF Types, ThreadTypeOK
<1>7. Threads'
  BY <1>1, <1>2, <1>4, <1>5 DEF Types, ThreadTypeOK, Threads
<1>8. CallerTypeOK'
  BY <1>1 DEF Types, CallerTypeOK
<1> QED BY <1>6, <1>7, <1>8

LEMMA WorkerStepProcess ==
    ASSUME Types, NEW w \in Worker, WorkerStep(w)
    PROVE  ProcessTypeOK'
<1>1. killSwitch' = killSwitch
  BY StepShape
<1>2. CASE StartBegins(w) \/ Verify(w) \/ InstallTun(w) \/ HoldTunnel(w) \/ DropTunnel(w)
  BY <1>1, <1>2 DEF StartBegins, Verify, InstallTun, HoldTunnel, DropTunnel,
                    Types, ProcessTypeOK, Event
<1>3. CASE Halt(w) \/ StopEngineBounded(w)
  BY <1>1, <1>3 DEF Halt, StopEngineBounded, Engine!StopEngine, Engine!StopEngineWedged,
                    Types, ProcessTypeOK, Event
<1>4. CASE StartEngine(w)
  BY <1>1, <1>4 DEF StartEngine, Engine!StartEngine, Engine!StartEngineFails, Engine!engineVars,
                    Types, ProcessTypeOK, ThreadTypeOK, WorkerRecord
<1>5. CASE Publish(w)
  BY <1>1, <1>5 DEF Publish, Types, ProcessTypeOK, ThreadTypeOK, WorkerRecord, Event
<1>6. CASE ReportError(w) \/ AfterStop(w)
  BY <1>1, <1>6 DEF ReportError, AfterStop, Types, ProcessTypeOK, Event
<1>7. CASE UNCHANGED <<flagVars, engineVars, lastEvent, stored>>
  BY <1>1, <1>7 DEF Types, ProcessTypeOK
<1> QED
  BY <1>2, <1>3, <1>4, <1>5, <1>6, <1>7
     DEF WorkerStep, StartSuperseded, StopSuperseded, StopBegins, TeardownBegins, ReuseTun,
         Establish, EstablishFails, CheckDestroyed, StartBypass, DecideFailure, AfterStart,
         AfterDestroy, SettleStop

LEMMA WorkerStepObject ==
    ASSUME Types, NEW w \in Worker, WorkerStep(w)
    PROVE  ObjectTypeOK'
<1>1. UNCHANGED <<commandSeq, destroyed>> /\ Locked(w)
  BY StepShape
<1>2. engineLock' \in [Object -> Worker \cup {None}]
  BY <1>1 DEF Locked, Enter, Leave, Types, ObjectTypeOK
<1>3. CASE InstallTun(w)
  BY <1>1, <1>2, <1>3 DEF InstallTun, Types, ObjectTypeOK, ThreadTypeOK, WorkerRecord
<1>4. CASE DropTunnel(w)
  BY <1>1, <1>2, <1>4 DEF DropTunnel, Types, ObjectTypeOK
<1>5. CASE UNCHANGED <<tunVars, tunnelRevoked>>
  BY <1>1, <1>2, <1>5 DEF Types, ObjectTypeOK
<1> QED
  BY <1>3, <1>4, <1>5
     DEF WorkerStep, StartSuperseded, StopSuperseded, StartBegins, StopBegins, TeardownBegins,
         Halt, ReuseTun, Establish, EstablishFails, CheckDestroyed, StartBypass, StartEngine,
         Verify, Publish, DecideFailure, HoldTunnel, ReportError, StopEngineBounded, AfterStart,
         AfterStop, AfterDestroy, SettleStop

LEMMA WorkerStepSystem ==
    ASSUME Types, NEW w \in Worker, WorkerStep(w)
    PROVE  SystemTypeOK'
<1>1. UNCHANGED outside
  BY StepShape
<1>2. CASE Establish(w)
  BY <1>1, <1>2 DEF Establish, Types, SystemTypeOK
<1>3. CASE InstallTun(w) \/ DropTunnel(w)
  BY <1>1, <1>3 DEF InstallTun, DropTunnel, Types, SystemTypeOK
<1>4. CASE AfterStart(w) \/ AfterStop(w)
  BY <1>1, <1>4 DEF AfterStart, AfterStop, StopSelf, StopSelfNow, Types, SystemTypeOK
<1>5. CASE UNCHANGED <<startRequested, iface, fd, kept>>
  BY <1>1, <1>5 DEF Types, SystemTypeOK
<1>6. CASE StartEngine(w)
  BY <1>1, <1>6 DEF StartEngine, GoCopies, Types, SystemTypeOK
<1> QED
  BY <1>2, <1>3, <1>4, <1>5, <1>6
     DEF WorkerStep, StartSuperseded, StopSuperseded, StartBegins, StopBegins, TeardownBegins,
         Halt, ReuseTun, EstablishFails, CheckDestroyed, StartBypass,
         Verify, Publish, DecideFailure, HoldTunnel, ReportError, StopEngineBounded,
         AfterDestroy, SettleStop

LEMMA WorkerStepBus ==
    ASSUME Types, NEW w \in Worker, WorkerStep(w)
    PROVE  BusTypeOK'
<1>0. BusTypeOK
  BY DEF Types
<1>1. CASE \E token \in Nat, success \in BOOLEAN : Bus!ResolveStart(token, success)
  BY <1>0, <1>1, ResolveStartTypes
<1>2. CASE Bus!ResolveStop
  BY <1>0, <1>2, ResolveStopTypes
<1>3. CASE UNCHANGED busVars
  BY <1>0, <1>3 DEF BusTypeOK
<1>4. worker[w].token \in Nat
  BY DEF Types, ThreadTypeOK, WorkerRecord
<1> QED
  BY <1>1, <1>2, <1>3, <1>4
     DEF WorkerStep, StartSuperseded, StopSuperseded, StartBegins, StopBegins, TeardownBegins,
         Halt, ReuseTun, Establish, EstablishFails, InstallTun, CheckDestroyed, StartBypass,
         StartEngine, Verify, Publish, DecideFailure, HoldTunnel, ReportError,
         StopEngineBounded, DropTunnel, AfterStart, AfterStop, AfterDestroy, SettleStop

\* A thread that is started: the next one, with the locals it is given.
LEMMA SpawnTypes ==
    ASSUME Types, NEW kind \in Kind \ {"none"}, NEW m, NEW dns \in DnsServers \cup {NoDns},
           NEW o \in Object, NEW seq \in Nat, NEW token \in Nat,
           m.startId \in Nat, (m.kind = "startLast") \in BOOLEAN, m.call \in StartCall \cup {None},
           kind = "start" => dns \in DnsServers,
           Spawn(kind, m, dns, o, seq, token)
    PROVE  ThreadTypeOK' /\ Threads'
<1> DEFINE r == [kind |-> kind, object |-> o, seq |-> seq, token |-> token,
                 startId |-> m.startId, fromStore |-> m.kind = "startLast", dns |-> dns,
                 call |-> m.call, tunFd |-> None, reason |-> "command"]
<1>1. r \in WorkerRecord
  BY DEF WorkerRecord, Reason
<1>2. r.object = o
  OBVIOUS
<1> HIDE DEF r
<1>3. /\ spawned + 1 \in Worker /\ spawned' = spawned + 1
      /\ worker' = [worker EXCEPT ![spawned + 1] = r]
      /\ pc' = [pc EXCEPT ![spawned + 1] = "queued"]
  BY DEF Spawn, r
<1>4. ThreadTypeOK'
  BY <1>1, <1>3 DEF Types, ThreadTypeOK, Label
<1>5. \A v \in Worker : v <= spawned + 1 <=> v <= spawned \/ v = spawned + 1
  BY BoundTypes DEF Types, ThreadTypeOK, None
<1>6. Threads'
  BY <1>2, <1>3, <1>5 DEF Types, ThreadTypeOK, Threads, Obj
<1> QED BY <1>4, <1>6

LEMMA DequeueTypes ==
    ASSUME Types, mainQueue # <<>>, Dequeue
    PROVE  /\ Head0 \in Message
           /\ mainQueue' \in Seq(Message) /\ current' \in Object \cup {None}
           /\ created' \in Object \cup {None} /\ lastStartId' \in Nat
<1>1. mainQueue \in Seq(Message)
  BY DEF Types, SystemTypeOK
<1>2. Head(mainQueue) \in Message /\ Tail(mainQueue) \in Seq(Message)
  BY <1>1, HeadTailProperties
<1>3. Head0 = Head(mainQueue)
  BY <1>1 DEF Head0
<1> QED BY <1>2, <1>3 DEF Dequeue, Types, SystemTypeOK

LEMMA AcceptTypes ==
    ASSUME Types, mainQueue # <<>>, NEW kind \in {"start", "stop"}, NEW event \in Event,
           kind = "start" => CommandDns # NoDns,
           Accept(kind, event)
    PROVE  Types'
<1>1. /\ Head0 \in Message
      /\ mainQueue' \in Seq(Message) /\ current' \in Object \cup {None}
      /\ created' \in Object \cup {None} /\ lastStartId' \in Nat
  BY DequeueTypes DEF Accept
<1>2. /\ Head0.object \in Object /\ Head0.startId \in Nat
      /\ Head0.call \in StartCall \cup {None} /\ Head0.dns \in DnsServers \cup {NoDns}
  BY <1>1 DEF Message
<1>3. CommandDns \in DnsServers \cup {NoDns}
  BY <1>2 DEF CommandDns, Types, ProcessTypeOK
<1>4. commandSeq[Head0.object] + 1 \in Nat /\ pendingStartToken \in Nat
  BY <1>2 DEF Types, ObjectTypeOK, BusTypeOK
<1>5. Spawn(kind, Head0, CommandDns, Head0.object, commandSeq[Head0.object] + 1,
            pendingStartToken)
  BY DEF Accept
<1>6. ThreadTypeOK' /\ Threads'
  BY <1>2, <1>3, <1>4, <1>5, SpawnTypes DEF Kind
<1>7. ProcessTypeOK' /\ CallerTypeOK' /\ BusTypeOK'
  BY DEF Accept, Types, ProcessTypeOK, CallerTypeOK, BusTypeOK
<1>8. ObjectTypeOK'
  BY <1>4 DEF Accept, Types, ObjectTypeOK
<1>9. SystemTypeOK'
  BY <1>1 DEF Accept, Types, SystemTypeOK
<1> QED BY <1>6, <1>7, <1>8, <1>9 DEF Types

LEMMA MainThreadTypes ==
    ASSUME Types, MainThread
    PROVE  Types'
<1>1. CASE OnStop
  BY <1>1, AcceptTypes DEF OnStop, Event
<1>2. CASE OnStart
  BY <1>2, AcceptTypes DEF OnStart, Event
<1>3. CASE OnStartNoConfig
  <2>1. /\ mainQueue' \in Seq(Message) /\ current' \in Object \cup {None}
        /\ created' \in Object \cup {None} /\ lastStartId' \in Nat
    BY <1>3, DequeueTypes DEF OnStartNoConfig
  <2>2. BusTypeOK'
    BY <1>3, ResolveStartTypes DEF OnStartNoConfig, Types
  <2>3. ProcessTypeOK'
    BY <1>3 DEF OnStartNoConfig, Types, ProcessTypeOK, Event
  <2>4. SystemTypeOK'
    BY <1>3, <2>1 DEF OnStartNoConfig, StopSelf, Types, SystemTypeOK
  <2> QED
    BY <1>3, <2>2, <2>3, <2>4 DEF OnStartNoConfig, Types, ObjectTypeOK, ThreadTypeOK, Threads,
                                  CallerTypeOK, Obj
<1>4. CASE OnDestroy
  <2>1. /\ Head0 \in Message
        /\ mainQueue' \in Seq(Message) /\ current' \in Object \cup {None}
        /\ created' \in Object \cup {None} /\ lastStartId' \in Nat
    BY <1>4, DequeueTypes DEF OnDestroy
  <2>2. /\ Head0.object \in Object /\ Head0.startId \in Nat
        /\ Head0.call \in StartCall \cup {None}
    BY <2>1 DEF Message
  <2>3. Spawn("destroy", Head0, NoDns, Head0.object, 0, 0)
    BY <1>4 DEF OnDestroy, None
  <2>4. ThreadTypeOK' /\ Threads'
    BY <2>2, <2>3, SpawnTypes DEF Kind
  <2>5. ProcessTypeOK' /\ BusTypeOK' /\ CallerTypeOK'
    BY <1>4 DEF OnDestroy, Types, ProcessTypeOK, BusTypeOK, CallerTypeOK, Event
  <2>6. ObjectTypeOK'
    BY <1>4 DEF OnDestroy, Types, ObjectTypeOK
  <2>7. SystemTypeOK'
    BY <1>4, <2>1 DEF OnDestroy, Types, SystemTypeOK
  <2> QED BY <2>4, <2>5, <2>6, <2>7 DEF Types
<1> QED BY <1>1, <1>2, <1>3, <1>4 DEF MainThread

LEMMA StartServiceTypes ==
    ASSUME Types, NEW kind \in {"start", "startLast", "stop"},
           NEW dns \in DnsServers \cup {NoDns}, NEW call \in StartCall \cup {None},
           StartService(kind, dns, call), UNCHANGED <<netVars, revokes, kills>>, taps' \in Nat
    PROVE  SystemTypeOK'
<1> DEFINE o == IF current = None THEN created + 1 ELSE current
           m == [kind |-> kind, object |-> o, startId |-> lastStartId + 1,
                 dns |-> dns, call |-> call]
<1>1. o \in Object /\ current' = o /\ created' \in Object \cup {None}
  BY DEF StartService, Types, SystemTypeOK
<1>2. lastStartId' = lastStartId + 1 /\ lastStartId' \in Nat /\ startRequested' = TRUE
  BY DEF StartService, Types, SystemTypeOK
<1>3. m \in Message
  BY <1>1, <1>2 DEF Message
<1>4. mainQueue' = Append(mainQueue, m)
  BY DEF StartService
<1>5. mainQueue' \in Seq(Message)
  BY <1>3, <1>4, AppendProperties DEF Types, SystemTypeOK
<1> QED BY <1>1, <1>2, <1>5 DEF Types, SystemTypeOK

LEMMA PostDestroyTypes ==
    ASSUME Types, current # None, PostDestroy, UNCHANGED netVars,
           taps' \in Nat, revokes' \in Nat, kills' \in Nat
    PROVE  SystemTypeOK'
<1> DEFINE m == [kind |-> "destroy", object |-> current, startId |-> 0,
                 dns |-> NoDns, call |-> None]
<1>1. m \in Message
  BY DEF Types, SystemTypeOK, Message
<1>2. mainQueue' = Append(mainQueue, m)
  BY DEF PostDestroy
<1>3. mainQueue' \in Seq(Message)
  BY <1>1, <1>2, AppendProperties DEF Types, SystemTypeOK
<1> QED BY <1>3 DEF PostDestroy, Types, SystemTypeOK

LEMMA SystemTypes ==
    ASSUME Types, System
    PROVE  Types'
<1> USE DEF Types, ProcessTypeOK, ObjectTypeOK, ThreadTypeOK, Threads, CallerTypeOK, BusTypeOK, Obj
<1>1. CASE BringDown
  <2>1. SystemTypeOK'
    BY <1>1, PostDestroyTypes DEF BringDown, SystemTypeOK
  <2> QED BY <1>1, <2>1 DEF BringDown
<1>2. CASE SystemDestroy
  <2>1. SystemTypeOK'
    BY <1>2, PostDestroyTypes DEF SystemDestroy, SystemTypeOK
  <2> QED BY <1>2, <2>1 DEF SystemDestroy
<1>3. CASE SystemRevoke
  <2>1. SystemTypeOK'
    BY <1>3 DEF SystemRevoke, Interface, SystemTypeOK, WorkerRecord
  <2> QED BY <1>3, <2>1 DEF SystemRevoke
<1>4. CASE OnRevoke
  <2> DEFINE m == [kind |-> "revoke", startId |-> 0, call |-> None]
  <2>1. Spawn("revoke", m, NoDns, revoking, 0, 0) /\ revoking \in Object
    BY <1>4 DEF OnRevoke, SystemTypeOK, None
  <2>2. m.startId \in Nat /\ (m.kind = "startLast") \in BOOLEAN /\ m.call \in StartCall \cup {None}
    OBVIOUS
  <2>3. ThreadTypeOK' /\ Threads'
    BY <2>1, <2>2, SpawnTypes DEF Kind
  <2>4. SystemTypeOK'
    BY <1>4 DEF OnRevoke, SystemTypeOK
  <2>5. ProcessTypeOK' /\ CallerTypeOK' /\ BusTypeOK'
    BY <1>4 DEF OnRevoke
  <2>6. commandSeq' \in [Object -> Nat] /\ tunnelRevoked' \in [Object -> BOOLEAN]
    BY <1>4, <2>1 DEF OnRevoke
  <2>7. ObjectTypeOK'
    BY <1>4, <2>6 DEF OnRevoke
  <2> QED BY <2>3, <2>4, <2>5, <2>7
<1>5. CASE LateEngineStop
  BY <1>5 DEF LateEngineStop, Engine!LateStop, SystemTypeOK
<1>6. CASE GoLetsGo
  BY <1>6 DEF GoLetsGo, SystemTypeOK
<1> QED BY <1>1, <1>2, <1>3, <1>4, <1>5, <1>6 DEF System

\* Between arming a start and sending its intent, the newest token is its call.
ArmedCall == js = "startArmed" => startTokenSeq \in StartCall

LEMMA NotJsTypes ==
    ASSUME Types, UNCHANGED notJs
    PROVE  ProcessTypeOK' /\ ObjectTypeOK' /\ ThreadTypeOK' /\ Threads'
BY DEF Types, ProcessTypeOK, ObjectTypeOK, ThreadTypeOK, Threads, Obj

LEMMA CallerTypes ==
    ASSUME Types, ArmedCall, Caller
    PROVE  Types'
<1> USE NotJsTypes DEF Types
<1>1. CASE JsStart
  <2>1. SystemTypeOK' /\ CallerTypeOK'
    BY <1>1 DEF JsStart, SystemTypeOK, CallerTypeOK
  <2> QED BY <1>1, <2>1, SetPendingStartTypes DEF JsStart
<1>2. CASE JsSendStart
  <2>1. ThisStart \in StartCall \cup {None} /\ DefaultDns \in DnsServers \cup {NoDns}
    BY <1>2, BoundsAssumption DEF JsSendStart, ThisStart, ArmedCall
  <2>2. StartService("start", DefaultDns, ThisStart) /\ UNCHANGED <<netVars, revokes, kills>>
        /\ taps' \in Nat
    BY <1>2 DEF JsSendStart, SystemTypeOK
  <2>3. SystemTypeOK'
    BY <2>1, <2>2, StartServiceTypes
  <2>4. CallerTypeOK' /\ BusTypeOK'
    BY <1>2 DEF JsSendStart, BusTypeOK, CallerTypeOK
  <2> QED BY <1>2, <2>3, <2>4 DEF JsSendStart
<1>3. CASE JsStartRefused
  <2>1. SystemTypeOK' /\ CallerTypeOK'
    BY <1>3 DEF JsStartRefused, SystemTypeOK, CallerTypeOK
  <2> QED BY <1>3, <2>1, ResolveStartTypes DEF JsStartRefused
<1>4. CASE JsStop
  <2>1. MaxStarts + stopCalls + 1 \in StopCall /\ stopCalls + 1 \in Nat
    BY <1>4, BoundsAssumption DEF JsStop, StopCall, CallerTypeOK
  <2>2. SystemTypeOK' /\ CallerTypeOK'
    BY <1>4, <2>1 DEF JsStop, SystemTypeOK, CallerTypeOK
  <2> QED BY <1>4, <2>1, <2>2, SetPendingStopTypes DEF JsStop
<1>5. CASE JsSendStop
  <2>1. StartService("stop", NoDns, None) /\ UNCHANGED <<netVars, revokes, kills>>
        /\ taps' \in Nat
    BY <1>5 DEF JsSendStop, SystemTypeOK
  <2>2. SystemTypeOK'
    BY <2>1, StartServiceTypes
  <2>3. CallerTypeOK' /\ BusTypeOK'
    BY <1>5 DEF JsSendStop, BusTypeOK, CallerTypeOK
  <2> QED BY <1>5, <2>2, <2>3 DEF JsSendStop
<1>6. CASE JsStopGivesUp
  BY <1>6 DEF JsStopGivesUp, SystemTypeOK, CallerTypeOK, BusTypeOK
<1>7. CASE SetKillSwitch
  BY <1>7 DEF SetKillSwitch, SystemTypeOK, CallerTypeOK, BusTypeOK, ProcessTypeOK,
              ObjectTypeOK, ThreadTypeOK, Threads, Obj
<1>8. CASE ClearStoredConfig
  BY <1>8 DEF ClearStoredConfig, SystemTypeOK, CallerTypeOK, BusTypeOK, ProcessTypeOK,
              ObjectTypeOK, ThreadTypeOK, Threads, Obj
<1>9. CASE Tap
  <2>1. taps' \in Nat /\ UNCHANGED <<netVars, revokes, kills>>
    BY <1>9 DEF Tap, SystemTypeOK
  <2>2. SystemTypeOK'
    BY <1>9, <2>1, StartServiceTypes DEF Tap
  <2> QED BY <1>9, <2>2 DEF Tap, CallerTypeOK, BusTypeOK, ProcessTypeOK, ObjectTypeOK,
                            ThreadTypeOK, Threads, Obj
<1> QED BY <1>1, <1>2, <1>3, <1>4, <1>5, <1>6, <1>7, <1>8, <1>9 DEF Caller

LEMMA NextArmedCall == Types /\ ArmedCall /\ [Next]_vars => ArmedCall'
<1> SUFFICES ASSUME Types, ArmedCall, [Next]_vars, js' = "startArmed"
             PROVE  startTokenSeq' \in StartCall
  BY DEF ArmedCall
<1>1. \A token, success : Bus!ResolveStart(token, success) => UNCHANGED startTokenSeq
  BY DEF Bus!ResolveStart, Bus!busVars, Bus!startVars
<1>2. Bus!ResolveStop => UNCHANGED startTokenSeq
  BY DEF Bus!ResolveStop, Bus!startVars
<1>3. CASE JsStart
  BY <1>3 DEF JsStart, Bus!SetPendingStart
<1>4. CASE Caller /\ ~JsStart
  BY <1>1, <1>4 DEF Caller, JsSendStart, JsStartRefused, JsStop, JsSendStop, JsStopGivesUp,
                    SetKillSwitch, ClearStoredConfig, Tap, ArmedCall
<1>5. CASE System
  BY <1>5 DEF System, BringDown, SystemDestroy, SystemRevoke, OnRevoke, GoLetsGo, LateEngineStop, ArmedCall
<1>6. CASE MainThread
  BY <1>1, <1>6 DEF MainThread, OnStop, OnStart, OnStartNoConfig, OnDestroy, Accept, ArmedCall
<1>7. CASE \E w \in Worker : WorkerStep(w)
  <2>1. PICK w \in Worker : WorkerStep(w)
    BY <1>7
  <2>2. UNCHANGED startTokenSeq
    BY <1>1, <1>2, <2>1
       DEF WorkerStep, StartSuperseded, StopSuperseded, StartBegins, StopBegins, TeardownBegins,
           Halt, ReuseTun, Establish, EstablishFails, InstallTun, CheckDestroyed, StartBypass,
           StartEngine, Verify, Publish, DecideFailure, HoldTunnel, ReportError,
           StopEngineBounded, DropTunnel, AfterStart, AfterStop, AfterDestroy, SettleStop
  <2>3. UNCHANGED js
    BY <2>1, StepShape
  <2> QED BY <2>2, <2>3 DEF ArmedCall
<1>8. CASE UNCHANGED vars
  BY <1>8 DEF ArmedCall
<1> QED BY <1>3, <1>4, <1>5, <1>6, <1>7, <1>8 DEF Next

LEMMA NextTypes == Types /\ ArmedCall /\ [Next]_vars => Types'
<1> SUFFICES ASSUME Types, ArmedCall, [Next]_vars PROVE Types'
  OBVIOUS
<1>1. CASE \E w \in Worker : WorkerStep(w)
  BY <1>1, WorkerStepThreads, WorkerStepProcess, WorkerStepObject, WorkerStepSystem,
     WorkerStepBus DEF Types
<1>2. CASE UNCHANGED vars
  BY <1>2 DEF Types, ProcessTypeOK, ObjectTypeOK, ThreadTypeOK, Threads, SystemTypeOK,
              CallerTypeOK, BusTypeOK, Obj
<1> QED BY <1>1, <1>2, CallerTypes, SystemTypes, MainThreadTypes DEF Next

LEMMA AlwaysTypes == Spec => []Types
<1>1. Init => ArmedCall
  BY DEF Init, ArmedCall
<1> QED BY <1>1, InitTypes, NextTypes, NextArmedCall, PTL DEF Spec

\* Every variable of the service, the system, the bus and the caller keeps its type.
THEOREM ServiceTypeCorrect == Spec => []TypeOK
BY AlwaysTypes, TypesIsTypeOK, PTL
-----------------------------------------------------------------------------
(* The use of the bus.                                                     *)

\* The tokens the commands accepted so far have read.
Captured == {worker[w].token : w \in {v \in 1..spawned : worker[v].kind \in {"start", "stop"}}}

\* Only a start gets to where it may report of itself.
Reporting == {"halt", "tun", "install", "check", "bypass", "engine", "verify", "publish",
              "fail", "hold", "error"}

ReportsOwnStart == \A w \in Worker : pc[w] \in Reporting => worker[w].kind = "start"

\* A caller about to send its intent has armed its promise.
ArmedPromise == js = "startArmed" => startPromise[ThisStart] # "new"

BusUse == ReportsOwnStart /\ ArmedPromise
-----------------------------------------------------------------------------
LEMMA CommandKept ==
    ASSUME Types, NEW w \in Worker, WorkerStep(w)
    PROVE  /\ UNCHANGED spawned
           /\ \A v \in Worker : /\ worker'[v].kind = worker[v].kind
                                /\ worker'[v].token = worker[v].token
<1>1. Noted(w) /\ UNCHANGED outside
  BY StepShape
<1> QED BY <1>1 DEF Noted, TakeTun, Because, Types, ThreadTypeOK, WorkerRecord

LEMMA StartedAreWorkers ==
    ASSUME Types
    PROVE  1..spawned \subseteq Worker
BY BoundsAssumption DEF Types, ThreadTypeOK, Worker, None

LEMMA CapturedKept ==
    ASSUME Types, UNCHANGED spawned,
           \A v \in Worker : /\ worker'[v].kind = worker[v].kind
                             /\ worker'[v].token = worker[v].token
    PROVE  Captured' = Captured
BY StartedAreWorkers DEF Captured

LEMMA CapturedGrows ==
    ASSUME Types, NEW kind, NEW m, NEW dns, NEW o, NEW seq, NEW token,
           Spawn(kind, m, dns, o, seq, token)
    PROVE  Captured' = IF kind \in {"start", "stop"} THEN Captured \cup {token} ELSE Captured
<1>1. PICK x \in Worker : x = spawned + 1
  BY DEF Spawn
<1>2. /\ spawned' = x /\ worker'[x].kind = kind /\ worker'[x].token = token
      /\ \A v \in Worker : v # x => worker'[v] = worker[v]
  BY <1>1 DEF Spawn, Types, ThreadTypeOK
<1>3. spawned \in Nat
  BY BoundTypes DEF Types, ThreadTypeOK, None
<1>4. 1..x = (1..spawned) \cup {x} /\ x \notin 1..spawned
  BY <1>1, <1>3
<1>5. \A v \in 1..spawned : worker'[v] = worker[v]
  BY <1>2, <1>4, StartedAreWorkers
<1> QED BY <1>2, <1>4, <1>5 DEF Captured
-----------------------------------------------------------------------------
(* The two facts about the service that the bus relies on.                 *)

LEMMA InitBusUse == Init => BusUse
BY DEF Init, BusUse, ReportsOwnStart, ArmedPromise, Reporting

\* A worker that moves on to a reporting label was at one, or is a start.
LEMMA StepReports ==
    ASSUME Types, NEW w \in Worker, WorkerStep(w), pc'[w] \in Reporting
    PROVE  pc[w] \in Reporting \/ worker[w].kind = "start"
<1> USE DEF Reporting
<1>0. \A label : Goto(w, label) => pc'[w] = label
  BY DEF Types, ThreadTypeOK, Goto
<1>1. CASE pc[w] \in Reporting
  BY <1>1
<1>2. CASE StartSuperseded(w) \/ StopSuperseded(w) \/ StartBegins(w) \/ StopBegins(w) \/ TeardownBegins(w)
  BY <1>0, <1>2
     DEF StartSuperseded, StopSuperseded, StartBegins, StopBegins, TeardownBegins
<1>3. CASE StopEngineBounded(w) \/ DropTunnel(w) \/ AfterStart(w) \/ AfterStop(w)
           \/ AfterDestroy(w) \/ SettleStop(w)
  BY <1>0, <1>3
     DEF StopEngineBounded, DropTunnel, AfterStart, AfterStop, AfterDestroy, SettleStop
<1> QED
  BY <1>1, <1>2, <1>3
     DEF WorkerStep, Halt, ReuseTun, Establish, EstablishFails, InstallTun, CheckDestroyed,
         StartBypass, StartEngine, Verify, Publish, DecideFailure, HoldTunnel, ReportError, At

LEMMA NextReportsOwnStart == Types /\ ReportsOwnStart /\ [Next]_vars => ReportsOwnStart'
<1> SUFFICES ASSUME Types, ReportsOwnStart, [Next]_vars PROVE ReportsOwnStart'
  OBVIOUS
<1>1. CASE \E w \in Worker : WorkerStep(w)
  <2>1. PICK w \in Worker : WorkerStep(w)
    BY <1>1
  <2>2. \A v \in Worker : v # w => pc'[v] = pc[v]
    BY <2>1, StepShape DEF Labelled, Goto, Types, ThreadTypeOK
  <2>3. pc'[w] \in Reporting => worker[w].kind = "start"
    BY <2>1, StepReports DEF ReportsOwnStart
  <2> QED BY <2>1, <2>2, <2>3, CommandKept DEF ReportsOwnStart
<1>2. CASE OnStop \/ OnStart \/ OnDestroy \/ OnRevoke
  <2>1. PICK x \in Worker : /\ pc'[x] = "queued"
                            /\ \A v \in Worker : v # x => pc'[v] = pc[v] /\ worker'[v] = worker[v]
    <3>1. ASSUME NEW kind, NEW m, NEW dns, NEW o, NEW seq, NEW token,
                 Spawn(kind, m, dns, o, seq, token)
          PROVE  \E x \in Worker : /\ pc'[x] = "queued"
                                   /\ \A v \in Worker : v # x => pc'[v] = pc[v] /\ worker'[v] = worker[v]
      BY <3>1 DEF Spawn, Types, ThreadTypeOK
    <3> QED BY <1>2, <3>1 DEF OnStop, OnStart, Accept, OnDestroy, OnRevoke
  <2> QED BY <2>1 DEF ReportsOwnStart, Reporting
<1>3. CASE UNCHANGED <<threadVars, pc>>
  BY <1>3 DEF ReportsOwnStart
<1> QED
  BY <1>1, <1>2, <1>3
     DEF Next, Caller, JsStart, JsSendStart, JsStartRefused, JsStop, JsSendStop, JsStopGivesUp,
         SetKillSwitch, ClearStoredConfig, Tap, System, BringDown, SystemDestroy, SystemRevoke,
         GoLetsGo, LateEngineStop, MainThread, OnStartNoConfig

\* A promise that is no longer new never is again.
LEMMA NeverNewAgain ==
    ASSUME BusTypeOK, NEW c \in StartCall, startPromise[c] # "new"
    PROVE  /\ \A token, success : Bus!ResolveStart(token, success) => startPromise'[c] # "new"
           /\ Bus!ResolveStop => startPromise'[c] # "new"
           /\ \A d : Bus!SetPendingStop(d) => startPromise'[c] # "new"
BY DEF Bus!ResolveStart, Bus!ResolveStop, Bus!SetPendingStop, Bus!Settled, Bus!busVars,
       Bus!startVars, BusTypeOK

\* What the steps of the service do to the slots.
BusStep == \/ \E token \in Captured, success \in BOOLEAN : Bus!ResolveStart(token, success)
           \/ Bus!ResolveStop
           \/ UNCHANGED busVars

LEMMA StepUsesBus ==
    ASSUME Types, ReportsOwnStart, NEW w \in Worker, WorkerStep(w)
    PROVE  BusStep /\ Captured' = Captured
<1>1. Captured' = Captured
  BY CommandKept, CapturedKept
<1>2. pc[w] # "none"
  BY StepShape DEF Labelled
<1>3. worker[w].kind \in {"start", "stop"} => worker[w].token \in Captured
  <2>1. w <= spawned /\ w \in Nat /\ w >= 1 /\ spawned \in Nat
    BY <1>2, BoundsAssumption DEF Types, Threads, ThreadTypeOK, Worker, None
  <2> QED BY <2>1 DEF Captured
<1>4. CASE \E success \in BOOLEAN : Bus!ResolveStart(worker[w].token, success)
                                    /\ worker[w].kind \in {"start", "stop"}
  BY <1>1, <1>3, <1>4 DEF BusStep
<1>5. CASE Bus!ResolveStop \/ UNCHANGED busVars
  BY <1>1, <1>5 DEF BusStep
<1>6. pc[w] \in Reporting => worker[w].kind = "start"
  BY DEF ReportsOwnStart
<1>7. CASE StartSuperseded(w) \/ StopBegins(w) \/ AfterStart(w)
  BY <1>4, <1>5, <1>7 DEF StartSuperseded, StopBegins, AfterStart
<1>8. CASE Verify(w) \/ Publish(w) \/ HoldTunnel(w) \/ ReportError(w)
  BY <1>4, <1>5, <1>6, <1>8 DEF Verify, Publish, HoldTunnel, ReportError, At, Reporting
<1> QED
  BY <1>5, <1>7, <1>8
     DEF WorkerStep, StopSuperseded, StartBegins, TeardownBegins,
         Halt, ReuseTun, Establish, EstablishFails, InstallTun, CheckDestroyed, StartBypass,
         StartEngine, DecideFailure, StopEngineBounded, DropTunnel, AfterStop, AfterDestroy, SettleStop

LEMMA NextArmedPromise ==
    Types /\ ReportsOwnStart /\ ArmedCall /\ ArmedPromise /\ [Next]_vars => ArmedPromise'
<1> SUFFICES ASSUME Types, ReportsOwnStart, ArmedCall, ArmedPromise, [Next]_vars,
                    js' = "startArmed"
             PROVE  startPromise'[startTokenSeq'] # "new"
  BY DEF ArmedPromise, ThisStart
<1>1. CASE JsStart
  BY <1>1 DEF JsStart, Bus!SetPendingStart, Bus!Settled, Types, BusTypeOK
<1>2. CASE ~JsStart
  <2>1. js = "startArmed" /\ \/ UNCHANGED busVars \/ Bus!ResolveStop
                             \/ \E token, success : Bus!ResolveStart(token, success)
    <3>1. CASE \E w \in Worker : WorkerStep(w)
      BY <3>1, StepUsesBus, StepShape DEF BusStep
    <3>2. CASE Caller
      BY <1>2, <3>2 DEF Caller, JsSendStart, JsStartRefused, JsStop, JsSendStop, JsStopGivesUp,
                        SetKillSwitch, ClearStoredConfig, Tap
    <3>3. CASE System
      BY <3>3 DEF System, BringDown, SystemDestroy, SystemRevoke, OnRevoke, GoLetsGo, LateEngineStop
    <3>4. CASE MainThread
      BY <3>4 DEF MainThread, OnStop, OnStart, OnStartNoConfig, OnDestroy, Accept
    <3>5. CASE UNCHANGED vars
      BY <3>5
    <3> QED BY <3>1, <3>2, <3>3, <3>4, <3>5 DEF Next
  <2>2. startTokenSeq \in StartCall /\ startPromise[startTokenSeq] # "new"
    BY <2>1 DEF ArmedCall, ArmedPromise, ThisStart
  <2>3. UNCHANGED startTokenSeq
    BY <2>1 DEF Bus!ResolveStart, Bus!ResolveStop, Bus!busVars, Bus!startVars
  <2>4. startPromise'[startTokenSeq] # "new"
    BY <2>1, <2>2, NeverNewAgain DEF Types
  <2> QED BY <2>3, <2>4
<1> QED BY <1>1, <1>2

LEMMA AlwaysBusUse == Spec => [](Types /\ ArmedCall /\ BusUse)
<1>1. Init => ArmedCall
  BY DEF Init, ArmedCall
<1>2. Types /\ ArmedCall /\ BusUse /\ [Next]_vars => (Types /\ ArmedCall /\ BusUse)'
  BY NextTypes, NextArmedCall, NextReportsOwnStart, NextArmedPromise DEF BusUse
<1> QED BY <1>1, <1>2, InitTypes, InitBusUse, PTL DEF Spec
-----------------------------------------------------------------------------
(* Every step of the service is a step of the bus, or one it does not see. *)

LEMMA InitImplementsBus == Init => Bus!Init
<1> SUFFICES ASSUME Init PROVE Bus!Init
  OBVIOUS
<1>1. 1..spawned = {}
  BY DEF Init
<1>2. Captured = {}
  BY <1>1 DEF Captured
<1> QED BY <1>2 DEF Init, Bus!Init, Captured

LEMMA NextImplementsBus ==
    Types /\ ArmedCall /\ BusUse /\ [Next]_vars => [Bus!Next]_(Bus!vars)
<1> SUFFICES ASSUME Types, ArmedCall, BusUse, [Next]_vars
             PROVE  Bus!Next \/ (UNCHANGED busVars /\ Captured' = Captured)
  BY DEF Bus!vars, Bus!busVars, Bus!startVars, Bus!stopVars, Captured
<1>1. UNCHANGED threadVars => Captured' = Captured
  BY DEF Captured
<1>2. CASE \E w \in Worker : WorkerStep(w)
  <2>1. BusStep /\ Captured' = Captured
    BY <1>2, StepUsesBus DEF BusUse
  <2>2. CASE \E token \in Captured, success \in BOOLEAN : Bus!ResolveStart(token, success)
    BY <2>1, <2>2 DEF Bus!Next, Bus!SettleStart, Captured
  <2>3. CASE Bus!ResolveStop
    BY <2>1, <2>3 DEF Bus!Next, Bus!SettleStop, Captured
  <2> QED BY <2>1, <2>2, <2>3 DEF BusStep
<1>3. CASE OnStop \/ OnStart
  <2>1. \E event : \E kind \in {"start", "stop"} : Accept(kind, event)
    BY <1>3 DEF OnStop, OnStart
  <2>2. Captured' = Captured \cup {pendingStartToken} /\ UNCHANGED busVars
    BY <2>1, CapturedGrows DEF Accept
  <2> QED
    BY <2>2 DEF Bus!Next, Bus!CaptureToken, Bus!busVars, Bus!startVars, Bus!stopVars, Captured
<1>4. CASE OnDestroy \/ OnRevoke
  <2>1. \E m, dns, o, seq, token : \E kind \in {"destroy", "revoke"} :
           Spawn(kind, m, dns, o, seq, token)
    BY <1>4 DEF OnDestroy, OnRevoke
  <2>2. Captured' = Captured
    BY <2>1, CapturedGrows
  <2> QED BY <1>4, <2>2 DEF OnDestroy, OnRevoke
<1>5. CASE OnStartNoConfig
  <2>1. Captured' = Captured /\ Bus!ResolveStart(pendingStartToken, FALSE)
    BY <1>1, <1>5 DEF OnStartNoConfig
  <2> QED BY <2>1 DEF Bus!Next, Bus!SettleCurrent, Captured
<1>6. CASE JsStart
  <2>1. Captured' = Captured /\ \E c \in StartCall : Bus!SetPendingStart(c)
    BY <1>1, <1>6 DEF JsStart
  <2> QED BY <2>1 DEF Bus!Next, Bus!ArmStart, Captured
<1>7. CASE JsStop
  <2>1. MaxStarts + stopCalls + 1 \in StopCall
    BY <1>7, BoundsAssumption DEF JsStop, StopCall, Types, CallerTypeOK
  <2>2. Captured' = Captured /\ \E c \in StopCall : Bus!SetPendingStop(c)
    BY <1>1, <1>7, <2>1 DEF JsStop
  <2> QED BY <2>2 DEF Bus!Next, Bus!ArmStop, Captured
<1>8. CASE JsStartRefused
  <2>1. ThisStart \in StartCall /\ startPromise[ThisStart] # "new"
    BY <1>8 DEF JsStartRefused, BusUse, ArmedCall, ArmedPromise, ThisStart
  <2>2. Captured' = Captured /\ Bus!ResolveStart(tokenOf[ThisStart], FALSE)
    BY <1>1, <1>8 DEF JsStartRefused
  <2> QED BY <2>1, <2>2 DEF Bus!Next, Bus!RefuseStart, Captured
<1>9. CASE UNCHANGED <<busVars, threadVars>>
  BY <1>1, <1>9
<1> QED
  BY <1>2, <1>3, <1>4, <1>5, <1>6, <1>7, <1>8, <1>9
     DEF Next, Caller, JsSendStart, JsSendStop, JsStopGivesUp,
         SetKillSwitch, ClearStoredConfig, Tap, System, BringDown, SystemDestroy, SystemRevoke,
         GoLetsGo, LateEngineStop, MainThread

\* Every use the service makes of XrayStateBus.kt is one that module's specification
\* allows for: a worker presents only the token its command read, a refused start only
\* its own, and each call arms its slot once.
THEOREM ServiceImplementsBus == Spec => ImplementsBus
BY InitImplementsBus, NextImplementsBus, AlwaysBusUse, PTL DEF Spec, ImplementsBus, Bus!Spec
-----------------------------------------------------------------------------
(* What the module of the bus promises, of the service.                    *)

BusProofs == INSTANCE XrayStateBusProofs WITH
                 StartCalls <- StartCall, StopCalls <- StopCall, NoCall <- None,
                 captured <- {worker[w].token : w \in {v \in 1..spawned :
                                                          worker[v].kind \in {"start", "stop"}}}

LEMMA CallsOfService == BusProofs!CallsAssumption
BY BoundTypes DEF BusProofs!CallsAssumption

\* The bus the proofs are about is the bus the service uses.
LEMMA SameInit == Bus!Init <=> BusProofs!Init
BY DEF Bus!Init, Bus!BusInit, BusProofs!Init, BusProofs!BusInit

LEMMA SameResolve ==
    ASSUME NEW token, NEW success
    PROVE  Bus!ResolveStart(token, success) <=> BusProofs!ResolveStart(token, success)
BY DEF Bus!ResolveStart, Bus!TokenMatches, Bus!Settled, Bus!Invoke, Bus!busVars, Bus!startVars,
       Bus!stopVars, BusProofs!ResolveStart, BusProofs!TokenMatches, BusProofs!Settled,
       BusProofs!Invoke, BusProofs!busVars, BusProofs!startVars, BusProofs!stopVars

LEMMA SameVars == Bus!vars = BusProofs!vars /\ (Bus!vars)' = (BusProofs!vars)'
BY DEF Bus!vars, Bus!busVars, Bus!startVars, Bus!stopVars,
       BusProofs!vars, BusProofs!busVars, BusProofs!startVars, BusProofs!stopVars

LEMMA SameNext == Bus!Next <=> BusProofs!Next
<1>1. \A c : /\ Bus!SetPendingStart(c) <=> BusProofs!SetPendingStart(c)
             /\ Bus!SetPendingStop(c) <=> BusProofs!SetPendingStop(c)
  BY DEF Bus!SetPendingStart, Bus!SetPendingStop, Bus!Settled, Bus!Invoke, Bus!startVars,
         Bus!stopVars, BusProofs!SetPendingStart, BusProofs!SetPendingStop, BusProofs!Settled,
         BusProofs!Invoke, BusProofs!startVars, BusProofs!stopVars
<1>2. Bus!ResolveStop <=> BusProofs!ResolveStop
  BY DEF Bus!ResolveStop, Bus!Settled, Bus!Invoke, Bus!startVars,
         BusProofs!ResolveStop, BusProofs!Settled, BusProofs!Invoke, BusProofs!startVars
<1>3. UNCHANGED Bus!busVars <=> UNCHANGED BusProofs!busVars
  BY DEF Bus!busVars, Bus!startVars, Bus!stopVars,
         BusProofs!busVars, BusProofs!startVars, BusProofs!stopVars
<1> QED
  BY <1>1, <1>2, <1>3, SameResolve
     DEF Bus!Next, Bus!ArmStart, Bus!ArmStop, Bus!CaptureToken, Bus!SettleStart,
         Bus!SettleCurrent, Bus!RefuseStart, Bus!SettleStop,
         BusProofs!Next, BusProofs!ArmStart, BusProofs!ArmStop, BusProofs!CaptureToken,
         BusProofs!SettleStart, BusProofs!SettleCurrent, BusProofs!RefuseStart,
         BusProofs!SettleStop

LEMMA ServiceRunsBus == Spec => BusProofs!Spec
<1>1. [Bus!Next]_(Bus!vars) => [BusProofs!Next]_(BusProofs!vars)
  BY SameNext, SameVars
<1> QED
  BY <1>1, SameInit, ServiceImplementsBus, PTL DEF ImplementsBus, Bus!Spec, BusProofs!Spec

\* However workers, callers and refusals interleave, the service invokes no completion
\* of startXray or stopXray twice (resolveStart, resolveStop).
THEOREM ServiceSettlesOnce == Spec => []Bus!SettledOnce
<1>1. BusProofs!Spec => []BusProofs!SettledOnce
  BY CallsOfService, BusProofs!BusSettlesOnce
<1>2. BusProofs!SettledOnce => Bus!SettledOnce
  BY DEF Bus!SettledOnce, BusProofs!SettledOnce
<1> QED BY <1>1, <1>2, ServiceRunsBus, PTL

\* The service loses no promise: whoever takes one out of its slot has called it.
THEOREM ServiceLosesNoPromise == Spec => []Bus!NoPromiseLost
<1>1. BusProofs!Spec => []BusProofs!NoPromiseLost
  BY CallsOfService, BusProofs!BusLosesNoPromise
<1>2. BusProofs!NoPromiseLost => Bus!NoPromiseLost
  BY DEF Bus!NoPromiseLost, BusProofs!NoPromiseLost
<1> QED BY <1>1, <1>2, ServiceRunsBus, PTL

\* A worker of the service settles no start but the one armed when its command was
\* accepted, and connect() succeeds only on behalf of a command accepted after it armed.
THEOREM ServiceIsolatesTokens == Spec => Bus!TokenIsolation
<1> DEFINE Isolated ==
               /\ \A token \in Captured, success \in BOOLEAN :
                     Bus!ResolveStart(token, success) =>
                         \A c \in StartCall :
                             startPromise'[c] # startPromise[c] => tokenOf[c] = token
               /\ \A c \in StartCall :
                     startPromise[c] = "armed" /\ startPromise'[c] = "ok" => tokenOf[c] \in Captured
           IsolatedP ==
               /\ \A token \in Captured, success \in BOOLEAN :
                     BusProofs!ResolveStart(token, success) =>
                         \A c \in StartCall :
                             startPromise'[c] # startPromise[c] => tokenOf[c] = token
               /\ \A c \in StartCall :
                     startPromise[c] = "armed" /\ startPromise'[c] = "ok" => tokenOf[c] \in Captured
<1>1. BusProofs!Spec => BusProofs!TokenIsolation
  BY CallsOfService, BusProofs!BusIsolatesTokens
<1>2. [IsolatedP]_(BusProofs!vars) => [Isolated]_(Bus!vars)
  BY SameResolve, SameVars
<1>3. BusProofs!TokenIsolation => [][IsolatedP]_(BusProofs!vars)
  BY PTL DEF BusProofs!TokenIsolation, Captured
<1>4. [][Isolated]_(Bus!vars) => Bus!TokenIsolation
  BY PTL DEF Bus!TokenIsolation, Captured
<1> QED BY <1>1, <1>2, <1>3, <1>4, ServiceRunsBus, PTL
-----------------------------------------------------------------------------
(* Somebody settles every armed promise.                                   *)

StartPosted(call) ==
    \E i \in DOMAIN mainQueue : mainQueue[i].kind = "start" /\ mainQueue[i].call = call
StopPosted == \E i \in DOMAIN mainQueue : mainQueue[i].kind = "stop"

StartSide == pendingStart # None =>
                 js = "startArmed" \/ StartPosted(pendingStart) \/ \E w \in Worker : StartOwed(w)
StopSide  == pendingStop # None /\ ~stopGaveUp =>
                 js = "stopArmed" \/ StopPosted \/ \E w \in Worker : StopOwed(w)

\* An intent to start carries the settings of the tunnel.
PostedWithDns ==
    \A i \in DOMAIN mainQueue : mainQueue[i].kind = "start" => mainQueue[i].dns # NoDns

\* The armed start is the one that was armed last, under the token handed out last.
NewestArmed ==
    pendingStart # None => pendingStart = startTokenSeq /\ pendingStartToken = startTokenSeq

\* A caller about to send its intent holds its own token, and awaits no stop.
CallerAwaitsOne ==
    js = "startArmed" => /\ tokenOf[startTokenSeq] = startTokenSeq
                         /\ pendingStop = None \/ stopGaveUp

Owed == StartSide /\ StopSide /\ PostedWithDns /\ NewestArmed /\ CallerAwaitsOne

LEMMA OwedSides == StartSide /\ StopSide <=> PromisesOwed
BY DEF StartSide, StopSide, PromisesOwed, StartPosted, StopPosted

LEMMA InitOwed == Init => Owed
BY DEF Init, Owed, StartSide, StopSide, PostedWithDns, NewestArmed, CallerAwaitsOne, Bus!BusInit

\* What the operations of the bus leave of the slots.
LEMMA ResolveStartSlots ==
    ASSUME NEW token, NEW success, Bus!ResolveStart(token, success)
    PROVE  /\ UNCHANGED <<startTokenSeq, tokenOf, pendingStop>>
           /\ \/ pendingStart' = None
              \/ /\ UNCHANGED <<pendingStart, pendingStartToken>>
                 /\ pendingStart = None \/ token # pendingStartToken
BY DEF Bus!ResolveStart, Bus!TokenMatches, Bus!busVars, Bus!startVars, Bus!stopVars

LEMMA ResolveStopSlots ==
    ASSUME Bus!ResolveStop
    PROVE  /\ pendingStop' = None
           /\ UNCHANGED <<startTokenSeq, tokenOf, pendingStart, pendingStartToken>>
BY DEF Bus!ResolveStop, Bus!startVars

\* A slot is left alone or emptied, and no token handed out.
SlotsKept ==
    /\ UNCHANGED <<startTokenSeq, tokenOf>>
    /\ pendingStart' = None \/ UNCHANGED <<pendingStart, pendingStartToken>>
    /\ pendingStop' = None \/ UNCHANGED pendingStop

LEMMA BusStepKeeps == BusStep => SlotsKept
BY ResolveStartSlots, ResolveStopSlots DEF BusStep, SlotsKept

LEMMA NextSlots ==
    ASSUME Types, ReportsOwnStart, [Next]_vars, ~JsStart, ~JsStop
    PROVE  SlotsKept
<1>1. CASE \E w \in Worker : WorkerStep(w)
  BY <1>1, StepUsesBus, BusStepKeeps
<1>2. CASE OnStartNoConfig \/ JsStartRefused
  BY <1>2, ResolveStartSlots DEF OnStartNoConfig, JsStartRefused, SlotsKept
<1>3. CASE UNCHANGED busVars
  BY <1>3 DEF SlotsKept
<1> QED
  BY <1>1, <1>2, <1>3
     DEF Next, Caller, JsSendStart, JsSendStop, JsStopGivesUp, SetKillSwitch, ClearStoredConfig,
         Tap, System, BringDown, SystemDestroy, SystemRevoke, OnRevoke, GoLetsGo, LateEngineStop,
         MainThread, OnStop, OnStart, OnDestroy, Accept

LEMMA NextNewestArmed ==
    ASSUME Types, ReportsOwnStart, NewestArmed, [Next]_vars
    PROVE  NewestArmed'
<1>1. CASE JsStart
  BY <1>1 DEF JsStart, Bus!SetPendingStart, NewestArmed
<1>2. CASE JsStop
  BY <1>2 DEF JsStop, Bus!SetPendingStop, Bus!startVars, NewestArmed
<1>3. CASE ~JsStart /\ ~JsStop
  BY <1>3, NextSlots DEF SlotsKept, NewestArmed
<1> QED BY <1>1, <1>2, <1>3

LEMMA NextCallerAwaitsOne ==
    ASSUME Types, ReportsOwnStart, CallerAwaitsOne, [Next]_vars
    PROVE  CallerAwaitsOne'
<1> SUFFICES ASSUME js' = "startArmed"
             PROVE  /\ tokenOf'[startTokenSeq'] = startTokenSeq'
                    /\ pendingStop' = None \/ stopGaveUp'
  BY DEF CallerAwaitsOne
<1>1. CASE JsStart
  <2>1. startTokenSeq + 1 \in StartCall /\ startTokenSeq' = startTokenSeq + 1
    BY <1>1 DEF JsStart, Bus!SetPendingStart
  <2>2. tokenOf' = [tokenOf EXCEPT ![startTokenSeq + 1] = startTokenSeq'] /\ UNCHANGED pendingStop
    BY <1>1 DEF JsStart, Bus!SetPendingStart, Bus!stopVars
  <2>3. tokenOf'[startTokenSeq'] = startTokenSeq'
    BY <2>1, <2>2 DEF Types, BusTypeOK
  <2> QED BY <1>1, <2>2, <2>3 DEF JsStart, JsFree
<1>2. CASE ~JsStart
  <2>1. js = "startArmed" /\ stopGaveUp' = stopGaveUp /\ ~JsStop
    <3>1. CASE \E w \in Worker : WorkerStep(w)
      <4>1. UNCHANGED jsVars
        BY <3>1, StepShape
      <4> QED BY <4>1 DEF JsStop
    <3>2. CASE Caller
      BY <1>2, <3>2 DEF Caller, JsSendStart, JsStartRefused, JsStop, JsSendStop, JsStopGivesUp,
                        SetKillSwitch, ClearStoredConfig, Tap
    <3>3. CASE System
      BY <3>3 DEF System, BringDown, SystemDestroy, SystemRevoke, OnRevoke, GoLetsGo, LateEngineStop, JsStop
    <3>4. CASE MainThread
      BY <3>4 DEF MainThread, OnStop, OnStart, OnStartNoConfig, OnDestroy, Accept, JsStop
    <3>5. CASE UNCHANGED vars
      BY <3>5 DEF JsStop
    <3> QED BY <3>1, <3>2, <3>3, <3>4, <3>5 DEF Next
  <2>2. SlotsKept
    BY <1>2, <2>1, NextSlots
  <2> QED BY <2>1, <2>2 DEF CallerAwaitsOne, SlotsKept
<1> QED BY <1>1, <1>2
-----------------------------------------------------------------------------
(* The queue of the main thread.                                           *)

LEMMA Posting ==
    ASSUME Types, NEW m \in Message, mainQueue' = Append(mainQueue, m)
    PROVE  /\ \A call : StartPosted(call) \/ (m.kind = "start" /\ m.call = call) => StartPosted(call)'
           /\ StopPosted \/ m.kind = "stop" => StopPosted'
           /\ PostedWithDns /\ (m.kind = "start" => m.dns # NoDns) => PostedWithDns'
<1>1. mainQueue \in Seq(Message)
  BY DEF Types, SystemTypeOK
<1>2. /\ DOMAIN mainQueue = 1..Len(mainQueue) /\ Len(mainQueue) \in Nat
      /\ DOMAIN mainQueue' = 1..(Len(mainQueue) + 1)
      /\ \A i \in DOMAIN mainQueue : mainQueue'[i] = mainQueue[i]
      /\ mainQueue'[Len(mainQueue) + 1] = m
  BY <1>1
<1>3. /\ DOMAIN mainQueue \subseteq DOMAIN mainQueue'
      /\ \A i \in DOMAIN mainQueue' : i \in DOMAIN mainQueue \/ i = Len(mainQueue) + 1
      /\ Len(mainQueue) + 1 \in DOMAIN mainQueue'
  BY <1>2
<1>4. \A call : StartPosted(call) \/ (m.kind = "start" /\ m.call = call) => StartPosted(call)'
  BY <1>2, <1>3 DEF StartPosted
<1>5. StopPosted \/ m.kind = "stop" => StopPosted'
  BY <1>2, <1>3 DEF StopPosted
<1>6. PostedWithDns /\ (m.kind = "start" => m.dns # NoDns) => PostedWithDns'
  BY <1>2, <1>3 DEF PostedWithDns
<1> QED BY <1>4, <1>5, <1>6

LEMMA Serving ==
    ASSUME Types, mainQueue # <<>>, Dequeue
    PROVE  /\ \A call : StartPosted(call) =>
                            StartPosted(call)' \/ (Head0.kind = "start" /\ Head0.call = call)
           /\ StopPosted => StopPosted' \/ Head0.kind = "stop"
           /\ PostedWithDns => PostedWithDns' /\ (Head0.kind = "start" => Head0.dns # NoDns)
<1>1. mainQueue \in Seq(Message) /\ mainQueue' = Tail(mainQueue)
  BY DEF Types, SystemTypeOK, Dequeue
<1>2. /\ DOMAIN mainQueue = 1..Len(mainQueue) /\ Len(mainQueue) \in Nat \ {0}
      /\ DOMAIN mainQueue' = 1..(Len(mainQueue) - 1)
      /\ \A i \in 1..(Len(mainQueue) - 1) : mainQueue'[i] = mainQueue[i + 1]
  BY <1>1
<1>3. /\ \A i \in DOMAIN mainQueue : i = 1 \/ \E j \in DOMAIN mainQueue' : mainQueue'[j] = mainQueue[i]
      /\ \A j \in DOMAIN mainQueue' : \E i \in DOMAIN mainQueue : mainQueue'[j] = mainQueue[i]
      /\ 1 \in DOMAIN mainQueue
  <2>1. ASSUME NEW i \in DOMAIN mainQueue, i # 1
        PROVE  \E j \in DOMAIN mainQueue' : mainQueue'[j] = mainQueue[i]
    <3>1. i - 1 \in 1..(Len(mainQueue) - 1) /\ (i - 1) + 1 = i
      BY <1>2, <2>1
    <3> QED BY <1>2, <3>1
  <2>2. ASSUME NEW j \in DOMAIN mainQueue'
        PROVE  \E i \in DOMAIN mainQueue : mainQueue'[j] = mainQueue[i]
    BY <1>2, <2>2
  <2> QED BY <1>2, <2>1, <2>2
<1>4. \A call : StartPosted(call) =>
                    StartPosted(call)' \/ (Head0.kind = "start" /\ Head0.call = call)
  BY <1>3 DEF StartPosted, Head0
<1>5. StopPosted => StopPosted' \/ Head0.kind = "stop"
  BY <1>3 DEF StopPosted, Head0
<1>6. PostedWithDns => PostedWithDns' /\ (Head0.kind = "start" => Head0.dns # NoDns)
  BY <1>3 DEF PostedWithDns, Head0
<1> QED BY <1>4, <1>5, <1>6
-----------------------------------------------------------------------------
(* What becomes of those who owe a report.                                 *)

\* The rest of the state only adds to what is owed, or settles it.
LEMMA SidesKept ==
    ASSUME StartSide, StopSide, SlotsKept, UNCHANGED <<js, stopGaveUp>>,
           \A call : StartPosted(call) => StartPosted(call)',
           StopPosted => StopPosted',
           \A w \in Worker : pendingStart' # None /\ pendingStart # None /\ StartOwed(w)
                                => StartOwed(w)',
           \A w \in Worker : pendingStop' # None /\ pendingStop # None /\ StopOwed(w)
                                => StopOwed(w)'
    PROVE  StartSide' /\ StopSide'
<1>1. StartSide'
  BY DEF StartSide, SlotsKept
<1>2. StopSide'
  BY DEF StopSide, SlotsKept
<1> QED BY <1>1, <1>2

\* A command that owes its start a report still does after its step, or has reported.
LEMMA StepOwesStart ==
    ASSUME Types, NEW w \in Worker, WorkerStep(w), StartOwed(w),
           pendingStart # None, pendingStart' # None
    PROVE  StartOwed(w)'
<1>1. /\ ~Bus!ResolveStart(worker[w].token, FALSE) /\ ~Bus!ResolveStart(worker[w].token, TRUE)
      /\ worker[w].kind = "start"
  BY ResolveStartSlots DEF StartOwed
<1>2. worker'[w].kind = "start" /\ worker'[w].token = worker[w].token
  BY <1>1, CommandKept
<1>3. \A label \in Label : Goto(w, label) => pc'[w] = label
  BY DEF Goto, Types, ThreadTypeOK
<1>4. UNCHANGED pendingStartToken
  <2>1. CASE UNCHANGED busVars
    BY <2>1
  <2>2. CASE Bus!ResolveStop
    BY <2>2, ResolveStopSlots
  <2>3. CASE Bus!ResolveStart(worker[w].token, FALSE) \/ Bus!ResolveStart(worker[w].token, TRUE)
    BY <1>1, <2>3
  <2> QED
    BY <2>1, <2>2, <2>3
       DEF WorkerStep, StartSuperseded, StopSuperseded, StartBegins, StopBegins, TeardownBegins,
           Halt, ReuseTun, Establish, EstablishFails, InstallTun, CheckDestroyed, StartBypass,
           StartEngine, Verify, Publish, DecideFailure, HoldTunnel, ReportError,
           StopEngineBounded, DropTunnel, AfterStart, AfterStop, AfterDestroy, SettleStop
<1>5. CASE pc'[w] \in Reporting
  BY <1>2, <1>4, <1>5 DEF StartOwed, Reporting
<1>6. CASE pc'[w] \in {"stopEngine", "dropTunnel", "after"} /\ worker'[w].reason = "destroyed"
  BY <1>2, <1>4, <1>6 DEF StartOwed
<1>7. CASE StartBegins(w)
  BY <1>3, <1>5, <1>7 DEF StartBegins, Label, Reporting
<1>8. CASE Halt(w) \/ ReuseTun(w) \/ Establish(w) \/ EstablishFails(w) \/ InstallTun(w)
  BY <1>3, <1>5, <1>8 DEF Halt, ReuseTun, Establish, EstablishFails, InstallTun, Label, Reporting
<1>9. CASE StartBypass(w) \/ StartEngine(w) \/ DecideFailure(w)
  BY <1>3, <1>5, <1>9 DEF StartBypass, StartEngine, DecideFailure, Label, Reporting
<1>10. CASE Verify(w)
  BY <1>1, <1>3, <1>5, <1>10 DEF Verify, Label, Reporting
<1>11. CASE CheckDestroyed(w)
  <2>1. CASE Because(w, "destroyed") /\ Goto(w, "stopEngine")
    <3>1. worker'[w].reason = "destroyed"
      BY <2>1 DEF Because, Types, ThreadTypeOK, WorkerRecord
    <3> QED BY <1>3, <1>6, <2>1, <3>1 DEF Label
  <2>2. CASE Goto(w, IF worker[w].fromStore THEN "bypass" ELSE "engine")
    BY <1>3, <1>5, <2>2 DEF Label, Reporting
  <2> QED BY <1>11, <2>1, <2>2 DEF CheckDestroyed
<1>12. CASE StopEngineBounded(w) \/ DropTunnel(w)
  <2>1. worker[w].reason = "destroyed" /\ UNCHANGED worker
    BY <1>12 DEF StopEngineBounded, DropTunnel, At, StartOwed
  <2> QED BY <1>3, <1>6, <1>12, <2>1 DEF StopEngineBounded, DropTunnel, Label
<1>13. CASE AfterStart(w)
  BY <1>1, <1>13 DEF AfterStart, At, StartOwed
<1>14. CASE StartSuperseded(w) \/ Publish(w) \/ HoldTunnel(w) \/ ReportError(w)
  BY <1>1, <1>14 DEF StartSuperseded, Publish, HoldTunnel, ReportError
<1>15. CASE StopSuperseded(w) \/ StopBegins(w) \/ TeardownBegins(w) \/ AfterStop(w)
            \/ AfterDestroy(w) \/ SettleStop(w)
  BY <1>1, <1>15 DEF StopSuperseded, StopBegins, TeardownBegins, AfterStop, AfterDestroy,
                     SettleStop, At, StartOwed
<1> QED
  BY <1>7, <1>8, <1>9, <1>10, <1>11, <1>12, <1>13, <1>14, <1>15 DEF WorkerStep

LEMMA StepOwesStop ==
    ASSUME Types, ReportsOwnStart, NEW w \in Worker, WorkerStep(w), StopOwed(w),
           pendingStop' # None
    PROVE  StopOwed(w)'
<1>1. ~Bus!ResolveStop /\ worker[w].kind = "stop"
  BY ResolveStopSlots DEF StopOwed
<1>2. worker'[w].kind = "stop"
  BY <1>1, CommandKept
<1>3. \A label \in Label : Goto(w, label) => pc'[w] = label
  BY DEF Goto, Types, ThreadTypeOK
<1>4. pc[w] \notin Reporting
  BY <1>1 DEF ReportsOwnStart
<1>5. CASE StopBegins(w) \/ StopEngineBounded(w) \/ DropTunnel(w)
  BY <1>2, <1>3, <1>5 DEF StopBegins, StopEngineBounded, DropTunnel, Label, StopOwed
<1>6. CASE StartSuperseded(w) \/ StartBegins(w) \/ TeardownBegins(w) \/ AfterStart(w)
           \/ AfterDestroy(w)
  BY <1>1, <1>6 DEF StartSuperseded, StartBegins, TeardownBegins, AfterStart, AfterDestroy
<1>7. CASE StopSuperseded(w) \/ AfterStop(w) \/ SettleStop(w)
  BY <1>1, <1>7 DEF StopSuperseded, AfterStop, SettleStop
<1> QED
  BY <1>4, <1>5, <1>6, <1>7
     DEF WorkerStep, Halt, ReuseTun, Establish, EstablishFails, InstallTun, CheckDestroyed,
         StartBypass, StartEngine, Verify, Publish, DecideFailure, HoldTunnel, ReportError,
         At, Reporting

LEMMA WorkerStepOwed ==
    ASSUME Types, ReportsOwnStart, Owed, NEW w \in Worker, WorkerStep(w)
    PROVE  StartSide' /\ StopSide' /\ PostedWithDns'
<1>1. UNCHANGED <<js, stopGaveUp, mainQueue>>
  BY StepShape
<1>2. SlotsKept
  BY StepUsesBus, BusStepKeeps
<1>3. \A v \in Worker : v # w => UNCHANGED <<worker[v], pc[v]>>
  BY StepShape DEF Labelled, Noted, Goto, TakeTun, Because, Types, ThreadTypeOK
<1>4. ASSUME NEW v \in Worker, pendingStart' # None, pendingStart # None, StartOwed(v)
      PROVE  StartOwed(v)'
  <2>1. CASE v = w
    BY <1>4, <2>1, StepOwesStart
  <2>2. CASE v # w
    <3>1. UNCHANGED <<worker[v], pc[v], pendingStartToken>>
      BY <1>2, <1>3, <1>4, <2>2 DEF SlotsKept
    <3> QED BY <1>4, <3>1 DEF StartOwed
  <2> QED BY <2>1, <2>2
<1>5. ASSUME NEW v \in Worker, pendingStop' # None, pendingStop # None, StopOwed(v)
      PROVE  StopOwed(v)'
  <2>1. CASE v = w
    BY <1>5, <2>1, StepOwesStop
  <2>2. CASE v # w
    BY <1>3, <1>5, <2>2 DEF StopOwed
  <2> QED BY <2>1, <2>2
<1>6. /\ \A call : StartPosted(call) => StartPosted(call)'
      /\ StopPosted => StopPosted'
      /\ PostedWithDns => PostedWithDns'
  BY <1>1 DEF StartPosted, StopPosted, PostedWithDns
<1>7. StartSide' /\ StopSide'
  BY <1>1, <1>2, <1>4, <1>5, <1>6, SidesKept DEF Owed
<1> QED BY <1>6, <1>7 DEF Owed

\* A thread that is started takes nothing from those that run.
LEMMA SpawnOwes ==
    ASSUME Types, NEW kind, NEW m, NEW dns, NEW o, NEW seq, NEW token,
           Spawn(kind, m, dns, o, seq, token), UNCHANGED pendingStartToken
    PROVE  /\ \A w \in Worker : /\ StartOwed(w) => StartOwed(w)'
                                /\ StopOwed(w) => StopOwed(w)'
           /\ kind = "start" /\ token = pendingStartToken => \E w \in Worker : StartOwed(w)'
           /\ kind = "stop" => \E w \in Worker : StopOwed(w)'
<1>1. PICK x \in Worker : x = spawned + 1
  BY DEF Spawn
<1>2. /\ worker'[x].kind = kind /\ worker'[x].token = token /\ pc'[x] = "queued"
      /\ \A v \in Worker : v # x => worker'[v] = worker[v] /\ pc'[v] = pc[v]
  BY <1>1 DEF Spawn, Types, ThreadTypeOK
<1>3. pc[x] = "none"
  BY <1>1, BoundTypes DEF Types, Threads, ThreadTypeOK, None
<1>4. ASSUME NEW v \in Worker, v # x
      PROVE  (StartOwed(v) => StartOwed(v)') /\ (StopOwed(v) => StopOwed(v)')
  BY <1>2, <1>4 DEF StartOwed, StopOwed
<1>5. ~StartOwed(x) /\ ~StopOwed(x)
  BY <1>3 DEF StartOwed, StopOwed
<1>6. kind = "start" /\ token = pendingStartToken => StartOwed(x)'
  BY <1>2 DEF StartOwed
<1>7. kind = "stop" => StopOwed(x)'
  BY <1>2 DEF StopOwed
<1> QED BY <1>4, <1>5, <1>6, <1>7

LEMMA MainThreadOwed ==
    ASSUME Types, Owed, MainThread
    PROVE  StartSide' /\ StopSide' /\ PostedWithDns'
<1>1. mainQueue # <<>> /\ Dequeue
  BY DEF MainThread, OnStop, OnStart, OnStartNoConfig, OnDestroy, Accept
<1>2. UNCHANGED <<js, stopGaveUp>>
  BY DEF MainThread, OnStop, OnStart, OnStartNoConfig, OnDestroy, Accept
<1>3. /\ \A call : StartPosted(call) =>
                       StartPosted(call)' \/ (Head0.kind = "start" /\ Head0.call = call)
      /\ StopPosted => StopPosted' \/ Head0.kind = "stop"
      /\ PostedWithDns' /\ (Head0.kind = "start" => Head0.dns # NoDns)
  BY <1>1, Serving DEF Owed
<1>4. StartSide /\ StopSide
  BY DEF Owed
<1>5. CASE OnStop
  <2>1. Accept("stop", "disconnecting") /\ Head0.kind # "start"
    BY <1>5 DEF OnStop
  <2>2. UNCHANGED <<pendingStart, pendingStartToken, pendingStop>>
    BY <2>1 DEF Accept
  <2>3. /\ \A w \in Worker : /\ StartOwed(w) => StartOwed(w)'
                             /\ StopOwed(w) => StopOwed(w)'
        /\ \E w \in Worker : StopOwed(w)'
    BY <2>1, <2>2, SpawnOwes DEF Accept
  <2> QED BY <1>2, <1>3, <1>4, <2>1, <2>2, <2>3 DEF StartSide, StopSide
<1>6. CASE OnStart
  <2>1. Accept("start", "connecting") /\ Head0.kind # "stop"
    BY <1>6 DEF OnStart
  <2>2. UNCHANGED <<pendingStart, pendingStartToken, pendingStop>>
    BY <2>1 DEF Accept
  <2>3. /\ \A w \in Worker : /\ StartOwed(w) => StartOwed(w)'
                             /\ StopOwed(w) => StopOwed(w)'
        /\ \E w \in Worker : StartOwed(w)'
    BY <2>1, <2>2, SpawnOwes DEF Accept
  <2> QED BY <1>2, <1>3, <1>4, <2>1, <2>2, <2>3 DEF StartSide, StopSide
<1>7. CASE OnStartNoConfig
  <2>1. Head0.kind = "startLast" /\ UNCHANGED <<worker, pc>>
    BY <1>7 DEF OnStartNoConfig
  <2>2. SlotsKept
    BY <1>7, ResolveStartSlots DEF OnStartNoConfig, SlotsKept
  <2>3. \A w \in Worker : /\ pendingStart' # None /\ pendingStart # None /\ StartOwed(w) => StartOwed(w)'
                          /\ StopOwed(w) => StopOwed(w)'
    BY <2>1, <2>2 DEF SlotsKept, StartOwed, StopOwed
  <2> QED BY <1>2, <1>3, <1>4, <2>1, <2>2, <2>3, SidesKept
<1>8. CASE OnDestroy
  <2>1. Head0.kind = "destroy" /\ Spawn("destroy", Head0, NoDns, Head0.object, 0, None)
        /\ UNCHANGED busVars
    BY <1>8 DEF OnDestroy
  <2>2. \A w \in Worker : /\ StartOwed(w) => StartOwed(w)'
                          /\ StopOwed(w) => StopOwed(w)'
    BY <2>1, SpawnOwes
  <2>3. SlotsKept
    BY <2>1 DEF SlotsKept
  <2> QED BY <1>2, <1>3, <1>4, <2>1, <2>2, <2>3, SidesKept
<1> QED BY <1>3, <1>5, <1>6, <1>7, <1>8 DEF MainThread

LEMMA StartServiceOwed ==
    ASSUME Types, PostedWithDns, NEW kind \in {"start", "startLast", "stop"},
           NEW dns \in DnsServers \cup {NoDns}, NEW call \in StartCall \cup {None},
           StartService(kind, dns, call), kind = "start" => dns \in DnsServers
    PROVE  /\ \A c : StartPosted(c) \/ (kind = "start" /\ call = c) => StartPosted(c)'
           /\ StopPosted \/ kind = "stop" => StopPosted'
           /\ PostedWithDns'
<1> DEFINE o == IF current = None THEN created + 1 ELSE current
           m == [kind |-> kind, object |-> o, startId |-> lastStartId + 1,
                 dns |-> dns, call |-> call]
<1>1. o \in Object /\ lastStartId + 1 \in Nat
  BY DEF StartService, Types, SystemTypeOK
<1>2. m \in Message /\ m.kind = kind /\ m.call = call /\ m.dns = dns
  BY <1>1 DEF Message
<1>3. mainQueue' = Append(mainQueue, m)
  BY DEF StartService
<1>4. kind = "start" => dns # NoDns
  BY BoundsAssumption
<1> HIDE DEF m
<1> QED BY <1>2, <1>3, <1>4, Posting

\* A step that starts no thread and leaves the slots alone, and only posts.
LEMMA QuietOwed ==
    ASSUME Owed, UNCHANGED <<worker, pc, pendingStart, pendingStartToken, pendingStop, js, stopGaveUp>>,
           \A call : StartPosted(call) => StartPosted(call)',
           StopPosted => StopPosted'
    PROVE  StartSide' /\ StopSide'
BY DEF Owed, StartSide, StopSide, StartOwed, StopOwed

LEMMA SystemOwed ==
    ASSUME Types, Owed, System
    PROVE  StartSide' /\ StopSide' /\ PostedWithDns'
<1>1. CASE BringDown \/ SystemDestroy
  <2> DEFINE m == [kind |-> "destroy", object |-> current, startId |-> 0,
                   dns |-> NoDns, call |-> None]
  <2>1. m \in Message /\ m.kind = "destroy"
    BY <1>1 DEF BringDown, SystemDestroy, Types, SystemTypeOK, Message
  <2>2. mainQueue' = Append(mainQueue, m)
    BY <1>1 DEF BringDown, SystemDestroy, PostDestroy
  <2> HIDE DEF m
  <2>3. /\ \A call : StartPosted(call) => StartPosted(call)'
        /\ StopPosted => StopPosted'
        /\ PostedWithDns'
    BY <2>1, <2>2, Posting DEF Owed
  <2>4. UNCHANGED <<worker, pc, pendingStart, pendingStartToken, pendingStop, js, stopGaveUp>>
    BY <1>1 DEF BringDown, SystemDestroy
  <2> QED BY <2>3, <2>4, QuietOwed
<1>2. CASE SystemRevoke \/ GoLetsGo \/ LateEngineStop
  <2>1. UNCHANGED <<worker, pc, pendingStart, pendingStartToken, pendingStop, js, stopGaveUp,
                    mainQueue>>
    BY <1>2 DEF SystemRevoke, GoLetsGo, LateEngineStop
  <2> QED BY <2>1, QuietOwed DEF StartPosted, StopPosted, PostedWithDns, Owed
<1>3. CASE OnRevoke
  <2>1. UNCHANGED <<busVars, js, stopGaveUp, mainQueue>>
        /\ \E m : Spawn("revoke", m, NoDns, revoking, 0, None)
    BY <1>3 DEF OnRevoke
  <2>2. \A w \in Worker : /\ StartOwed(w) => StartOwed(w)'
                          /\ StopOwed(w) => StopOwed(w)'
    BY <2>1, SpawnOwes
  <2>3. SlotsKept
    BY <2>1 DEF SlotsKept
  <2>4. /\ \A call : StartPosted(call) => StartPosted(call)'
        /\ StopPosted => StopPosted'
        /\ PostedWithDns'
    BY <2>1 DEF StartPosted, StopPosted, PostedWithDns, Owed
  <2> QED BY <2>1, <2>2, <2>3, <2>4, SidesKept DEF Owed
<1> QED BY <1>1, <1>2, <1>3 DEF System

LEMMA CallerOwed ==
    ASSUME Types, ArmedCall, Owed, Caller
    PROVE  StartSide' /\ StopSide' /\ PostedWithDns'
<1>0. /\ UNCHANGED mainQueue => /\ \A call : StartPosted(call) => StartPosted(call)'
                                /\ StopPosted => StopPosted'
                                /\ PostedWithDns'
      /\ StartSide /\ StopSide /\ PostedWithDns
  BY DEF StartPosted, StopPosted, PostedWithDns, Owed
<1>1. CASE JsStart
  <2>1. js' = "startArmed" /\ js = "idle" /\ UNCHANGED <<mainQueue, worker, pc, pendingStop, stopGaveUp>>
    BY <1>1 DEF JsStart, JsFree, Bus!SetPendingStart, Bus!stopVars
  <2> QED BY <1>0, <2>1 DEF StartSide, StopSide, StopOwed
<1>2. CASE JsSendStart
  <2>1. js = "startArmed" /\ js' = "idle" /\ StartService("start", DefaultDns, startTokenSeq)
        /\ UNCHANGED <<worker, pc, busVars, stopGaveUp>>
    BY <1>2 DEF JsSendStart, ThisStart
  <2>2. startTokenSeq \in StartCall \cup {None} /\ DefaultDns \in DnsServers
    BY <2>1, BoundsAssumption DEF ArmedCall
  <2>3. StartPosted(startTokenSeq)' /\ (StopPosted => StopPosted') /\ PostedWithDns'
    BY <1>0, <2>1, <2>2, StartServiceOwed
  <2>4. pendingStart' # None => pendingStart' = startTokenSeq
    BY <2>1 DEF Owed, NewestArmed
  <2> QED BY <1>0, <2>1, <2>3, <2>4 DEF StartSide, StopSide, StopOwed
<1>3. CASE JsStartRefused
  <2>1. js = "startArmed" /\ js' = "idle" /\ UNCHANGED <<worker, pc, mainQueue, stopGaveUp>>
        /\ Bus!ResolveStart(tokenOf[startTokenSeq], FALSE)
    BY <1>3 DEF JsStartRefused, ThisStart
  <2>2. pendingStart' = None /\ UNCHANGED pendingStop
    BY <2>1, ResolveStartSlots DEF Owed, CallerAwaitsOne, NewestArmed
  <2> QED BY <1>0, <2>1, <2>2 DEF StartSide, StopSide, StopOwed
<1>4. CASE JsStop
  <2>1. js' = "stopArmed" /\ pendingStart' = None /\ UNCHANGED mainQueue
    BY <1>4 DEF JsStop, JsFree, Bus!SetPendingStop, Bus!startVars
  <2> QED BY <1>0, <2>1 DEF StartSide, StopSide
<1>5. CASE JsSendStop
  <2>1. js = "stopArmed" /\ js' = "idle" /\ StartService("stop", NoDns, None)
        /\ UNCHANGED <<worker, pc, busVars, stopGaveUp>>
    BY <1>5 DEF JsSendStop
  <2>2. (\A c : StartPosted(c) => StartPosted(c)') /\ StopPosted' /\ PostedWithDns'
    BY <1>0, <2>1, StartServiceOwed
  <2> QED BY <1>0, <2>1, <2>2 DEF StartSide, StopSide, StartOwed
<1>6. CASE JsStopGivesUp
  <2>1. stopGaveUp' = TRUE /\ UNCHANGED <<worker, pc, busVars, mainQueue>>
        /\ ~stopGaveUp /\ pendingStop = MaxStarts + stopCalls
    BY <1>6 DEF JsStopGivesUp, ThisStop
  <2>2. js # "startArmed"
    <3>1. SUFFICES ASSUME js = "startArmed" PROVE FALSE
      OBVIOUS
    <3>2. MaxStarts \in Nat /\ startTokenSeq \in 1..MaxStarts /\ stopCalls \in Nat
      BY <3>1, BoundsAssumption DEF ArmedCall, StartCall, Types, CallerTypeOK
    <3>3. pendingStop # None
      BY <2>1, <3>2 DEF None
    <3> QED BY <2>1, <3>1, <3>3 DEF Owed, CallerAwaitsOne
  <2> QED BY <1>0, <2>1, <2>2 DEF StartSide, StopSide, StartOwed
<1>7. CASE SetKillSwitch \/ ClearStoredConfig
  BY <1>0, <1>7, QuietOwed DEF SetKillSwitch, ClearStoredConfig
<1>8. CASE Tap
  <2>1. UNCHANGED <<worker, pc, pendingStart, pendingStartToken, pendingStop, js, stopGaveUp>>
    BY <1>8 DEF Tap
  <2>2. \E kind \in {"start", "startLast", "stop"}, dns \in DnsServers \cup {NoDns} :
           StartService(kind, dns, None) /\ (kind = "start" => dns \in DnsServers)
    BY <1>8 DEF Tap
  <2>3. (\A c : StartPosted(c) => StartPosted(c)') /\ (StopPosted => StopPosted') /\ PostedWithDns'
    BY <1>0, <2>2, StartServiceOwed
  <2> QED BY <2>1, <2>3, QuietOwed
<1> QED BY <1>1, <1>2, <1>3, <1>4, <1>5, <1>6, <1>7, <1>8 DEF Caller

LEMMA NextOwed ==
    Types /\ ArmedCall /\ BusUse /\ Owed /\ [Next]_vars => Owed'
<1> SUFFICES ASSUME Types, ArmedCall, BusUse, Owed, [Next]_vars PROVE Owed'
  OBVIOUS
<1>1. ReportsOwnStart /\ NewestArmed /\ CallerAwaitsOne
  BY DEF BusUse, Owed
<1>2. NewestArmed' /\ CallerAwaitsOne'
  BY <1>1, NextNewestArmed, NextCallerAwaitsOne
<1>3. CASE \E w \in Worker : WorkerStep(w)
  BY <1>1, <1>2, <1>3, WorkerStepOwed DEF Owed
<1>4. CASE Caller \/ System \/ MainThread
  BY <1>2, <1>4, CallerOwed, SystemOwed, MainThreadOwed DEF Owed
<1>5. CASE UNCHANGED vars
  BY <1>5 DEF Owed, StartSide, StopSide, PostedWithDns, NewestArmed, CallerAwaitsOne,
              StartPosted, StopPosted, StartOwed, StopOwed
<1> QED BY <1>3, <1>4, <1>5 DEF Next

\* connect() and disconnect() are never orphaned, for any number of calls, commands and
\* objects: as long as the promise is armed, its caller has the intent still to send, the
\* intent is in the queue, or a command that will settle it has not reported yet.
THEOREM ServicePromisesOwed == Spec => []PromisesOwed
<1>1. Owed => PromisesOwed
  BY OwedSides DEF Owed
<1> QED BY <1>1, InitOwed, NextOwed, AlwaysBusUse, PTL DEF Spec
=============================================================================
