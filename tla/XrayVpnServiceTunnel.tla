------------------------ MODULE XrayVpnServiceTunnel ------------------------
(***************************************************************************)
(* Who owns which tun descriptor, for any number of service objects,       *)
(* commands, revocations and destructions.  The workers of one object      *)
(* exclude each other; those of two objects do not, and meet at the engine *)
(* of the process.                                                         *)
(***************************************************************************)
EXTENDS XrayVpnServiceProofs

USE DEF flagVars, engineVars, busVars, prefVars, tunVars, cmdVars, threadVars,
        amsVars, netVars, boundVars, jsVars, vars, outside, effectVars, notJs

\* The labels of a worker inside synchronized(engineLock).
Inside == Label \ {"none", "queued", "settle", "done"}

LockHeld == \A w \in Worker : pc[w] \in Inside => engineLock[Obj(w)] = w

\* A service object owns a descriptor of one of its own workers, still open.
TunnelOwned ==
    \A o \in Object : tunnel[o] # None =>
        /\ pc[tunnel[o]] # "none"
        /\ Obj(tunnel[o]) = o
        /\ fd[tunnel[o]] = "open"

\* A worker that has not established yet has no descriptor of its own; one that
\* has, and has not installed it, holds it in its locals.
NotYetEstablished ==
    \A w \in Worker :
        /\ pc[w] \in {"none", "queued", "halt", "tun"} => fd[w] = "none"
        /\ pc[w] = "install" => /\ fd[w] = "open" /\ worker[w].tunFd = w
                                /\ tunnel[Obj(w)] # w

\* The worker about to start the engine works with its object's descriptor.
StartsOnTunnel ==
    \A w \in Worker : pc[w] \in {"check", "bypass", "engine"} =>
        tunnel[Obj(w)] # None /\ worker[w].tunFd = tunnel[Obj(w)]

\* The engine reads a descriptor that was established and not closed.
EngineOnOpenFd ==
    engineFd # None => pc[engineFd] # "none" /\ fd[engineFd] \in {"open", "parked"}

\* While a worker may install a descriptor, the engine is off its object's.
EngineHalted ==
    \A w \in Worker : pc[w] \in {"tun", "install", "check", "bypass", "engine"} =>
        engineFd = None \/ Obj(engineFd) # Obj(w)

\* So it is when a worker drops the tunnel, or the engine is wedged.
EngineStopped ==
    \A w \in Worker : pc[w] = "dropTunnel" =>
        engineFd = None \/ isWedged \/ Obj(engineFd) # Obj(w)

OpenIsOwned ==
    \A f \in Worker : fd[f] = "open" => pc[f] = "install" \/ tunnel[Obj(f)] = f

\* Somebody is on the way to drop the tunnel of a destroyed object.
Dropper(w) == \/ worker[w].kind = "destroy" /\ pc[w] = "queued"
              \/ pc[w] \in {"check", "stopEngine", "dropTunnel"}

DestroyedIsDropped ==
    \A o \in Object : destroyed[o] /\ tunnel[o] # None =>
        \E w \in Worker : Obj(w) = o /\ Dropper(w)

Ownership == /\ LockHeld /\ TunnelOwned /\ NotYetEstablished /\ StartsOnTunnel
             /\ EngineOnOpenFd /\ EngineHalted /\ EngineStopped
             /\ OpenIsOwned /\ DestroyedIsDropped
-----------------------------------------------------------------------------
(* What a step of a worker leaves alone.                                   *)

LEMMA Frame ==
    ASSUME Types, NEW w \in Worker, WorkerStep(w)
    PROVE  /\ Obj(w) \in Object /\ pc[w] # "none"
           /\ UNCHANGED destroyed
           /\ \A v \in Worker :
                 /\ Obj(v)' = Obj(v) /\ worker'[v].kind = worker[v].kind
                 /\ pc'[v] = "none" <=> pc[v] = "none"
                 /\ v # w => pc'[v] = pc[v] /\ worker'[v].tunFd = worker[v].tunFd
<1>1. Labelled(w) /\ Noted(w) /\ UNCHANGED outside
  BY StepShape
<1>2. pc[w] # "none" /\ Obj(w) \in Object
  BY <1>1 DEF Labelled, Types, Threads
<1>3. worker \in [Worker -> WorkerRecord] /\ pc \in [Worker -> Label]
  BY DEF Types, ThreadTypeOK
<1>4. \A v \in Worker : /\ Obj(v)' = Obj(v) /\ worker'[v].kind = worker[v].kind
                        /\ v # w => worker'[v].tunFd = worker[v].tunFd
  BY <1>1, <1>3 DEF Noted, TakeTun, Because, Obj, WorkerRecord
<1>5. PICK label \in Label \ {"none"} : pc' = [pc EXCEPT ![w] = label]
  BY <1>1 DEF Labelled, Goto
<1>6. \A v \in Worker : /\ pc'[v] = "none" <=> pc[v] = "none"
                        /\ v # w => pc'[v] = pc[v]
  BY <1>2, <1>3, <1>5
<1> QED BY <1>1, <1>2, <1>4, <1>6

\* A worker takes the lock when it leaves the queue, and gives it back, if it
\* has it, when it is through.
LEMMA LockShape ==
    ASSUME Types, NEW w \in Worker, WorkerStep(w)
    PROVE  \/ pc[w] \in Inside /\ UNCHANGED engineLock
           \/ pc[w] = "queued" /\ Enter(w)
           \/ pc'[w] \notin Inside /\ pc[w] \in Inside /\ Leave(w)
           \/ pc'[w] \notin Inside /\ UNCHANGED engineLock
<1> USE DEF Inside, Label
<1>0. \A label : Goto(w, label) => pc'[w] = label
  BY DEF Types, ThreadTypeOK, Goto
<1>1. CASE StartSuperseded(w) \/ StopSuperseded(w) \/ StartBegins(w) \/ StopBegins(w) \/ TeardownBegins(w)
  BY <1>0, <1>1
     DEF StartSuperseded, StopSuperseded, StartBegins, StopBegins, TeardownBegins, At
<1>2. CASE Halt(w) \/ ReuseTun(w) \/ Establish(w) \/ EstablishFails(w) \/ InstallTun(w) \/ CheckDestroyed(w)
  BY <1>2 DEF Halt, ReuseTun, Establish, EstablishFails, InstallTun, CheckDestroyed, At
<1>3. CASE StartBypass(w) \/ StartEngine(w) \/ Verify(w) \/ Publish(w) \/ DecideFailure(w)
  BY <1>0, <1>3 DEF StartBypass, StartEngine, Verify, Publish, DecideFailure, At
<1>4. CASE HoldTunnel(w) \/ ReportError(w) \/ StopEngineBounded(w) \/ DropTunnel(w)
  BY <1>0, <1>4 DEF HoldTunnel, ReportError, StopEngineBounded, DropTunnel, At
<1>5. CASE AfterStart(w) \/ AfterStop(w) \/ AfterDestroy(w) \/ SettleStop(w)
  BY <1>0, <1>5 DEF AfterStart, AfterStop, AfterDestroy, SettleStop, At
<1> QED BY <1>1, <1>2, <1>3, <1>4, <1>5 DEF WorkerStep

LEMMA StepKeepsLock ==
    ASSUME Types, LockHeld, NEW w \in Worker, WorkerStep(w)
    PROVE  LockHeld'
<1> SUFFICES ASSUME NEW v \in Worker, pc'[v] \in Inside
             PROVE  engineLock'[Obj(v)] = v
  BY Frame DEF LockHeld
<1>1. Obj(v) \in Object /\ Obj(w) \in Object /\ engineLock \in [Object -> Worker \cup {None}]
  BY Frame DEF Types, ObjectTypeOK, Threads, Inside
<1>2. CASE v = w
  BY <1>1, <1>2, LockShape DEF LockHeld, Enter
<1>3. CASE v # w
  <2>1. engineLock[Obj(v)] = v
    BY <1>3, Frame DEF LockHeld
  <2>2. pc[w] \in Inside => Obj(v) # Obj(w)
    BY <1>3, <2>1 DEF LockHeld
  <2>3. CASE Enter(w)
    BY <1>1, <2>1, <2>3, BoundTypes DEF Enter
  <2>4. CASE pc[w] \in Inside /\ Leave(w)
    BY <1>1, <2>1, <2>2, <2>4 DEF Leave
  <2> QED BY <2>1, <2>3, <2>4, LockShape
<1> QED BY <1>2, <1>3

\* The workers of one object exclude each other.
LEMMA Exclusion ==
    ASSUME LockHeld, NEW v \in Worker, NEW w \in Worker,
           pc[v] \in Inside, pc[w] \in Inside, Obj(v) = Obj(w)
    PROVE  v = w
BY DEF LockHeld
-----------------------------------------------------------------------------
(* Steps that only move a worker on.                                       *)

Quiet == UNCHANGED <<tunnel, fd, engineFd, isWedged, destroyed>>

Moves(w) ==
    /\ Quiet
    /\ worker'[w].tunFd = worker[w].tunFd
    /\ pc[w] \notin {"none", "install", "stopEngine", "dropTunnel"}
    /\ pc'[w] \notin {"none", "queued", "tun", "install", "check", "dropTunnel"}
    /\ pc'[w] = "halt" => pc[w] = "queued"
    /\ pc'[w] \in {"bypass", "engine"} => pc[w] \in {"check", "bypass"}
    /\ Dropper(w) => pc'[w] = "stopEngine" \/ ~destroyed[Obj(w)]

LEMMA MovesKeepOwnership ==
    ASSUME Types, Ownership, NEW w \in Worker, WorkerStep(w), Moves(w)
    PROVE  Ownership'
<1> USE Frame DEF Moves, Quiet
<1>1. LockHeld'
  BY StepKeepsLock DEF Ownership
<1>2. TunnelOwned'
  <2>1. tunnel \in [Object -> Worker \cup {None}]
    BY DEF Types, ObjectTypeOK
  <2> QED BY <2>1 DEF Ownership, TunnelOwned
<1>3. NotYetEstablished'
  BY DEF Ownership, NotYetEstablished
<1>4. StartsOnTunnel'
  BY DEF Ownership, StartsOnTunnel
<1>5. EngineOnOpenFd' /\ EngineHalted' /\ EngineStopped'
  <2>1. engineFd \in Worker \cup {None}
    BY DEF Types, ProcessTypeOK
  <2> QED BY <2>1 DEF Ownership, EngineOnOpenFd, EngineHalted, EngineStopped
<1>6. OpenIsOwned'
  BY DEF Ownership, OpenIsOwned
<1>7. DestroyedIsDropped'
  <2> SUFFICES ASSUME NEW o \in Object, destroyed[o], tunnel[o] # None
               PROVE  \E v \in Worker : Obj(v)' = o /\ Dropper(v)'
    BY DEF DestroyedIsDropped
  <2>1. PICK v \in Worker : Obj(v) = o /\ Dropper(v)
    BY DEF Ownership, DestroyedIsDropped
  <2>2. Dropper(v)'
    BY <2>1 DEF Dropper
  <2> QED BY <2>1, <2>2
<1> QED BY <1>1, <1>2, <1>3, <1>4, <1>5, <1>6, <1>7 DEF Ownership

LEMMA MovingSteps ==
    ASSUME Types, NEW w \in Worker, WorkerStep(w)
    PROVE  \/ Moves(w)
           \/ Halt(w) \/ ReuseTun(w) \/ Establish(w) \/ InstallTun(w)
           \/ StartEngine(w) /\ Engine!StartEngine(worker[w].tunFd)
           \/ StopEngineBounded(w) \/ DropTunnel(w)
<1> USE DEF Quiet, At, Dropper
<1>0. \A label : Goto(w, label) => pc'[w] = label
  BY DEF Types, ThreadTypeOK, Goto
<1>1. UNCHANGED worker \/ (\E reason \in Reason : Because(w, reason))
          => worker'[w].tunFd = worker[w].tunFd
  BY DEF Types, ThreadTypeOK, Because, WorkerRecord
<1>2. UNCHANGED destroyed
  BY Frame
<1>3. CASE StartSuperseded(w) \/ StopSuperseded(w) \/ StartBegins(w) \/ StopBegins(w) \/ TeardownBegins(w)
  BY <1>0, <1>1, <1>2, <1>3
     DEF StartSuperseded, StopSuperseded, StartBegins, StopBegins, TeardownBegins, Moves
<1>4. CASE EstablishFails(w) \/ CheckDestroyed(w) \/ StartBypass(w)
  BY <1>0, <1>1, <1>2, <1>4 DEF EstablishFails, CheckDestroyed, StartBypass, Moves, Reason
<1>5. CASE StartEngine(w) /\ Engine!StartEngineFails /\ Goto(w, "fail")
  BY <1>0, <1>1, <1>2, <1>5 DEF StartEngine, Engine!StartEngineFails, Engine!engineVars, Moves
<1>6. CASE Verify(w) \/ Publish(w) \/ DecideFailure(w) \/ HoldTunnel(w) \/ ReportError(w)
  BY <1>0, <1>1, <1>2, <1>6 DEF Verify, Publish, DecideFailure, HoldTunnel, ReportError, Moves, Reason
<1>7. CASE AfterStart(w) \/ AfterStop(w) \/ AfterDestroy(w) \/ SettleStop(w)
  BY <1>0, <1>1, <1>2, <1>7 DEF AfterStart, AfterStop, AfterDestroy, SettleStop, Moves
<1> QED BY <1>3, <1>4, <1>5, <1>6, <1>7 DEF WorkerStep, StartEngine
-----------------------------------------------------------------------------
(* The steps that touch a descriptor or the engine.                        *)

LEMMA HaltKeepsOwnership ==
    ASSUME Types, Ownership, NEW w \in Worker, WorkerStep(w),
           Halt(w) \/ StopEngineBounded(w)
    PROVE  Ownership'
<1> USE Frame DEF Ownership
<1>1. LockHeld'
  BY StepKeepsLock
<1>2. /\ UNCHANGED <<tunnel, fd, worker>>
      /\ engineFd' = None \/ (isWedged' /\ UNCHANGED engineFd)
      /\ \/ pc[w] = "halt" /\ pc'[w] = "tun" /\ engineFd' = None
         \/ pc[w] = "halt" /\ pc'[w] = "fail"
         \/ pc[w] = "stopEngine" /\ pc'[w] = "dropTunnel"
  BY DEF Halt, StopEngineBounded, At, Goto, Engine!StopEngine, Engine!StopEngineWedged,
         Types, ThreadTypeOK
<1>3. TunnelOwned'
  <2>1. tunnel \in [Object -> Worker \cup {None}]
    BY DEF Types, ObjectTypeOK
  <2> QED BY <1>2, <2>1 DEF TunnelOwned
<1>4. NotYetEstablished' /\ StartsOnTunnel' /\ OpenIsOwned'
  BY <1>2 DEF NotYetEstablished, StartsOnTunnel, OpenIsOwned
<1>5. EngineOnOpenFd' /\ EngineHalted' /\ EngineStopped'
  <2>1. engineFd \in Worker \cup {None}
    BY DEF Types, ProcessTypeOK
  <2> QED BY <1>2, <2>1 DEF EngineOnOpenFd, EngineHalted, EngineStopped
<1>6. DestroyedIsDropped'
  BY <1>2 DEF DestroyedIsDropped, Dropper
<1> QED BY <1>1, <1>3, <1>4, <1>5, <1>6

LEMMA ReuseTunKeepsOwnership ==
    ASSUME Types, Ownership, NEW w \in Worker, WorkerStep(w), ReuseTun(w)
    PROVE  Ownership'
<1> USE Frame DEF Ownership
<1>1. LockHeld'
  BY StepKeepsLock
<1>2. /\ UNCHANGED <<tunnel, fd, engineFd, isWedged>>
      /\ pc[w] = "tun" /\ pc'[w] = "check"
      /\ tunnel[Obj(w)] # None /\ worker'[w].tunFd = tunnel[Obj(w)]
  BY DEF ReuseTun, Reusable, TakeTun, At, Goto, Types, ThreadTypeOK, WorkerRecord
<1>3. TunnelOwned'
  <2>1. tunnel \in [Object -> Worker \cup {None}]
    BY DEF Types, ObjectTypeOK
  <2> QED BY <1>2, <2>1 DEF TunnelOwned
<1>4. NotYetEstablished' /\ StartsOnTunnel' /\ OpenIsOwned'
  BY <1>2 DEF NotYetEstablished, StartsOnTunnel, OpenIsOwned
<1>5. EngineOnOpenFd' /\ EngineHalted' /\ EngineStopped'
  <2>1. engineFd \in Worker \cup {None}
    BY DEF Types, ProcessTypeOK
  <2> QED BY <1>2, <2>1 DEF EngineOnOpenFd, EngineHalted, EngineStopped
<1>6. DestroyedIsDropped'
  BY <1>2 DEF DestroyedIsDropped, Dropper
<1> QED BY <1>1, <1>3, <1>4, <1>5, <1>6

LEMMA EstablishKeepsOwnership ==
    ASSUME Types, Ownership, NEW w \in Worker, WorkerStep(w), Establish(w)
    PROVE  Ownership'
<1> USE Frame DEF Ownership
<1>1. LockHeld'
  BY StepKeepsLock
<1>2. /\ UNCHANGED <<tunnel, engineFd, isWedged>>
      /\ pc[w] = "tun" /\ pc'[w] = "install" /\ worker'[w].tunFd = w
      /\ fd'[w] = "open" /\ \A v \in Worker \ {w} : fd'[v] = fd[v]
  BY DEF Establish, TakeTun, At, Goto, Types, ThreadTypeOK, WorkerRecord, SystemTypeOK
<1>3. tunnel \in [Object -> Worker \cup {None}] /\ engineFd \in Worker \cup {None}
  BY DEF Types, ObjectTypeOK, ProcessTypeOK
<1>4. fd[w] = "none"
  BY <1>2 DEF NotYetEstablished
<1>5. \A o \in Object : tunnel[o] # w
  BY <1>4, BoundTypes DEF TunnelOwned
<1>6. TunnelOwned'
  BY <1>2, <1>3 DEF TunnelOwned
<1>7. NotYetEstablished' /\ StartsOnTunnel' /\ OpenIsOwned'
  BY <1>2, <1>5 DEF NotYetEstablished, StartsOnTunnel, OpenIsOwned
<1>8. EngineOnOpenFd' /\ EngineHalted' /\ EngineStopped'
  BY <1>2, <1>3 DEF EngineOnOpenFd, EngineHalted, EngineStopped
<1>9. DestroyedIsDropped'
  BY <1>2 DEF DestroyedIsDropped, Dropper
<1> QED BY <1>1, <1>6, <1>7, <1>8, <1>9
LEMMA InstallTunKeepsOwnership ==
    ASSUME Types, Ownership, NEW w \in Worker, WorkerStep(w), InstallTun(w)
    PROVE  Ownership'
<1> USE Frame DEF Ownership
<1>0. PICK here \in Object : Obj(w) = here
  OBVIOUS
<1>1. LockHeld'
  BY StepKeepsLock
<1>2. /\ UNCHANGED <<engineFd, isWedged>>
      /\ pc[w] = "install" /\ pc'[w] = "check" /\ worker'[w].tunFd = worker[w].tunFd
      /\ tunnel'[here] = w /\ \A p \in Object \ {here} : tunnel'[p] = tunnel[p]
      /\ \A f \in Worker : fd'[f] = IF f = tunnel[here] THEN "closed" ELSE fd[f]
  BY <1>0 DEF InstallTun, At, Goto, Types, ThreadTypeOK, ObjectTypeOK
<1>3. tunnel \in [Object -> Worker \cup {None}] /\ engineFd \in Worker \cup {None}
  BY DEF Types, ObjectTypeOK, ProcessTypeOK
<1>4. /\ fd[w] = "open" /\ worker[w].tunFd = w /\ tunnel[here] # w
      /\ engineFd = None \/ Obj(engineFd) # here
  BY <1>0, <1>2 DEF NotYetEstablished, EngineHalted
<1>5. \A v \in Worker : v # w /\ pc[v] \in Inside => Obj(v) # here
  BY <1>0, <1>2, Exclusion DEF Inside, Label
<1>6. TunnelOwned'
  BY <1>0, <1>2, <1>3, <1>4, BoundTypes DEF TunnelOwned
<1>7. NotYetEstablished'
  <2> SUFFICES ASSUME NEW v \in Worker
               PROVE  /\ pc'[v] \in {"none", "queued", "halt", "tun"} => fd'[v] = "none"
                      /\ pc'[v] = "install" => /\ fd'[v] = "open" /\ worker'[v].tunFd = v
                                               /\ tunnel'[Obj(v)] # v
    BY DEF NotYetEstablished
  <2>1. v # tunnel[here] \/ pc[v] \notin {"none", "queued", "halt", "tun"}
    BY <1>0, <1>3, BoundTypes DEF NotYetEstablished, TunnelOwned
  <2>2. v # w /\ pc[v] = "install" => Obj(v) # here /\ Obj(v) \in Object /\ v # tunnel[here]
    BY <1>0, <1>3, <1>5, BoundTypes DEF Inside, Label, TunnelOwned, Types, Threads
  <2> QED BY <1>0, <1>2, <2>1, <2>2 DEF NotYetEstablished
<1>8. StartsOnTunnel'
  <2> SUFFICES ASSUME NEW v \in Worker, pc'[v] \in {"check", "bypass", "engine"}
               PROVE  tunnel'[Obj(v)] # None /\ worker'[v].tunFd = tunnel'[Obj(v)]
    BY DEF StartsOnTunnel
  <2>1. CASE v = w
    BY <1>0, <1>2, <1>4, <2>1, BoundTypes
  <2>2. CASE v # w
    BY <1>0, <1>2, <1>5, <2>2 DEF StartsOnTunnel, Inside, Label, Types, Threads
  <2> QED BY <2>1, <2>2
<1>9. EngineOnOpenFd'
  <2>1. engineFd # None => engineFd # tunnel[here]
    BY <1>0, <1>3, <1>4 DEF TunnelOwned
  <2> QED BY <1>0, <1>2, <1>3, <2>1 DEF EngineOnOpenFd
<1>10. EngineHalted' /\ EngineStopped'
  BY <1>0, <1>2, <1>3, <1>4 DEF EngineHalted, EngineStopped
<1>11. OpenIsOwned'
  <2> SUFFICES ASSUME NEW f \in Worker, fd'[f] = "open", pc'[f] # "install"
               PROVE  tunnel'[Obj(f)] = f
    BY DEF OpenIsOwned
  <2>1. f = w \/ (f # w /\ fd[f] = "open" /\ f # tunnel[here] /\ tunnel[Obj(f)] = f)
    BY <1>0, <1>2 DEF OpenIsOwned
  <2>2. pc[f] # "none" /\ Obj(f) \in Object
    BY <1>0, <1>2, <2>1 DEF NotYetEstablished, Types, Threads
  <2> QED BY <1>0, <1>2, <2>1, <2>2
<1>12. DestroyedIsDropped'
  <2> SUFFICES ASSUME NEW p \in Object, destroyed[p], tunnel'[p] # None
               PROVE  \E v \in Worker : Obj(v)' = p /\ Dropper(v)'
    BY DEF DestroyedIsDropped
  <2>1. CASE p = here
    BY <1>0, <1>2, <2>1 DEF Dropper
  <2>2. CASE p # here
    BY <1>0, <1>2, <2>2 DEF DestroyedIsDropped, Dropper
  <2> QED BY <2>1, <2>2
<1> QED BY <1>1, <1>6, <1>7, <1>8, <1>9, <1>10, <1>11, <1>12

LEMMA StartEngineKeepsOwnership ==
    ASSUME Types, Ownership, NEW w \in Worker, WorkerStep(w),
           StartEngine(w), Engine!StartEngine(worker[w].tunFd)
    PROVE  Ownership'
<1> USE Frame DEF Ownership
<1>1. LockHeld'
  BY StepKeepsLock
<1>2. /\ UNCHANGED <<tunnel, fd, worker, isWedged>>
      /\ pc[w] = "engine" /\ pc'[w] \in {"verify", "fail"} /\ engineFd' = worker[w].tunFd
  BY DEF StartEngine, Engine!StartEngine, At, Goto, Types, ThreadTypeOK
<1>3. tunnel \in [Object -> Worker \cup {None}]
  BY DEF Types, ObjectTypeOK
<1>4. engineFd' = tunnel[Obj(w)] /\ tunnel[Obj(w)] # None
  BY <1>2 DEF StartsOnTunnel
<1>5. engineFd' \in Worker /\ Obj(engineFd') = Obj(w)
      /\ pc[engineFd'] # "none" /\ fd[engineFd'] = "open"
  BY <1>3, <1>4 DEF TunnelOwned
<1>6. \A v \in Worker : v # w /\ pc[v] \in Inside => Obj(v) # Obj(w)
  BY <1>2, Exclusion DEF Inside, Label
<1>7. TunnelOwned'
  BY <1>2, <1>3 DEF TunnelOwned
<1>8. NotYetEstablished' /\ StartsOnTunnel' /\ OpenIsOwned'
  BY <1>2 DEF NotYetEstablished, StartsOnTunnel, OpenIsOwned
<1>9. EngineOnOpenFd'
  BY <1>2, <1>5 DEF EngineOnOpenFd
<1>10. Obj(engineFd)' = Obj(w)
  BY <1>2, <1>5 DEF Obj
<1>11. EngineHalted' /\ EngineStopped'
  BY <1>2, <1>6, <1>10 DEF EngineHalted, EngineStopped, Inside, Label
<1>12. DestroyedIsDropped'
  BY <1>2 DEF DestroyedIsDropped, Dropper
<1> QED BY <1>1, <1>7, <1>8, <1>9, <1>11, <1>12

LEMMA DropTunnelKeepsOwnership ==
    ASSUME Types, Ownership, NEW w \in Worker, WorkerStep(w), DropTunnel(w)
    PROVE  Ownership'
<1> USE Frame DEF Ownership
<1>0. PICK here \in Object : Obj(w) = here
  OBVIOUS
<1>1. LockHeld'
  BY StepKeepsLock
<1>2. /\ UNCHANGED <<engineFd, isWedged, worker>>
      /\ pc[w] = "dropTunnel" /\ pc'[w] = "after"
      /\ tunnel'[here] = None /\ \A p \in Object \ {here} : tunnel'[p] = tunnel[p]
      /\ \A f \in Worker : fd'[f] = IF f = tunnel[here]
                                     THEN IF isWedged THEN "parked" ELSE "closed"
                                     ELSE fd[f]
  BY <1>0 DEF DropTunnel, At, Goto, Types, ThreadTypeOK, ObjectTypeOK
<1>3. tunnel \in [Object -> Worker \cup {None}] /\ engineFd \in Worker \cup {None}
  BY DEF Types, ObjectTypeOK, ProcessTypeOK
<1>4. engineFd = None \/ isWedged \/ Obj(engineFd) # here
  BY <1>0, <1>2 DEF EngineStopped
<1>5. \A v \in Worker : v # w /\ pc[v] \in Inside => Obj(v) # here /\ Obj(v) \in Object
  BY <1>0, <1>2, Exclusion DEF Inside, Label, Types, Threads
<1>6. TunnelOwned'
  <2>1. ASSUME NEW p \in Object, tunnel'[p] # None
        PROVE  tunnel'[p] = tunnel[p] /\ tunnel[p] \in Worker /\ fd'[tunnel[p]] = "open"
    <3>1. p # here
      BY <1>2, <2>1
    <3>2. tunnel'[p] = tunnel[p]
      BY <1>2, <3>1
    <3>3. tunnel[p] \in Worker
      BY <1>3, <2>1, <3>2
    <3>4. Obj(tunnel[p]) = p /\ fd[tunnel[p]] = "open"
      BY <2>1, <3>2 DEF TunnelOwned
    <3>5. tunnel[p] # tunnel[here]
      BY <2>1, <3>1, <3>2, <3>4 DEF TunnelOwned
    <3> QED BY <1>2, <3>2, <3>3, <3>4, <3>5
  <2> QED BY <2>1 DEF TunnelOwned
<1>7. \A v \in Worker : v = tunnel[here] => pc[v] \notin {"none", "queued", "halt", "tun", "install"}
  BY <1>0, <1>3, BoundTypes DEF NotYetEstablished, TunnelOwned
<1>8. NotYetEstablished'
  BY <1>0, <1>2, <1>5, <1>7 DEF NotYetEstablished, Inside, Label
<1>9. StartsOnTunnel'
  BY <1>0, <1>2, <1>5 DEF StartsOnTunnel, Inside, Label
<1>10. EngineOnOpenFd'
  <2>1. engineFd # None /\ engineFd = tunnel[here] => isWedged
    BY <1>0, <1>3, <1>4 DEF TunnelOwned
  <2> QED BY <1>0, <1>2, <1>3, <2>1 DEF EngineOnOpenFd
<1>11. EngineHalted' /\ EngineStopped'
  BY <1>0, <1>2, <1>3 DEF EngineHalted, EngineStopped
<1>12. OpenIsOwned'
  <2> SUFFICES ASSUME NEW f \in Worker, fd'[f] = "open", pc'[f] # "install"
               PROVE  tunnel'[Obj(f)] = f
    BY DEF OpenIsOwned
  <2>1. fd[f] = "open" /\ f # tunnel[here] /\ pc[f] # "install"
    BY <1>0, <1>2
  <2>2. tunnel[Obj(f)] = f /\ Obj(f) \in Object
    BY <2>1 DEF OpenIsOwned, NotYetEstablished, Types, Threads
  <2> QED BY <1>0, <1>2, <2>1, <2>2
<1>13. DestroyedIsDropped'
  <2> SUFFICES ASSUME NEW p \in Object, destroyed[p], tunnel'[p] # None
               PROVE  \E v \in Worker : Obj(v)' = p /\ Dropper(v)'
    BY DEF DestroyedIsDropped
  <2>1. p # here /\ tunnel[p] # None
    BY <1>0, <1>2
  <2> QED BY <1>0, <1>2, <2>1 DEF DestroyedIsDropped, Dropper
<1> QED BY <1>1, <1>6, <1>8, <1>9, <1>10, <1>11, <1>12, <1>13

LEMMA StepKeepsOwnership ==
    ASSUME Types, Ownership, NEW w \in Worker, WorkerStep(w)
    PROVE  Ownership'
BY MovingSteps, MovesKeepOwnership, HaltKeepsOwnership, ReuseTunKeepsOwnership,
   EstablishKeepsOwnership, InstallTunKeepsOwnership, StartEngineKeepsOwnership,
   DropTunnelKeepsOwnership
-----------------------------------------------------------------------------
(* Everybody else: threads are started, and the engine may let go late.    *)

LEMMA SpawnKeepsOwnership ==
    ASSUME Types, Ownership, NEW kind, NEW m, NEW dns, NEW o \in Object, NEW seq, NEW token,
           Spawn(kind, m, dns, o, seq, token),
           UNCHANGED <<tunnel, fd, engineFd, isWedged, engineLock>>,
           \/ UNCHANGED destroyed
           \/ kind = "destroy" /\ destroyed' = [destroyed EXCEPT ![o] = TRUE]
    PROVE  Ownership'
<1> USE DEF Ownership
<1>1. PICK x \in Worker : x = spawned + 1
  BY DEF Spawn
<1>2. pc[x] = "none"
  <2>1. ~(x <= spawned)
    BY <1>1, BoundTypes DEF Types, ThreadTypeOK, None
  <2> QED BY <2>1 DEF Types, Threads
<1>3. /\ pc'[x] = "queued" /\ Obj(x)' = o /\ worker'[x].kind = kind
      /\ \A v \in Worker : v # x => pc'[v] = pc[v] /\ worker'[v] = worker[v]
  BY <1>1 DEF Spawn, Obj, Types, ThreadTypeOK
<1>4. \A v \in Worker : v # x => Obj(v)' = Obj(v)
  BY <1>3 DEF Obj
<1>5. tunnel \in [Object -> Worker \cup {None}] /\ engineFd \in Worker \cup {None}
  BY DEF Types, ObjectTypeOK, ProcessTypeOK
<1>6. fd[x] = "none" /\ engineFd # x /\ \A p \in Object : tunnel[p] # x
  BY <1>2, BoundTypes DEF NotYetEstablished, TunnelOwned, EngineOnOpenFd
<1>7. LockHeld'
  BY <1>3, <1>4 DEF LockHeld, Inside
<1>8. TunnelOwned'
  BY <1>3, <1>4, <1>5, <1>6 DEF TunnelOwned
<1>9. NotYetEstablished' /\ StartsOnTunnel' /\ OpenIsOwned'
  BY <1>3, <1>4, <1>6 DEF NotYetEstablished, StartsOnTunnel, OpenIsOwned
<1>10. EngineOnOpenFd' /\ EngineHalted' /\ EngineStopped'
  BY <1>3, <1>4, <1>5, <1>6 DEF EngineOnOpenFd, EngineHalted, EngineStopped
<1>11. DestroyedIsDropped'
  <2> SUFFICES ASSUME NEW p \in Object, destroyed'[p], tunnel[p] # None
               PROVE  \E v \in Worker : Obj(v)' = p /\ Dropper(v)'
    BY DEF DestroyedIsDropped
  <2>1. CASE destroyed[p]
    <3>1. PICK v \in Worker : Obj(v) = p /\ Dropper(v)
      BY <2>1 DEF DestroyedIsDropped
    <3>2. v # x
      BY <1>2, <3>1 DEF Dropper
    <3> QED BY <1>3, <1>4, <3>1, <3>2 DEF Dropper
  <2>2. CASE ~destroyed[p]
    <3>1. p = o /\ kind = "destroy"
      BY <2>2 DEF Types, ObjectTypeOK
    <3> QED BY <1>3, <3>1 DEF Dropper
  <2> QED BY <2>1, <2>2
<1> QED BY <1>7, <1>8, <1>9, <1>10, <1>11

LEMMA QuietKeepsOwnership ==
    ASSUME Ownership, UNCHANGED <<tunnel, fd, isWedged, destroyed, engineLock, worker, pc>>,
           engineFd' = None \/ UNCHANGED engineFd
    PROVE  Ownership'
BY DEF Ownership, LockHeld, TunnelOwned, NotYetEstablished, StartsOnTunnel, EngineOnOpenFd,
       EngineHalted, EngineStopped, OpenIsOwned, DestroyedIsDropped, Dropper, Obj

LEMMA NextOwnership == Types /\ Ownership /\ [Next]_vars => Ownership'
<1> SUFFICES ASSUME Types, Ownership, [Next]_vars PROVE Ownership'
  OBVIOUS
<1>1. CASE Caller \/ BringDown \/ SystemDestroy \/ SystemRevoke \/ GoLetsGo \/ OnStartNoConfig
           \/ UNCHANGED vars
  BY <1>1, QuietKeepsOwnership
     DEF Caller, JsStart, JsSendStart, JsStartRefused, JsStop, JsSendStop, JsStopGivesUp,
         SetKillSwitch, ClearStoredConfig, Tap, BringDown, SystemDestroy, SystemRevoke, GoLetsGo,
         OnStartNoConfig
<1>2. CASE LateEngineStop
  BY <1>2, QuietKeepsOwnership DEF LateEngineStop, Engine!LateStop
<1>3. CASE OnStop \/ OnStart
  <2>1. mainQueue # <<>> /\ \E kind, event : Accept(kind, event)
    BY <1>3 DEF OnStop, OnStart
  <2>2. Head0.object \in Object
    BY <2>1, DequeueTypes DEF Accept, Message
  <2> QED BY <2>1, <2>2, SpawnKeepsOwnership DEF Accept
<1>4. CASE OnDestroy
  <2>1. Head0.object \in Object
    BY <1>4, DequeueTypes DEF OnDestroy, Message
  <2> QED BY <1>4, <2>1, SpawnKeepsOwnership DEF OnDestroy
<1>5. CASE OnRevoke
  <2>1. revoking \in Object
    BY <1>5 DEF OnRevoke, Types, SystemTypeOK
  <2> QED BY <1>5, <2>1, SpawnKeepsOwnership DEF OnRevoke
<1>6. CASE \E w \in Worker : WorkerStep(w)
  BY <1>6, StepKeepsOwnership
<1> QED BY <1>1, <1>2, <1>3, <1>4, <1>5, <1>6 DEF Next, System, MainThread

LEMMA InitOwnership == Init => Ownership
<1> SUFFICES ASSUME Init PROVE Ownership
  OBVIOUS
<1>1. /\ \A w \in Worker : pc[w] = "none" /\ fd[w] = "none"
      /\ \A o \in Object : tunnel[o] = None
      /\ engineFd = None
  BY DEF Init, Engine!EngineInit
<1> QED
  BY <1>1 DEF Ownership, LockHeld, TunnelOwned, NotYetEstablished, StartsOnTunnel,
              EngineOnOpenFd, EngineHalted, EngineStopped, OpenIsOwned, DestroyedIsDropped, Inside

LEMMA AlwaysOwnership == Spec => [](Types /\ Ownership)
BY AlwaysTypes, InitOwnership, NextOwnership, PTL DEF Spec
-----------------------------------------------------------------------------
(* What it is for.                                                         *)

\* The engine never reads a descriptor that was closed under it, whichever service
\* object, teardown or timed-out stop closes descriptors meanwhile
\* (closeTunDescriptor: close, or park when the engine is wedged).
THEOREM ServiceNoClosedFdInUse == Spec => []NoClosedFdInUse
<1>1. Ownership => NoClosedFdInUse
  BY DEF Ownership, EngineOnOpenFd, NoClosedFdInUse
<1> QED BY <1>1, AlwaysOwnership, PTL

\* Whatever order starts, stops, revocations and destructions come in, an open
\* descriptor is owned by a service object or held by the worker installing it:
\* nobody loses one (setupVpn, closeTunDescriptor).
THEOREM ServiceNoDescriptorLeak == Spec => []NoDescriptorLeak
<1>1. Ownership => NoDescriptorLeak
  BY DEF Ownership, OpenIsOwned, NoDescriptorLeak
<1> QED BY <1>1, AlwaysOwnership, PTL

\* A service object destroyed at any point of a start owns no tunnel once its
\* threads are through: runStart's check after setupVpn, or the worker onDestroy
\* started, drops it.
THEOREM ServiceDestroyedLeavesNoTunnel == Spec => []DestroyedLeavesNoTunnel
<1>1. ASSUME Types, Ownership PROVE DestroyedLeavesNoTunnel
  <2> SUFFICES ASSUME NEW o \in Object, destroyed[o], tunnel[o] # None
               PROVE  Working(o)
    BY DEF DestroyedLeavesNoTunnel
  <2>1. PICK w \in Worker : Obj(w) = o /\ Dropper(w)
    BY <1>1 DEF Ownership, DestroyedIsDropped
  <2> QED BY <2>1 DEF Working, Dropper
<1> QED BY <1>1, AlwaysOwnership, PTL
-----------------------------------------------------------------------------
(* The kill switch.                                                        *)

\* A start that came to tear down had nothing to hold, or was not to hold it.
GivesUpRightly ==
    \A w \in Worker :
        worker[w].kind = "start" /\ pc[w] \in {"error", "stopEngine", "dropTunnel"} =>
            \/ ~killSwitch \/ tunnel[Obj(w)] = None
            \/ tunnelRevoked[Obj(w)] \/ destroyed[Obj(w)]

LEMMA StepKeepsGivesUpRightly ==
    ASSUME Types, Ownership, GivesUpRightly, NEW w \in Worker, WorkerStep(w)
    PROVE  GivesUpRightly'
<1> SUFFICES ASSUME NEW v \in Worker, worker[v].kind = "start",
                    pc'[v] \in {"error", "stopEngine", "dropTunnel"}
             PROVE  \/ ~killSwitch' \/ tunnel'[Obj(v)] = None
                    \/ tunnelRevoked'[Obj(v)] \/ destroyed'[Obj(v)]
  BY Frame DEF GivesUpRightly
<1>1. UNCHANGED <<killSwitch, destroyed>> /\ Obj(v) \in Object /\ Obj(w) \in Object
  BY Frame, StepShape DEF Types, Threads
<1>2. CASE v = w
  <2>0. \A label : Goto(w, label) => pc'[w] = label
    BY DEF Types, ThreadTypeOK, Goto
  <2>1. CASE CheckDestroyed(w) \/ Verify(w) \/ DecideFailure(w)
    BY <1>1, <1>2, <2>0, <2>1 DEF CheckDestroyed, Verify, DecideFailure
  <2>2. CASE ReportError(w) \/ StopEngineBounded(w)
    <3>1. UNCHANGED <<tunnel, tunnelRevoked>> /\ pc[w] \in {"error", "stopEngine"}
      BY <2>2 DEF ReportError, StopEngineBounded, At
    <3> QED BY <1>1, <1>2, <3>1 DEF GivesUpRightly
  <2>3. CASE StartSuperseded(w) \/ StopSuperseded(w) \/ StartBegins(w) \/ StopBegins(w) \/ TeardownBegins(w)
    BY <1>2, <2>0, <2>3
       DEF StartSuperseded, StopSuperseded, StartBegins, StopBegins, TeardownBegins
  <2>4. CASE Halt(w) \/ ReuseTun(w) \/ Establish(w) \/ EstablishFails(w) \/ InstallTun(w)
             \/ StartBypass(w) \/ StartEngine(w) \/ Publish(w) \/ HoldTunnel(w)
    BY <1>2, <2>0, <2>4
       DEF Halt, ReuseTun, Establish, EstablishFails, InstallTun, StartBypass, StartEngine,
           Publish, HoldTunnel
  <2>5. CASE DropTunnel(w) \/ AfterStart(w) \/ AfterStop(w) \/ AfterDestroy(w) \/ SettleStop(w)
    BY <1>2, <2>0, <2>5 DEF DropTunnel, AfterStart, AfterStop, AfterDestroy, SettleStop
  <2> QED BY <2>1, <2>2, <2>3, <2>4, <2>5 DEF WorkerStep
<1>3. CASE v # w
  <2>1. pc[v] \in {"error", "stopEngine", "dropTunnel"}
    BY <1>3, Frame
  <2>2. \/ ~killSwitch \/ tunnel[Obj(v)] = None
        \/ tunnelRevoked[Obj(v)] \/ destroyed[Obj(v)]
    BY <2>1 DEF GivesUpRightly
  <2>3. CASE InstallTun(w)
    <3>1. Obj(v) # Obj(w)
      BY <1>3, <2>1, <2>3, Exclusion DEF InstallTun, At, Inside, Label, Ownership
    <3>2. tunnel'[Obj(v)] = tunnel[Obj(v)] /\ tunnelRevoked'[Obj(v)] = tunnelRevoked[Obj(v)]
      BY <1>1, <2>3, <3>1 DEF InstallTun, Types, ObjectTypeOK
    <3> QED BY <1>1, <2>2, <3>2
  <2>4. CASE DropTunnel(w)
    BY <1>1, <2>2, <2>4 DEF DropTunnel, Types, ObjectTypeOK
  <2>5. CASE UNCHANGED <<tunnel, tunnelRevoked>>
    BY <1>1, <2>2, <2>5
  <2> QED
    BY <2>3, <2>4, <2>5
       DEF WorkerStep, StartSuperseded, StopSuperseded, StartBegins, StopBegins, TeardownBegins,
           Halt, ReuseTun, Establish, EstablishFails, CheckDestroyed, StartBypass, StartEngine,
           Verify, Publish, DecideFailure, HoldTunnel, ReportError, StopEngineBounded, AfterStart,
           AfterStop, AfterDestroy, SettleStop
<1> QED BY <1>2, <1>3

LEMMA NextGivesUpRightly ==
    ASSUME ~TogglesKillSwitch, Types, Ownership, GivesUpRightly, [Next]_vars
    PROVE  GivesUpRightly'
<1>1. CASE \E w \in Worker : WorkerStep(w)
  BY <1>1, StepKeepsGivesUpRightly
<1>2. CASE OnStop \/ OnStart \/ OnDestroy \/ OnRevoke
  <2>1. PICK x \in Worker : /\ pc'[x] = "queued"
                            /\ \A v \in Worker : v # x => pc'[v] = pc[v] /\ worker'[v] = worker[v]
    <3>1. ASSUME NEW kind, NEW m, NEW dns, NEW o, NEW seq, NEW token,
                 Spawn(kind, m, dns, o, seq, token)
          PROVE  \E x \in Worker : /\ pc'[x] = "queued"
                                   /\ \A v \in Worker : v # x => pc'[v] = pc[v] /\ worker'[v] = worker[v]
      BY <3>1 DEF Spawn, Types, ThreadTypeOK
    <3> QED BY <1>2, <3>1 DEF OnStop, OnStart, Accept, OnDestroy, OnRevoke
  <2>2. UNCHANGED <<killSwitch, tunnel>>
    BY <1>2 DEF OnStop, OnStart, Accept, OnDestroy, OnRevoke
  <2>3. \A o \in Object : /\ tunnelRevoked[o] => tunnelRevoked'[o]
                          /\ destroyed[o] => destroyed'[o]
    BY <1>2 DEF OnStop, OnStart, Accept, OnDestroy, OnRevoke, Types, ObjectTypeOK
  <2> SUFFICES ASSUME NEW v \in Worker, worker'[v].kind = "start",
                      pc'[v] \in {"error", "stopEngine", "dropTunnel"}
               PROVE  \/ ~killSwitch' \/ tunnel'[Obj(v)'] = None
                      \/ tunnelRevoked'[Obj(v)'] \/ destroyed'[Obj(v)']
    BY DEF GivesUpRightly
  <2>4. v # x /\ pc[v] = pc'[v] /\ worker'[v] = worker[v]
    BY <2>1
  <2>5. Obj(v)' = Obj(v) /\ Obj(v) \in Object
    BY <2>4 DEF Obj, Types, Threads
  <2> QED BY <2>2, <2>3, <2>4, <2>5 DEF GivesUpRightly
<1>3. CASE UNCHANGED <<killSwitch, tunnel, tunnelRevoked, destroyed, threadVars, pc>>
  BY <1>3 DEF GivesUpRightly, Obj
<1> QED
  BY <1>1, <1>2, <1>3
     DEF Next, Caller, JsStart, JsSendStart, JsStartRefused, JsStop, JsSendStop, JsStopGivesUp,
         SetKillSwitch, ClearStoredConfig, Tap, System, BringDown, SystemDestroy, SystemRevoke,
         GoLetsGo, LateEngineStop, MainThread, OnStartNoConfig

\* While the kill switch is on, and stays on, no failed start, no establish() that fails
\* and no switch between servers gives the network back: only the user, the system or
\* the end of the service does (handleStartFailure, runStart).
THEOREM ServiceCaptureNeverLapses ==
    ASSUME ~TogglesKillSwitch
    PROVE  Spec => CaptureNeverLapses
<1> DEFINE Lapse == killSwitch /\ iface # None /\ iface' = None
           Given == \/ revokes' > revokes
                    \/ \E w \in Worker :
                          /\ pc[w] = "dropTunnel" /\ pc'[w] = "after"
                          /\ \/ worker[w].kind # "start"
                             \/ destroyed[Obj(w)] \/ tunnelRevoked[Obj(w)]
<1>1. Init => GivesUpRightly
  BY DEF Init, GivesUpRightly
<1>2. Types /\ Ownership /\ GivesUpRightly /\ [Next]_vars => GivesUpRightly'
  BY NextGivesUpRightly
<1>3. ASSUME Types, Ownership, GivesUpRightly, [Next]_vars, Lapse
      PROVE  Given
  <2>1. CASE SystemRevoke
    <3>1. revokes \in Nat /\ revokes' = revokes + 1
      BY <1>3, <2>1 DEF SystemRevoke, Types, SystemTypeOK
    <3>2. revokes' > revokes
      BY <3>1
    <3> QED BY <3>2
  <2>2. CASE \E w \in Worker : WorkerStep(w)
    <3>1. PICK w \in Worker : WorkerStep(w)
      BY <2>2
    <3>2. CASE DropTunnel(w)
      <4>1. pc[w] = "dropTunnel" /\ pc'[w] = "after" /\ iface = tunnel[Obj(w)]
        BY <1>3, <3>2 DEF DropTunnel, At, Goto, Types, ThreadTypeOK
      <4> QED BY <1>3, <4>1 DEF GivesUpRightly
    <3>3. CASE Establish(w)
      BY <1>3, <3>3, BoundTypes DEF Establish
    <3> QED
      BY <1>3, <3>1, <3>2, <3>3
         DEF WorkerStep, StartSuperseded, StopSuperseded, StartBegins, StopBegins, TeardownBegins,
             Halt, ReuseTun, EstablishFails, InstallTun, CheckDestroyed, StartBypass, StartEngine,
             Verify, Publish, DecideFailure, HoldTunnel, ReportError, StopEngineBounded, AfterStart,
             AfterStop, AfterDestroy, SettleStop
  <2>3. CASE UNCHANGED iface
    BY <1>3, <2>3
  <2> QED
    BY <1>3, <2>1, <2>2, <2>3
       DEF Next, Caller, JsStart, JsSendStart, JsStartRefused, JsStop, JsSendStop, JsStopGivesUp,
           SetKillSwitch, ClearStoredConfig, Tap, System, BringDown, SystemDestroy, OnRevoke,
           GoLetsGo, LateEngineStop, MainThread, OnStop, OnStart, OnStartNoConfig, OnDestroy, Accept
<1>4. Types /\ Ownership /\ GivesUpRightly /\ [Next]_vars => [Lapse => Given]_vars
  BY <1>3
<1> QED BY <1>1, <1>2, <1>4, AlwaysOwnership, PTL DEF Spec, CaptureNeverLapses
-----------------------------------------------------------------------------
(* One service object.  While the process has one, whoever holds its lock is *)
(* alone with the engine, the flags and the interface.                       *)

\* Whoever is inside the lock sees every other worker waiting, or through.
LEMMA Alone ==
    ASSUME MaxObjects = 1, Types, Ownership, NEW w \in Worker, WorkerStep(w),
           NEW v \in Worker, v # w, pc[v] \in Inside
    PROVE  SettleStop(w)
<1>1. Obj(v) = 1 /\ Obj(w) = 1
  BY Frame DEF Types, Threads, Inside, Object
<1>2. engineLock[1] = v /\ v # None
  BY <1>1, BoundTypes DEF Ownership, LockHeld
<1>3. pc[w] \notin Inside
  BY <1>1, Exclusion DEF Ownership
<1> QED
  BY <1>1, <1>2, <1>3
     DEF WorkerStep, StartSuperseded, StopSuperseded, StartBegins, StopBegins, TeardownBegins,
         Enter, Halt, ReuseTun, Establish, EstablishFails, InstallTun, CheckDestroyed, StartBypass,
         StartEngine, Verify, Publish, DecideFailure, HoldTunnel, ReportError, StopEngineBounded,
         DropTunnel, AfterStart, AfterStop, AfterDestroy, At, Inside, Label

\* What the engine does at the label of the worker that is inside, and between them.
EngineAt(w) ==
    /\ pc[w] = "halt" => ~isEngineRunning
    /\ pc[w] \in {"tun", "install", "check", "bypass", "engine"} =>
          ~isEngineRunning /\ engineFd = None /\ ~isWedged
    /\ pc[w] = "verify" => ~isEngineRunning
    /\ pc[w] = "publish" => isEngineRunning
    /\ pc[w] \in {"verify", "publish"} =>
          engineFd = tunnel[Obj(w)] /\ engineFd # None /\ ~isWedged
    /\ pc[w] \in {"fail", "hold", "error", "dropTunnel", "after"} =>
          ~isEngineRunning /\ (engineFd = None \/ isWedged)

Unlocked == \A w \in Worker : pc[w] \notin Inside

EngineTold ==
    /\ \A w \in Worker : EngineAt(w)
    /\ Unlocked => (isEngineRunning <=> engineFd # None /\ ~isWedged)

\* A revocation that the object's tunnel has not been told of is on its way, or was told to
\* an object that is destroyed.
Revoked(o) == \/ revoking = o \/ destroyed[o]
              \/ \E w \in Worker : /\ worker[w].kind = "revoke"
                                   /\ pc[w] \in {"queued", "stopEngine", "dropTunnel"}

\* The interface is that of the descriptor owned, or of the one being installed.
InterfaceTold ==
    /\ \A o \in Object : isRunning <=> tunnel[o] # None
    /\ \A w \in Worker : pc[w] = "install" => iface = w \/ (iface = None /\ Revoked(Obj(w)))
    /\ (\A w \in Worker : pc[w] # "install") =>
          \A o \in Object : iface = tunnel[o] \/ (iface = None /\ Revoked(o))

FlagsTold == EngineTold /\ InterfaceTold

LEMMA StepKeepsEngineAt ==
    ASSUME MaxObjects = 1, Types, Ownership, FlagsTold, NEW w \in Worker, WorkerStep(w)
    PROVE  /\ EngineAt(w)'
           /\ pc[w] # "settle" /\ pc'[w] \notin Inside =>
                 (isEngineRunning' <=> engineFd' # None /\ ~isWedged')
<1> USE DEF At, EngineAt, Inside, Label
<1>0. \A label : Goto(w, label) => pc'[w] = label
  BY DEF Types, ThreadTypeOK, Goto
<1>1. EngineAt(w) /\ Obj(w)' = Obj(w)
  BY Frame DEF FlagsTold, EngineTold
<1>2. isEngineRunning \in BOOLEAN /\ isWedged \in BOOLEAN
  BY DEF Types, ProcessTypeOK
<1>3. CASE StartSuperseded(w) \/ StopSuperseded(w)
  <2>1. /\ pc[w] = "queued" /\ pc'[w] = "done" /\ engineLock[Obj(w)] = None
        /\ UNCHANGED <<isEngineRunning, engineFd, isWedged>>
    BY <1>0, <1>3 DEF StartSuperseded, StopSuperseded
  <2>2. Unlocked
    <3> SUFFICES ASSUME NEW v \in Worker, pc[v] \in Inside PROVE FALSE
      BY DEF Unlocked
    <3>1. v # w /\ Obj(v) = Obj(w)
      BY <2>1, Frame DEF Types, Threads, Object
    <3> QED BY <2>1, <3>1, BoundTypes DEF Ownership, LockHeld
  <2>3. isEngineRunning <=> engineFd # None /\ ~isWedged
    BY <2>2 DEF FlagsTold, EngineTold
  <2> QED BY <2>1, <2>3
<1>4. CASE StartBegins(w) \/ StopBegins(w) \/ TeardownBegins(w)
  BY <1>0, <1>4 DEF StartBegins, StopBegins, TeardownBegins
<1>5. CASE Halt(w)
  <2>1. ~isEngineRunning /\ isEngineRunning' = isEngineRunning
    BY <1>1, <1>5 DEF Halt
  <2>2. \/ pc'[w] = "tun" /\ engineFd' = None /\ isWedged' = isWedged /\ ~isWedged
        \/ pc'[w] = "fail" /\ isWedged'
    BY <1>0, <1>5 DEF Halt, Engine!StopEngine, Engine!StopEngineWedged
  <2> QED BY <2>1, <2>2
<1>6. CASE ReuseTun(w) \/ Establish(w) \/ EstablishFails(w) \/ CheckDestroyed(w) \/ StartBypass(w)
  BY <1>0, <1>1, <1>6 DEF ReuseTun, Establish, EstablishFails, CheckDestroyed, StartBypass
<1>7. CASE InstallTun(w)
  BY <1>0, <1>1, <1>7 DEF InstallTun
<1>8. CASE StartEngine(w)
  <2>1. /\ ~isEngineRunning /\ engineFd = None /\ ~isWedged /\ pc[w] = "engine"
        /\ UNCHANGED <<isEngineRunning, isWedged, tunnel>>
    BY <1>1, <1>8 DEF StartEngine, Engine!StartEngine, Engine!StartEngineFails, Engine!engineVars
  <2>2. worker[w].tunFd = tunnel[Obj(w)] /\ tunnel[Obj(w)] # None
    BY <2>1 DEF Ownership, StartsOnTunnel
  <2>3. \/ pc'[w] = "verify" /\ engineFd' = worker[w].tunFd
        \/ pc'[w] = "fail" /\ engineFd' = engineFd
    BY <1>0, <1>8 DEF StartEngine, Engine!StartEngine, Engine!StartEngineFails, Engine!engineVars
  <2> QED BY <1>1, <2>1, <2>2, <2>3
<1>9. CASE Verify(w)
  <2>1. /\ isEngineRunning' /\ pc'[w] \in {"publish", "stopEngine", "done"}
        /\ UNCHANGED <<engineFd, isWedged, tunnel>>
    BY <1>0, <1>9 DEF Verify
  <2>2. engineFd = tunnel[Obj(w)] /\ engineFd # None /\ ~isWedged
    BY <1>1, <1>9 DEF Verify
  <2> QED BY <1>1, <2>1, <2>2
<1>10. CASE Publish(w)
  <2>1. pc'[w] = "done" /\ UNCHANGED <<isEngineRunning, engineFd, isWedged>>
    BY <1>0, <1>10 DEF Publish
  <2>2. isEngineRunning /\ engineFd # None /\ ~isWedged
    BY <1>1, <1>10 DEF Publish
  <2> QED BY <2>1, <2>2
<1>11. CASE DecideFailure(w) \/ HoldTunnel(w) \/ ReportError(w)
  <2>1. /\ pc'[w] \in {"hold", "error", "done", "stopEngine"} /\ UNCHANGED <<engineFd, isWedged>>
        /\ isEngineRunning' = isEngineRunning \/ isEngineRunning' = FALSE
    BY <1>0, <1>11 DEF DecideFailure, HoldTunnel, ReportError
  <2>2. ~isEngineRunning /\ (engineFd = None \/ isWedged)
    BY <1>1, <1>11 DEF DecideFailure, HoldTunnel, ReportError
  <2> QED BY <2>1, <2>2
<1>12. CASE StopEngineBounded(w)
  <2>1. pc'[w] = "dropTunnel" /\ isEngineRunning' = FALSE /\ (engineFd' = None \/ isWedged')
    BY <1>0, <1>12 DEF StopEngineBounded, Engine!StopEngine, Engine!StopEngineWedged
  <2> QED BY <2>1
<1>13. CASE DropTunnel(w) \/ AfterStart(w) \/ AfterStop(w) \/ AfterDestroy(w)
  <2>1. /\ pc'[w] \in {"after", "done", "settle"} /\ UNCHANGED <<engineFd, isWedged>>
        /\ isEngineRunning' = isEngineRunning \/ isEngineRunning' = FALSE
    BY <1>0, <1>13 DEF DropTunnel, AfterStart, AfterStop, AfterDestroy
  <2>2. ~isEngineRunning /\ (engineFd = None \/ isWedged)
    BY <1>1, <1>13 DEF DropTunnel, AfterStart, AfterStop, AfterDestroy
  <2> QED BY <2>1, <2>2
<1>14. CASE SettleStop(w)
  BY <1>0, <1>14 DEF SettleStop
<1> QED
  BY <1>3, <1>4, <1>5, <1>6, <1>7, <1>8, <1>9, <1>10, <1>11, <1>12, <1>13, <1>14 DEF WorkerStep

LEMMA StepKeepsEngineTold ==
    ASSUME MaxObjects = 1, Types, Ownership, FlagsTold, NEW w \in Worker, WorkerStep(w)
    PROVE  EngineTold'
<1>1. \A v \in Worker : v # w => pc'[v] = pc[v] /\ Obj(v)' = Obj(v)
  BY Frame
<1>2. CASE SettleStop(w)
  <2>1. /\ pc[w] = "settle" /\ pc'[w] = "done"
        /\ UNCHANGED <<isEngineRunning, engineFd, isWedged, tunnel, worker>>
    BY <1>2 DEF SettleStop, At, Goto, Types, ThreadTypeOK
  <2>2. \A v \in Worker : EngineAt(v)'
    BY <1>1, <2>1 DEF FlagsTold, EngineTold, EngineAt
  <2>3. Unlocked' => Unlocked
    BY <1>1, <2>1 DEF Unlocked, Inside
  <2> QED BY <2>1, <2>2, <2>3 DEF FlagsTold, EngineTold
<1>3. CASE ~SettleStop(w)
  <2>1. \A v \in Worker : v # w => pc'[v] \notin Inside
    BY <1>1, <1>3, Alone
  <2>2. \A v \in Worker : EngineAt(v)'
    BY <2>1, StepKeepsEngineAt DEF EngineAt, Inside, Label
  <2>3. pc[w] # "settle"
    BY <1>3 DEF WorkerStep, StartSuperseded, StopSuperseded, StartBegins, StopBegins,
         TeardownBegins, Halt, ReuseTun, Establish, EstablishFails, InstallTun, CheckDestroyed,
         StartBypass, StartEngine, Verify, Publish, DecideFailure, HoldTunnel, ReportError,
         StopEngineBounded, DropTunnel, AfterStart, AfterStop, AfterDestroy, At
  <2> QED BY <2>2, <2>3, StepKeepsEngineAt DEF EngineTold, Unlocked
<1> QED BY <1>2, <1>3

LEMMA StepKeepsRevoked ==
    ASSUME Types, NEW w \in Worker, WorkerStep(w), ~DropTunnel(w), NEW o \in Object, Revoked(o)
    PROVE  Revoked(o)'
<1>1. UNCHANGED <<revoking, destroyed>>
  BY StepShape
<1>2. CASE \E v \in Worker : worker[v].kind = "revoke" /\ pc[v] \in {"queued", "stopEngine", "dropTunnel"}
  <2>1. PICK v \in Worker : worker[v].kind = "revoke" /\ pc[v] \in {"queued", "stopEngine", "dropTunnel"}
    BY <1>2
  <2>2. CASE v = w
    <3>1. TeardownBegins(w) \/ StopEngineBounded(w)
      BY <2>1, <2>2 DEF WorkerStep, StartSuperseded, StopSuperseded, StartBegins, StopBegins,
         Halt, ReuseTun, Establish, EstablishFails, InstallTun, CheckDestroyed,
         StartBypass, StartEngine, Verify, Publish, DecideFailure, HoldTunnel, ReportError,
         DropTunnel, AfterStart, AfterStop, AfterDestroy, SettleStop, At
    <3>2. pc'[w] \in {"stopEngine", "dropTunnel"}
      BY <3>1 DEF TeardownBegins, StopEngineBounded, Goto, Types, ThreadTypeOK
    <3> QED BY <2>1, <2>2, <3>2, Frame DEF Revoked
  <2> QED BY <2>1, <2>2, Frame DEF Revoked
<1> QED BY <1>1, <1>2 DEF Revoked

LEMMA StepKeepsInterfaceTold ==
    ASSUME MaxObjects = 1, Types, Ownership, FlagsTold, NEW w \in Worker, WorkerStep(w)
    PROVE  InterfaceTold'
<1>0. \A label : Goto(w, label) => pc'[w] = label
  BY DEF Types, ThreadTypeOK, Goto
<1>1. /\ Object = {1} /\ Obj(w) = 1
      /\ \A v \in Worker : /\ Obj(v)' = Obj(v) /\ (v # w => pc'[v] = pc[v])
                           /\ pc[v] = "install" => Obj(v) = 1
  BY Frame DEF Types, Threads, Object
<1>2. /\ isRunning <=> tunnel[1] # None
      /\ \A v \in Worker : pc[v] = "install" => iface = v \/ (iface = None /\ Revoked(1))
      /\ (\A v \in Worker : pc[v] # "install") => iface = tunnel[1] \/ (iface = None /\ Revoked(1))
  BY <1>1 DEF FlagsTold, InterfaceTold
<1>3. ASSUME /\ isRunning' <=> tunnel'[1] # None
             /\ \A v \in Worker : pc'[v] = "install" => iface' = v \/ (iface' = None /\ Revoked(1)')
             /\ (\A v \in Worker : pc'[v] # "install") =>
                    iface' = tunnel'[1] \/ (iface' = None /\ Revoked(1)')
      PROVE  InterfaceTold'
  BY <1>1, <1>3 DEF InterfaceTold
<1>4. \A v \in Worker : v # w /\ pc[v] = "install" => SettleStop(w)
  BY Alone DEF Inside, Label
<1>5. CASE Establish(w)
  <2>1. pc[w] = "tun" /\ pc'[w] = "install" /\ iface' = w /\ UNCHANGED <<isRunning, tunnel>>
    BY <1>0, <1>5 DEF Establish, At
  <2>2. \A v \in Worker : v # w => pc'[v] # "install"
    BY <1>1, <1>4, <2>1 DEF SettleStop, At
  <2> QED BY <1>2, <1>3, <2>1, <2>2
<1>6. CASE InstallTun(w)
  <2>1. /\ pc[w] = "install" /\ pc'[w] = "check" /\ isRunning' = TRUE /\ tunnel'[1] = w
        /\ iface' = iface /\ w # None
    BY <1>0, <1>1, <1>6, BoundTypes DEF InstallTun, At, Types, ObjectTypeOK
  <2>2. \A v \in Worker : pc'[v] # "install"
    BY <1>1, <1>4, <2>1 DEF SettleStop, At
  <2>3. Revoked(1) => Revoked(1)'
    BY <1>1, <1>6, <2>1, StepKeepsRevoked DEF DropTunnel, At
  <2> QED BY <1>2, <1>3, <2>1, <2>2, <2>3
<1>7. CASE DropTunnel(w)
  <2>1. /\ pc[w] = "dropTunnel" /\ pc'[w] = "after" /\ isRunning' = FALSE /\ tunnel'[1] = None
        /\ iface' = IF iface = tunnel[1] THEN None ELSE iface
    BY <1>0, <1>1, <1>7 DEF DropTunnel, At, Types, ObjectTypeOK
  <2>2. \A v \in Worker : pc'[v] # "install" /\ pc[v] # "install"
    BY <1>1, <1>4, <2>1 DEF SettleStop, At
  <2> QED BY <1>2, <1>3, <2>1, <2>2
<1>8. CASE UNCHANGED <<isRunning, tunnel, iface>> /\ pc[w] # "install" /\ pc'[w] # "install"
                                                   /\ ~DropTunnel(w)
  <2>1. Revoked(1) => Revoked(1)'
    BY <1>1, <1>8, StepKeepsRevoked
  <2>2. \A v \in Worker : pc'[v] = "install" <=> pc[v] = "install"
    BY <1>1, <1>8
  <2> QED BY <1>2, <1>3, <1>8, <2>1, <2>2
<1> QED
  BY <1>0, <1>5, <1>6, <1>7, <1>8
     DEF WorkerStep, StartSuperseded, StopSuperseded, StartBegins, StopBegins, TeardownBegins,
         Halt, ReuseTun, EstablishFails, CheckDestroyed, StartBypass, StartEngine, Verify, Publish,
         DecideFailure, HoldTunnel, ReportError, StopEngineBounded, DropTunnel, AfterStart,
         AfterStop, AfterDestroy, SettleStop, At

LEMMA SpawnKeepsFlags ==
    ASSUME MaxObjects = 1, Types, FlagsTold,
           NEW kind, NEW m, NEW dns, NEW o, NEW seq, NEW token,
           Spawn(kind, m, dns, o, seq, token),
           UNCHANGED <<isRunning, isEngineRunning, engineFd, isWedged, tunnel, iface>>,
           \A p \in Object : /\ destroyed[p] => destroyed'[p]
                             /\ revoking = p => revoking' = p \/ destroyed'[p] \/ kind = "revoke"
    PROVE  FlagsTold'
<1>1. PICK x \in Worker : x = spawned + 1
  BY DEF Spawn
<1>2. pc[x] = "none"
  <2>1. ~(x <= spawned)
    BY <1>1, BoundTypes DEF Types, ThreadTypeOK, None
  <2> QED BY <2>1 DEF Types, Threads
<1>3. /\ pc'[x] = "queued" /\ worker'[x].kind = kind
      /\ \A v \in Worker : v # x => pc'[v] = pc[v] /\ worker'[v] = worker[v]
  BY <1>1 DEF Spawn, Types, ThreadTypeOK
<1>4. \A v \in Worker : v # x => Obj(v)' = Obj(v)
  BY <1>3 DEF Obj
<1>5. \A p \in Object : Revoked(p) => Revoked(p)'
  <2> SUFFICES ASSUME NEW p \in Object, Revoked(p) PROVE Revoked(p)'
    OBVIOUS
  <2>1. CASE revoking = p \/ destroyed[p]
    BY <1>3, <2>1 DEF Revoked
  <2>2. CASE \E w \in Worker : worker[w].kind = "revoke" /\ pc[w] \in {"queued", "stopEngine", "dropTunnel"}
    <3>1. PICK w \in Worker : worker[w].kind = "revoke" /\ pc[w] \in {"queued", "stopEngine", "dropTunnel"}
      BY <2>2
    <3> QED BY <1>2, <1>3, <3>1 DEF Revoked
  <2> QED BY <2>1, <2>2 DEF Revoked
<1>6. EngineTold'
  <2>1. \A v \in Worker : EngineAt(v)'
    BY <1>3, <1>4 DEF FlagsTold, EngineTold, EngineAt
  <2>2. Unlocked' => Unlocked
    BY <1>2, <1>3 DEF Unlocked, Inside
  <2> QED BY <2>1, <2>2 DEF FlagsTold, EngineTold
<1>7. InterfaceTold'
  <2>1. \A v \in Worker : pc'[v] = "install" <=> pc[v] = "install"
    BY <1>2, <1>3
  <2>2. \A v \in Worker : pc[v] = "install" => Obj(v)' = Obj(v) /\ Obj(v) \in Object
    BY <1>2, <1>4 DEF Types, Threads
  <2> QED BY <1>5, <2>1, <2>2 DEF FlagsTold, InterfaceTold
<1> QED BY <1>6, <1>7 DEF FlagsTold

LEMMA NextFlagsTold ==
    ASSUME MaxObjects = 1, Types, Ownership, FlagsTold, [Next]_vars
    PROVE  FlagsTold'
<1>1. CASE \E w \in Worker : WorkerStep(w)
  BY <1>1, StepKeepsEngineTold, StepKeepsInterfaceTold DEF FlagsTold
<1>2. CASE OnStop \/ OnStart
  <2>1. PICK kind, event : Accept(kind, event)
    BY <1>2 DEF OnStop, OnStart
  <2> QED BY <2>1, SpawnKeepsFlags DEF Accept
<1>3. CASE OnDestroy
  <2>1. Head0.object \in Object
    BY <1>3, DequeueTypes DEF OnDestroy, Message
  <2>2. \A p \in Object : /\ destroyed[p] => destroyed'[p]
                          /\ revoking = p => revoking' = p \/ destroyed'[p]
    BY <1>3, <2>1 DEF OnDestroy, Types, ObjectTypeOK
  <2> QED BY <1>3, <2>2, SpawnKeepsFlags DEF OnDestroy
<1>4. CASE OnRevoke
  BY <1>4, SpawnKeepsFlags DEF OnRevoke
<1>5. CASE SystemRevoke /\ iface # None
  <2>1. /\ iface \in Worker /\ iface' = None
        /\ UNCHANGED <<isRunning, isEngineRunning, engineFd, isWedged, tunnel, worker, pc, destroyed>>
        /\ revoking' = IF destroyed[Obj(iface)] THEN None ELSE Obj(iface)
    BY <1>5 DEF SystemRevoke, Interface, Obj, Types, SystemTypeOK
  <2>2. pc[iface] # "none"
    <3>1. Object = {1} /\ iface # None
      BY <1>5 DEF Object
    <3>2. CASE \A v \in Worker : pc[v] # "install"
      <4>1. iface = tunnel[1]
        BY <3>1, <3>2 DEF FlagsTold, InterfaceTold
      <4> QED BY <3>1, <4>1 DEF Ownership, TunnelOwned
    <3>3. CASE \E v \in Worker : pc[v] = "install"
      <4>1. PICK v \in Worker : pc[v] = "install"
        BY <3>3
      <4>2. iface = v
        BY <3>1, <4>1 DEF FlagsTold, InterfaceTold
      <4> QED BY <4>1, <4>2
    <3> QED BY <3>2, <3>3
  <2>3. Object = {1} /\ Obj(iface) = 1
    BY <2>1, <2>2 DEF Types, Threads, Object
  <2>4. Revoked(1)'
    BY <2>1, <2>3 DEF Revoked
  <2>5. InterfaceTold'
    <3>1. \A v \in Worker : pc'[v] = "install" => Obj(v)' = 1
      BY <2>1, <2>3 DEF Types, Threads, Obj
    <3> QED BY <2>1, <2>3, <2>4, <3>1 DEF FlagsTold, InterfaceTold
  <2>6. EngineTold'
    BY <2>1 DEF FlagsTold, EngineTold, EngineAt, Unlocked, Obj
  <2> QED BY <2>5, <2>6 DEF FlagsTold
<1>6. CASE LateEngineStop
  <2>1. /\ isWedged /\ isWedged' = isWedged /\ engineFd' = None
        /\ UNCHANGED <<isRunning, isEngineRunning, tunnel, worker, pc, iface, destroyed, revoking>>
    BY <1>6 DEF LateEngineStop, Engine!LateStop
  <2>2. EngineTold'
    <3>1. \A v \in Worker : EngineAt(v)'
      BY <2>1 DEF FlagsTold, EngineTold, EngineAt
    <3>2. Unlocked => ~isEngineRunning
      BY <2>1 DEF FlagsTold, EngineTold
    <3> QED BY <2>1, <3>1, <3>2 DEF EngineTold, Unlocked
  <2>3. InterfaceTold'
    BY <2>1 DEF FlagsTold, InterfaceTold, Revoked, Obj
  <2> QED BY <2>2, <2>3 DEF FlagsTold
<1>7. CASE /\ UNCHANGED <<flagVars, engineVars, tunnel, threadVars, pc, iface, destroyed>>
           /\ UNCHANGED revoking \/ revoking = None
  <2>1. EngineTold'
    BY <1>7 DEF FlagsTold, EngineTold, EngineAt, Unlocked, Obj
  <2>2. \A o \in Object : Revoked(o) => Revoked(o)'
    BY <1>7, BoundTypes DEF Revoked
  <2>3. InterfaceTold'
    <3>1. \A w \in Worker : pc[w] = "install" => Obj(w) \in Object
      BY DEF Types, Threads
    <3> QED BY <1>7, <2>2, <3>1 DEF FlagsTold, InterfaceTold, Obj
  <2> QED BY <2>1, <2>3 DEF FlagsTold
<1>8. CASE SystemRevoke /\ iface = None
  BY <1>7, <1>8 DEF SystemRevoke
<1> QED
  BY <1>1, <1>2, <1>3, <1>4, <1>5, <1>6, <1>7, <1>8
     DEF Next, Caller, JsStart, JsSendStart, JsStartRefused, JsStop, JsSendStop, JsStopGivesUp,
         SetKillSwitch, ClearStoredConfig, Tap, System, BringDown, SystemDestroy, GoLetsGo,
         MainThread, OnStartNoConfig

\* While the process has one service object, once nothing is under way the flags by which the app
\* corrects what it shows are those of the interface and the engine, whatever starts, stops,
\* revocations and destructions came before (isRunning, isEngineRunning, XrayVpnService.kt).
THEOREM ServiceFlagsTruthful ==
    ASSUME MaxObjects = 1
    PROVE  Spec => []FlagsTruthful
<1>1. Init => FlagsTold
  BY DEF Init, Engine!EngineInit, FlagsTold, EngineTold, EngineAt, InterfaceTold
<1>2. ASSUME Types, Ownership, FlagsTold, AtRest
      PROVE  (isRunning <=> iface # None) /\ (isEngineRunning <=> engineFd # None /\ ~isWedged)
  <2>1. \A w \in Worker : pc[w] = "none" \/ pc[w] = "done"
    BY <1>2 DEF AtRest
  <2>2. Unlocked
    BY <2>1 DEF Unlocked, Inside
  <2>3. 1 \in Object
    BY DEF Object
  <2>4. iface = tunnel[1] \/ (iface = None /\ destroyed[1])
    BY <1>2, <2>1, <2>3, BoundTypes DEF FlagsTold, InterfaceTold, Revoked, AtRest
  <2>5. destroyed[1] => tunnel[1] = None
    BY <1>2, <2>1, <2>3 DEF Ownership, DestroyedIsDropped, Dropper
  <2>6. isRunning <=> iface # None
    BY <1>2, <2>3, <2>4, <2>5 DEF FlagsTold, InterfaceTold
  <2> QED BY <1>2, <2>2, <2>6 DEF FlagsTold, EngineTold
<1>3. Types /\ Ownership /\ FlagsTold => FlagsTruthful
  BY <1>2 DEF FlagsTruthful
<1> QED BY <1>1, <1>3, NextFlagsTold, AlwaysOwnership, PTL DEF Spec
-----------------------------------------------------------------------------
(* One service object whose tunnel no other VPN takes away.                 *)

Unrevoked == revoking = None /\ \A w \in Worker : worker[w].kind # "revoke"

\* The worker that started the engine reports on the descriptor it gave it.
ReportsOnTunnel ==
    \A w \in Worker : pc[w] \in {"verify", "publish"} => worker[w].tunFd = tunnel[Obj(w)]

LEMMA SpawnSparesOthers ==
    ASSUME Types, NEW kind, NEW m, NEW dns, NEW o, NEW seq, NEW token,
           Spawn(kind, m, dns, o, seq, token)
    PROVE  \E x \in Worker :
              /\ pc[x] = "none" /\ pc'[x] = "queued"
              /\ worker'[x].kind = kind /\ worker'[x].seq = seq /\ worker'[x].startId = m.startId
              /\ \A v \in Worker \ {x} : pc'[v] = pc[v] /\ worker'[v] = worker[v]
<1>1. PICK x \in Worker : x = spawned + 1
  BY DEF Spawn
<1>2. pc[x] = "none"
  <2>1. ~(x <= spawned)
    BY <1>1, BoundTypes DEF Types, ThreadTypeOK, None
  <2> QED BY <2>1 DEF Types, Threads
<1>3. /\ pc'[x] = "queued"
      /\ worker'[x].kind = kind /\ worker'[x].seq = seq /\ worker'[x].startId = m.startId
      /\ \A v \in Worker \ {x} : pc'[v] = pc[v] /\ worker'[v] = worker[v]
  BY <1>1 DEF Spawn, Types, ThreadTypeOK
<1> QED BY <1>2, <1>3

LEMMA NextUnrevoked ==
    ASSUME MaxRevokes = 0, Types, Unrevoked, [Next]_vars
    PROVE  Unrevoked'
<1>1. CASE \E w \in Worker : WorkerStep(w)
  <2>1. PICK w \in Worker : WorkerStep(w)
    BY <1>1
  <2> QED BY <2>1, StepShape, Frame DEF Unrevoked
<1>2. ASSUME NEW kind \in {"start", "stop", "destroy"}, NEW m, NEW dns, NEW o, NEW seq, NEW token,
             Spawn(kind, m, dns, o, seq, token), revoking' = None
      PROVE  Unrevoked'
  BY <1>2, SpawnSparesOthers DEF Unrevoked
<1>3. CASE OnStop \/ OnStart
  <2>1. PICK kind \in {"start", "stop"}, event \in Event : Accept(kind, event)
    BY <1>3 DEF OnStop, OnStart, Event
  <2> QED BY <1>2, <2>1 DEF Accept, Unrevoked
<1>4. CASE OnDestroy
  <2>1. revoking' = None
    BY <1>4 DEF OnDestroy, Unrevoked
  <2> QED BY <1>2, <1>4, <2>1 DEF OnDestroy
<1>5. CASE SystemRevoke \/ OnRevoke
  BY <1>5 DEF SystemRevoke, OnRevoke, Unrevoked, Types, SystemTypeOK
<1>6. CASE UNCHANGED <<worker, revoking>>
  BY <1>6 DEF Unrevoked
<1> QED
  BY <1>1, <1>3, <1>4, <1>5, <1>6
     DEF Next, Caller, JsStart, JsSendStart, JsStartRefused, JsStop, JsSendStop, JsStopGivesUp,
         SetKillSwitch, ClearStoredConfig, Tap, System, BringDown, SystemDestroy, GoLetsGo, LateEngineStop,
         MainThread, OnStartNoConfig

LEMMA NextReportsOnTunnel ==
    ASSUME MaxObjects = 1, Types, Ownership, ReportsOnTunnel, [Next]_vars
    PROVE  ReportsOnTunnel'
<1>1. ASSUME NEW w \in Worker, WorkerStep(w), NEW v \in Worker, pc'[v] \in {"verify", "publish"}
      PROVE  worker'[v].tunFd = tunnel'[Obj(v)']
  <2>0. \A label : Goto(w, label) => pc'[w] = label
    BY DEF Types, ThreadTypeOK, Goto
  <2>1. Obj(v)' = Obj(v)
    BY <1>1, Frame
  <2>2. CASE v = w
    <3>1. StartEngine(w) \/ Verify(w)
      BY <1>1, <2>0, <2>2
         DEF WorkerStep, StartSuperseded, StopSuperseded, StartBegins, StopBegins, TeardownBegins,
             Halt, ReuseTun, Establish, EstablishFails, InstallTun, CheckDestroyed, StartBypass,
             Publish, DecideFailure, HoldTunnel, ReportError, StopEngineBounded, DropTunnel,
             AfterStart, AfterStop, AfterDestroy, SettleStop
    <3>2. CASE StartEngine(w)
      BY <2>1, <2>2, <3>2 DEF StartEngine, At, Ownership, StartsOnTunnel
    <3>3. CASE Verify(w)
      <4>1. pc'[w] = "publish" => UNCHANGED worker
        BY <2>0, <3>3 DEF Verify
      <4>2. pc[w] = "verify" /\ pc'[w] # "verify" /\ UNCHANGED tunnel
        BY <2>0, <3>3 DEF Verify, At
      <4> QED BY <1>1, <2>1, <2>2, <4>1, <4>2 DEF ReportsOnTunnel
    <3> QED BY <3>1, <3>2, <3>3
  <2>3. CASE v # w
    <3>1. pc[v] = pc'[v] /\ worker'[v].tunFd = worker[v].tunFd
      BY <1>1, <2>3, Frame
    <3>2. SettleStop(w)
      BY <1>1, <2>3, <3>1, Alone DEF Inside, Label
    <3> QED BY <1>1, <2>1, <3>1, <3>2 DEF SettleStop, ReportsOnTunnel
  <2> QED BY <2>2, <2>3
<1>2. ASSUME UNCHANGED tunnel,
             NEW kind, NEW m, NEW dns, NEW o, NEW seq, NEW token,
             Spawn(kind, m, dns, o, seq, token)
      PROVE  ReportsOnTunnel'
  BY <1>2, SpawnSparesOthers DEF ReportsOnTunnel, Obj
<1>3. CASE OnStop \/ OnStart
  <2>1. PICK kind, event : Accept(kind, event)
    BY <1>3 DEF OnStop, OnStart
  <2> QED BY <1>2, <2>1 DEF Accept
<1>4. CASE OnDestroy \/ OnRevoke
  BY <1>2, <1>4 DEF OnDestroy, OnRevoke
<1>5. CASE UNCHANGED <<tunnel, worker, pc>>
  BY <1>5 DEF ReportsOnTunnel, Obj
<1> QED
  BY <1>1, <1>3, <1>4, <1>5
     DEF ReportsOnTunnel, Next, Caller, JsStart, JsSendStart, JsStartRefused, JsStop, JsSendStop,
         JsStopGivesUp, SetKillSwitch, ClearStoredConfig, Tap, System, BringDown, SystemDestroy,
         SystemRevoke, GoLetsGo, LateEngineStop, MainThread, OnStartNoConfig

\* Whoever is about to report a connection has started the engine on the live interface, or the
\* service was destroyed meanwhile.
LEMMA PublishesLiveTunnel ==
    ASSUME MaxObjects = 1, Types, Ownership, FlagsTold, Unrevoked, ReportsOnTunnel,
           NEW w \in Worker, pc[w] = "publish"
    PROVE  /\ engineFd # None /\ engineFd = worker[w].tunFd
           /\ engineFd = iface \/ destroyed[Obj(w)]
<1>1. Obj(w) = 1 /\ Object = {1} /\ \A v \in Worker : pc[v] # "none" => Obj(v) = 1
  BY DEF Types, Threads, Object
<1>2. \A v \in Worker : pc[v] # "install"
  BY <1>1, Exclusion DEF Ownership, Inside, Label
<1>3. iface = tunnel[1] \/ (iface = None /\ Revoked(1))
  BY <1>1, <1>2 DEF FlagsTold, InterfaceTold
<1>4. Revoked(1) => destroyed[1]
  BY <1>1, BoundTypes DEF Revoked, Unrevoked
<1>5. engineFd = tunnel[1] /\ engineFd # None
  BY <1>1 DEF FlagsTold, EngineTold, EngineAt
<1>6. worker[w].tunFd = tunnel[1]
  BY <1>1 DEF ReportsOnTunnel
<1> QED BY <1>1, <1>3, <1>4, <1>5, <1>6

\* While the process has one service object and no other VPN takes its interface away, connect()
\* resolves over the running engine it started, on the live interface, unless the service was
\* destroyed meanwhile (runStart, XrayVpnService.kt).
THEOREM ServiceConnectHonest ==
    ASSUME MaxObjects = 1, MaxRevokes = 0
    PROVE  Spec => ConnectHonest
<1> DEFINE IInv == Types /\ Ownership /\ FlagsTold /\ Unrevoked /\ ReportsOnTunnel
<1>1. Init => FlagsTold /\ Unrevoked /\ ReportsOnTunnel
  BY DEF Init, Engine!EngineInit, FlagsTold, EngineTold, EngineAt, InterfaceTold, Unrevoked,
         ReportsOnTunnel, IdleWorker
<1>2. ASSUME IInv, NEW w \in Worker, pc[w] = "publish"
      PROVE  /\ engineFd # None /\ engineFd = worker[w].tunFd
             /\ engineFd = iface \/ destroyed[Obj(w)]
  BY <1>2, PublishesLiveTunnel
<1> DEFINE Honest ==
      \A w \in Worker, c \in StartCall :
          /\ startPromise[c] = "armed" /\ startPromise'[c] = "ok"
          /\ pc[w] = "publish" /\ pc'[w] = "done"
          => /\ engineFd # None /\ engineFd = worker[w].tunFd
             /\ \/ engineFd = iface
                \/ revoking # None \/ destroyed[Obj(w)]
                \/ \E v \in Worker : /\ v > w /\ worker[v].kind = "revoke"
                                      /\ pc[v] = "queued"
<1>3. IInv => [Honest]_vars
  BY <1>2
<1> QED BY <1>1, <1>3, NextFlagsTold, NextUnrevoked, NextReportsOnTunnel, AlwaysOwnership,
           PTL DEF Spec, ConnectHonest
-----------------------------------------------------------------------------
(* One service object that only its JS caller commands: each connect() waits  *)
(* for the one before, each disconnect() until it is told or gives up.        *)

Command(w) == worker[w].kind \in {"start", "stop"}
Newest(w)  == Command(w) /\ worker[w].seq = commandSeq[1]

\* Commands are numbered as they are accepted, by the system as by the service.
Counted ==
    /\ \A w \in Worker : Command(w) => /\ pc[w] # "none" /\ pc[w] # "settle"
                                       /\ worker[w].seq # 0 /\ worker[w].seq <= commandSeq[1]
                                       /\ worker[w].startId = worker[w].seq
    /\ \A v, w \in Worker : Command(v) /\ Command(w) /\ worker[v].seq = worker[w].seq => v = w
    /\ commandSeq[1] # 0 => \E w \in Worker : Newest(w)

\* What is posted are the commands to come, or the end of the service.
Posted ==
    /\ current = None => /\ lastStartId = commandSeq[1]
                         /\ \A i \in 1..Len(mainQueue) : i = 1 /\ mainQueue[i].kind = "destroy"
    /\ current # None => /\ lastStartId = commandSeq[1] + Len(mainQueue)
                         /\ \A i \in 1..Len(mainQueue) :
                               /\ mainQueue[i].kind \in {"start", "stop"}
                               /\ mainQueue[i].startId = commandSeq[1] + i
    /\ created = None => current = None /\ mainQueue = <<>>
    /\ destroyed[1] => current = None /\ created # None
    /\ \A w \in Worker : pc[w] # "none" => Command(w) \/ destroyed[1]

\* Once the newest command has begun, no other runs: each was through, or is overtaken.
InTurn ==
    \A v, w \in Worker : Newest(w) /\ pc[w] # "queued" /\ Command(v) /\ v # w => pc[v] \notin Inside

Ended == \A w \in Worker : Newest(w) => pc[w] = "done"

\* The service stops itself only after the newest command, and ends only without an interface.
Winding ==
    /\ current = None => Ended /\ tunnel[1] = None /\ iface = None
    /\ current # None /\ ~startRequested => Ended /\ mainQueue = <<>>

\* StreamTruthful, whatever is still waiting.
Told ==
    /\ lastEvent \in {"connected", "blocked", "error", "disconnected"}
    /\ lastEvent = "connected" => engineFd # None /\ engineFd = iface /\ ~isWedged
    /\ lastEvent = "blocked" => iface # None /\ (engineFd = None \/ isWedged)
    /\ lastEvent \in {"error", "disconnected"} => iface = None

\* The newest command has the last word, and what it says last is what it left.
Said ==
    /\ commandSeq[1] = 0 => lastEvent = "none" /\ iface = None
    /\ \A w \in Worker :
          /\ Newest(w) /\ pc[w] = "done" => Told
          /\ Newest(w) /\ worker[w].kind = "start" /\ pc[w] \in {"stopEngine", "dropTunnel", "after"}
                => lastEvent = "error"
          /\ pc[w] = "hold" => tunnel[1] # None
          /\ pc[w] = "after" => tunnel[1] = None

Streamed == Counted /\ Posted /\ InTurn /\ Winding /\ Said

StreamInv == /\ Types /\ Ownership /\ FlagsTold /\ Unrevoked /\ ReportsOwnStart
             /\ Streamed

\* A step of a worker leaves the numbers of all commands alone.
LEMMA NumbersKept ==
    ASSUME Types, NEW w \in Worker, WorkerStep(w)
    PROVE  /\ UNCHANGED <<commandSeq, mainQueue, current, created, lastStartId, destroyed>>
           /\ pc[w] # "done" /\ pc[w] # "none"
           /\ \A v \in Worker :
                 /\ worker'[v].kind = worker[v].kind /\ worker'[v].seq = worker[v].seq
                 /\ worker'[v].startId = worker[v].startId
                 /\ Command(v)' <=> Command(v)
                 /\ Newest(v)' <=> Newest(v)
<1>1. Noted(w) /\ UNCHANGED outside
  BY StepShape
<1>2. pc[w] # "done" /\ pc[w] # "none"
  BY DEF WorkerStep, StartSuperseded, StopSuperseded, StartBegins, StopBegins, TeardownBegins,
         Halt, ReuseTun, Establish, EstablishFails, InstallTun, CheckDestroyed, StartBypass,
         StartEngine, Verify, Publish, DecideFailure, HoldTunnel, ReportError, StopEngineBounded,
         DropTunnel, AfterStart, AfterStop, AfterDestroy, SettleStop, At
<1>3. \A v \in Worker :
         /\ worker'[v].kind = worker[v].kind /\ worker'[v].seq = worker[v].seq
         /\ worker'[v].startId = worker[v].startId
  BY <1>1 DEF Noted, TakeTun, Because, Types, ThreadTypeOK, WorkerRecord
<1> QED BY <1>1, <1>2, <1>3 DEF Command, Newest

\* A command is the newest exactly if it is not stale.
LEMMA NewestIsFresh ==
    ASSUME MaxObjects = 1, Types, NEW w \in Worker, Command(w), pc[w] # "none"
    PROVE  Newest(w) <=> ~Stale(w)
<1>1. Obj(w) = 1
  BY DEF Types, Threads, Object
<1> QED BY <1>1 DEF Newest, Stale

LEMMA OneIsNewest ==
    ASSUME Counted, NEW v \in Worker, NEW w \in Worker, Newest(v), Newest(w)
    PROVE  v = w
BY DEF Counted, Newest

\* While the newest command is not through, the service is there.
LEMMA NewestIsServed ==
    ASSUME MaxObjects = 1, StreamInv, NEW w \in Worker, Newest(w), pc[w] # "done"
    PROVE  /\ current # None /\ ~destroyed[1] /\ ~Revoked(1)
           /\ (\A v \in Worker : pc[v] # "install") => iface = tunnel[1]
<1>1. current # None /\ ~destroyed[1]
  BY DEF StreamInv, Streamed, Winding, Ended, Posted
<1>2. ~Revoked(1)
  BY <1>1, BoundTypes DEF StreamInv, Unrevoked, Revoked, Object
<1>3. (\A v \in Worker : pc[v] # "install") => iface = tunnel[1]
  BY <1>2 DEF StreamInv, FlagsTold, InterfaceTold, Object
<1> QED BY <1>1, <1>2, <1>3

\* Once the newest command has begun, the step of any other worker is that of an overtaken command,
\* or of the end of the service, and neither says anything.
LEMMA OthersAreSilent ==
    ASSUME MaxObjects = 1, StreamInv, NEW w \in Worker, WorkerStep(w), ~Newest(w),
           \A v \in Worker : Newest(v) => pc[v] # "queued"
    PROVE  /\ UNCHANGED <<lastEvent, startRequested>>
           /\ Command(w) => UNCHANGED <<iface, tunnel, engineFd, isWedged>>
           /\ iface' = iface \/ iface' = None
           /\ tunnel'[1] = tunnel[1] \/ tunnel'[1] = None
<1>1. Types /\ Unrevoked /\ ReportsOwnStart /\ Counted /\ InTurn
  BY DEF StreamInv, Streamed
<1>2. CASE Command(w)
  <2>1. pc[w] # "none" /\ pc[w] # "settle" /\ commandSeq[1] # 0
    BY <1>1, <1>2, BoundsAssumption DEF Counted, Types, ObjectTypeOK, Object, ThreadTypeOK, WorkerRecord
  <2>2. PICK v \in Worker : Newest(v)
    BY <1>1, <2>1 DEF Counted
  <2>3. pc[w] \notin Inside
    BY <1>1, <1>2, <2>2 DEF InTurn
  <2>4. ~StartBegins(w) /\ ~StopBegins(w) /\ ~TeardownBegins(w)
    BY <1>1, <1>2, <2>1, NewestIsFresh
       DEF StartBegins, StopBegins, TeardownBegins, Command
  <2>5. StartSuperseded(w) \/ StopSuperseded(w)
    BY <2>1, <2>3, <2>4
       DEF WorkerStep, Halt, ReuseTun, Establish, EstablishFails, InstallTun, CheckDestroyed,
           StartBypass, StartEngine, Verify, Publish, DecideFailure, HoldTunnel, ReportError,
           StopEngineBounded, DropTunnel, AfterStart, AfterStop, AfterDestroy, SettleStop, At,
           Inside, Label
  <2> QED BY <2>5 DEF StartSuperseded, StopSuperseded
<1>3. CASE ~Command(w)
  <2>1. \/ TeardownBegins(w) \/ StopEngineBounded(w) \/ DropTunnel(w) \/ AfterDestroy(w)
        \/ SettleStop(w)
    BY <1>1, <1>3
       DEF WorkerStep, StartSuperseded, StopSuperseded, StartBegins, StopBegins,
           Halt, ReuseTun, Establish, EstablishFails, InstallTun, CheckDestroyed,
           StartBypass, StartEngine, Verify, Publish, DecideFailure, HoldTunnel, ReportError,
           AfterStart, AfterStop, At, Command, Unrevoked, ReportsOwnStart, Reporting
  <2>2. CASE DropTunnel(w)
    <3>1. Obj(w) = 1 /\ tunnel \in [Object -> Worker \cup {None}] /\ Object = {1}
      BY <1>1, Frame DEF Object, Types, ObjectTypeOK
    <3> QED BY <1>3, <2>2, <3>1 DEF DropTunnel
  <2> QED BY <1>3, <2>1, <2>2 DEF TeardownBegins, StopEngineBounded, AfterDestroy, SettleStop
<1> QED BY <1>2, <1>3

LEMMA StepKeepsTurn ==
    ASSUME MaxObjects = 1, StreamInv, NEW w \in Worker, WorkerStep(w)
    PROVE  Counted' /\ Posted' /\ InTurn'
<1>1. Types /\ Ownership /\ Counted /\ Posted /\ InTurn
  BY DEF StreamInv, Streamed
<1>2. \A v \in Worker : /\ pc'[v] = "none" <=> pc[v] = "none"
                        /\ v # w => pc'[v] = pc[v]
  BY <1>1, Frame
<1>0. \A label : Goto(w, label) => pc'[w] = label
  BY <1>1 DEF Types, ThreadTypeOK, Goto
<1>3. Command(w) => pc'[w] # "settle"
  <2>1. pc'[w] = "settle" => AfterDestroy(w)
    BY <1>0, <1>1
       DEF WorkerStep, StartSuperseded, StopSuperseded, StartBegins, StopBegins, TeardownBegins,
           Halt, ReuseTun, Establish, EstablishFails, InstallTun, CheckDestroyed, StartBypass,
           StartEngine, Verify, Publish, DecideFailure, HoldTunnel, ReportError,
           StopEngineBounded, DropTunnel, AfterStart, AfterStop, SettleStop
  <2> QED BY <2>1 DEF AfterDestroy, Command
<1>4. Counted'
  <2>1. \A v \in Worker : Command(v)' => /\ pc'[v] # "none" /\ pc'[v] # "settle"
                                         /\ worker'[v].seq # 0 /\ worker'[v].seq <= commandSeq'[1]
                                         /\ worker'[v].startId = worker'[v].seq
    BY <1>1, <1>2, <1>3, NumbersKept DEF Counted
  <2>2. \A u, v \in Worker : Command(u)' /\ Command(v)' /\ worker'[u].seq = worker'[v].seq => u = v
    BY <1>1, NumbersKept DEF Counted
  <2>3. commandSeq'[1] # 0 => \E v \in Worker : Newest(v)'
    BY <1>1, NumbersKept DEF Counted
  <2> QED BY <2>1, <2>2, <2>3 DEF Counted
<1>5. Posted'
  <2>1. \A v \in Worker : pc'[v] # "none" => Command(v)' \/ destroyed'[1]
    BY <1>1, <1>2, NumbersKept DEF Posted
  <2> QED BY <1>1, <2>1, NumbersKept DEF Posted
<1>6. InTurn'
  <2> SUFFICES ASSUME NEW u \in Worker, NEW v \in Worker, Newest(u), pc'[u] # "queued",
                      Command(v), v # u
               PROVE  pc'[v] \notin Inside
    BY <1>1, NumbersKept DEF InTurn
  <2>1. ~Newest(v) /\ pc[v] # "none" /\ pc[v] # "settle" /\ pc[u] # "none"
    BY <1>1, OneIsNewest DEF Counted, Newest
  <2>2. Obj(v) = 1 /\ Obj(w) = 1 /\ Obj(u) = 1
    BY <1>1, <2>1, Frame DEF Types, Threads, Object
  <2>4. CASE w = u /\ pc[u] = "queued"
    <3>1. StartBegins(w) \/ StopBegins(w) \/ TeardownBegins(w)
      BY <1>1, <2>1, <2>4, NewestIsFresh
         DEF WorkerStep, StartSuperseded, StopSuperseded, Halt, ReuseTun, Establish, EstablishFails,
           InstallTun, CheckDestroyed, StartBypass, StartEngine, Verify, Publish, DecideFailure,
           HoldTunnel, ReportError, StopEngineBounded, DropTunnel, AfterStart, AfterStop,
           AfterDestroy, SettleStop, At, Newest
    <3>2. engineLock[1] = None
      BY <2>2, <3>1 DEF StartBegins, StopBegins, TeardownBegins, Enter
    <3>3. pc[v] \notin Inside
      BY <1>1, <2>2, <3>2, BoundTypes DEF Ownership, LockHeld
    <3> QED BY <1>2, <2>4, <3>3
  <2>5. CASE w # v /\ ~(w = u /\ pc[u] = "queued")
    BY <1>1, <1>2, <2>5 DEF InTurn
  <2>6. CASE w = v
    <3>1. pc[u] # "queued"
      BY <1>2, <2>6
    <3>2. pc[w] \notin Inside
      BY <1>1, <2>6, <3>1 DEF InTurn
    <3>3. StartSuperseded(w) \/ StopSuperseded(w)
      BY <1>1, <2>1, <2>6, <3>2, NewestIsFresh
         DEF WorkerStep, StartBegins, StopBegins, TeardownBegins, Halt, ReuseTun, Establish,
           EstablishFails, InstallTun, CheckDestroyed, StartBypass, StartEngine, Verify, Publish,
           DecideFailure, HoldTunnel, ReportError, StopEngineBounded, DropTunnel, AfterStart,
           AfterStop, AfterDestroy, SettleStop, At, Inside, Label, Command
    <3> QED BY <1>0, <2>6, <3>3 DEF StartSuperseded, StopSuperseded, Inside
  <2> QED BY <2>4, <2>5, <2>6
<1> QED BY <1>4, <1>5, <1>6

LEMMA StepKeepsWinding ==
    ASSUME MaxObjects = 1, StreamInv, NEW w \in Worker, WorkerStep(w)
    PROVE  Winding'
<1>1. Types /\ Counted /\ Posted /\ Winding
  BY DEF StreamInv, Streamed
<1>2. \A v \in Worker : v # w => pc'[v] = pc[v]
  BY <1>1, Frame
<1>3. Ended => Ended' /\ ~Newest(w) /\ \A v \in Worker : Newest(v) => pc[v] # "queued"
  BY <1>1, <1>2, NumbersKept DEF Ended
<1>4. current = None => tunnel'[1] = None /\ iface' = None
  BY <1>1, <1>3, OthersAreSilent DEF Winding
<1>5. ASSUME current # None, ~startRequested'
      PROVE  Ended' /\ mainQueue = <<>>
  <2>1. CASE ~startRequested
    BY <1>1, <1>3, <1>5, <2>1 DEF Winding
  <2>2. CASE startRequested
    <3>1. AfterStart(w) \/ AfterStop(w)
      BY <1>5, <2>2
         DEF WorkerStep, StartSuperseded, StopSuperseded, StartBegins, StopBegins, TeardownBegins,
           Halt, ReuseTun, Establish, EstablishFails, InstallTun, CheckDestroyed, StartBypass,
           StartEngine, Verify, Publish, DecideFailure, HoldTunnel, ReportError,
           StopEngineBounded, DropTunnel, AfterDestroy, SettleStop
    <3>2. Command(w) /\ worker[w].startId = lastStartId /\ pc'[w] = "done"
      <4>1. worker[w].kind # "revoke"
        BY DEF StreamInv, Unrevoked
      <4>2. pc'[w] = "done" /\ Command(w)
        BY <1>1, <3>1, <4>1 DEF AfterStart, AfterStop, Command, Types, ThreadTypeOK, Goto
      <4>3. StopSelf(Obj(w), worker[w].startId)
        BY <1>5, <2>2, <3>1, <4>1 DEF AfterStart, AfterStop
      <4>4. worker[w].startId = lastStartId
        BY <1>5, <2>2, <4>3 DEF StopSelf
      <4> QED BY <4>2, <4>4
    <3>3. worker[w].seq = lastStartId /\ worker[w].seq <= commandSeq[1]
      BY <1>1, <3>2 DEF Counted
    <3>4. lastStartId = commandSeq[1] + Len(mainQueue)
      BY <1>1, <1>5 DEF Posted
    <3>5. commandSeq[1] \in Nat /\ Len(mainQueue) \in Nat
      BY <1>1, LenProperties DEF Types, ObjectTypeOK, SystemTypeOK, Object
    <3>6. Len(mainQueue) = 0 /\ worker[w].seq = commandSeq[1]
      BY <3>3, <3>4, <3>5
    <3>7. mainQueue = <<>>
      BY <1>1, <3>6, EmptySeq DEF Types, SystemTypeOK
    <3>8. \A v \in Worker : Newest(v) => v = w
      BY <1>1, <3>2, <3>6, OneIsNewest DEF Newest
    <3> QED BY <1>2, <3>2, <3>7, <3>8, NumbersKept, <1>1 DEF Ended
  <2> QED BY <2>1, <2>2
<1>6. UNCHANGED <<current, mainQueue>>
  BY <1>1, NumbersKept
<1> QED BY <1>1, <1>3, <1>4, <1>5, <1>6 DEF Winding

\* What the newest command leaves when it is through is what it said last.
LEMMA NewestLeavesWhatItSaid ==
    ASSUME MaxObjects = 1, StreamInv, NEW w \in Worker, WorkerStep(w), Newest(w), pc'[w] = "done"
    PROVE  Told'
<1>0. \A label : Goto(w, label) => pc'[w] = label
  BY DEF StreamInv, Types, ThreadTypeOK, Goto
<1>1. Types /\ Ownership /\ Counted /\ Said /\ Unrevoked
  BY DEF StreamInv, Streamed
<1>2. /\ pc[w] # "done" /\ pc[w] # "none" /\ pc[w] # "settle" /\ ~Stale(w) /\ Command(w)
      /\ Obj(w) = 1
  BY <1>1, NumbersKept, NewestIsFresh DEF Counted, Newest, Types, Threads, Object
<1>3. ~destroyed[1] /\ ((\A v \in Worker : pc[v] # "install") => iface = tunnel[1])
  BY <1>2, NewestIsServed
<1>4. ASSUME pc[w] \in Inside, pc[w] # "install"
      PROVE  iface = tunnel[1]
  <2>1. \A v \in Worker : v # w => pc[v] # "install"
    <3> SUFFICES ASSUME NEW v \in Worker, v # w, pc[v] = "install" PROVE FALSE
      OBVIOUS
    <3>1. Obj(v) = 1
      BY <1>1 DEF Types, Threads, Object
    <3> QED BY <1>1, <1>2, <1>4, <3>1, Exclusion DEF Inside, Label, Ownership
  <2> QED BY <1>3, <1>4, <2>1
<1>5. EngineAt(w)
  BY DEF StreamInv, FlagsTold, EngineTold
<1>6. CASE Publish(w)
  <2>1. pc[w] = "publish" /\ lastEvent' = "connected" /\ UNCHANGED <<engineFd, isWedged, iface>>
    BY <1>6 DEF Publish, At
  <2>2. iface = tunnel[1]
    BY <1>4, <2>1 DEF Inside, Label
  <2>3. engineFd = tunnel[1] /\ engineFd # None /\ ~isWedged
    BY <1>2, <1>5, <2>1 DEF EngineAt
  <2> QED BY <2>1, <2>2, <2>3 DEF Told
<1>7. CASE HoldTunnel(w)
  <2>1. pc[w] = "hold" /\ lastEvent' = "blocked" /\ UNCHANGED <<engineFd, isWedged, iface>>
    BY <1>7 DEF HoldTunnel, At
  <2>2. iface = tunnel[1] /\ tunnel[1] # None
    BY <1>1, <1>4, <2>1 DEF Inside, Label, Said
  <2>3. engineFd = None \/ isWedged
    BY <1>5, <2>1 DEF EngineAt
  <2> QED BY <2>1, <2>2, <2>3 DEF Told
<1>8. CASE AfterStart(w) \/ AfterStop(w)
  <2>1. pc[w] = "after" /\ iface' = iface
    BY <1>8 DEF AfterStart, AfterStop, At
  <2>2. iface = None
    BY <1>1, <1>4, <2>1 DEF Inside, Label, Said
  <2>3. lastEvent' \in {"error", "disconnected"}
    BY <1>1, <1>8, <2>1 DEF AfterStart, AfterStop, Said
  <2> QED BY <2>1, <2>2, <2>3 DEF Told
<1> QED
  BY <1>0, <1>2, <1>3, <1>6, <1>7, <1>8
     DEF WorkerStep, StartSuperseded, StopSuperseded, StartBegins, StopBegins, TeardownBegins,
         Halt, ReuseTun, Establish, EstablishFails, InstallTun, CheckDestroyed, StartBypass,
         StartEngine, Verify, DecideFailure, ReportError,
         StopEngineBounded, DropTunnel, AfterDestroy, SettleStop, At, Command

\* A start that tears down has failed, and has said so.
LEMMA FailureWasSaid ==
    ASSUME MaxObjects = 1, StreamInv, NEW w \in Worker, WorkerStep(w), Newest(w),
           worker[w].kind = "start", pc'[w] \in {"stopEngine", "dropTunnel", "after"}
    PROVE  lastEvent' = "error"
<1>0. \A label : Goto(w, label) => pc'[w] = label
  BY DEF StreamInv, Types, ThreadTypeOK, Goto
<1>1. Types /\ Counted /\ Said
  BY DEF StreamInv, Streamed
<1>2. pc[w] # "done" /\ Obj(w) = 1
  BY <1>1, NumbersKept DEF Types, Threads, Object
<1>3. ~destroyed[1]
  BY <1>2, NewestIsServed
<1>4. CASE ReportError(w)
  BY <1>4 DEF ReportError
<1>5. CASE StopEngineBounded(w) \/ DropTunnel(w)
  BY <1>1, <1>5 DEF StopEngineBounded, DropTunnel, At, Said
<1> QED
  BY <1>0, <1>2, <1>3, <1>4, <1>5
     DEF WorkerStep, StartSuperseded, StopSuperseded, StartBegins, StopBegins, TeardownBegins,
         Halt, ReuseTun, Establish, EstablishFails, InstallTun, CheckDestroyed, StartBypass,
         StartEngine, Verify, Publish, DecideFailure, HoldTunnel, AfterStart, AfterStop,
         AfterDestroy, SettleStop

\* Holding needs a tunnel, and what was torn down is gone.
LEMMA StepKeepsHeld ==
    ASSUME MaxObjects = 1, StreamInv, NEW w \in Worker, WorkerStep(w), NEW v \in Worker
    PROVE  /\ pc'[v] = "hold" => tunnel'[1] # None
           /\ pc'[v] = "after" => tunnel'[1] = None
<1>0. \A label : Goto(w, label) => pc'[w] = label
  BY DEF StreamInv, Types, ThreadTypeOK, Goto
<1>1. Types /\ Ownership /\ Said
  BY DEF StreamInv, Streamed
<1>2. Obj(w) = 1 /\ Object = {1} /\ tunnel \in [Object -> Worker \cup {None}]
  BY <1>1, Frame DEF Object, Types, ObjectTypeOK
<1>3. CASE v = w
  <2>1. CASE DecideFailure(w)
    BY <1>0, <1>2, <1>3, <2>1 DEF DecideFailure
  <2>2. CASE DropTunnel(w)
    BY <1>0, <1>2, <1>3, <2>2 DEF DropTunnel
  <2> QED
    BY <1>0, <1>3, <2>1, <2>2
       DEF WorkerStep, StartSuperseded, StopSuperseded, StartBegins, StopBegins, TeardownBegins,
           Halt, ReuseTun, Establish, EstablishFails, InstallTun, CheckDestroyed, StartBypass,
           StartEngine, Verify, Publish, HoldTunnel, ReportError, StopEngineBounded, AfterStart,
           AfterStop, AfterDestroy, SettleStop
<1>4. CASE v # w
  <2>1. pc'[v] = pc[v]
    BY <1>1, <1>4, Frame
  <2>2. pc[v] \in Inside => SettleStop(w)
    BY <1>1, <1>4, Alone
  <2>3. pc[v] \in Inside => UNCHANGED tunnel
    BY <2>2 DEF SettleStop
  <2> QED BY <1>1, <2>1, <2>3 DEF Said, Inside, Label
<1> QED BY <1>3, <1>4

LEMMA StepKeepsSaid ==
    ASSUME MaxObjects = 1, StreamInv, NEW w \in Worker, WorkerStep(w)
    PROVE  Said'
<1>1. Types /\ Counted /\ Posted /\ Winding /\ Said
  BY DEF StreamInv, Streamed
<1>2. \A v \in Worker : v # w => pc'[v] = pc[v]
  BY <1>1, Frame
<1>3. ASSUME commandSeq[1] = 0
      PROVE  lastEvent' = "none" /\ iface' = None
  <2>1. \A v \in Worker : ~Newest(v)
    BY <1>1, <1>3 DEF Counted, Newest
  <2>2. lastEvent = "none" /\ iface = None
    BY <1>1, <1>3 DEF Said
  <2> QED BY <2>1, <2>2, OthersAreSilent
<1>4. ASSUME NEW v \in Worker, Newest(v), pc[v] # "queued", v # w
      PROVE  ~Newest(w) /\ (\A u \in Worker : Newest(u) => pc[u] # "queued")
  BY <1>1, <1>4, OneIsNewest
<1>5. ASSUME NEW v \in Worker, Newest(v), pc'[v] = "done"
      PROVE  Told'
  <2>1. CASE v = w
    BY <1>5, <2>1, NewestLeavesWhatItSaid
  <2>2. CASE v # w
    <3>1. pc[v] = "done"
      BY <1>2, <1>5, <2>2
    <3>2. Told
      BY <1>1, <1>5, <3>1 DEF Said
    <3>3. /\ UNCHANGED lastEvent
          /\ Command(w) => UNCHANGED <<iface, engineFd, isWedged>>
          /\ iface' = iface \/ iface' = None
      BY <1>4, <1>5, <2>2, <3>1, OthersAreSilent
    <3>4. CASE Command(w)
      BY <3>2, <3>3, <3>4 DEF Told
    <3>5. CASE ~Command(w)
      <4>1. iface = None
        BY <1>1, <3>5, NumbersKept DEF Posted, Winding
      <4> QED BY <3>2, <3>3, <4>1 DEF Told
    <3> QED BY <3>4, <3>5
  <2> QED BY <2>1, <2>2
<1>6. ASSUME NEW v \in Worker, Newest(v), worker[v].kind = "start",
             pc'[v] \in {"stopEngine", "dropTunnel", "after"}
      PROVE  lastEvent' = "error"
  <2>1. CASE v = w
    BY <1>6, <2>1, FailureWasSaid
  <2>2. CASE v # w
    <3>1. pc[v] = pc'[v]
      BY <1>2, <2>2
    <3>2. lastEvent = "error"
      BY <1>1, <1>6, <3>1 DEF Said
    <3>3. UNCHANGED lastEvent
      BY <1>4, <1>6, <2>2, <3>1, OthersAreSilent
    <3> QED BY <3>2, <3>3
  <2> QED BY <2>1, <2>2
<1>7. \A v \in Worker : worker'[v].kind = worker[v].kind /\ (Newest(v)' <=> Newest(v))
  BY <1>1, NumbersKept
<1>8. UNCHANGED commandSeq
  BY <1>1, NumbersKept
<1>9. \A v \in Worker : /\ pc'[v] = "hold" => tunnel'[1] # None
                        /\ pc'[v] = "after" => tunnel'[1] = None
  BY StepKeepsHeld
<1> QED BY <1>3, <1>5, <1>6, <1>7, <1>8, <1>9 DEF Said

\* The next command is posted before anything it overtakes is over.
LEMMA AcceptKeepsStreamed ==
    ASSUME MaxObjects = 1, StreamInv, mainQueue # <<>>,
           NEW kind \in {"start", "stop"}, NEW event, Accept(kind, event),
           Head0.kind # "destroy"
    PROVE  Streamed'
<1>1. Types /\ Counted /\ Posted /\ InTurn /\ Winding /\ Said
  BY DEF StreamInv, Streamed
<1>2. mainQueue \in Seq(Message) /\ Len(mainQueue) \in Nat /\ Len(mainQueue) # 0
  BY <1>1, EmptySeq, LenProperties DEF Types, SystemTypeOK
<1>3. /\ Tail(mainQueue) \in Seq(Message) /\ Len(Tail(mainQueue)) = Len(mainQueue) - 1
      /\ \A i \in 1..Len(Tail(mainQueue)) : Tail(mainQueue)[i] = mainQueue[i + 1]
  BY <1>2, HeadTailProperties
<1>4. current # None
  BY <1>1, <1>2 DEF Posted, Head0
<1>5. /\ Head0.object = 1 /\ Head0.startId = commandSeq[1] + 1
      /\ lastStartId = commandSeq[1] + Len(mainQueue)
  <2>1. Head0 \in Message
    BY <1>1, DequeueTypes DEF Accept
  <2>2. Head0.object = 1
    BY <2>1 DEF Message, Object
  <2>3. 1 \in 1..Len(mainQueue)
    BY <1>2
  <2> QED BY <1>1, <1>4, <2>2, <2>3 DEF Posted, Head0
<1>6. commandSeq[1] \in Nat /\ commandSeq'[1] = commandSeq[1] + 1
  BY <1>1, <1>5 DEF Accept, Types, ObjectTypeOK, Object
<1>7. PICK x \in Worker :
         /\ pc[x] = "none" /\ pc'[x] = "queued"
         /\ worker'[x].kind = kind /\ worker'[x].seq = commandSeq[1] + 1
         /\ worker'[x].startId = commandSeq[1] + 1
         /\ \A v \in Worker \ {x} : pc'[v] = pc[v] /\ worker'[v] = worker[v]
  <2>1. Spawn(kind, Head0, CommandDns, 1, commandSeq[1] + 1, pendingStartToken)
    BY <1>5 DEF Accept
  <2> QED BY <1>1, <1>5, <2>1, SpawnSparesOthers
<1>8. /\ Command(x)' /\ Newest(x)' /\ ~Command(x)
      /\ \A v \in Worker \ {x} : (Command(v)' <=> Command(v)) /\ ~Newest(v)'
  <2>1. \A v \in Worker : Command(v) => worker[v].seq <= commandSeq[1] /\ worker[v].seq \in Nat
    BY <1>1 DEF Counted, Types, ThreadTypeOK, WorkerRecord
  <2>2. ~Command(x)
    BY <1>1, <1>7 DEF Counted
  <2>3. \A v \in Worker \ {x} : (Command(v)' <=> Command(v)) /\ ~Newest(v)'
    BY <1>6, <1>7, <2>1 DEF Command, Newest
  <2>4. Command(x)' /\ Newest(x)'
    BY <1>6, <1>7 DEF Command, Newest
  <2> QED BY <2>2, <2>3, <2>4
<1>9. /\ mainQueue' = Tail(mainQueue)
      /\ UNCHANGED <<current, created, lastStartId, destroyed, startRequested, tunnel>>
  BY DEF Accept, Dequeue
<1>10. Counted'
  <2>1. \A v \in Worker : worker[v].seq \in Nat
    BY <1>1 DEF Types, ThreadTypeOK, WorkerRecord
  <2>2. \A v \in Worker : Command(v)' => /\ pc'[v] # "none" /\ pc'[v] # "settle"
                                         /\ worker'[v].seq # 0 /\ worker'[v].seq <= commandSeq'[1]
                                         /\ worker'[v].startId = worker'[v].seq
    BY <1>1, <1>6, <1>7, <1>8, <2>1 DEF Counted
  <2>3. \A u, v \in Worker : Command(u)' /\ Command(v)' /\ worker'[u].seq = worker'[v].seq => u = v
    BY <1>1, <1>6, <1>7, <1>8 DEF Counted, Newest
  <2> QED BY <1>8, <2>2, <2>3 DEF Counted
<1>11. Posted'
  <2>1. lastStartId' = commandSeq'[1] + Len(mainQueue')
    BY <1>2, <1>3, <1>5, <1>6, <1>9
  <2>2. ASSUME NEW i \in 1..Len(mainQueue')
        PROVE  mainQueue'[i].kind \in {"start", "stop"} /\ mainQueue'[i].startId = commandSeq'[1] + i
    <3>1. i + 1 \in 1..Len(mainQueue) /\ mainQueue'[i] = mainQueue[i + 1] /\ i \in Nat
      BY <1>2, <1>3, <1>9
    <3>2. /\ mainQueue[i + 1].kind \in {"start", "stop"}
          /\ mainQueue[i + 1].startId = commandSeq[1] + (i + 1)
      BY <1>1, <1>4, <3>1 DEF Posted
    <3>3. commandSeq[1] + (i + 1) = commandSeq'[1] + i
      BY <1>6, <3>1
    <3> QED BY <3>1, <3>2, <3>3
  <2>3. created # None /\ ~destroyed[1]
    BY <1>1, <1>4 DEF Posted
  <2>4. \A v \in Worker : pc'[v] # "none" => Command(v)' \/ destroyed'[1]
    BY <1>1, <1>7, <1>8, <1>9 DEF Posted
  <2> QED BY <1>4, <1>9, <2>1, <2>2, <2>3, <2>4 DEF Posted
<1>12. InTurn'
  BY <1>7, <1>8 DEF InTurn
<1>13. Winding'
  <2>1. startRequested
    BY <1>1, <1>2, <1>4 DEF Winding
  <2> QED BY <1>4, <1>9, <2>1 DEF Winding
<1>14. Said'
  <2>1. \A v \in Worker : /\ pc'[v] = "hold" => tunnel'[1] # None
                          /\ pc'[v] = "after" => tunnel'[1] = None
    BY <1>1, <1>7, <1>9 DEF Said
  <2>2. \A v \in Worker : Newest(v)' => pc'[v] = "queued"
    BY <1>7, <1>8
  <2> QED BY <1>6, <2>1, <2>2 DEF Said
<1> QED BY <1>10, <1>11, <1>12, <1>13, <1>14 DEF Streamed

\* The end of the service finds no tunnel, so it says nothing.
LEMMA DestroyKeepsStreamed ==
    ASSUME MaxObjects = 1, StreamInv, OnDestroy
    PROVE  Streamed'
<1>1. Types /\ Counted /\ Posted /\ InTurn /\ Winding /\ Said
  BY DEF StreamInv, Streamed
<1>2. /\ mainQueue \in Seq(Message) /\ Len(mainQueue) \in Nat /\ Len(mainQueue) # 0
      /\ mainQueue # <<>> /\ Head0.kind = "destroy"
  BY <1>1, EmptySeq, LenProperties DEF OnDestroy, Types, SystemTypeOK
<1>3. current = None
  <2>1. 1 \in 1..Len(mainQueue)
    BY <1>2
  <2> QED BY <1>1, <1>2, <2>1 DEF Posted, Head0
<1>4. mainQueue' = <<>>
  <2>1. Len(mainQueue) = 1
    <3>1. Len(mainQueue) \in 1..Len(mainQueue)
      BY <1>2
    <3> QED BY <1>1, <1>3, <3>1 DEF Posted
  <2>2. Tail(mainQueue) \in Seq(Message) /\ Len(Tail(mainQueue)) = 0
    BY <1>2, <2>1, HeadTailProperties
  <2> QED BY <2>2, EmptySeq DEF OnDestroy, Dequeue
<1>5. Head0.object = 1
  BY <1>1, <1>2, DequeueTypes DEF OnDestroy, Message, Object
<1>6. destroyed'[1]
  BY <1>1, <1>5 DEF OnDestroy, Types, ObjectTypeOK, Object
<1>7. /\ UNCHANGED <<commandSeq, current, created, lastStartId, startRequested, tunnel, iface,
                     engineFd, isWedged>>
      /\ tunnel[1] = None /\ created # None
  BY <1>1, <1>2, <1>3 DEF OnDestroy, Dequeue, Winding, Posted
<1>8. UNCHANGED lastEvent
  <2>1. ~isRunning
    BY <1>7 DEF StreamInv, FlagsTold, InterfaceTold, Object
  <2> QED BY <1>5, <1>7, <2>1 DEF OnDestroy
<1>9. PICK x \in Worker :
         /\ pc[x] = "none" /\ pc'[x] = "queued" /\ worker'[x].kind = "destroy"
         /\ \A v \in Worker \ {x} : pc'[v] = pc[v] /\ worker'[v] = worker[v]
  <2>1. Spawn("destroy", Head0, NoDns, 1, 0, None)
    BY <1>5 DEF OnDestroy
  <2> QED BY <1>1, <2>1, SpawnSparesOthers
<1>10. /\ ~Command(x)' /\ ~Command(x)
       /\ \A v \in Worker \ {x} : (Command(v)' <=> Command(v)) /\ (Newest(v)' <=> Newest(v))
  <2>1. ~Command(x)
    BY <1>1, <1>9 DEF Counted
  <2> QED BY <1>7, <1>9, <2>1 DEF Command, Newest
<1>11. ~Newest(x)' /\ ~Newest(x)
  BY <1>10 DEF Newest
<1>12. Counted'
  <2>1. \A v \in Worker : Command(v)' => /\ pc'[v] # "none" /\ pc'[v] # "settle"
                                         /\ worker'[v].seq # 0 /\ worker'[v].seq <= commandSeq'[1]
                                         /\ worker'[v].startId = worker'[v].seq
    BY <1>1, <1>7, <1>9, <1>10 DEF Counted
  <2>2. \A u, v \in Worker : Command(u)' /\ Command(v)' /\ worker'[u].seq = worker'[v].seq => u = v
    BY <1>1, <1>9, <1>10 DEF Counted
  <2>3. commandSeq'[1] # 0 => \E v \in Worker : Newest(v)'
    BY <1>1, <1>7, <1>10, <1>11 DEF Counted
  <2> QED BY <2>1, <2>2, <2>3 DEF Counted
<1>13. Posted'
  <2>1. Len(mainQueue') = 0
    BY <1>4, EmptySeq
  <2>2. lastStartId' = commandSeq'[1]
    BY <1>1, <1>3, <1>7 DEF Posted
  <2> QED BY <1>3, <1>4, <1>6, <1>7, <2>1, <2>2 DEF Posted
<1>14. InTurn'
  BY <1>1, <1>9, <1>10, <1>11 DEF InTurn
<1>15. Winding'
  BY <1>1, <1>3, <1>7, <1>9, <1>10, <1>11 DEF Winding, Ended
<1>16. Said'
  <2>1. Told' <=> Told
    BY <1>7, <1>8 DEF Told
  <2>2. \A v \in Worker : Newest(v)' => Newest(v) /\ worker'[v] = worker[v] /\ pc'[v] = pc[v]
    BY <1>9, <1>10, <1>11
  <2>3. \A v \in Worker : /\ pc'[v] = "hold" => tunnel'[1] # None
                          /\ pc'[v] = "after" => tunnel'[1] = None
    BY <1>1, <1>7, <1>9 DEF Said
  <2> QED BY <1>1, <1>7, <1>8, <2>1, <2>2, <2>3 DEF Said
<1> QED BY <1>12, <1>13, <1>14, <1>15, <1>16 DEF Streamed

\* What no step of the caller or the system touches.
Unheard == UNCHANGED <<commandSeq, destroyed, tunnel, iface, worker, pc, lastEvent>>

LEMMA UnheardKeeps ==
    ASSUME Unheard, Streamed
    PROVE  /\ Counted' /\ InTurn' /\ (Ended' <=> Ended)
           /\ UNCHANGED <<engineFd, isWedged>> => Said'
<1>1. \A v \in Worker : (Command(v)' <=> Command(v)) /\ (Newest(v)' <=> Newest(v))
  BY DEF Unheard, Command, Newest
<1>2. Counted' /\ InTurn' /\ (Ended' <=> Ended)
  BY <1>1 DEF Unheard, Streamed, Counted, InTurn, Ended
<1>3. UNCHANGED <<engineFd, isWedged>> => Said'
  BY <1>1 DEF Unheard, Streamed, Said, Told
<1> QED BY <1>2, <1>3

LEMMA SendKeepsStreamed ==
    ASSUME MaxObjects = 1, StreamInv, NEW kind \in {"start", "stop"}, NEW dns, NEW call,
           StartService(kind, dns, call), Unheard, UNCHANGED <<engineFd, isWedged>>
    PROVE  Streamed'
<1>1. Types /\ Posted
  BY DEF StreamInv, Streamed
<1>2. PICK m : /\ m = [kind |-> kind,
                       object |-> IF current = None THEN created + 1 ELSE current,
                       startId |-> lastStartId + 1, dns |-> dns, call |-> call]
               /\ mainQueue' = Append(mainQueue, m)
  BY DEF StartService
<1>3. m.kind = kind /\ m.startId = lastStartId + 1
  BY <1>2
<1>4. /\ current' = 1 /\ startRequested' = TRUE /\ lastStartId' = lastStartId + 1
      /\ current = None => created = 0 /\ created' = 1
      /\ current # None => created' = created
  BY <1>1, BoundTypes DEF StartService, Object, Types, SystemTypeOK, None
<1>5. lastStartId = commandSeq[1] + Len(mainQueue)
  <2>1. CASE current = None
    <3>1. mainQueue = <<>> /\ lastStartId = commandSeq[1]
      BY <1>1, <1>4, <2>1 DEF Posted, None
    <3> QED BY <1>1, <3>1, EmptySeq DEF Types, ObjectTypeOK, Object
  <2> QED BY <1>1, <2>1 DEF Posted
<1>6. /\ Len(mainQueue') = Len(mainQueue) + 1 /\ Len(mainQueue) \in Nat /\ lastStartId \in Nat
      /\ mainQueue'[Len(mainQueue) + 1] = m
      /\ \A i \in 1..Len(mainQueue) : mainQueue'[i] = mainQueue[i]
  <2>1. mainQueue \in Seq(Message \cup {m}) /\ lastStartId \in Nat
    BY <1>1 DEF Types, SystemTypeOK
  <2> QED BY <1>2, <2>1, AppendProperties, LenProperties
<1>7. commandSeq[1] \in Nat
  BY <1>1 DEF Types, ObjectTypeOK, Object
<1>8. \A i \in 1..Len(mainQueue) : /\ mainQueue[i].kind \in {"start", "stop"}
                                   /\ mainQueue[i].startId = commandSeq[1] + i
  <2>1. CASE current = None
    <3>1. mainQueue = <<>>
      BY <1>1, <1>4, <2>1 DEF Posted, None
    <3> QED BY <3>1, EmptySeq
  <2> QED BY <1>1, <2>1 DEF Posted
<1>9. Posted'
  <2>1. lastStartId' = commandSeq'[1] + Len(mainQueue')
    BY <1>4, <1>5, <1>6, <1>7 DEF Unheard
  <2>2. ASSUME NEW i \in 1..Len(mainQueue')
        PROVE  mainQueue'[i].kind \in {"start", "stop"} /\ mainQueue'[i].startId = commandSeq'[1] + i
    <3>1. CASE i = Len(mainQueue) + 1
      <4>1. mainQueue'[i] = m /\ commandSeq'[1] = commandSeq[1]
        BY <1>6, <3>1 DEF Unheard
      <4>2. lastStartId + 1 = commandSeq[1] + i
        BY <1>5, <1>6, <1>7, <3>1
      <4> QED BY <1>3, <4>1, <4>2
    <3>2. CASE i # Len(mainQueue) + 1
      <4>1. i \in 1..Len(mainQueue)
        BY <1>6, <3>2
      <4> QED BY <1>6, <1>8, <4>1 DEF Unheard
    <3> QED BY <3>1, <3>2
  <2>3. current' # None /\ created' # None
    BY <1>1, <1>4 DEF Posted, None
  <2>4. ~destroyed[1]
    BY <1>1, <1>4 DEF Posted, None
  <2>5. \A v \in Worker : pc'[v] # "none" => Command(v)' \/ destroyed'[1]
    BY <1>1 DEF Unheard, Posted, Command
  <2> QED BY <2>1, <2>2, <2>3, <2>4, <2>5 DEF Unheard, Posted
<1>10. Winding'
  BY <1>4 DEF Winding, None
<1> QED BY <1>9, <1>10, UnheardKeeps DEF StreamInv, Streamed

LEMMA BringDownKeepsStreamed ==
    ASSUME MaxObjects = 1, StreamInv, BringDown
    PROVE  Streamed'
<1>1. Types /\ Posted /\ Winding /\ Ownership
  BY DEF StreamInv, Streamed
<1>2. Ended /\ mainQueue = <<>> /\ current # None /\ ~startRequested /\ iface = None
  BY <1>1 DEF BringDown, Interface, Winding
<1>3. Unheard /\ UNCHANGED <<engineFd, isWedged>>
  BY DEF BringDown, Unheard
<1>4. tunnel[1] = None
  <2>1. ~Revoked(1)
    BY <1>1, <1>2, BoundTypes DEF Posted, StreamInv, Unrevoked, Revoked, Object
  <2>2. \A v \in Worker : pc[v] # "install"
    <3> SUFFICES ASSUME NEW v \in Worker, pc[v] = "install" PROVE FALSE
      OBVIOUS
    <3>1. Obj(v) = 1
      BY <1>1 DEF Types, Threads, Object
    <3> QED BY <1>2, <2>1, <3>1, BoundTypes DEF StreamInv, FlagsTold, InterfaceTold
  <2> QED BY <1>2, <2>1, <2>2 DEF StreamInv, FlagsTold, InterfaceTold, Object
<1>5. PICK m : /\ m = [kind |-> "destroy", object |-> current, startId |-> 0, dns |-> NoDns,
                       call |-> None]
               /\ mainQueue' = Append(mainQueue, m)
  BY DEF BringDown, PostDestroy
<1>6. Len(mainQueue') = 1 /\ mainQueue'[1] = m
  <2>1. mainQueue \in Seq({m}) /\ Len(mainQueue) = 0
    BY <1>2, EmptySeq
  <2> QED BY <1>5, <2>1, AppendProperties
<1>7. current' = None /\ UNCHANGED <<created, lastStartId, startRequested>>
  BY DEF BringDown, PostDestroy
<1>8. Posted'
  <2>1. lastStartId = commandSeq[1]
    <3>1. lastStartId = commandSeq[1] + Len(mainQueue) /\ Len(mainQueue) = 0
      BY <1>1, <1>2, EmptySeq DEF Posted
    <3>2. commandSeq[1] \in Nat
      BY <1>1 DEF Types, ObjectTypeOK, Object
    <3> QED BY <3>1, <3>2
  <2>2. \A i \in 1..Len(mainQueue') : i = 1 /\ mainQueue'[i].kind = "destroy"
    BY <1>5, <1>6
  <2>3. created' # None
    BY <1>1, <1>2, <1>7 DEF Posted
  <2>4. \A v \in Worker : pc'[v] # "none" => Command(v)' \/ destroyed'[1]
    BY <1>1, <1>3 DEF Unheard, Posted, Command
  <2> QED BY <1>3, <1>7, <2>1, <2>2, <2>3, <2>4 DEF Unheard, Posted
<1>9. Winding'
  BY <1>2, <1>3, <1>4, <1>7, UnheardKeeps DEF Unheard, Winding, StreamInv
<1> QED BY <1>3, <1>8, <1>9, UnheardKeeps DEF StreamInv, Streamed

LEMMA NextStreamed ==
    ASSUME MaxObjects = 1, MaxTaps = 0, MaxRevokes = 0, MaxKills = 0, StreamInv, [Next]_vars
    PROVE  Streamed'
<1>1. Types /\ Posted /\ Winding /\ Said
  BY DEF StreamInv, Streamed
<1>2. CASE \E w \in Worker : WorkerStep(w)
  BY <1>2, StepKeepsTurn, StepKeepsWinding, StepKeepsSaid DEF Streamed
<1>3. mainQueue # <<>> => Head0.kind \in {"start", "stop", "destroy"}
  <2> SUFFICES ASSUME mainQueue # <<>> PROVE Head0.kind \in {"start", "stop", "destroy"}
    OBVIOUS
  <2>1. Len(mainQueue) \in Nat /\ Len(mainQueue) # 0
    BY <1>1, EmptySeq, LenProperties DEF Types, SystemTypeOK
  <2>2. 1 \in 1..Len(mainQueue)
    BY <2>1
  <2> QED BY <1>1, <2>2 DEF Posted, Head0
<1>4. CASE OnStop \/ OnStart
  <2>1. PICK kind \in {"start", "stop"}, event \in Event :
           Accept(kind, event) /\ mainQueue # <<>> /\ Head0.kind # "destroy"
    BY <1>4 DEF OnStop, OnStart, Event
  <2> QED BY <2>1, AcceptKeepsStreamed
<1>5. CASE OnDestroy
  BY <1>5, DestroyKeepsStreamed
<1>6. CASE OnStartNoConfig
  BY <1>3, <1>6 DEF OnStartNoConfig
<1>7. CASE JsSendStart \/ JsSendStop
  <2>1. Unheard /\ UNCHANGED <<engineFd, isWedged>>
    BY <1>7 DEF JsSendStart, JsSendStop, Unheard
  <2>2. PICK kind, dns, call : kind \in {"start", "stop"} /\ StartService(kind, dns, call)
    BY <1>7 DEF JsSendStart, JsSendStop
  <2> QED BY <2>1, <2>2, SendKeepsStreamed
<1>8. CASE BringDown
  BY <1>8, BringDownKeepsStreamed
<1>9. CASE SystemDestroy \/ SystemRevoke \/ Tap
  BY <1>1, <1>9 DEF SystemDestroy, SystemRevoke, Tap, Types, SystemTypeOK
<1>10. CASE OnRevoke
  BY <1>10 DEF OnRevoke, StreamInv, Unrevoked
<1>11. CASE LateEngineStop
  <2>1. Unheard /\ isWedged /\ isWedged' = isWedged /\ engineFd' = None
    BY <1>11 DEF LateEngineStop, Engine!LateStop, Unheard
  <2>2. UNCHANGED <<mainQueue, current, created, lastStartId, startRequested>>
    BY <1>11 DEF LateEngineStop
  <2>3. Told => Told'
    BY <2>1 DEF Told, Unheard
  <2>4. Counted' /\ InTurn' /\ (Ended' <=> Ended)
    BY <2>1, UnheardKeeps DEF StreamInv
  <2>5. \A v \in Worker : Newest(v)' <=> Newest(v)
    BY <2>1 DEF Unheard, Newest, Command
  <2>6. Posted' /\ Winding'
    BY <1>1, <2>1, <2>2, <2>4 DEF Unheard, Posted, Winding, Command
  <2>7. Said'
    BY <1>1, <2>1, <2>3, <2>5 DEF Unheard, Said
  <2> QED BY <2>4, <2>6, <2>7 DEF Streamed
<1>12. CASE /\ Unheard
            /\ UNCHANGED <<engineFd, isWedged, mainQueue, current, created, lastStartId, startRequested>>
  <2>1. Posted' /\ Winding'
    BY <1>1, <1>12, UnheardKeeps DEF Unheard, Posted, Winding, Command, StreamInv
  <2> QED BY <1>12, <2>1, UnheardKeeps DEF StreamInv, Streamed
<1> QED
  BY <1>2, <1>4, <1>5, <1>6, <1>7, <1>8, <1>9, <1>10, <1>11, <1>12
     DEF Unheard, Next, Caller, JsStart, JsStartRefused, JsStop, JsStopGivesUp,
         SetKillSwitch, ClearStoredConfig, System, GoLetsGo, MainThread

LEMMA InitStreamed == MaxObjects = 1 /\ Init => Streamed
<1> SUFFICES ASSUME MaxObjects = 1, Init PROVE Streamed
  OBVIOUS
<1>1. /\ commandSeq[1] = 0 /\ tunnel[1] = None /\ ~destroyed[1]
      /\ \A w \in Worker : ~Command(w) /\ ~Newest(w) /\ pc[w] = "none"
  BY DEF Init, Object, IdleWorker, Command, Newest
<1>2. /\ lastEvent = "none" /\ iface = None /\ current = None /\ created = None
      /\ mainQueue = <<>> /\ lastStartId = 0
  BY DEF Init, None
<1>3. Posted
  BY <1>1, <1>2, EmptySeq DEF Posted
<1> QED BY <1>1, <1>2, <1>3 DEF Streamed, Counted, InTurn, Winding, Ended, Said

\* While only its JS caller commands the one service object of the process, and neither another VPN
\* nor the system interferes, the last state the stream delivered is the one the device is left in,
\* in whatever order the commands, the late engine stops and the end of the service fell
\* (XrayStateBus.emit of runStart, handleStartFailure, handleStop, XrayVpnService.kt).
THEOREM ServiceStreamTruthful ==
    ASSUME MaxObjects = 1, MaxTaps = 0, MaxRevokes = 0, MaxKills = 0
    PROVE  Spec => []StreamTruthful
<1>1. Init => FlagsTold /\ Unrevoked /\ Streamed
  BY InitStreamed DEF Init, Engine!EngineInit, FlagsTold, EngineTold, EngineAt, InterfaceTold,
         Unrevoked, IdleWorker
<1>2. ASSUME StreamInv, AtRest
      PROVE  /\ lastEvent = "connected" => engineFd # None /\ engineFd = iface
             /\ lastEvent = "blocked" => iface # None /\ (engineFd = None \/ isWedged)
             /\ lastEvent \in {"none", "error", "disconnected"} => iface = None
             /\ lastEvent \notin {"connecting", "disconnecting"}
  <2>1. CASE commandSeq[1] = 0
    BY <1>2, <2>1 DEF StreamInv, Streamed, Said
  <2>2. CASE commandSeq[1] # 0
    <3>1. PICK w \in Worker : Newest(w)
      BY <1>2, <2>2 DEF StreamInv, Streamed, Counted
    <3>2. pc[w] = "done"
      BY <1>2, <3>1 DEF StreamInv, Streamed, Counted, Newest, AtRest
    <3>3. Told
      BY <1>2, <3>1, <3>2 DEF StreamInv, Streamed, Said
    <3> QED BY <3>3 DEF Told
  <2> QED BY <2>1, <2>2
<1>3. StreamInv => StreamTruthful
  BY <1>2 DEF StreamTruthful
<1>4. Types /\ Ownership /\ FlagsTold /\ Unrevoked /\ ReportsOwnStart /\ Streamed <=> StreamInv
  BY DEF StreamInv
<1> QED BY <1>1, <1>3, <1>4, NextFlagsTold, NextUnrevoked, NextStreamed, AlwaysOwnership,
           AlwaysBusUse, PTL DEF Spec, BusUse
-----------------------------------------------------------------------------
(* What disconnect() is told.  JS awaits each of its stops, so that one is     *)
(* under way at a time, as long as none is called after one was given up:      *)
(* then whoever finds itself overtaken was so by a start.                      *)

StopAt(w) == worker[w].kind = "stop" /\ pc[w] # "done"
Sent(kind) == {i \in 1..Len(mainQueue) : mainQueue[i].kind = kind}
Underway  == (\E w \in Worker : StopAt(w)) \/ Sent("stop") # {}

\* Workers are numbered as their commands are.
Numbered ==
    \A v, w \in Worker : Command(v) /\ Command(w) /\ worker[v].seq < worker[w].seq => v < w

OneStop ==
    /\ \A v, w \in Worker :
          worker[v].kind = "stop" /\ StopAt(w) /\ v # w => worker[v].seq < worker[w].seq
    /\ \A i, j \in Sent("stop") : i = j
    /\ \A w \in Worker : StopAt(w) => Sent("stop") = {}

\* Somebody waits for the stop under way, or gave it up before anything else was asked for.
Awaited ==
    /\ Underway => js # "stopArmed" /\ (stopGaveUp \/ pendingStop # None)
    /\ js = "stopArmed" => pendingStop # None \/ destroyed[1]
    /\ js = "startArmed" /\ Underway => stopGaveUp
    /\ \A w \in Worker : StopAt(w) /\ ~Newest(w) => stopGaveUp
    /\ \A j \in Sent("start") :
          (\E i \in Sent("stop") : i < j) \/ (\E w \in Worker : StopAt(w)) => stopGaveUp

StopInv == Numbered /\ OneStop /\ Awaited

\* JS calls no disconnect() after one that it gave up.
Patient == stopCalls' # stopCalls => ~stopGaveUp

\* While a stop is under way no other command is, nor has one been answered twice: whoever
\* settles the promise of JS settles it for the stop that is under way, or for the whole service.
LEMMA StepKeepsStops ==
    ASSUME MaxObjects = 1, StreamInv, StopInv, NEW w \in Worker, WorkerStep(w)
    PROVE  StopInv'
<1>1. Types /\ Unrevoked /\ Counted /\ Posted /\ Winding
  BY DEF StreamInv, Streamed
<1>2. /\ pc[w] # "done" /\ UNCHANGED <<mainQueue, destroyed, js, stopGaveUp>>
      /\ \A v \in Worker : /\ v # w => pc'[v] = pc[v]
                           /\ worker'[v].kind = worker[v].kind /\ worker'[v].seq = worker[v].seq
                           /\ Command(v)' <=> Command(v)
                           /\ Newest(v)' <=> Newest(v)
  BY <1>1, Frame, NumbersKept, StepShape
<1>3. \A v \in Worker : StopAt(v)' => StopAt(v)
  BY <1>2 DEF StopAt
<1>4. \A kind : Sent(kind)' = Sent(kind)
  BY <1>2 DEF Sent
<1>5. Underway' => Underway
  BY <1>3, <1>4 DEF Underway
<1>6. Numbered'
  BY <1>2 DEF StopInv, Numbered
<1>7. OneStop'
  BY <1>2, <1>3, <1>4 DEF StopInv, OneStop
<1>8. ASSUME pendingStop' = pendingStop \/ (Underway' => stopGaveUp),
             js = "stopArmed" => pendingStop' = pendingStop \/ destroyed[1]
      PROVE  Awaited'
  BY <1>2, <1>3, <1>4, <1>5, <1>8 DEF StopInv, Awaited
<1>9. CASE StopSuperseded(w) \/ AfterStop(w)
  <2>0. \A label : Goto(w, label) => pc'[w] = label
    BY <1>1 DEF Types, ThreadTypeOK, Goto
  <2>1. StopAt(w) /\ pc'[w] = "done"
    BY <1>1, <1>2, <1>9, <2>0 DEF StopSuperseded, AfterStop, StopAt, Unrevoked
  <2>2. \A v \in Worker : ~StopAt(v)'
    <3> SUFFICES ASSUME NEW v \in Worker, StopAt(v)' PROVE FALSE
      OBVIOUS
    <3>1. StopAt(v) /\ v # w
      BY <1>3, <2>1 DEF StopAt
    <3>2. worker[v].seq \in Nat /\ worker[w].seq \in Nat
      BY <1>1 DEF Types, ThreadTypeOK, WorkerRecord
    <3> QED BY <2>1, <3>1, <3>2 DEF StopInv, OneStop, StopAt
  <2>3. Sent("stop")' = {}
    BY <1>4, <2>1 DEF StopInv, OneStop
  <2>4. ~Underway' /\ js # "stopArmed"
    BY <2>1, <2>2, <2>3 DEF Underway, StopInv, Awaited
  <2> QED BY <1>6, <1>7, <1>8, <2>4 DEF StopInv
<1>10. CASE SettleStop(w)
  <2>1. destroyed[1] /\ current = None
    BY <1>1, <1>10, BoundTypes DEF SettleStop, At, Posted, Counted
  <2>2. Sent("stop") = {}
    BY <1>1, <2>1 DEF Posted, Sent
  <2>3. \A v \in Worker : StopAt(v) => stopGaveUp
    BY <1>1, <2>1 DEF Winding, Ended, StopAt, StopInv, Awaited
  <2>4. Underway => stopGaveUp
    BY <2>2, <2>3 DEF Underway
  <2> QED BY <1>5, <1>6, <1>7, <1>8, <2>1, <2>4 DEF StopInv
<1>11. CASE ~StopSuperseded(w) /\ ~AfterStop(w) /\ ~SettleStop(w)
  <2>1. pendingStop' = pendingStop
    BY <1>11
       DEF WorkerStep, StartSuperseded, StartBegins, StopBegins, TeardownBegins,
           Halt, ReuseTun, Establish, EstablishFails, InstallTun, CheckDestroyed, StartBypass,
           StartEngine, Verify, Publish, DecideFailure, HoldTunnel, ReportError, StopEngineBounded,
           DropTunnel, AfterStart, AfterDestroy, Bus!ResolveStart, Bus!busVars, Bus!stopVars
  <2> QED BY <1>6, <1>7, <1>8, <2>1 DEF StopInv
<1> QED BY <1>9, <1>10, <1>11

\* The command accepted is the head of the queue, so what was sent after it still is.
LEMMA AcceptKeepsStops ==
    ASSUME MaxObjects = 1, StreamInv, StopInv, mainQueue # <<>>,
           NEW kind \in {"start", "stop"}, NEW event, Accept(kind, event), Head0.kind = kind
    PROVE  StopInv'
<1>1. Types /\ Counted /\ Posted
  BY DEF StreamInv, Streamed
<1>2. /\ mainQueue \in Seq(Message) /\ Len(mainQueue) \in Nat /\ Len(mainQueue) # 0
      /\ Head0 = mainQueue[1]
  BY <1>1, EmptySeq, LenProperties DEF Types, SystemTypeOK, Head0
<1>3. /\ mainQueue' = Tail(mainQueue) /\ Len(mainQueue') = Len(mainQueue) - 1
      /\ \A i \in 1..Len(mainQueue') : mainQueue'[i] = mainQueue[i + 1]
  BY <1>2, HeadTailProperties DEF Accept, Dequeue
<1>4. /\ \A k : \A i \in Sent(k)' : i + 1 \in Sent(k) /\ i \in Nat
      /\ 1 \in Sent(kind)
  BY <1>2, <1>3 DEF Sent
<1>5. Head0 \in Message /\ Head0.object = 1
  BY <1>1, DequeueTypes DEF Accept, Message, Object
<1>6. commandSeq[1] \in Nat /\ commandSeq'[1] = commandSeq[1] + 1
  BY <1>1, <1>5 DEF Accept, Types, ObjectTypeOK, Object
<1>7. PICK x \in Worker : x = spawned + 1
  BY DEF Accept, Spawn
<1>8. /\ pc'[x] = "queued" /\ worker'[x].kind = kind /\ worker'[x].seq = commandSeq[1] + 1
      /\ \A v \in Worker \ {x} : pc'[v] = pc[v] /\ worker'[v] = worker[v]
  BY <1>1, <1>5, <1>7 DEF Accept, Spawn, Types, ThreadTypeOK
<1>9. \A v \in Worker : Command(v) => /\ v < x /\ worker[v].seq \in Nat
                                      /\ worker[v].seq < commandSeq[1] + 1
  <2> SUFFICES ASSUME NEW v \in Worker, Command(v)
               PROVE  v < x /\ worker[v].seq \in Nat /\ worker[v].seq < commandSeq[1] + 1
    OBVIOUS
  <2>1. v <= spawned /\ worker[v].seq <= commandSeq[1]
    BY <1>1 DEF Counted, Types, Threads
  <2>2. v \in Nat /\ spawned \in Nat /\ worker[v].seq \in Nat
    BY <1>1, BoundTypes DEF Types, ThreadTypeOK, WorkerRecord, None
  <2> QED BY <1>6, <1>7, <2>1, <2>2
<1>10. /\ Command(x)' /\ ~Command(x) /\ Newest(x)'
       /\ \A v \in Worker \ {x} : (Command(v)' <=> Command(v)) /\ (StopAt(v)' <=> StopAt(v))
  <2>1. x \in Nat
    BY BoundTypes
  <2> QED BY <1>6, <1>8, <1>9, <2>1 DEF Command, Newest, StopAt
<1>11. StopAt(x)' <=> kind = "stop"
  BY <1>8 DEF StopAt
<1>12. UNCHANGED <<js, stopGaveUp, pendingStop, destroyed>>
  BY DEF Accept
<1>13. kind = "stop" => Sent("stop")' = {} /\ \A v \in Worker : ~StopAt(v)
  <2> SUFFICES ASSUME kind = "stop" PROVE Sent("stop")' = {} /\ \A v \in Worker : ~StopAt(v)
    OBVIOUS
  <2>1. 1 \in Sent("stop")
    BY <1>4
  <2>2. \A v \in Worker : ~StopAt(v)
    BY <2>1 DEF StopInv, OneStop
  <2>3. \A i \in Sent("stop")' : FALSE
    <3> SUFFICES ASSUME NEW i \in Sent("stop")' PROVE FALSE
      OBVIOUS
    <3>1. i + 1 \in Sent("stop") /\ i \in Nat /\ i # 0
      BY <1>2, <1>3, <1>4 DEF Sent
    <3>2. i + 1 = 1
      BY <2>1, <3>1 DEF StopInv, OneStop
    <3> QED BY <3>1, <3>2
  <2> QED BY <2>2, <2>3
<1>14. Numbered'
  <2> SUFFICES ASSUME NEW u \in Worker, NEW v \in Worker, Command(u)', Command(v)',
                      worker'[u].seq < worker'[v].seq
               PROVE  u < v
    BY DEF Numbered
  <2>1. CASE u # x /\ v # x
    BY <1>8, <1>10, <2>1 DEF StopInv, Numbered
  <2>2. CASE u # x /\ v = x
    BY <1>9, <1>10, <2>2
  <2>3. CASE u = x /\ v # x
    BY <1>6, <1>8, <1>9, <1>10, <2>3
  <2>4. CASE u = x /\ v = x
    BY <1>6, <1>8, <2>4
  <2> QED BY <2>1, <2>2, <2>3, <2>4
<1>15. Sent("stop")' # {} => Sent("stop") # {}
  BY <1>4
<1>16. OneStop'
  <2>1. ASSUME NEW u \in Worker, NEW v \in Worker, worker'[u].kind = "stop", StopAt(v)', u # v
        PROVE  worker'[u].seq < worker'[v].seq
    <3>1. CASE u # x /\ v # x
      BY <1>8, <1>10, <2>1, <3>1 DEF StopInv, OneStop
    <3>2. CASE v = x
      BY <1>8, <1>9, <2>1, <3>2 DEF Command
    <3>3. CASE u = x
      BY <1>8, <1>10, <1>13, <2>1, <3>3
    <3> QED BY <3>1, <3>2, <3>3
  <2>2. ASSUME NEW i \in Sent("stop")', NEW j \in Sent("stop")' PROVE i = j
    <3>1. i + 1 = j + 1 /\ i \in Nat /\ j \in Nat
      BY <1>4, <2>2 DEF StopInv, OneStop
    <3> QED BY <3>1
  <2>3. \A v \in Worker : StopAt(v)' => Sent("stop")' = {}
    BY <1>10, <1>11, <1>13, <1>15 DEF StopInv, OneStop
  <2> QED BY <2>1, <2>2, <2>3 DEF OneStop
<1>17. Underway' => Underway
  <2>1. kind = "stop" => Sent("stop") # {}
    BY <1>4
  <2> QED BY <1>10, <1>11, <1>15, <2>1 DEF Underway
<1>18. \A v \in Worker : StopAt(v)' /\ ~Newest(v)' => stopGaveUp
  <2> SUFFICES ASSUME NEW v \in Worker, StopAt(v)', ~Newest(v)' PROVE stopGaveUp
    OBVIOUS
  <2>1. v # x /\ StopAt(v) /\ kind = "start"
    BY <1>10, <1>13
  <2>2. 1 \in Sent("start")
    BY <1>4, <2>1
  <2> QED BY <2>1, <2>2 DEF StopInv, Awaited
<1>19. \A j \in Sent("start")' :
          (\E i \in Sent("stop")' : i < j) \/ (\E v \in Worker : StopAt(v)') => stopGaveUp
  <2> SUFFICES ASSUME NEW j \in Sent("start")',
                      (\E i \in Sent("stop")' : i < j) \/ (\E v \in Worker : StopAt(v)')
               PROVE  stopGaveUp
    OBVIOUS
  <2>1. j + 1 \in Sent("start") /\ j \in Nat
    BY <1>4
  <2>2. CASE \E i \in Sent("stop")' : i < j
    <3>1. PICK i \in Sent("stop")' : i < j
      BY <2>2
    <3>2. i + 1 \in Sent("stop") /\ i + 1 < j + 1
      BY <1>4, <2>1, <3>1
    <3> QED BY <2>1, <3>2 DEF StopInv, Awaited
  <2>3. CASE \E v \in Worker \ {x} : StopAt(v)'
    BY <1>10, <2>1, <2>3 DEF StopInv, Awaited
  <2>4. CASE StopAt(x)'
    <3>1. 1 \in Sent("stop") /\ j # 0
      BY <1>2, <1>3, <1>4, <1>11, <2>4 DEF Sent
    <3>2. 1 < j + 1
      BY <2>1, <3>1
    <3> QED BY <2>1, <3>1, <3>2 DEF StopInv, Awaited
  <2> QED BY <2>2, <2>3, <2>4
<1>20. Awaited'
  BY <1>12, <1>17, <1>18, <1>19 DEF StopInv, Awaited
<1> QED BY <1>14, <1>16, <1>20 DEF StopInv

LEMMA DestroyKeepsStops ==
    ASSUME MaxObjects = 1, StreamInv, StopInv, OnDestroy
    PROVE  StopInv'
<1>1. Types /\ Counted /\ Posted
  BY DEF StreamInv, Streamed
<1>2. /\ mainQueue \in Seq(Message) /\ Len(mainQueue) \in Nat /\ Len(mainQueue) # 0
      /\ mainQueue # <<>> /\ Head0.kind = "destroy" /\ Head0 = mainQueue[1]
  BY <1>1, EmptySeq, LenProperties DEF OnDestroy, Types, SystemTypeOK, Head0
<1>3. /\ Len(mainQueue') = Len(mainQueue) - 1
      /\ \A i \in 1..Len(mainQueue') : mainQueue'[i] = mainQueue[i + 1]
  BY <1>2, HeadTailProperties DEF OnDestroy, Dequeue
<1>4. \A k : \A i \in Sent(k)' : i + 1 \in Sent(k)
  BY <1>2, <1>3 DEF Sent
<1>5. \A i \in 1..Len(mainQueue) : mainQueue[i].kind \notin {"start", "stop"}
  <2>1. current = None
    BY <1>1, <1>2 DEF Posted
  <2> QED BY <1>1, <2>1 DEF Posted
<1>6. /\ Sent("stop") = {} /\ Sent("start") = {}
      /\ Sent("stop")' = {} /\ Sent("start")' = {}
  BY <1>4, <1>5 DEF Sent
<1>7. /\ UNCHANGED <<commandSeq, js, stopGaveUp, pendingStop>>
      /\ destroyed[1] => destroyed'[1]
  <2>1. UNCHANGED <<commandSeq, js, stopGaveUp, pendingStop>>
    BY DEF OnDestroy
  <2>2. destroyed[1] => destroyed'[1]
    BY <1>1 DEF OnDestroy, Types, ObjectTypeOK
  <2> QED BY <2>1, <2>2
<1>8. PICK x \in Worker :
         /\ pc[x] = "none" /\ worker'[x].kind = "destroy"
         /\ \A v \in Worker \ {x} : pc'[v] = pc[v] /\ worker'[v] = worker[v]
  <2>1. Spawn("destroy", Head0, NoDns, Head0.object, 0, None)
    BY DEF OnDestroy
  <2> QED BY <1>1, <2>1, SpawnSparesOthers
<1>9. /\ ~Command(x)' /\ ~Command(x) /\ ~StopAt(x)'
      /\ \A v \in Worker \ {x} : /\ Command(v)' <=> Command(v)
                                 /\ Newest(v)' <=> Newest(v)
                                 /\ StopAt(v)' <=> StopAt(v)
  BY <1>1, <1>7, <1>8 DEF Counted, Command, Newest, StopAt
<1>10. Numbered'
  BY <1>8, <1>9 DEF StopInv, Numbered
<1>11. OneStop'
  BY <1>6, <1>8, <1>9 DEF StopInv, OneStop, Command
<1>12. Awaited'
  <2>1. Underway' => Underway
    BY <1>6, <1>9 DEF Underway
  <2>2. \A v \in Worker : StopAt(v)' /\ ~Newest(v)' => stopGaveUp
    BY <1>9 DEF StopInv, Awaited
  <2> QED BY <1>6, <1>7, <2>1, <2>2 DEF StopInv, Awaited
<1> QED BY <1>10, <1>11, <1>12 DEF StopInv

LEMMA SendKeepsStops ==
    ASSUME MaxObjects = 1, StreamInv, StopInv, NEW kind \in {"start", "stop"}, NEW dns, NEW call,
           StartService(kind, dns, call), js' = "idle",
           js = IF kind = "start" THEN "startArmed" ELSE "stopArmed",
           UNCHANGED <<worker, pc, commandSeq, destroyed, pendingStop, stopGaveUp>>
    PROVE  StopInv'
<1>1. Types /\ Posted
  BY DEF StreamInv, Streamed
<1>2. ~destroyed[1]
  BY <1>1, BoundTypes DEF StartService, Posted, Object, Types, SystemTypeOK, None
<1>3. PICK m : m.kind = kind /\ mainQueue' = Append(mainQueue, m)
  <2>1. PICK o : mainQueue' = Append(mainQueue, [kind |-> kind, object |-> o,
                                  startId |-> lastStartId + 1, dns |-> dns, call |-> call])
    BY DEF StartService
  <2> QED BY <2>1
<1>4. /\ Len(mainQueue') = Len(mainQueue) + 1 /\ Len(mainQueue) \in Nat
      /\ mainQueue'[Len(mainQueue) + 1] = m
      /\ \A i \in 1..Len(mainQueue) : mainQueue'[i] = mainQueue[i]
  <2>1. mainQueue \in Seq(Message \cup {m})
    BY <1>1 DEF Types, SystemTypeOK
  <2> QED BY <1>3, <2>1, AppendProperties, LenProperties
<1>5. \A k : Sent(k)' = IF k = kind THEN Sent(k) \cup {Len(mainQueue) + 1} ELSE Sent(k)
  BY <1>3, <1>4 DEF Sent
<1>6. \A v \in Worker : /\ Command(v)' <=> Command(v)
                        /\ Newest(v)' <=> Newest(v)
                        /\ StopAt(v)' <=> StopAt(v)
  BY DEF Command, Newest, StopAt
<1>7. \A k : \A i \in Sent(k) : i < Len(mainQueue) + 1 /\ i \in Nat
  BY <1>4 DEF Sent
<1>8. Numbered'
  BY <1>6 DEF StopInv, Numbered
<1>9. CASE kind = "stop"
  <2>1. /\ ~Underway /\ pendingStop # None
        /\ Sent("stop")' = {Len(mainQueue) + 1} /\ Sent("start")' = Sent("start")
        /\ \A v \in Worker : ~StopAt(v)'
    BY <1>2, <1>5, <1>6, <1>9 DEF StopInv, Awaited, Underway
  <2>2. OneStop'
    BY <2>1 DEF OneStop
  <2>3. \A j \in Sent("start")' : ~\E i \in Sent("stop")' : i < j
    BY <1>4, <1>7, <2>1
  <2> QED BY <1>8, <2>1, <2>2, <2>3 DEF StopInv, Awaited
<1>10. CASE kind = "start"
  <2>1. Sent("stop")' = Sent("stop") /\ Sent("start")' = Sent("start") \cup {Len(mainQueue) + 1}
    BY <1>5, <1>10
  <2>2. Underway' <=> Underway
    BY <1>6, <2>1 DEF Underway
  <2>3. OneStop'
    BY <1>6, <2>1 DEF StopInv, OneStop
  <2>4. Underway => stopGaveUp
    BY <1>10 DEF StopInv, Awaited
  <2> QED BY <1>6, <1>8, <2>1, <2>2, <2>3, <2>4 DEF StopInv, Awaited, Underway
<1> QED BY <1>9, <1>10

LEMMA NextStops ==
    ASSUME MaxObjects = 1, MaxTaps = 0, MaxRevokes = 0, MaxKills = 0, StreamInv, StopInv,
           [Next]_vars, Patient
    PROVE  StopInv'
<1>1. Types /\ Posted
  BY DEF StreamInv, Streamed
<1>2. CASE \E w \in Worker : WorkerStep(w)
  BY <1>2, StepKeepsStops
<1>3. mainQueue # <<>> => Head0.kind \in {"start", "stop", "destroy"}
  <2> SUFFICES ASSUME mainQueue # <<>> PROVE Head0.kind \in {"start", "stop", "destroy"}
    OBVIOUS
  <2>1. Len(mainQueue) \in Nat /\ Len(mainQueue) # 0
    BY <1>1, EmptySeq, LenProperties DEF Types, SystemTypeOK
  <2>2. 1 \in 1..Len(mainQueue)
    BY <2>1
  <2> QED BY <1>1, <2>2 DEF Posted, Head0
<1>4. CASE OnStop \/ OnStart
  <2>1. PICK kind \in {"start", "stop"}, event \in Event :
           Accept(kind, event) /\ mainQueue # <<>> /\ Head0.kind = kind
    BY <1>3, <1>4 DEF OnStop, OnStart, Event
  <2> QED BY <2>1, AcceptKeepsStops
<1>5. CASE OnDestroy
  BY <1>5, DestroyKeepsStops
<1>6. CASE OnStartNoConfig
  BY <1>3, <1>6 DEF OnStartNoConfig
<1>7. CASE JsSendStart
  <2>1. /\ js = "startArmed" /\ js' = "idle" /\ StartService("start", DefaultDns, ThisStart)
        /\ UNCHANGED <<worker, pc, commandSeq, destroyed, pendingStop, stopGaveUp>>
    BY <1>7 DEF JsSendStart
  <2> QED BY <2>1, SendKeepsStops
<1>8. CASE JsSendStop
  <2>1. /\ js = "stopArmed" /\ js' = "idle" /\ StartService("stop", NoDns, None)
        /\ UNCHANGED <<worker, pc, commandSeq, destroyed, pendingStop, stopGaveUp>>
    BY <1>8 DEF JsSendStop
  <2> QED BY <2>1, SendKeepsStops
<1>9. CASE SystemDestroy \/ SystemRevoke \/ Tap
  BY <1>1, <1>9 DEF SystemDestroy, SystemRevoke, Tap, Types, SystemTypeOK
<1>10. CASE OnRevoke
  BY <1>10 DEF OnRevoke, StreamInv, Unrevoked
<1>11. ASSUME UNCHANGED <<worker, pc, commandSeq, destroyed>>,
              Sent("start")' = Sent("start"), Sent("stop")' = Sent("stop")
       PROVE  /\ Numbered' /\ OneStop' /\ (Underway' <=> Underway)
              /\ (Awaited /\ (stopGaveUp => stopGaveUp')
                     /\ (js' = "stopArmed" => ~Underway /\ (pendingStop' # None \/ destroyed'[1]))
                     /\ (Underway => stopGaveUp' \/ pendingStop' # None)
                     /\ (js' = "startArmed" /\ Underway => stopGaveUp'))
                  => Awaited'
  <2>1. \A v \in Worker : /\ Command(v)' <=> Command(v)
                          /\ Newest(v)' <=> Newest(v)
                          /\ StopAt(v)' <=> StopAt(v)
    BY <1>11 DEF Command, Newest, StopAt
  <2>2. Underway' <=> Underway
    BY <1>11, <2>1 DEF Underway
  <2>3. Numbered' /\ OneStop'
    BY <1>11, <2>1 DEF StopInv, Numbered, OneStop
  <2> QED BY <1>11, <2>1, <2>2, <2>3 DEF Awaited
<1>12. mainQueue' = mainQueue => Sent("start")' = Sent("start") /\ Sent("stop")' = Sent("stop")
  BY DEF Sent
<1>13. CASE BringDown
  <2>1. PICK m : m.kind = "destroy" /\ mainQueue' = Append(mainQueue, m)
    BY <1>13 DEF BringDown, PostDestroy
  <2>2. /\ Len(mainQueue') = Len(mainQueue) + 1 /\ Len(mainQueue) \in Nat
        /\ mainQueue'[Len(mainQueue) + 1] = m
        /\ \A i \in 1..Len(mainQueue) : mainQueue'[i] = mainQueue[i]
    <3>1. mainQueue \in Seq(Message \cup {m})
      BY <1>1 DEF Types, SystemTypeOK
    <3> QED BY <2>1, <3>1, AppendProperties, LenProperties
  <2>3. Sent("start")' = Sent("start") /\ Sent("stop")' = Sent("stop")
    BY <2>1, <2>2 DEF Sent
  <2>4. UNCHANGED <<worker, pc, commandSeq, destroyed, js, stopGaveUp, pendingStop>>
    BY <1>13 DEF BringDown
  <2> QED BY <1>11, <2>3, <2>4 DEF StopInv, Awaited
<1>14. CASE JsStart
  <2>1. /\ js' = "startArmed" /\ (pendingStop = None \/ stopGaveUp)
        /\ UNCHANGED <<worker, pc, commandSeq, destroyed, mainQueue, stopGaveUp, pendingStop>>
    BY <1>14 DEF JsStart, JsFree, Bus!SetPendingStart, Bus!stopVars
  <2> QED BY <1>11, <1>12, <2>1 DEF StopInv, Awaited
<1>15. CASE JsStop
  <2>1. /\ js' = "stopArmed" /\ pendingStop' # None /\ (pendingStop = None \/ stopGaveUp)
        /\ stopCalls' # stopCalls
        /\ UNCHANGED <<worker, pc, commandSeq, destroyed, mainQueue>>
    BY <1>1, <1>15, BoundsAssumption
       DEF JsStop, JsFree, Bus!SetPendingStop, Types, CallerTypeOK, None
  <2>2. ~stopGaveUp /\ ~Underway
    BY <2>1 DEF Patient, StopInv, Awaited
  <2> QED BY <1>11, <1>12, <2>1, <2>2 DEF StopInv, Awaited
<1>16. CASE JsStopGivesUp
  <2>1. /\ js' = "idle" /\ stopGaveUp'
        /\ UNCHANGED <<worker, pc, commandSeq, destroyed, mainQueue, pendingStop>>
    BY <1>16 DEF JsStopGivesUp
  <2> QED BY <1>11, <1>12, <2>1 DEF StopInv, Awaited
<1>17. CASE JsStartRefused
  <2>1. /\ js' = "idle"
        /\ UNCHANGED <<worker, pc, commandSeq, destroyed, mainQueue, stopGaveUp, pendingStop>>
    BY <1>17 DEF JsStartRefused, Bus!ResolveStart, Bus!busVars, Bus!stopVars
  <2> QED BY <1>11, <1>12, <2>1 DEF StopInv, Awaited
<1>18. CASE UNCHANGED <<worker, pc, commandSeq, destroyed, mainQueue, js, stopGaveUp, pendingStop>>
  BY <1>11, <1>12, <1>18 DEF StopInv, Awaited
<1> QED
  BY <1>2, <1>4, <1>5, <1>6, <1>7, <1>8, <1>9, <1>10, <1>13, <1>14, <1>15, <1>16, <1>17, <1>18
     DEF Next, Caller, SetKillSwitch, ClearStoredConfig, System, GoLetsGo, LateEngineStop, MainThread

\* Who settles a disconnect has taken the tunnel down, or found it taken down, or was overtaken;
\* and then by a start, since no other stop is under way.
LEMMA SettlesHonestly ==
    ASSUME MaxObjects = 1, MaxTaps = 0, MaxRevokes = 0, MaxKills = 0, StreamInv, StopInv,
           Next, Patient, NEW c \in StopCall, stopPromise[c] = "armed", stopPromise'[c] = "done"
    PROVE  iface' = None \/ StartIsNewest
<1>1. Types /\ Ownership /\ Unrevoked /\ Counted /\ Posted /\ Winding /\ Said
  BY DEF StreamInv, Streamed
<1>2. /\ stopPromise \in [StopCall -> {"new", "armed", "done"}] /\ c # None
      /\ pendingStop \in StopCall \cup {None}
  BY <1>1, BoundTypes DEF Types, BusTypeOK
<1>3. ASSUME NEW w \in Worker, StopSuperseded(w) PROVE StartIsNewest
  <2>1. /\ worker[w].kind = "stop" /\ pc[w] = "queued" /\ Command(w) /\ StopAt(w) /\ ~Newest(w)
    BY <1>1, <1>3, NewestIsFresh DEF StopSuperseded, At, Command, StopAt
  <2>2. PICK n \in Worker : Newest(n)
    BY <1>1, <2>1, BoundsAssumption
       DEF Counted, Types, ObjectTypeOK, Object, ThreadTypeOK, WorkerRecord
  <2>3. /\ worker[n].seq \in Nat /\ worker[w].seq \in Nat
        /\ \A v \in Worker : Command(v) => worker[v].seq \in Nat /\ worker[v].seq <= worker[n].seq
    BY <1>1, <2>2 DEF Types, ThreadTypeOK, WorkerRecord, Counted, Newest
  <2>4. worker[n].kind = "start"
    <3>1. n # w /\ worker[w].seq <= worker[n].seq
      BY <2>1, <2>2, <2>3
    <3>2. worker[n].kind # "stop"
      BY <2>1, <2>3, <3>1 DEF StopInv, OneStop
    <3> QED BY <2>2, <3>2 DEF Newest, Command
  <2>5. 1..spawned \subseteq Worker /\ n \in 1..spawned
    BY <1>1, <2>2, StartedAreWorkers, BoundTypes, BoundsAssumption
       DEF Counted, Newest, Types, Threads, ThreadTypeOK, Worker, None
  <2>6. ASSUME NEW v \in 1..spawned, worker[v].kind = "stop" PROVE v < n
    <3>1. v \in Worker /\ Command(v) /\ v # n /\ Command(n)
      BY <2>2, <2>4, <2>5, <2>6 DEF Command, Newest
    <3>2. worker[v].seq < worker[n].seq
      <4>1. worker[v].seq # worker[n].seq
        BY <1>1, <3>1 DEF Counted
      <4> QED BY <2>3, <3>1, <4>1
    <3> QED BY <3>1, <3>2 DEF StopInv, Numbered
  <2> QED BY <2>4, <2>5, <2>6 DEF StartIsNewest
<1>4. ASSUME NEW w \in Worker, AfterStop(w) PROVE iface' = None
  <2>1. pc[w] = "after" /\ Obj(w) = 1 /\ iface' = iface /\ worker[w].kind = "stop"
    BY <1>1, <1>4 DEF AfterStop, At, Types, Threads, Object, Unrevoked
  <2>2. tunnel[1] = None
    BY <1>1, <2>1 DEF Said
  <2>3. \A v \in Worker : pc[v] # "install"
    <3> SUFFICES ASSUME NEW v \in Worker, pc[v] = "install" PROVE FALSE
      OBVIOUS
    <3>1. Obj(v) = 1
      BY <1>1 DEF Types, Threads, Object
    <3>2. engineLock[1] = v /\ engineLock[1] = w
      BY <1>1, <2>1, <3>1 DEF Ownership, LockHeld, Inside, Label
    <3> QED BY <2>1, <3>2
  <2>4. iface = tunnel[1] \/ iface = None
    BY <2>3 DEF StreamInv, FlagsTold, InterfaceTold, Object
  <2> QED BY <2>1, <2>2, <2>4
<1>5. ASSUME NEW w \in Worker, SettleStop(w) PROVE iface' = None
  <2>1. current = None /\ iface' = iface
    BY <1>1, <1>5, BoundTypes DEF SettleStop, At, Posted, Counted
  <2> QED BY <1>1, <2>1 DEF Winding
<1>6. CASE JsStop
  <2>1. pendingStop = None
    BY <1>1, <1>6 DEF JsStop, JsFree, Patient, Types, CallerTypeOK
  <2>2. stopPromise'[c] # "done"
    BY <1>2, <1>6, <2>1 DEF JsStop, Bus!SetPendingStop, Bus!Settled
  <2> QED BY <2>2
<1>7. CASE UNCHANGED stopPromise
  BY <1>7
<1>8. ASSUME NEW w \in Worker, WorkerStep(w), ~StopSuperseded(w), ~AfterStop(w), ~SettleStop(w)
      PROVE  UNCHANGED stopPromise
  BY <1>8
     DEF WorkerStep, StartSuperseded, StartBegins, StopBegins, TeardownBegins,
         Halt, ReuseTun, Establish, EstablishFails, InstallTun, CheckDestroyed, StartBypass,
         StartEngine, Verify, Publish, DecideFailure, HoldTunnel, ReportError, StopEngineBounded,
         DropTunnel, AfterStart, AfterDestroy, Bus!ResolveStart, Bus!busVars, Bus!stopVars
<1>9. CASE Caller /\ ~JsStop
  BY <1>7, <1>9
     DEF Caller, JsStart, JsSendStart, JsStartRefused, JsSendStop, JsStopGivesUp, SetKillSwitch,
         ClearStoredConfig, Tap, Bus!ResolveStart, Bus!SetPendingStart, Bus!busVars, Bus!stopVars
<1>10. CASE System
  BY <1>7, <1>10 DEF System, BringDown, SystemDestroy, SystemRevoke, OnRevoke, GoLetsGo, LateEngineStop
<1>11. CASE MainThread
  BY <1>7, <1>11
     DEF MainThread, OnStop, OnStart, Accept, OnStartNoConfig, OnDestroy, Bus!ResolveStart,
         Bus!busVars, Bus!stopVars
<1> QED BY <1>3, <1>4, <1>5, <1>6, <1>7, <1>8, <1>9, <1>10, <1>11 DEF Next

\* While only JS commands the one service object of the process, nothing interferes, and JS calls
\* no disconnect() after one that it gave up, `await disconnect()` means that the tunnel is down
\* or that a newer start took over, however commands, failures and the end of the service fall
\* (XrayStateBus.resolveStop, XrayVpnService.kt).
THEOREM ServiceDisconnectHonest ==
    ASSUME MaxObjects = 1, MaxTaps = 0, MaxRevokes = 0, MaxKills = 0
    PROVE  Spec /\ [][Patient]_vars => DisconnectHonest
<1> DEFINE Honest == \A c \in StopCall : stopPromise[c] = "armed" /\ stopPromise'[c] = "done" =>
                         iface' = None \/ StartIsNewest
<1>1. Init => FlagsTold /\ Unrevoked /\ Streamed
  BY InitStreamed DEF Init, Engine!EngineInit, FlagsTold, EngineTold, EngineAt, InterfaceTold,
         Unrevoked, IdleWorker
<1>2. Init => StopInv
  <2> SUFFICES ASSUME Init PROVE StopInv
    OBVIOUS
  <2>1. /\ \A w \in Worker : ~Command(w) /\ ~StopAt(w)
        /\ js = "idle" /\ mainQueue = <<>>
    BY DEF Init, IdleWorker, Command, StopAt
  <2>2. \A kind : Sent(kind) = {}
    BY <2>1, EmptySeq DEF Sent
  <2> QED BY <2>1, <2>2 DEF StopInv, Numbered, OneStop, Awaited, Underway
<1>3. Types /\ Ownership /\ FlagsTold /\ Unrevoked /\ ReportsOwnStart /\ Streamed <=> StreamInv
  BY DEF StreamInv
<1>4. StreamInv /\ StopInv /\ [Next]_vars /\ [Patient]_vars => StopInv'
  <2>1. UNCHANGED vars => Patient
    BY DEF Patient
  <2> QED BY <2>1, NextStops
<1>5. StreamInv /\ StopInv /\ [Next]_vars /\ [Patient]_vars => [Honest]_vars
  BY SettlesHonestly
<1> QED
  BY <1>1, <1>2, <1>3, <1>4, <1>5, NextFlagsTold, NextUnrevoked, NextStreamed, AlwaysOwnership,
     AlwaysBusUse, PTL DEF Spec, BusUse, DisconnectHonest
-----------------------------------------------------------------------------
(* What a stop leaves, for any number of objects and of those who command them. *)

\* The commands of one object are numbered apart, and none is ahead of its count.
Apart ==
    \A v, w \in Worker : Command(v) /\ Command(w) /\ Obj(v) = Obj(w) =>
        /\ Obj(w) \in Object /\ worker[w].seq <= commandSeq[Obj(w)]
        /\ v # w => worker[v].seq # worker[w].seq

\* A stop that took the tunnel down and was not overtaken since.
Stands(w) == worker[w].kind = "stop" /\ pc[w] \in {"after", "done"} /\ ~Stale(w)

\* It left no tunnel, and nobody who would make one.
Released ==
    \A w \in Worker : Stands(w) =>
        /\ tunnel[Obj(w)] = None
        /\ \A v \in Worker : Obj(v) = Obj(w) => pc[v] \notin {"halt", "tun", "install"}

\* Only a destruction settles what nobody is left to settle.
SettlesDestroy == \A w \in Worker : pc[w] = "settle" => worker[w].kind = "destroy"

\* The live interface has an open descriptor, which is not the one being replaced.
LiveOpen ==
    iface # None => /\ fd[iface] = "open" /\ pc[iface] # "none"
                    /\ \A w \in Worker : pc[w] = "install" => iface # tunnel[Obj(w)]

LEMMA StepKeepsApart ==
    ASSUME Types, Apart, NEW w \in Worker, WorkerStep(w)
    PROVE  Apart'
BY Frame, NumbersKept DEF Apart

LEMMA SpawnKeepsApart ==
    ASSUME Types, Apart, Released, NEW kind, NEW m, NEW dns, NEW o \in Object, NEW seq, NEW token,
           Spawn(kind, m, dns, o, seq, token), UNCHANGED tunnel,
           \/ UNCHANGED commandSeq
           \/ commandSeq' = [commandSeq EXCEPT ![o] = @ + 1],
           kind \in {"start", "stop"} => /\ commandSeq' = [commandSeq EXCEPT ![o] = @ + 1]
                                         /\ seq = commandSeq[o] + 1
    PROVE  Apart' /\ Released'
<1>1. PICK x \in Worker : x = spawned + 1
  BY DEF Spawn
<1>2. /\ pc'[x] = "queued" /\ Obj(x)' = o /\ worker'[x].kind = kind /\ worker'[x].seq = seq
      /\ \A v \in Worker : v # x => pc'[v] = pc[v] /\ worker'[v] = worker[v]
  BY <1>1 DEF Spawn, Obj, Types, ThreadTypeOK
<1>3. \A v \in Worker : v # x => /\ Obj(v)' = Obj(v)
                                 /\ worker[v].seq \in Nat
  BY <1>2 DEF Obj, Types, ThreadTypeOK, WorkerRecord
<1>4. commandSeq \in [Object -> Nat]
  BY DEF Types, ObjectTypeOK
<1>5. \A p \in Object : commandSeq'[p] = commandSeq[p] \/ (p = o /\ commandSeq'[p] = commandSeq[p] + 1)
  BY <1>4
<1>6. Apart'
  <2> SUFFICES ASSUME NEW v \in Worker, NEW w \in Worker, Command(v)', Command(w)',
                      Obj(v)' = Obj(w)'
               PROVE  /\ Obj(w)' \in Object /\ worker'[w].seq <= commandSeq'[Obj(w)']
                      /\ v # w => worker'[v].seq # worker'[w].seq
    BY DEF Apart
  <2>1. \A u \in Worker : u # x /\ Command(u)' =>
            /\ worker'[u].seq = worker[u].seq /\ worker[u].seq \in Nat
            /\ Obj(u)' \in Object /\ worker[u].seq <= commandSeq[Obj(u)']
    BY <1>2, <1>3 DEF Apart, Command
  <2>2. x \in {v, w} => /\ worker'[x].seq = commandSeq[o] + 1 /\ commandSeq'[o] = commandSeq[o] + 1
                        /\ commandSeq[o] \in Nat
    BY <1>2, <1>4 DEF Command
  <2>3. CASE v # x /\ w # x
    <3>1. Obj(w)' = Obj(w) /\ Obj(v) = Obj(w) /\ Command(v) /\ Command(w)
      BY <1>2, <1>3, <2>3 DEF Command
    <3>2. v # w => worker[v].seq # worker[w].seq
      BY <3>1 DEF Apart
    <3>3. Obj(w) \in Object /\ commandSeq[Obj(w)] \in Nat
      BY <1>4, <2>1, <2>3, <3>1
    <3> QED BY <1>5, <2>1, <2>3, <3>1, <3>2, <3>3
  <2>4. CASE v = x /\ w = x
    BY <1>2, <2>2, <2>4
  <2>5. CASE v = x /\ w # x
    <3>1. Obj(w)' = o /\ worker'[w].seq \in Nat /\ worker'[w].seq <= commandSeq[o]
      BY <1>2, <2>1, <2>5
    <3> QED BY <2>2, <2>5, <3>1
  <2>6. CASE v # x /\ w = x
    <3>1. Obj(v)' = o /\ worker'[v].seq \in Nat /\ worker'[v].seq <= commandSeq[o]
      BY <1>2, <2>1, <2>6
    <3> QED BY <2>2, <2>6, <3>1
  <2> QED BY <2>3, <2>4, <2>5, <2>6
<1>7. Released'
  <2> SUFFICES ASSUME NEW w \in Worker, Stands(w)'
               PROVE  /\ tunnel[Obj(w)'] = None
                      /\ \A v \in Worker : Obj(v)' = Obj(w)' => pc'[v] \notin {"halt", "tun", "install"}
    BY DEF Released
  <2>1. w # x /\ Obj(w)' = Obj(w)
    BY <1>2, <1>3 DEF Stands
  <2>2. /\ Command(w) /\ worker[w].seq <= commandSeq[Obj(w)] /\ worker[w].seq \in Nat
        /\ Obj(w) \in Object
    BY <1>2, <1>3, <2>1 DEF Stands, Command, Apart
  <2>3. worker[w].seq = commandSeq'[Obj(w)]
    BY <1>2, <2>1 DEF Stands, Stale
  <2>4. commandSeq'[Obj(w)] = commandSeq[Obj(w)]
    BY <1>4, <1>5, <2>2, <2>3
  <2>5. Stands(w)
    BY <1>2, <2>1, <2>3, <2>4 DEF Stands, Stale
  <2> QED BY <1>2, <1>3, <2>1, <2>5 DEF Released
<1> QED BY <1>6, <1>7

\* Only a start that is not overtaken begins to make a tunnel, and it has the lock.
LEMMA StepKeepsReleased ==
    ASSUME Types, Ownership, ReportsOwnStart, SettlesDestroy, Apart, Released, NEW w \in Worker, WorkerStep(w)
    PROVE  Released'
<1>0. /\ tunnel \in [Object -> Worker \cup {None}] /\ pc \in [Worker -> Label] /\ Obj(w) \in Object
      /\ UNCHANGED commandSeq
      /\ \A label : Goto(w, label) => pc'[w] = label
  BY Frame, NumbersKept DEF Types, ObjectTypeOK, ThreadTypeOK, Goto
<1>1. \A v \in Worker : Obj(v)' = Obj(v) /\ (Stale(v)' <=> Stale(v))
  BY <1>0, Frame, NumbersKept DEF Stale
<1> SUFFICES ASSUME NEW s \in Worker, Stands(s)'
             PROVE  /\ tunnel'[Obj(s)] = None
                    /\ \A v \in Worker : Obj(v) = Obj(s) => pc'[v] \notin {"halt", "tun", "install"}
  BY <1>1 DEF Released
<1>2. worker[s].kind = "stop" /\ ~Stale(s) /\ (s # w => Stands(s))
  BY <1>1, Frame DEF Stands
<1>3. CASE Stands(s)
  <2>1. /\ tunnel[Obj(s)] = None
        /\ \A v \in Worker : Obj(v) = Obj(s) => pc[v] \notin {"halt", "tun", "install"}
    BY <1>3 DEF Released
  <2>2. CASE Obj(w) # Obj(s)
    <3>0. UNCHANGED tunnel \/ \E f : tunnel' = [tunnel EXCEPT ![Obj(w)] = f]
      BY DEF WorkerStep, StartSuperseded, StopSuperseded, StartBegins, StopBegins, TeardownBegins,
             Halt, ReuseTun, Establish, EstablishFails, InstallTun, CheckDestroyed, StartBypass,
             StartEngine, Verify, Publish, DecideFailure, HoldTunnel, ReportError,
             StopEngineBounded, DropTunnel, AfterStart, AfterStop, AfterDestroy, SettleStop
    <3>1. Obj(s) \in Object
      BY <1>3 DEF Stands, Types, Threads
    <3>2. tunnel'[Obj(s)] = tunnel[Obj(s)]
      BY <1>0, <2>2, <3>0, <3>1
    <3> QED BY <2>1, <2>2, <3>2, Frame
  <2>3. CASE Obj(w) = Obj(s)
    <3>1. pc[w] \notin {"halt", "tun", "install"}
      BY <2>1, <2>3
    <3>2. ~StartBegins(w)
      <4> SUFFICES ASSUME StartBegins(w) PROVE FALSE
        OBVIOUS
      <4>1. worker[w].kind = "start" /\ worker[w].seq = worker[s].seq /\ Command(w) /\ Command(s)
        BY <1>2, <2>3 DEF StartBegins, Stale, Command
      <4> QED BY <1>2, <2>3, <4>1 DEF Apart
    <3>3. tunnel'[Obj(s)] = None /\ pc'[w] \notin {"halt", "tun", "install"}
      BY <1>0, <2>1, <2>3, <3>1, <3>2
         DEF WorkerStep, StartSuperseded, StopSuperseded, StopBegins, TeardownBegins,
             Halt, ReuseTun, Establish, EstablishFails, InstallTun, CheckDestroyed, StartBypass,
             StartEngine, Verify, Publish, DecideFailure, HoldTunnel, ReportError,
             StopEngineBounded, DropTunnel, AfterStart, AfterStop, AfterDestroy, SettleStop, At
    <3> QED BY <2>1, <3>3, Frame
  <2> QED BY <2>2, <2>3
<1>4. CASE ~Stands(s)
  <2>1. s = w /\ pc[w] \notin {"after", "done"} /\ pc'[w] \in {"after", "done"}
    BY <1>1, <1>2, <1>4, Frame DEF Stands
  <2>2. pc[w] \notin Reporting /\ pc[w] # "settle" /\ ~StopSuperseded(w)
    BY <1>2, <2>1 DEF ReportsOwnStart, SettlesDestroy, StopSuperseded
  <2>3. ~StartSuperseded(w) /\ ~AfterStart(w)
    BY <1>2, <2>1 DEF StartSuperseded, AfterStart
  <2>4. DropTunnel(w)
    BY <1>0, <2>1, <2>2, <2>3
       DEF WorkerStep, Reporting, StartBegins, StopBegins, TeardownBegins,
           Halt, ReuseTun, Establish, EstablishFails, InstallTun, CheckDestroyed, StartBypass,
           StartEngine, Verify, Publish, DecideFailure, HoldTunnel, ReportError,
           StopEngineBounded, AfterStop, AfterDestroy, SettleStop, At
  <2>5. tunnel'[Obj(w)] = None /\ pc[w] = "dropTunnel"
    BY <1>0, <2>4 DEF DropTunnel, At
  <2>6. \A v \in Worker : v # w /\ Obj(v) = Obj(w) => pc[v] \notin Inside
    BY <2>5, Exclusion DEF Ownership, Inside, Label
  <2> QED BY <2>1, <2>5, <2>6, Frame DEF Inside, Label
<1> QED BY <1>3, <1>4

\* A replaced descriptor is no longer live, whoever else established one in between.
LEMMA StepKeepsLiveOpen ==
    ASSUME Types, Ownership, LiveOpen, NEW w \in Worker, WorkerStep(w)
    PROVE  LiveOpen'
<1>1. /\ tunnel \in [Object -> Worker \cup {None}] /\ pc \in [Worker -> Label]
      /\ iface \in Worker \cup {None} /\ Obj(w) \in Object /\ fd \in [Worker -> {"none", "open", "closed", "parked"}]
      /\ \A label : Goto(w, label) => pc'[w] = label
      /\ \A v \in Worker : pc[v] = "install" => Obj(v) \in Object
  BY Frame DEF Types, ObjectTypeOK, ThreadTypeOK, SystemTypeOK, Goto, Threads
<1>2. CASE Establish(w)
  <2>1. iface' = w /\ fd'[w] = "open" /\ UNCHANGED tunnel /\ pc[w] # "none"
    BY <1>1, <1>2, Frame DEF Establish
  <2>2. \A o \in Object : tunnel[o] # w
    <3> SUFFICES ASSUME NEW o \in Object, tunnel[o] = w PROVE FALSE
      OBVIOUS
    <3>1. fd[w] = "open"
      BY BoundTypes DEF Ownership, TunnelOwned
    <3>2. fd[w] = "none"
      BY <1>2 DEF Ownership, NotYetEstablished, Establish, At
    <3> QED BY <3>1, <3>2
  <2>3. \A v \in Worker : pc'[v] = "install" => Obj(v)' \in Object
    BY <1>1, Frame
  <2> QED BY <2>1, <2>2, <2>3, Frame DEF LiveOpen
<1>3. CASE InstallTun(w)
  <2>1. iface' = iface /\ (iface # None => iface # tunnel[Obj(w)]) /\ pc[w] = "install" /\ pc'[w] = "check"
    BY <1>1, <1>3 DEF InstallTun, At, LiveOpen
  <2>2. iface # None => fd'[iface] = fd[iface]
    BY <1>1, <1>3, <2>1 DEF InstallTun
  <2>3. \A v \in Worker : pc'[v] = "install" => v # w /\ Obj(v) # Obj(w)
    BY <2>1, Frame, Exclusion DEF Ownership, Inside, Label
  <2>4. \A v \in Worker : pc'[v] = "install" => tunnel'[Obj(v)] = tunnel[Obj(v)]
    BY <1>1, <1>3, <2>3 DEF InstallTun
  <2> QED BY <1>1, <2>1, <2>2, <2>3, <2>4, Frame DEF LiveOpen
<1>4. CASE DropTunnel(w)
  <2>1. /\ pc[w] = "dropTunnel" /\ pc'[w] = "after"
        /\ iface' # None => iface' = iface /\ iface # tunnel[Obj(w)]
    BY <1>1, <1>4 DEF DropTunnel, At
  <2>2. iface' # None => fd'[iface] = fd[iface]
    BY <1>1, <1>4, <2>1 DEF DropTunnel
  <2>3. \A v \in Worker : pc'[v] = "install" => v # w /\ Obj(v) # Obj(w)
    BY <2>1, Frame, Exclusion DEF Ownership, Inside, Label
  <2>4. \A v \in Worker : pc'[v] = "install" => tunnel'[Obj(v)] = tunnel[Obj(v)]
    BY <1>1, <1>4, <2>3 DEF DropTunnel
  <2> QED BY <1>1, <2>1, <2>2, <2>3, <2>4, Frame DEF LiveOpen
<1>5. CASE ~Establish(w) /\ ~InstallTun(w) /\ ~DropTunnel(w)
  <2>1. UNCHANGED <<tunnel, iface, fd>> /\ pc'[w] # "install"
    BY <1>1, <1>5
       DEF WorkerStep, StartSuperseded, StopSuperseded, StartBegins, StopBegins, TeardownBegins,
           Halt, ReuseTun, EstablishFails, CheckDestroyed, StartBypass,
           StartEngine, Verify, Publish, DecideFailure, HoldTunnel, ReportError,
           StopEngineBounded, AfterStart, AfterStop, AfterDestroy, SettleStop
  <2> QED BY <1>1, <2>1, Frame DEF LiveOpen
<1> QED BY <1>2, <1>3, <1>4, <1>5

StopsRelease == SettlesDestroy /\ Apart /\ Released /\ LiveOpen

LEMMA NextStopsRelease ==
    ASSUME Types, Ownership, ReportsOwnStart, StopsRelease, [Next]_vars
    PROVE  StopsRelease'
<1> USE DEF StopsRelease
<1>1. ASSUME NEW w \in Worker, WorkerStep(w) PROVE StopsRelease'
  <2>1. SettlesDestroy'
    <3> SUFFICES ASSUME NEW v \in Worker, pc'[v] = "settle" PROVE worker[v].kind = "destroy"
      BY <1>1, Frame DEF SettlesDestroy
    <3>1. \A label : Goto(w, label) => pc'[w] = label
      BY DEF Types, ThreadTypeOK, Goto
    <3>2. CASE v = w
      <4>1. pc[w] = "settle" \/ AfterDestroy(w)
        BY <1>1, <3>1, <3>2
           DEF WorkerStep, StartSuperseded, StopSuperseded, StartBegins, StopBegins,
               TeardownBegins, Halt, ReuseTun, Establish, EstablishFails, InstallTun,
               CheckDestroyed, StartBypass, StartEngine, Verify, Publish, DecideFailure,
               HoldTunnel, ReportError, StopEngineBounded, DropTunnel, AfterStart, AfterStop,
               SettleStop
      <4> QED BY <3>2, <4>1 DEF AfterDestroy, SettlesDestroy
    <3>3. CASE v # w
      BY <1>1, <3>3, Frame DEF SettlesDestroy
    <3> QED BY <3>2, <3>3
  <2> QED BY <1>1, <2>1, StepKeepsApart, StepKeepsReleased, StepKeepsLiveOpen
<1>2. ASSUME NEW kind, NEW m, NEW dns, NEW o \in Object, NEW seq, NEW token,
             Spawn(kind, m, dns, o, seq, token), UNCHANGED <<tunnel, iface, fd>>,
             \/ UNCHANGED commandSeq
             \/ commandSeq' = [commandSeq EXCEPT ![o] = @ + 1],
             kind \in {"start", "stop"} => /\ commandSeq' = [commandSeq EXCEPT ![o] = @ + 1]
                                           /\ seq = commandSeq[o] + 1
      PROVE  StopsRelease'
  <2>1. Apart' /\ Released'
    BY <1>2, SpawnKeepsApart
  <2>2. PICK x \in Worker : x = spawned + 1
    BY <1>2 DEF Spawn
  <2>3. pc[x] = "none"
    <3>1. ~(x <= spawned)
      BY <2>2, BoundTypes DEF Types, ThreadTypeOK, None
    <3> QED BY <3>1 DEF Types, Threads
  <2>4. /\ pc'[x] = "queued"
        /\ \A v \in Worker : v # x => pc'[v] = pc[v] /\ worker'[v] = worker[v]
    BY <1>2, <2>2 DEF Spawn, Types, ThreadTypeOK
  <2>5. SettlesDestroy'
    BY <2>4 DEF SettlesDestroy
  <2>6. LiveOpen'
    <3>1. \A v \in Worker : pc'[v] = "install" => pc[v] = "install" /\ Obj(v)' = Obj(v)
      BY <2>4 DEF Obj
    <3>2. iface \in Worker \cup {None}
      BY DEF Types, SystemTypeOK
    <3> QED BY <1>2, <2>3, <2>4, <3>1, <3>2 DEF LiveOpen
  <2> QED BY <2>1, <2>5, <2>6
<1>3. CASE OnStop \/ OnStart
  <2>1. mainQueue # <<>> /\ \E kind, event : Accept(kind, event)
    BY <1>3 DEF OnStop, OnStart
  <2>2. Head0.object \in Object
    BY <2>1, DequeueTypes DEF Accept, Message
  <2> QED BY <1>2, <2>1, <2>2 DEF Accept
<1>4. CASE OnDestroy
  <2>1. Head0.object \in Object
    BY <1>4, DequeueTypes DEF OnDestroy, Message
  <2> QED BY <1>2, <1>4, <2>1 DEF OnDestroy
<1>5. CASE OnRevoke
  <2>1. revoking \in Object
    BY <1>5 DEF OnRevoke, Types, SystemTypeOK
  <2> QED BY <1>2, <1>5, <2>1 DEF OnRevoke
<1>6. ASSUME UNCHANGED <<worker, pc, commandSeq, tunnel, fd>>, iface' = iface \/ iface' = None
      PROVE  StopsRelease'
  BY <1>6 DEF SettlesDestroy, Apart, Released, LiveOpen, Stands, Stale, Obj, Command
<1>7. CASE Caller \/ BringDown \/ SystemDestroy \/ SystemRevoke \/ GoLetsGo \/ LateEngineStop
           \/ OnStartNoConfig \/ UNCHANGED vars
  BY <1>6, <1>7
     DEF Caller, JsStart, JsSendStart, JsStartRefused, JsStop, JsSendStop, JsStopGivesUp,
         SetKillSwitch, ClearStoredConfig, Tap, BringDown, SystemDestroy, SystemRevoke,
         GoLetsGo, LateEngineStop, OnStartNoConfig
<1> QED BY <1>1, <1>3, <1>4, <1>5, <1>7 DEF Next, System, MainThread

\* A stop that was carried out, and that no newer command overtook, has left its service object
\* with no tunnel and no open descriptor, and the device with no interface of that object but
\* the one Go still keeps alive by its own copy, behind an engine stop or a bypass that has not
\* returned (stopEngineBounded, stopBypassBounded and the comment above them).
StopReleases ==
    \A w \in Worker : worker[w].kind = "stop" /\ pc[w] = "done" /\ ~Stale(w) =>
        /\ tunnel[Obj(w)] = None
        /\ \A f \in Worker : fd[f] = "open" => Obj(f) # Obj(w)
        /\ Interface # None /\ Obj(Interface) = Obj(w) => kept = Interface

\* It stays so, for any number of objects, commands, revocations and destructions: no start
\* that was under way when the stop came, and none that it overtook in the queue, brings the
\* tunnel back (commandSeq and engineLock in onStartCommand and runStart).
THEOREM ServiceStopReleases == Spec => []StopReleases
<1>1. Init => StopsRelease
  <2> SUFFICES ASSUME Init PROVE StopsRelease
    OBVIOUS
  <2>1. (\A w \in Worker : pc[w] = "none" /\ ~Command(w)) /\ iface = None
    BY DEF Init, IdleWorker, Command
  <2> QED BY <2>1 DEF StopsRelease, SettlesDestroy, Apart, Released, Stands, LiveOpen
<1>2. ASSUME Types, Ownership, StopsRelease PROVE StopReleases
  <2> SUFFICES ASSUME NEW w \in Worker, Stands(w)
               PROVE  /\ tunnel[Obj(w)] = None
                      /\ \A f \in Worker : fd[f] = "open" => Obj(f) # Obj(w)
                      /\ Interface # None /\ Obj(Interface) = Obj(w) => kept = Interface
    BY DEF StopReleases, Stands
  <2>1. /\ tunnel[Obj(w)] = None
        /\ \A v \in Worker : Obj(v) = Obj(w) => pc[v] # "install"
    BY <1>2 DEF StopsRelease, Released
  <2>2. \A f \in Worker : fd[f] = "open" => Obj(f) # Obj(w)
    <3> SUFFICES ASSUME NEW f \in Worker, fd[f] = "open", Obj(f) = Obj(w) PROVE FALSE
      OBVIOUS
    <3>1. pc[f] = "install" \/ tunnel[Obj(f)] = f
      BY <1>2 DEF Ownership, OpenIsOwned
    <3> QED BY <2>1, <3>1, BoundTypes
  <2>3. iface # None => Obj(iface) # Obj(w)
    BY <1>2, <2>2 DEF StopsRelease, LiveOpen, Types, SystemTypeOK
  <2> QED BY <2>1, <2>2, <2>3 DEF Interface
<1> QED
  BY <1>1, <1>2, NextStopsRelease, AlwaysOwnership, AlwaysBusUse, PTL DEF Spec, BusUse
=============================================================================
