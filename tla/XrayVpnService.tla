--------------------------- MODULE XrayVpnService ---------------------------
(***************************************************************************)
(* XrayVpnService.kt, the Android VpnService, with the parts of            *)
(* HybridNitroXrayCore.kt that drive it and of the Android system it lives *)
(* in.                                                                     *)
(*                                                                         *)
(* Commands reach a service object on its main thread (onStartCommand,     *)
(* onDestroy) or from the system (onRevoke).  Each numbers itself and      *)
(* spawns a worker that contends for the object's engineLock and then runs *)
(* for seconds: stop the engine, establish or reuse the tun descriptor,    *)
(* start the engine, report.  The steps of a worker are the points between *)
(* which the main thread, the system and the workers of another service    *)
(* object of the same process can run.                                     *)
(*                                                                         *)
(* The lock, the sequence number and the `destroyed` and `tunnelRevoked`   *)
(* flags belong to a service OBJECT; the engine, the two state flags and   *)
(* the bus belong to the PROCESS, which may see several objects in turn.   *)
(* A descriptor is named by the worker that established it.                *)
(***************************************************************************)
EXTENDS Naturals, Sequences

CONSTANTS
    DnsServers,         (* the DNS settings a tunnel can be built with       *)
    DefaultDns,         (* DEFAULT_DNS_SERVERS, what every JS start gets     *)
    NoDns,              (* no tunnel / nothing stored: null                  *)
    MaxObjects,         (* bound: service objects the system creates         *)
    MaxStarts,          (* bound: startXray calls                            *)
    MaxStops,           (* bound: stopXray calls                             *)
    MaxTaps,            (* bound: commands sent without JS                   *)
    MaxRevokes,         (* bound: revocations by the system                  *)
    MaxKills,           (* bound: destructions the service did not ask for   *)
    TogglesKillSwitch,  (* whether setKillSwitch is called                   *)
    QuickConnect,       (* whether the app opted in to QuickConnectStore     *)
    CanWedge            (* whether an engine stop may blow its deadline      *)

ASSUME BoundsAssumption ==
    /\ DefaultDns \in DnsServers /\ NoDns \notin DnsServers
    /\ {MaxObjects, MaxStarts, MaxStops, MaxTaps, MaxRevokes, MaxKills} \subseteq Nat
    /\ {TogglesKillSwitch, QuickConnect, CanWedge} \subseteq BOOLEAN

Object == 1..MaxObjects
Worker == 1..(MaxStarts + MaxStops + MaxTaps + MaxRevokes + MaxObjects)
StartCall == 1..MaxStarts
StopCall  == (MaxStarts + 1)..(MaxStarts + MaxStops)
None == 0      \* no object, no worker, no descriptor, no call, no token

VARIABLES
    \* the process
    isRunning, isEngineRunning,         \* the companion object's two flags
    engineFd, isWedged,                 \* XrayEngine, see EngineContract
    pendingStart, pendingStartToken, startTokenSeq, tokenOf, startPromise,
    pendingStop, stopPromise, fired,    \* XrayStateBus
    lastEvent,                          \* what the state stream said last
    killSwitch, stored,                 \* KillSwitchStore, QuickConnectStore
    \* each service object
    tunnel,              \* its AtomicReference: the descriptor it owns, or None
    activeDnsServers, commandSeq, destroyed, tunnelRevoked,
    engineLock,          \* the worker inside synchronized(engineLock), or None
    \* its threads
    spawned,             \* how many workers were started
    worker,              \* the locals of each worker
    pc,                  \* where each worker is
    \* the Android system
    mainQueue,           \* calls posted to the main thread, oldest first
    current,             \* the object startService reaches, or None
    created,             \* how many objects were created
    startRequested,      \* started and not stopped since
    lastStartId,         \* the start id handed out last
    iface,               \* the descriptor that keeps the live VPN interface, or None
    fd,                  \* per descriptor: "none", "open", "closed", "parked"
    kept,                \* the one of the live interface that Go has its own copy of, or None
    revoking,            \* the object owed an onRevoke call, or None
    taps, revokes, kills,
    \* the JS caller, which awaits each call before the next
    js,                  \* "idle", or between arming a promise and its intent
    stopCalls, stopGaveUp  \* stopXray calls made; the last one stopped waiting

Bus == INSTANCE XrayStateBus WITH
           StartCalls <- StartCall, StopCalls <- StopCall, NoCall <- None,
           captured <- {worker[w].token : w \in {v \in 1..spawned :
                                                     worker[v].kind \in {"start", "stop"}}}
Engine == INSTANCE EngineContract WITH NoFd <- None, Fds <- Worker

flagVars   == <<isRunning, isEngineRunning>>
engineVars == <<engineFd, isWedged>>
busVars    == <<pendingStart, pendingStartToken, startTokenSeq, tokenOf, startPromise,
                pendingStop, stopPromise, fired>>
prefVars   == <<killSwitch, stored>>
tunVars    == <<tunnel, activeDnsServers>>
cmdVars    == <<commandSeq, destroyed, tunnelRevoked>>
threadVars == <<spawned, worker>>
amsVars    == <<mainQueue, current, created, startRequested, lastStartId>>
netVars    == <<iface, fd, kept, revoking>>
boundVars  == <<taps, revokes, kills>>
jsVars     == <<js, stopCalls, stopGaveUp>>
vars == <<flagVars, engineVars, busVars, lastEvent, prefVars, tunVars,
          cmdVars, engineLock, threadVars, pc, amsVars, netVars, boundVars, jsVars>>

\* What no step of a worker ever touches.
outside == <<killSwitch, commandSeq, destroyed, spawned, mainQueue, current, created,
             lastStartId, revoking, boundVars, jsVars>>
-----------------------------------------------------------------------------
Kind  == {"none", "start", "stop", "revoke", "destroy"}
Event == {"none", "connecting", "connected", "disconnecting", "disconnected",
          "error", "blocked"}
Label == {"none", "queued", "halt", "tun", "install", "check", "bypass", "engine",
          "verify", "publish", "fail", "hold", "error", "stopEngine", "dropTunnel",
          "after", "settle", "done"}
Reason == {"command", "destroyed", "superseded", "failed"}

\* The locals of a worker: the command it serves, what onStartCommand captured
\* for it, the descriptor it works with, and why it came to tear down.
WorkerRecord ==
    {r \in [kind : Kind, object : Object \cup {None}, seq : Nat, token : Nat, startId : Nat,
            fromStore : BOOLEAN, dns : DnsServers \cup {NoDns}, call : StartCall \cup {None},
            tunFd : Worker \cup {None}, reason : Reason] :
        r.kind = "start" => r.dns \in DnsServers}

Message == [kind : {"start", "startLast", "stop", "destroy"}, object : Object,
            startId : Nat, dns : DnsServers \cup {NoDns}, call : StartCall \cup {None}]

IdleWorker == [kind |-> "none", object |-> None, seq |-> 0, token |-> 0, startId |-> 0,
               fromStore |-> FALSE, dns |-> NoDns, call |-> None, tunFd |-> None,
               reason |-> "command"]

ProcessTypeOK ==
    /\ isRunning \in BOOLEAN /\ isEngineRunning \in BOOLEAN
    /\ engineFd \in Worker \cup {None} /\ isWedged \in BOOLEAN
    /\ lastEvent \in Event
    /\ killSwitch \in BOOLEAN /\ stored \in DnsServers \cup {NoDns}

ObjectTypeOK ==
    /\ tunnel \in [Object -> Worker \cup {None}]
    /\ activeDnsServers \in [Object -> DnsServers \cup {NoDns}]
    /\ commandSeq \in [Object -> Nat]
    /\ destroyed \in [Object -> BOOLEAN] /\ tunnelRevoked \in [Object -> BOOLEAN]
    /\ engineLock \in [Object -> Worker \cup {None}]

ThreadTypeOK ==
    /\ spawned \in Worker \cup {None}
    /\ worker \in [Worker -> WorkerRecord]
    /\ pc \in [Worker -> Label]

SystemTypeOK ==
    /\ mainQueue \in Seq(Message)
    /\ current \in Object \cup {None} /\ created \in Object \cup {None}
    /\ startRequested \in BOOLEAN /\ lastStartId \in Nat
    /\ iface \in Worker \cup {None} /\ kept \in Worker \cup {None}
    /\ fd \in [Worker -> {"none", "open", "closed", "parked"}]
    /\ revoking \in Object \cup {None}
    /\ taps \in Nat /\ revokes \in Nat /\ kills \in Nat

CallerTypeOK ==
    /\ js \in {"idle", "startArmed", "stopArmed"}
    /\ stopCalls \in Nat /\ stopGaveUp \in BOOLEAN

TypeOK == /\ ProcessTypeOK /\ ObjectTypeOK /\ ThreadTypeOK /\ SystemTypeOK /\ CallerTypeOK
          /\ Bus!TypeOK

Init ==
    /\ isRunning = FALSE /\ isEngineRunning = FALSE
    /\ Engine!EngineInit
    /\ Bus!BusInit
    /\ lastEvent = "none"
    /\ killSwitch \in BOOLEAN
    /\ stored \in IF QuickConnect THEN DnsServers \cup {NoDns} ELSE {NoDns}
    /\ tunnel = [o \in Object |-> None]
    /\ activeDnsServers = [o \in Object |-> NoDns]
    /\ commandSeq = [o \in Object |-> 0]
    /\ destroyed = [o \in Object |-> FALSE]
    /\ tunnelRevoked = [o \in Object |-> FALSE]
    /\ engineLock = [o \in Object |-> None]
    /\ spawned = 0
    /\ worker = [w \in Worker |-> IdleWorker]
    /\ pc = [w \in Worker |-> "none"]
    /\ mainQueue = <<>> /\ current = None /\ created = 0
    /\ startRequested = FALSE /\ lastStartId = 0
    /\ iface = None /\ fd = [w \in Worker |-> "none"] /\ kept = None /\ revoking = None
    /\ taps = 0 /\ revokes = 0 /\ kills = 0
    /\ js = "idle" /\ stopCalls = 0 /\ stopGaveUp = FALSE
-----------------------------------------------------------------------------
(* The Android system, as the code relies on it.                           *)

\* startService: reach the current object, or create one.
StartService(kind, dns, call) ==
    LET o == IF current = None THEN created + 1 ELSE current IN
    /\ o \in Object
    /\ current' = o
    /\ created' = IF current = None THEN created + 1 ELSE created
    /\ startRequested' = TRUE
    /\ lastStartId' = lastStartId + 1
    /\ mainQueue' = Append(mainQueue, [kind |-> kind, object |-> o,
                        startId |-> lastStartId + 1, dns |-> dns, call |-> call])

\* stopSelf(startId): refused when a later command was sent to the object.
StopSelf(o, startId) ==
    startRequested' = (startRequested /\ ~(o = current /\ startId = lastStartId))

\* stopSelf(): whatever was sent since.
StopSelfNow(o) == startRequested' = (startRequested /\ o # current)

PostDestroy ==
    /\ mainQueue' = Append(mainQueue, [kind |-> "destroy", object |-> current,
                                       startId |-> 0, dns |-> NoDns, call |-> None])
    /\ current' = None
    /\ UNCHANGED <<created, startRequested, lastStartId>>

\* The live VPN interface, by its descriptor.  It may outlive the descriptor the service has
\* given up, on the copy that Go keeps.
Interface == IF iface # None THEN iface ELSE kept

\* The system holds a binding to the service while its interface exists, so a
\* service that stopped itself is destroyed once the interface is gone.
BringDown ==
    /\ current # None /\ ~startRequested /\ Interface = None
    /\ PostDestroy
    /\ UNCHANGED <<flagVars, engineVars, busVars, lastEvent, prefVars, tunVars,
                   cmdVars, engineLock, threadVars, pc, netVars, boundVars, jsVars>>

\* Torn down without an explicit STOP.
SystemDestroy ==
    /\ current # None /\ kills < MaxKills
    /\ kills' = kills + 1
    /\ PostDestroy
    /\ UNCHANGED <<flagVars, engineVars, busVars, lastEvent, prefVars, tunVars,
                   cmdVars, engineLock, threadVars, pc, netVars, taps, revokes, jsVars>>

\* Another VPN, or the user in Settings, takes the interface away.  The object
\* that owns it is told by onRevoke, some time later.
SystemRevoke ==
    /\ Interface # None /\ revoking = None /\ revokes < MaxRevokes
    /\ revokes' = revokes + 1
    /\ iface' = None /\ kept' = None
    /\ revoking' = LET o == worker[Interface].object IN IF destroyed[o] THEN None ELSE o
    /\ UNCHANGED <<flagVars, engineVars, busVars, lastEvent, prefVars, tunVars,
                   cmdVars, engineLock, threadVars, pc, amsVars, fd, taps, kills, jsVars>>

\* The tun inbound has unwound, behind an engine that stopped and the bypass it used: some time
\* after the service gave up waiting, if it did.
GoLetsGo ==
    /\ kept # None /\ engineFd # kept
    /\ kept' = None
    /\ UNCHANGED <<flagVars, engineVars, busVars, lastEvent, prefVars, tunVars, cmdVars, engineLock,
                   threadVars, pc, amsVars, iface, fd, revoking, boundVars, jsVars>>

\* The engine stop that was given up on returns after all.
LateEngineStop ==
    /\ Engine!LateStop
    /\ UNCHANGED <<flagVars, busVars, lastEvent, prefVars, tunVars, cmdVars, engineLock,
                   threadVars, pc, amsVars, netVars, boundVars, jsVars>>
-----------------------------------------------------------------------------
(* The main thread: one posted call at a time, in order.                   *)

Head0 == mainQueue[1]
Dequeue == mainQueue' = Tail(mainQueue) /\ UNCHANGED <<current, created, lastStartId>>

\* Start a thread that serves command m on object o.
Spawn(kind, m, dns, o, seq, token) ==
    /\ spawned + 1 \in Worker
    /\ spawned' = spawned + 1
    /\ worker' = [worker EXCEPT ![spawned + 1] =
           [kind |-> kind, object |-> o, seq |-> seq, token |-> token,
            startId |-> m.startId, fromStore |-> m.kind = "startLast", dns |-> dns,
            call |-> m.call, tunFd |-> None, reason |-> "command"]]
    /\ pc' = [pc EXCEPT ![spawned + 1] = "queued"]

\* A quick-connect start replays what is stored by the time it is handled.
CommandDns == IF Head0.kind = "startLast" THEN stored ELSE Head0.dns

\* onStartCommand numbers the command and captures the armed start's token.
Accept(kind, event) ==
    LET m == Head0
        o == m.object
    IN  /\ commandSeq' = [commandSeq EXCEPT ![o] = @ + 1]
        /\ Spawn(kind, m, CommandDns, o, commandSeq[o] + 1, pendingStartToken)
        /\ lastEvent' = event
        /\ Dequeue
        /\ UNCHANGED <<flagVars, engineVars, busVars, prefVars, tunVars, destroyed,
                       tunnelRevoked, engineLock, startRequested, netVars, boundVars, jsVars>>

OnStop ==
    /\ mainQueue # <<>> /\ Head0.kind = "stop"
    /\ Accept("stop", "disconnecting")

OnStart ==
    /\ mainQueue # <<>> /\ Head0.kind \in {"start", "startLast"}
    /\ CommandDns # NoDns
    /\ Accept("start", "connecting")

\* START_LAST with nothing stored: an error, and whatever start is armed is
\* settled with it.
OnStartNoConfig ==
    /\ mainQueue # <<>> /\ Head0.kind = "startLast"
    /\ CommandDns = NoDns
    /\ lastEvent' = "error"
    /\ Bus!ResolveStart(pendingStartToken, FALSE)
    /\ StopSelf(Head0.object, Head0.startId)
    /\ Dequeue
    /\ UNCHANGED <<flagVars, engineVars, prefVars, tunVars, cmdVars, engineLock,
                   threadVars, pc, netVars, boundVars, jsVars>>

\* A faulty variant: a destruction that tears nothing down.
OnDestroyLeavesTunnel ==
    LET o == Head0.object IN
    /\ mainQueue # <<>> /\ Head0.kind = "destroy"
    /\ destroyed' = [destroyed EXCEPT ![o] = TRUE]
    /\ lastEvent' = IF isRunning \/ tunnel[o] # None THEN "disconnected" ELSE lastEvent
    /\ revoking' = IF revoking = o THEN None ELSE revoking
    /\ Dequeue
    /\ UNCHANGED <<flagVars, engineVars, busVars, prefVars, tunVars, commandSeq, threadVars,
                   pc, tunnelRevoked, engineLock, startRequested, iface, fd, kept, boundVars, jsVars>>

OnDestroy ==
    LET o == Head0.object IN
    /\ mainQueue # <<>> /\ Head0.kind = "destroy"
    /\ destroyed' = [destroyed EXCEPT ![o] = TRUE]
    /\ Spawn("destroy", Head0, NoDns, o, 0, None)
    /\ lastEvent' = IF isRunning \/ tunnel[o] # None THEN "disconnected" ELSE lastEvent
    /\ revoking' = IF revoking = o THEN None ELSE revoking
    /\ Dequeue
    /\ UNCHANGED <<flagVars, engineVars, busVars, prefVars, tunVars, commandSeq,
                   tunnelRevoked, engineLock, startRequested, iface, fd, kept, boundVars, jsVars>>

\* onRevoke need not run on the main thread: it happens at any moment.
OnRevoke ==
    LET o == revoking IN
    /\ o # None
    /\ revoking' = None
    /\ commandSeq' = [commandSeq EXCEPT ![o] = @ + 1]
    /\ tunnelRevoked' = [tunnelRevoked EXCEPT ![o] = TRUE]
    /\ Spawn("revoke", [kind |-> "revoke", startId |-> 0, call |-> None], NoDns, o, 0, None)
    /\ UNCHANGED <<flagVars, engineVars, busVars, lastEvent, prefVars, tunVars,
                   destroyed, engineLock, amsVars, iface, fd, kept, boundVars, jsVars>>
-----------------------------------------------------------------------------
(* The workers.                                                            *)

Obj(w) == worker[w].object
Stale(w) == worker[w].seq # commandSeq[Obj(w)]
At(w, label) == pc[w] = label
Goto(w, label) == pc' = [pc EXCEPT ![w] = label]
TakeTun(w, f) == worker' = [worker EXCEPT ![w].tunFd = f]
Because(w, reason) == worker' = [worker EXCEPT ![w].reason = reason]
Enter(w) == /\ engineLock[Obj(w)] = None
            /\ engineLock' = [engineLock EXCEPT ![Obj(w)] = w]
Leave(w) == engineLock' = [engineLock EXCEPT ![Obj(w)] = None]

\* The engine of w has started: Go has its own copy of the descriptor.
GoCopies(w) == kept' = IF worker[w].tunFd = iface THEN iface ELSE kept

\* Everything but the program counter: the steps below say what else changes.
effectVars == <<flagVars, engineVars, busVars, lastEvent, stored, tunVars,
                tunnelRevoked, startRequested, iface, fd, kept>>

-----------------------------------------------------------------------------
(* Faulty variants of the steps below, each a plausible mistake in the code. *)
(* No specification uses them: a run that replaces the step by its variant  *)
(* shows that the properties tell the two apart.                            *)

\* ERR_WEDGED is ignored and the number is closed under a live reader.
DropTunnelCloses(w) ==
    LET o == Obj(w) IN
    /\ At(w, "dropTunnel")
    /\ tunnel' = [tunnel EXCEPT ![o] = None]
    /\ activeDnsServers' = [activeDnsServers EXCEPT ![o] = NoDns]
    /\ isRunning' = FALSE /\ isEngineRunning' = FALSE
    /\ fd' = [f \in Worker |-> IF f = tunnel[o] THEN "closed" ELSE fd[f]]
    /\ iface' = IF iface = tunnel[o] THEN None ELSE iface
    /\ Goto(w, "after")
    /\ UNCHANGED <<outside, engineVars, busVars, lastEvent, stored,
                   tunnelRevoked, engineLock, worker, startRequested, kept>>

\* The stop has no deadline: it returns when the engine lets go.
StopEngineUnbounded(w) ==
    /\ At(w, "stopEngine")
    /\ isEngineRunning' = FALSE
    /\ Engine!StopEngine \/ (Engine!StopEngineWedged /\ ~isWedged)
    /\ Goto(w, IF isWedged' THEN "stopEngine" ELSE "dropTunnel")
    /\ UNCHANGED <<outside, isRunning, busVars, lastEvent, stored, tunVars, tunnelRevoked,
                   engineLock, worker, startRequested, iface, fd, kept>>

\* The handle to close is taken for the handle to reuse.
InstallTunConflates(w) ==
    LET o == Obj(w) IN
    /\ At(w, "install")
    /\ activeDnsServers' = [activeDnsServers EXCEPT ![o] = worker[w].dns]
    /\ tunnel' = [tunnel EXCEPT ![o] = w]
    /\ tunnelRevoked' = [tunnelRevoked EXCEPT ![o] = FALSE]
    /\ isRunning' = TRUE
    /\ fd' = [f \in Worker |-> IF f = tunnel[o] /\ ~tunnelRevoked[o] THEN "closed" ELSE fd[f]]
    /\ Goto(w, "check")
    /\ UNCHANGED <<outside, isEngineRunning, engineVars, busVars, lastEvent,
                   stored, engineLock, worker, startRequested, iface, kept>>

\* A failed start always gives the network back.
DecideFailureReleases(w) ==
    /\ At(w, "fail")
    /\ Goto(w, "error")
    /\ UNCHANGED <<outside, effectVars, engineLock, worker>>

\* The hold is reported as a plain error.
HoldTunnelSaysError(w) ==
    /\ At(w, "hold")
    /\ isEngineRunning' = FALSE
    /\ lastEvent' = "error"
    /\ Bus!ResolveStart(worker[w].token, FALSE)
    /\ Leave(w)
    /\ Goto(w, "done")
    /\ UNCHANGED <<outside, isRunning, engineVars, stored, tunVars, tunnelRevoked,
                   worker, startRequested, iface, fd, kept>>

\* The hold clears isRunning, over a live interface.
HoldTunnelClearsRunning(w) ==
    /\ At(w, "hold")
    /\ isEngineRunning' = FALSE /\ isRunning' = FALSE
    /\ lastEvent' = "blocked"
    /\ Bus!ResolveStart(worker[w].token, FALSE)
    /\ Leave(w)
    /\ Goto(w, "done")
    /\ UNCHANGED <<outside, engineVars, stored, tunVars, tunnelRevoked,
                   worker, startRequested, iface, fd, kept>>

\* The return code of startEngine is not looked at.
StartEngineIgnoresCode(w) ==
    /\ At(w, "engine")
    /\ \/ Engine!StartEngine(worker[w].tunFd) /\ GoCopies(w)
       \/ Engine!StartEngineFails /\ UNCHANGED kept
    /\ Goto(w, "verify")
    /\ UNCHANGED <<outside, flagVars, busVars, lastEvent, stored, tunVars, tunnelRevoked,
                   engineLock, worker, startRequested, iface, fd>>

\* The disconnect is settled before anything was torn down.
StopBeginsSettles(w) ==
    /\ At(w, "queued") /\ worker[w].kind = "stop" /\ ~Stale(w)
    /\ Enter(w)
    /\ Bus!ResolveStop
    /\ Goto(w, "stopEngine")
    /\ UNCHANGED <<outside, flagVars, engineVars, lastEvent, stored, tunVars,
                   tunnelRevoked, worker, startRequested, iface, fd, kept>>

\* The token is read when the start succeeds, not when the command was accepted.
PublishReadsTokenLate(w) ==
    /\ At(w, "publish")
    /\ stored' = IF QuickConnect THEN worker[w].dns ELSE stored
    /\ lastEvent' = "connected"
    /\ Bus!ResolveStart(pendingStartToken, TRUE)
    /\ Leave(w)
    /\ Goto(w, "done")
    /\ UNCHANGED <<outside, flagVars, engineVars, tunVars, tunnelRevoked, worker,
                   startRequested, iface, fd, kept>>

\* A held start is reported to the stream only.
HoldTunnelForgets(w) ==
    /\ At(w, "hold")
    /\ isEngineRunning' = FALSE
    /\ lastEvent' = "blocked"
    /\ Leave(w)
    /\ Goto(w, "done")
    /\ UNCHANGED <<outside, isRunning, engineVars, busVars, stored, tunVars, tunnelRevoked,
                   worker, startRequested, iface, fd, kept>>

\* An overtaken command just leaves.
SupersededLeaves(w) ==
    /\ At(w, "queued") /\ engineLock[Obj(w)] = None
    /\ Stale(w) /\ worker[w].kind \in {"start", "stop"}
    /\ Goto(w, "done")
    /\ UNCHANGED <<outside, effectVars, engineLock, worker>>
-----------------------------------------------------------------------------
(* What the threads do.                                                    *)

\* A command overtaken while it queued.  A start settles its promise, a stop
\* settles the disconnect, and neither touches the engine.
StartSuperseded(w) ==
    /\ At(w, "queued") /\ worker[w].kind = "start" /\ engineLock[Obj(w)] = None
    /\ Stale(w)
    /\ Bus!ResolveStart(worker[w].token, FALSE)
    /\ Goto(w, "done")
    /\ UNCHANGED <<outside, flagVars, engineVars, lastEvent, stored, tunVars,
                   tunnelRevoked, engineLock, worker, startRequested, iface, fd, kept>>

StopSuperseded(w) ==
    /\ At(w, "queued") /\ worker[w].kind = "stop" /\ engineLock[Obj(w)] = None
    /\ Stale(w)
    /\ Bus!ResolveStop
    /\ Goto(w, "done")
    /\ UNCHANGED <<outside, flagVars, engineVars, lastEvent, stored, tunVars,
                   tunnelRevoked, engineLock, worker, startRequested, iface, fd, kept>>

StartBegins(w) ==
    /\ At(w, "queued") /\ worker[w].kind = "start" /\ ~Stale(w)
    /\ Enter(w)
    /\ isEngineRunning' = FALSE
    /\ Goto(w, "halt")
    /\ UNCHANGED <<outside, isRunning, engineVars, busVars, lastEvent, stored,
                   tunVars, tunnelRevoked, worker, startRequested, iface, fd, kept>>

StopBegins(w) ==
    /\ At(w, "queued") /\ worker[w].kind = "stop" /\ ~Stale(w)
    /\ Enter(w)
    /\ Bus!ResolveStart(worker[w].token, FALSE)
    /\ Goto(w, "stopEngine")
    /\ UNCHANGED <<outside, flagVars, engineVars, lastEvent, stored, tunVars,
                   tunnelRevoked, worker, startRequested, iface, fd, kept>>

\* A revocation and a destruction are never superseded.
TeardownBegins(w) ==
    /\ At(w, "queued") /\ worker[w].kind \in {"revoke", "destroy"}
    /\ Enter(w)
    /\ Goto(w, "stopEngine")
    /\ UNCHANGED <<outside, effectVars, worker>>

\* runStart: stop the previous engine first.
Halt(w) ==
    /\ At(w, "halt")
    /\ \/ Engine!StopEngine /\ Goto(w, "tun")
       \/ Engine!StopEngineWedged /\ Goto(w, "fail")
    /\ UNCHANGED <<outside, flagVars, busVars, lastEvent, stored, tunVars, tunnelRevoked,
                   engineLock, worker, startRequested, iface, fd, kept>>

Reusable(w) == /\ tunnel[Obj(w)] # None /\ ~tunnelRevoked[Obj(w)]
               /\ activeDnsServers[Obj(w)] = worker[w].dns

\* A server switch keeps the descriptor it has.
ReuseTun(w) ==
    /\ At(w, "tun") /\ Reusable(w)
    /\ TakeTun(w, tunnel[Obj(w)])
    /\ Goto(w, "check")
    /\ UNCHANGED <<outside, effectVars, engineLock>>

\* setupVpn: the system replaces the old interface by the new one atomically ...
Establish(w) ==
    /\ At(w, "tun") /\ ~Reusable(w)
    /\ fd' = [fd EXCEPT ![w] = "open"]
    /\ iface' = w /\ kept' = None
    /\ TakeTun(w, w)
    /\ Goto(w, "install")
    /\ UNCHANGED <<outside, flagVars, engineVars, busVars, lastEvent, stored,
                   tunVars, tunnelRevoked, engineLock, startRequested>>

\* ... or establish() returns null, or throws.
EstablishFails(w) ==
    /\ At(w, "tun") /\ ~Reusable(w)
    /\ Goto(w, "fail")
    /\ UNCHANGED <<outside, effectVars, engineLock, worker>>

\* ... then the new descriptor is installed and the old one closed.
InstallTun(w) ==
    LET o == Obj(w)
        previous == tunnel[o]
    IN  /\ At(w, "install")
        /\ activeDnsServers' = [activeDnsServers EXCEPT ![o] = worker[w].dns]
        /\ tunnel' = [tunnel EXCEPT ![o] = w]
        /\ tunnelRevoked' = [tunnelRevoked EXCEPT ![o] = FALSE]
        /\ isRunning' = TRUE
        /\ fd' = [f \in Worker |-> IF f = previous THEN "closed" ELSE fd[f]]
        /\ Goto(w, "check")
        /\ UNCHANGED <<outside, isEngineRunning, engineVars, busVars, lastEvent,
                       stored, engineLock, worker, startRequested, iface, kept>>

\* Destroyed while establishing: nothing will ever read this interface.
CheckDestroyed(w) ==
    /\ At(w, "check")
    /\ \/ /\ destroyed[Obj(w)]
          /\ Because(w, "destroyed")
          /\ Goto(w, "stopEngine")
       \/ /\ ~destroyed[Obj(w)]
          /\ Goto(w, IF worker[w].fromStore THEN "bypass" ELSE "engine")
          /\ UNCHANGED worker
    /\ UNCHANGED <<outside, effectVars, engineLock>>

\* A start without JS brings the stored bypass up first; it may fail to start.
StartBypass(w) ==
    /\ At(w, "bypass")
    /\ Goto(w, "engine") \/ Goto(w, "fail")
    /\ UNCHANGED <<outside, effectVars, engineLock, worker>>

\* A start that cannot return holds engineLock, and nothing can be done but to end the process.
StartEngine(w) ==
    /\ At(w, "engine")
    /\ \/ Engine!StartEngine(worker[w].tunFd) /\ GoCopies(w) /\ Goto(w, "verify")
       \/ Engine!StartEngineFails /\ UNCHANGED kept /\ Goto(w, "fail")
    /\ UNCHANGED <<outside, flagVars, busVars, lastEvent, stored, tunVars, tunnelRevoked,
                   engineLock, worker, startRequested, iface, fd>>

\* A command or a destruction that landed while the engine was starting wins.
Verify(w) ==
    /\ At(w, "verify")
    /\ isEngineRunning' = TRUE
    /\ \/ /\ ~Stale(w) /\ ~destroyed[Obj(w)]
          /\ Goto(w, "publish")
          /\ UNCHANGED <<busVars, engineLock, worker>>
       \/ /\ destroyed[Obj(w)]
          /\ Bus!ResolveStart(worker[w].token, FALSE)
          /\ Because(w, "superseded")
          /\ Goto(w, "stopEngine")
          /\ UNCHANGED engineLock
       \/ /\ Stale(w) /\ ~destroyed[Obj(w)]
          /\ Bus!ResolveStart(worker[w].token, FALSE)
          /\ Leave(w)
          /\ Goto(w, "done")
          /\ UNCHANGED worker
    /\ UNCHANGED <<outside, isRunning, engineVars, lastEvent, stored, tunVars,
                   tunnelRevoked, startRequested, iface, fd, kept>>

Publish(w) ==
    /\ At(w, "publish")
    /\ stored' = IF QuickConnect THEN worker[w].dns ELSE stored
    /\ lastEvent' = "connected"
    /\ Bus!ResolveStart(worker[w].token, TRUE)
    /\ Leave(w)
    /\ Goto(w, "done")
    /\ UNCHANGED <<outside, flagVars, engineVars, tunVars, tunnelRevoked, worker,
                   startRequested, iface, fd, kept>>

\* handleStartFailure: hold the tunnel, or give the network back?
DecideFailure(w) ==
    LET o == Obj(w) IN
    /\ At(w, "fail")
    /\ Goto(w, IF killSwitch /\ tunnel[o] # None /\ ~tunnelRevoked[o] /\ ~destroyed[o]
               THEN "hold" ELSE "error")
    /\ UNCHANGED <<outside, effectVars, engineLock, worker>>

HoldTunnel(w) ==
    /\ At(w, "hold")
    /\ isEngineRunning' = FALSE
    /\ lastEvent' = "blocked"
    /\ Bus!ResolveStart(worker[w].token, FALSE)
    /\ Leave(w)
    /\ Goto(w, "done")
    /\ UNCHANGED <<outside, isRunning, engineVars, stored, tunVars, tunnelRevoked,
                   worker, startRequested, iface, fd, kept>>

ReportError(w) ==
    /\ At(w, "error")
    /\ lastEvent' = "error"
    /\ Bus!ResolveStart(worker[w].token, FALSE)
    /\ Because(w, "failed")
    /\ Goto(w, "stopEngine")
    /\ UNCHANGED <<outside, flagVars, engineVars, stored, tunVars, tunnelRevoked,
                   engineLock, startRequested, iface, fd, kept>>

\* teardown, and the same calls in the STOP worker: the bypass and the engine
\* are stopped, with a deadline each, before the descriptor is given up.
StopEngineBounded(w) ==
    /\ At(w, "stopEngine")
    /\ isEngineRunning' = FALSE
    /\ Engine!StopEngine \/ Engine!StopEngineWedged
    /\ Goto(w, "dropTunnel")
    /\ UNCHANGED <<outside, isRunning, busVars, lastEvent, stored, tunVars, tunnelRevoked,
                   engineLock, worker, startRequested, iface, fd, kept>>

\* A descriptor a wedged engine may still use is parked on /dev/null, not closed.  The interface
\* goes with it, or once Go lets go of its own copy.
DropTunnel(w) ==
    LET o == Obj(w)
        pfd == tunnel[o]
    IN  /\ At(w, "dropTunnel")
        /\ tunnel' = [tunnel EXCEPT ![o] = None]
        /\ activeDnsServers' = [activeDnsServers EXCEPT ![o] = NoDns]
        /\ isRunning' = FALSE /\ isEngineRunning' = FALSE
        /\ fd' = [f \in Worker |->
                     IF f = pfd THEN IF isWedged THEN "parked" ELSE "closed" ELSE fd[f]]
        /\ iface' = IF iface = pfd THEN None ELSE iface
        /\ Goto(w, "after")
        /\ UNCHANGED <<outside, engineVars, busVars, lastEvent, stored,
                       tunnelRevoked, engineLock, worker, startRequested, kept>>

\* What each command does once the tunnel is down.
AfterStart(w) ==
    /\ At(w, "after") /\ worker[w].kind = "start"
    /\ IF worker[w].reason = "destroyed"
       THEN Bus!ResolveStart(worker[w].token, FALSE)
       ELSE UNCHANGED busVars
    /\ IF worker[w].reason = "failed"
       THEN StopSelf(Obj(w), worker[w].startId)
       ELSE UNCHANGED startRequested
    /\ Leave(w)
    /\ Goto(w, "done")
    /\ UNCHANGED <<outside, flagVars, engineVars, lastEvent, stored, tunVars,
                   tunnelRevoked, worker, iface, fd, kept>>

AfterStop(w) ==
    /\ At(w, "after") /\ worker[w].kind \in {"stop", "revoke"}
    /\ lastEvent' = "disconnected"
    /\ Bus!ResolveStop
    /\ IF worker[w].kind = "stop"
       THEN StopSelf(Obj(w), worker[w].startId)
       ELSE StopSelfNow(Obj(w))
    /\ Leave(w)
    /\ Goto(w, "done")
    /\ UNCHANGED <<outside, flagVars, engineVars, stored, tunVars, tunnelRevoked,
                   worker, iface, fd, kept>>

AfterDestroy(w) ==
    /\ At(w, "after") /\ worker[w].kind = "destroy"
    /\ Leave(w)
    /\ Goto(w, "settle")
    /\ UNCHANGED <<outside, effectVars, worker>>

SettleStop(w) ==
    /\ At(w, "settle")
    /\ Bus!ResolveStop
    /\ Goto(w, "done")
    /\ UNCHANGED <<outside, flagVars, engineVars, lastEvent, stored, tunVars,
                   tunnelRevoked, engineLock, worker, startRequested, iface, fd, kept>>

WorkerStep(w) ==
    \/ StartSuperseded(w) \/ StopSuperseded(w)
    \/ StartBegins(w) \/ StopBegins(w) \/ TeardownBegins(w)
    \/ Halt(w) \/ ReuseTun(w) \/ Establish(w) \/ EstablishFails(w) \/ InstallTun(w)
    \/ CheckDestroyed(w) \/ StartBypass(w) \/ StartEngine(w) \/ Verify(w) \/ Publish(w)
    \/ DecideFailure(w) \/ HoldTunnel(w) \/ ReportError(w)
    \/ StopEngineBounded(w) \/ DropTunnel(w)
    \/ AfterStart(w) \/ AfterStop(w) \/ AfterDestroy(w) \/ SettleStop(w)
-----------------------------------------------------------------------------
(* The JS caller.  XrayClient awaits each startXray and stopXray before it  *)
(* makes the next call; a stop is awaited for at most STOP_TIMEOUT_MS.      *)

ThisStart == startTokenSeq
ThisStop  == MaxStarts + stopCalls

JsFree == /\ js = "idle"
          /\ pendingStart = None
          /\ pendingStop = None \/ stopGaveUp

notJs == <<flagVars, engineVars, lastEvent, prefVars, tunVars, cmdVars, engineLock,
           threadVars, pc, netVars, boundVars>>

JsStart ==
    /\ JsFree /\ startTokenSeq + 1 \in StartCall
    /\ Bus!SetPendingStart(startTokenSeq + 1)
    /\ js' = "startArmed"
    /\ UNCHANGED <<notJs, amsVars, stopCalls, stopGaveUp>>

JsSendStart ==
    /\ js = "startArmed" /\ js' = "idle"
    /\ StartService("start", DefaultDns, ThisStart)
    /\ UNCHANGED <<notJs, busVars, stopCalls, stopGaveUp>>

\* startService throws: the promise is rejected by its own caller.
JsStartRefused ==
    /\ js = "startArmed" /\ js' = "idle"
    /\ Bus!ResolveStart(tokenOf[ThisStart], FALSE)
    /\ UNCHANGED <<notJs, amsVars, stopCalls, stopGaveUp>>

JsStop ==
    /\ JsFree /\ stopCalls < MaxStops
    /\ stopCalls' = stopCalls + 1
    /\ stopGaveUp' = FALSE
    /\ Bus!SetPendingStop(MaxStarts + stopCalls + 1)
    /\ js' = "stopArmed"
    /\ UNCHANGED <<notJs, amsVars>>

JsSendStop ==
    /\ js = "stopArmed" /\ js' = "idle"
    /\ StartService("stop", NoDns, None)
    /\ UNCHANGED <<notJs, busVars, stopCalls, stopGaveUp>>

\* startService throws, or nothing reported the teardown in time: the caller
\* goes on, and the completion stays in the slot with nobody behind it.
JsStopGivesUp ==
    /\ js' = "idle"
    /\ ~stopGaveUp /\ pendingStop = ThisStop
    /\ stopGaveUp' = TRUE
    /\ UNCHANGED <<notJs, busVars, amsVars, stopCalls>>

SetKillSwitch ==
    /\ TogglesKillSwitch /\ JsFree
    /\ killSwitch' = ~killSwitch
    /\ UNCHANGED <<flagVars, engineVars, busVars, lastEvent, stored, tunVars, cmdVars,
                   engineLock, threadVars, pc, amsVars, netVars, boundVars, jsVars>>

\* "Call it on sign-out, after disconnect()."
ClearStoredConfig ==
    /\ JsFree /\ stopCalls > 0 /\ stored # NoDns
    /\ stored' = NoDns
    /\ UNCHANGED <<flagVars, engineVars, busVars, lastEvent, killSwitch, tunVars,
                   cmdVars, engineLock, threadVars, pc, amsVars, netVars, boundVars, jsVars>>

\* A widget, a tile or the notification's button dispatches an intent, no promise.
\* So may the host app, and only its own START can carry the DNS_SERVERS extra.
Tap ==
    /\ taps < MaxTaps
    /\ taps' = taps + 1
    /\ \/ StartService("stop", NoDns, None)
       \/ StartService("startLast", NoDns, None)
       \/ \E dns \in DnsServers \ {DefaultDns} : StartService("start", dns, None)
    /\ UNCHANGED <<flagVars, engineVars, busVars, lastEvent, prefVars, tunVars, cmdVars,
                   engineLock, threadVars, pc, netVars, revokes, kills, jsVars>>
-----------------------------------------------------------------------------
MainThread == OnStop \/ OnStart \/ OnStartNoConfig \/ OnDestroy
Caller == \/ JsStart \/ JsSendStart \/ JsStartRefused \/ JsStop \/ JsSendStop \/ JsStopGivesUp
          \/ SetKillSwitch \/ ClearStoredConfig \/ Tap
System == BringDown \/ SystemDestroy \/ SystemRevoke \/ OnRevoke \/ GoLetsGo \/ LateEngineStop

Next == \/ Caller \/ System \/ MainThread
        \/ \E w \in Worker : WorkerStep(w)

Spec == Init /\ [][Next]_vars

\* A start of the engine or of the bypass, which has no deadline.
InsideGo(w) == pc[w] \in {"bypass", "engine"}

\* The main thread serves its queue, every thread that can run does, outside of Go, the
\* system delivers a revocation, and the caller that armed a promise sends the intent.
\* Nothing is assumed of the user, of Go, of the timeouts, or of the rest of the system.
Fairness ==
    /\ WF_vars(MainThread) /\ WF_vars(OnRevoke)
    /\ WF_vars(JsSendStart \/ JsStartRefused) /\ WF_vars(JsSendStop)
    /\ \A w \in Worker : WF_vars(~InsideGo(w) /\ WorkerStep(w))

FairSpec == Spec /\ Fairness
-----------------------------------------------------------------------------
(* Safety.                                                                 *)

\* The engine never reads a descriptor whose number the process may hand to
\* another socket: it is closed only once the engine let go of it, and parked
\* when the engine may never let go.
NoClosedFdInUse == engineFd # None => fd[engineFd] \in {"open", "parked"}

Working(o) == \E w \in Worker : Obj(w) = o /\ pc[w] \notin {"none", "done", "settle"}

\* No descriptor is leaked: an open one (it keeps the interface, and the key
\* icon, alive) is owned by a service object, or by the worker installing it.
NoDescriptorLeak ==
    \A f \in Worker : fd[f] = "open" => pc[f] = "install" \/ tunnel[Obj(f)] = f

\* A destroyed service object leaves no tunnel behind once its threads are done,
\* however its destruction fell into a start.
DestroyedLeavesNoTunnel ==
    \A o \in Object : destroyed[o] /\ ~Working(o) => tunnel[o] = None

\* At rest: nothing posted, nothing running, nothing on its way.
AtRest == /\ mainQueue = <<>> /\ revoking = None
          /\ \A w \in Worker : pc[w] \in {"none", "done"}

\* The flags the app reconciles with describe the tunnel the service holds, and the engine.
FlagsTruthful ==
    AtRest => /\ isRunning <=> iface # None
              /\ isEngineRunning <=> engineFd # None /\ ~isWedged

\* The last state the stream delivered is the state the device is left in:
\* "connected" over an engine that serves the live interface, "blocked" over a
\* held interface, anything final over none that the service holds (Go's own copy of the
\* descriptor may keep it alive a while), and never an unfinished "...ing".
StreamTruthful ==
    AtRest =>
        /\ lastEvent = "connected" => engineFd # None /\ engineFd = iface
        /\ lastEvent = "blocked" => iface # None /\ (engineFd = None \/ isWedged)
        /\ lastEvent \in {"none", "error", "disconnected"} => iface = None
        /\ lastEvent \notin {"connecting", "disconnecting"}

\* Somebody will settle every promise that is armed.  A start: its caller, which
\* has the intent still to send; the intent, in the queue; or the command that
\* captured its token and has not reported yet, unless it is on the way out of a
\* destruction it found, which reports last.  A stop: its caller, the intent of a
\* stop, or a command to stop that is not done.
StartOwed(w) ==
    /\ worker[w].kind = "start" /\ worker[w].token = pendingStartToken
    /\ \/ pc[w] \in {"queued", "halt", "tun", "install", "check", "bypass", "engine",
                      "verify", "publish", "fail", "hold", "error"}
       \/ pc[w] \in {"stopEngine", "dropTunnel", "after"} /\ worker[w].reason = "destroyed"

StopOwed(w) == worker[w].kind = "stop" /\ pc[w] \notin {"none", "done"}

PromisesOwed ==
    /\ pendingStart # None =>
           \/ js = "startArmed"
           \/ \E i \in DOMAIN mainQueue : /\ mainQueue[i].kind = "start"
                                          /\ mainQueue[i].call = pendingStart
           \/ \E w \in Worker : StartOwed(w)
    /\ pendingStop # None /\ ~stopGaveUp =>
           \/ js = "stopArmed"
           \/ \E i \in DOMAIN mainQueue : mainQueue[i].kind = "stop"
           \/ \E w \in Worker : StopOwed(w)

\* Nothing but the user, the system or the end of the service opens the network
\* while the kill switch is on: not a switch between servers, not an engine or
\* an establish() that fails.
CaptureNeverLapses ==
    [][killSwitch /\ iface # None /\ iface' = None =>
           \/ revokes' > revokes
           \/ \E w \in Worker :
                 /\ pc[w] = "dropTunnel" /\ pc'[w] = "after"
                 /\ \/ worker[w].kind # "start"
                    \/ destroyed[Obj(w)] \/ tunnelRevoked[Obj(w)]]_vars

\* connect() resolves over the running engine it started, on the live interface,
\* unless the system has taken that interface away, or destroyed the service, since
\* the START was accepted.
ConnectHonest ==
    [][\A w \in Worker, c \in StartCall :
           /\ startPromise[c] = "armed" /\ startPromise'[c] = "ok"
           /\ pc[w] = "publish" /\ pc'[w] = "done"
           => /\ engineFd # None /\ engineFd = worker[w].tunFd
              /\ \/ engineFd = iface
                 \/ revoking # None \/ destroyed[Obj(w)]
                 \/ \E v \in Worker : /\ v > w /\ worker[v].kind = "revoke"
                                       /\ pc[v] = "queued"]_vars

\* Some START was accepted after every STOP so far.
StartIsNewest ==
    \E w \in 1..spawned :
        /\ worker[w].kind = "start"
        /\ \A v \in 1..spawned : worker[v].kind = "stop" => v < w

\* disconnect() resolves when the service has given its tunnel up, unless a newer start took over.
DisconnectHonest ==
    [][\A c \in StopCall : stopPromise[c] = "armed" /\ stopPromise'[c] = "done" =>
           iface' = None \/ StartIsNewest]_vars

\* After a sign-out, only a connect() of the app stores a connection again.
SignOutDisarms ==
    [][stored = NoDns /\ stored' # NoDns =>
           \E c \in StartCall : startPromise[c] = "armed"]_vars

\* Every use the service makes of the bus is one XrayStateBus allows for: what
\* that module promises of the promises holds here.
ImplementsBus == Bus!Spec
-----------------------------------------------------------------------------
(* Liveness, under FairSpec.                                               *)

\* Every start that goes into Go comes back.
StartsReturn == \A w \in Worker : []<>~InsideGo(w)

\* connect() never hangs, as long as the starts in Go return: the engine's report, a failure or
\* a newer command settles it.
ConnectSettles ==
    StartsReturn =>
        \A c \in StartCall : startPromise[c] = "armed" ~> startPromise[c] # "armed"

\* disconnect() is settled by the service itself, without its caller's timeout,
\* once the intent was sent and as long as the starts in Go return.
DisconnectSettles ==
    StartsReturn =>
        \A c \in StopCall : stopPromise[c] = "armed" /\ ~stopGaveUp /\ js = "idle"
                                ~> stopPromise[c] # "armed" \/ stopGaveUp

\* An accepted STOP gives the tunnel up unless a newer command or a revocation takes over, even
\* when the stop of the engine never returns, as long as the starts in Go do; and the network is
\* back unless Go keeps its own copy of the descriptor forever.
StopReleasesTunnel ==
    \A w \in Worker :
        LET accepted == pc[w] = "queued" /\ worker[w].kind = "stop"
            overtaken == pc[w] # "none" /\ Stale(w)
        IN  /\ StartsReturn => (accepted ~> iface = None \/ overtaken)
            /\ StartsReturn /\ []<>(kept = None) => (accepted ~> Interface = None \/ overtaken)
=============================================================================
