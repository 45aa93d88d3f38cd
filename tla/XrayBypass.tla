----------------------------- MODULE XrayBypass -----------------------------
(***************************************************************************)
(* The olcrtc side-channel on Android: the bypass half of XrayEngine.kt in *)
(* front of olcrtc.go, and those who use it.                               *)
(*                                                                         *)
(* Go guards nothing; olcrtcLock does.  A start waits for it and holds it  *)
(* through a handshake of tens of seconds.  A stop that finds it taken     *)
(* does nothing.  A reader that finds it taken answers from the mirrors    *)
(* the last start or stop published.                                       *)
(*                                                                         *)
(* JS serialises its calls (lock.ts), but reads whenever it likes.  The    *)
(* service runs one command at a time (engineLock, see XrayVpnService) and *)
(* is reduced here to what it does with the bypass: bring it up for a      *)
(* start without JS, store its configuration with a start that succeeded,  *)
(* stop it in a thread that a teardown joins for BYPASS_STOP_TIMEOUT_MS.   *)
(***************************************************************************)
EXTENDS Naturals

CONSTANTS Config, NoConfig,  (* olcrtc client configurations; none           *)
          Unparsable,        (* those that StartOlcrtc cannot parse          *)
          Port,              (* the SOCKS port each of them asks for         *)
          Stopper, NoThread, (* the olcrtc-stop threads; nobody              *)
          Retries,           (* attempts of a start                          *)
          MaxCalls, MaxTaps  (* bounds: calls of JS, commands without JS     *)

ASSUME BypassAssumption ==
    /\ NoConfig \notin Config /\ Unparsable \subseteq Config
    /\ Port \in [Config -> Nat \ {0}]
    /\ Stopper \cap {NoThread, "io", "js", "service"} = {}
    /\ NoThread \notin {"io", "js", "service"}
    /\ Retries \in Nat \ {0} /\ MaxCalls \in Nat /\ MaxTaps \in Nat

\* A thread of the IO dispatcher that runs the call JS awaits, the JS thread
\* itself, the worker of the service, and the threads that stop the bypass.
Thread == {"io", "js", "service"} \cup Stopper

VARIABLES
    client,            \* Go: the configuration of the client that runs, or NoConfig
    olcrtcSocksPort,   \* Go: the port recorded by the last start that succeeded
    bypassRunning, bypassPort,  \* the mirrors
    lastBypassConfig,
    olcrtcLock,        \* the thread that holds it, or NoThread
    pc,                \* where each thread is in its call of XrayEngine
    config,            \* what each thread starts
    attempt,           \* the attempts each of them has left
    result,            \* what its last start returned
    jsOp,              \* what JS awaits
    svc,               \* where the service is in its command
    chained,           \* whether the start it serves goes through the bypass
    joined,            \* the stop thread its teardown waits for
    stored,            \* QuickConnectStore
    calls, taps

goVars     == <<client, olcrtcSocksPort>>
mirrorVars == <<bypassRunning, bypassPort, lastBypassConfig>>
callVars   == <<pc, config, attempt, result>>
gateVars   == <<goVars, mirrorVars, olcrtcLock, callVars>>
svcVars    == <<svc, chained, joined, stored>>
vars       == <<gateVars, jsOp, svcVars, calls, taps>>

NothingStored == [xray |-> FALSE, chained |-> FALSE, olcrtc |-> NoConfig]

TypeOK ==
    /\ client \in Config \cup {NoConfig} /\ olcrtcSocksPort \in Nat
    /\ bypassRunning \in BOOLEAN /\ bypassPort \in Nat
    /\ lastBypassConfig \in Config \cup {NoConfig}
    /\ olcrtcLock \in Thread \cup {NoThread}
    /\ pc \in [Thread -> {"idle", "lock", "attempt", "ready", "stopGo", "refresh", "done"}]
    /\ config \in [Thread -> Config \cup {NoConfig}]
    /\ attempt \in [Thread -> 0..Retries]
    /\ result \in [Thread -> {0, 1, 2, 3}]
    /\ jsOp \in {"none", "startOlcrtc", "stopOlcrtc", "direct", "only", "sent", "sentChained",
               "start", "disconnect"}
    /\ svc \in {"idle", "peek", "bypass", "engine", "failed", "join"}
    /\ chained \in BOOLEAN
    /\ joined \in Stopper \cup {NoThread}
    /\ stored \in [xray : BOOLEAN, chained : BOOLEAN, olcrtc : Config \cup {NoConfig}]
    /\ calls \in Nat /\ taps \in Nat

Init ==
    /\ client = NoConfig /\ olcrtcSocksPort = 0
    /\ bypassRunning = FALSE /\ bypassPort = 0 /\ lastBypassConfig = NoConfig
    /\ olcrtcLock = NoThread
    /\ pc = [t \in Thread |-> "idle"]
    /\ config = [t \in Thread |-> NoConfig]
    /\ attempt = [t \in Thread |-> 0]
    /\ result = [t \in Thread |-> 0]
    /\ jsOp = "none"
    /\ svc = "idle" /\ chained = FALSE /\ joined = NoThread
    /\ stored = NothingStored
    /\ calls = 0 /\ taps = 0
-----------------------------------------------------------------------------
(* XrayEngine and olcrtc.go.  A result is the negated code.                *)

Goto(t, label) == pc' = [pc EXCEPT ![t] = label]

GetOlcrtcSocksPort(running, port) == IF running = NoConfig THEN 0 ELSE port

\* Both mirrors follow Go; whoever does this holds olcrtcLock.
Mirror == /\ bypassRunning' = (client' # NoConfig)
          /\ bypassPort' = GetOlcrtcSocksPort(client', olcrtcSocksPort')

CallStart(t, cfg) ==
    /\ pc[t] = "idle"
    /\ Goto(t, "lock")
    /\ config' = [config EXCEPT ![t] = cfg]
    /\ UNCHANGED <<goVars, mirrorVars, olcrtcLock, attempt, result>>

\* A faulty variant: the mirrors follow a start that succeeds only.
StartReturnsUnlessFailed(t, code) ==
    /\ IF code = 0 THEN Mirror ELSE UNCHANGED <<bypassRunning, bypassPort>>
    /\ lastBypassConfig' = IF code = 0 THEN config[t] ELSE lastBypassConfig
    /\ olcrtcLock' = NoThread
    /\ Goto(t, "done")
    /\ result' = [result EXCEPT ![t] = code]

StartReturns(t, code) ==
    /\ Mirror
    /\ lastBypassConfig' = IF code = 0 THEN config[t] ELSE lastBypassConfig
    /\ olcrtcLock' = NoThread
    /\ Goto(t, "done")
    /\ result' = [result EXCEPT ![t] = code]

\* What cannot be parsed leaves the client that runs alone; anything else begins by
\* stopping it.
StartEnters(t) ==
    /\ pc[t] = "lock" /\ olcrtcLock = NoThread
    /\ UNCHANGED <<olcrtcSocksPort, config>>
    /\ IF config[t] \in Unparsable
       THEN /\ UNCHANGED <<client, attempt>>
            /\ StartReturns(t, 1)
       ELSE /\ client' = NoConfig
            /\ attempt' = [attempt EXCEPT ![t] = Retries]
            /\ olcrtcLock' = t
            /\ Goto(t, "attempt")
            /\ UNCHANGED <<mirrorVars, result>>

\* An attempt failed, and there may be another.
AttemptFails(t, code) ==
    /\ attempt' = [attempt EXCEPT ![t] = @ - 1]
    /\ client' = NoConfig /\ UNCHANGED olcrtcSocksPort
    /\ IF attempt[t] = 1
       THEN StartReturns(t, code)
       ELSE Goto(t, "attempt") /\ UNCHANGED <<mirrorVars, olcrtcLock, result>>

Attempt(t) ==
    /\ pc[t] = "attempt"
    /\ \/ AttemptFails(t, 2)
       \/ /\ client' = config[t]
          /\ Goto(t, "ready")
          /\ UNCHANGED <<olcrtcSocksPort, mirrorVars, olcrtcLock, attempt, result>>
    /\ UNCHANGED config

WaitReady(t) ==
    /\ pc[t] = "ready"
    /\ \/ AttemptFails(t, 3)
       \/ /\ olcrtcSocksPort' = Port[config[t]]
          /\ UNCHANGED <<client, attempt>>
          /\ StartReturns(t, 0)
    /\ UNCHANGED config

\* A faulty variant: the mirrors are left for the end.
StopEntersSilently(t) ==
    IF olcrtcLock = NoThread
    THEN /\ olcrtcLock' = t
         /\ Goto(t, "stopGo")
         /\ UNCHANGED <<goVars, mirrorVars, config, attempt, result>>
    ELSE /\ Goto(t, "done")
         /\ UNCHANGED <<goVars, mirrorVars, olcrtcLock, config, attempt, result>>

\* stopBypass: if the lock is taken, there is nothing to do.
StopEnters(t) ==
    IF olcrtcLock = NoThread
    THEN /\ olcrtcLock' = t
         /\ bypassRunning' = FALSE /\ bypassPort' = 0
         /\ Goto(t, "stopGo")
         /\ UNCHANGED <<goVars, lastBypassConfig, config, attempt, result>>
    ELSE /\ Goto(t, "done")
         /\ UNCHANGED <<goVars, mirrorVars, olcrtcLock, config, attempt, result>>

StopReturns(t) ==
    /\ pc[t] = "stopGo"
    /\ client' = NoConfig /\ olcrtcSocksPort' = 0
    /\ Mirror
    /\ olcrtcLock' = NoThread
    /\ Goto(t, "done")
    /\ UNCHANGED <<lastBypassConfig, config, attempt, result>>

\* refreshBypassStateIfFree, in front of every reader.
Refresh(t) ==
    /\ pc[t] = "idle"
    /\ IF olcrtcLock = NoThread
       THEN olcrtcLock' = t /\ Goto(t, "refresh")
       ELSE Goto(t, "done") /\ UNCHANGED olcrtcLock
    /\ UNCHANGED <<goVars, mirrorVars, config, attempt, result>>

RefreshReturns(t) ==
    /\ pc[t] = "refresh"
    /\ UNCHANGED <<goVars, lastBypassConfig, config, attempt, result>>
    /\ Mirror
    /\ olcrtcLock' = NoThread
    /\ Goto(t, "done")

Returned(t) ==
    /\ pc[t] = "done"
    /\ Goto(t, "idle")
    /\ UNCHANGED <<goVars, mirrorVars, olcrtcLock, config, attempt, result>>

InGate(t) == \/ StartEnters(t) \/ Attempt(t) \/ WaitReady(t)
             \/ StopReturns(t) \/ RefreshReturns(t)
GateStep(t) == InGate(t) /\ UNCHANGED <<jsOp, svcVars, calls, taps>>
-----------------------------------------------------------------------------
(* JS, and the client library in front of it.                              *)

Call(op) == calls < MaxCalls /\ calls' = calls + 1 /\ jsOp' = op /\ UNCHANGED taps

\* A faulty variant: calls are not serialised.
JsFreeAlways == TRUE

JsFree == jsOp = "none"

StartOlcrtc ==
    /\ JsFree /\ Call("startOlcrtc")
    /\ \E cfg \in Config : CallStart("io", cfg)
    /\ UNCHANGED svcVars

StopOlcrtc ==
    /\ JsFree /\ Call("stopOlcrtc")
    /\ pc["io"] = "idle" /\ StopEnters("io")
    /\ UNCHANGED svcVars

OlcrtcSettles ==
    /\ jsOp \in {"startOlcrtc", "stopOlcrtc"} /\ Returned("io")
    /\ jsOp' = "none"
    /\ UNCHANGED <<svcVars, calls, taps>>

\* connect() first asks whether a bypass it does not want is running;
\* connectOlcrtcOnly() asks for the port.
Connect ==
    /\ JsFree /\ (Call("direct") \/ Call("only"))
    /\ Refresh("js")
    /\ UNCHANGED svcVars

\* Anybody may ask at any moment, and then leaves the answer alone.
Look ==
    /\ jsOp \notin {"direct", "only"}
    /\ Refresh("js") \/ Returned("js")
    /\ UNCHANGED <<jsOp, svcVars, calls, taps>>

\* The intent is sent, whatever the service is doing.
SendStart(sent) == jsOp' = sent /\ UNCHANGED <<svcVars, calls, taps>>

ConnectDirect ==
    /\ jsOp = "direct" /\ pc["js"] = "done" /\ pc["io"] = "idle"
    /\ \/ /\ bypassRunning /\ StopEnters("io")
          /\ UNCHANGED <<jsOp, svcVars, calls, taps>>
       \/ ~bypassRunning /\ Returned("js") /\ SendStart("sent")

StoppedForDirect ==
    /\ jsOp = "direct" /\ pc["io"] = "done" /\ pc["js"] = "done"
    /\ SendStart("sent")
    /\ pc' = [pc EXCEPT !["io"] = "idle", !["js"] = "idle"]
    /\ UNCHANGED <<goVars, mirrorVars, olcrtcLock, config, attempt, result>>

\* Without a port there is nothing to dial through.
ConnectOnly ==
    /\ jsOp = "only" /\ Returned("js")
    /\ \/ bypassPort > 0 /\ SendStart("sentChained")
       \/ bypassPort = 0 /\ jsOp' = "none" /\ UNCHANGED <<svcVars, calls, taps>>
-----------------------------------------------------------------------------
(* The service.                                                            *)

\* The worker of the start JS sent has its turn.
StartBegins ==
    /\ svc = "idle" /\ jsOp \in {"sent", "sentChained"}
    /\ svc' = "engine" /\ chained' = (jsOp = "sentChained") /\ jsOp' = "start"
    /\ UNCHANGED <<gateVars, joined, stored, calls, taps>>

\* A start without JS replays what is stored; it looks whether a bypass runs first.
Tap ==
    /\ taps < MaxTaps /\ taps' = taps + 1
    /\ svc = "idle" /\ stored.xray
    /\ svc' = "peek"
    /\ chained' = stored.chained
    /\ Refresh("service")
    /\ UNCHANGED <<jsOp, joined, stored, calls>>

Peeked ==
    /\ svc = "peek" /\ pc["service"] = "done"
    /\ \/ /\ ~bypassRunning /\ stored.olcrtc # NoConfig
          /\ svc' = "bypass"
          /\ pc' = [pc EXCEPT !["service"] = "lock"]
          /\ config' = [config EXCEPT !["service"] = stored.olcrtc]
          /\ UNCHANGED <<goVars, mirrorVars, olcrtcLock, attempt, result>>
       \/ /\ bypassRunning \/ stored.olcrtc = NoConfig
          /\ svc' = "engine"
          /\ Returned("service")
    /\ UNCHANGED <<jsOp, chained, joined, stored, calls, taps>>

StartBypassReturns ==
    /\ svc = "bypass" /\ Returned("service")
    /\ svc' = IF result["service"] = 0 THEN "engine" ELSE "failed"
    /\ UNCHANGED <<jsOp, chained, joined, stored, calls, taps>>

\* A start that succeeds is stored together with the bypass used last.
StartEngine ==
    /\ svc = "engine"
    /\ \/ /\ svc' = "idle"
          /\ stored' = [xray |-> TRUE, chained |-> chained, olcrtc |-> lastBypassConfig]
          /\ jsOp' = IF jsOp = "start" THEN "none" ELSE jsOp
       \/ svc' = "failed" /\ UNCHANGED <<stored, jsOp>>
    /\ UNCHANGED <<gateVars, chained, joined, calls, taps>>

\* stopBypassBounded, in a thread that was not used before.
Teardown(t) ==
    /\ joined' = t
    /\ svc' = "join"
    /\ pc[t] = "idle" /\ StopEnters(t)
    /\ UNCHANGED <<chained, stored>>

\* A failed start is torn down, or held by the kill switch with the bypass as it is.
StartFails ==
    /\ svc = "failed"
    /\ \/ /\ \E t \in Stopper : Teardown(t)
          /\ UNCHANGED jsOp
       \/ /\ svc' = "idle"
          /\ jsOp' = IF jsOp = "start" THEN "none" ELSE jsOp
          /\ UNCHANGED <<gateVars, chained, joined, stored>>
    /\ UNCHANGED <<calls, taps>>

\* disconnect(), or a STOP without JS.
Stop ==
    /\ svc = "idle"
    /\ \/ JsFree /\ Call("disconnect")
       \/ taps < MaxTaps /\ taps' = taps + 1 /\ UNCHANGED <<jsOp, calls>>
    /\ \E t \in Stopper : Teardown(t)

JoinEnds ==
    /\ svc' = "idle" /\ joined' = NoThread
    /\ jsOp' = IF jsOp \in {"start", "disconnect"} THEN "none" ELSE jsOp
    /\ UNCHANGED <<goVars, mirrorVars, olcrtcLock, config, attempt, result, chained,
                   stored, calls, taps>>

JoinReturns ==
    /\ svc = "join" /\ pc[joined] = "done"
    /\ Goto(joined, "idle")
    /\ JoinEnds

\* A faulty variant: join() without a deadline.
JoinTimesOutNever == FALSE /\ UNCHANGED vars

\* The thread is left behind.
JoinTimesOut ==
    /\ svc = "join" /\ pc[joined] = "stopGo"
    /\ JoinEnds
    /\ UNCHANGED pc

\* A thread left behind ends.
LateStop ==
    \E t \in Stopper \ {joined} : Returned(t) /\ UNCHANGED <<jsOp, svcVars, calls, taps>>
-----------------------------------------------------------------------------
Js      == \/ StartOlcrtc \/ StopOlcrtc \/ OlcrtcSettles \/ Connect \/ Look
           \/ ConnectDirect \/ StoppedForDirect \/ ConnectOnly
Service == \/ StartBegins \/ Peeked \/ StartBypassReturns \/ StartEngine \/ StartFails
           \/ JoinReturns \/ JoinTimesOut

Next == \/ Js \/ Tap \/ Stop \/ Service \/ LateStop
        \/ \E t \in Thread : GateStep(t)

Spec == Init /\ [][Next]_vars

\* The worker of the service runs, and its deadline passes.  Nothing is assumed of
\* Go, nor of JS.
FairSpec == Spec /\ WF_vars(Service)
-----------------------------------------------------------------------------
(* Properties.                                                             *)

\* Whenever the lock is free, the readers' answer is what olcrtc does: after a
\* start that failed over a client that ran, after attempts that failed in either
\* way, after a stop that was late.
MirrorsTruthful ==
    olcrtcLock = NoThread =>
        /\ bypassRunning = (client # NoConfig)
        /\ bypassPort = IF client = NoConfig THEN 0 ELSE Port[client]

\* "so no reader sees a stale running while a stop is underway", a reader that
\* refreshes the mirrors included.
NoStaleRunning ==
    (\E t \in Thread : pc[t] = "stopGo") => ~bypassRunning /\ bypassPort = 0

\* The port a connectOlcrtcOnly() dials through is the one its client listens on,
\* whatever was started or stopped before and whoever stops it now, unless a quick
\* connect is starting another one over it.
DialsLivePort ==
    [][jsOp = "only" /\ jsOp' = "sentChained" =>
           \/ client # NoConfig /\ Port[client] = bypassPort
           \/ pc["service"] \in {"attempt", "ready"}]_vars

\* "Nothing here waits forever": a teardown ends, whoever holds the lock, and even
\* if Go never returns from a stop.
TeardownEnds == svc = "join" ~> svc # "join"
=============================================================================
