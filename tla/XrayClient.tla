----------------------------- MODULE XrayClient -----------------------------
(***************************************************************************)
(* client.ts, the library an app talks to, over the native side.           *)
(*                                                                         *)
(* Calls that change something run one at a time (lock.ts), each until its *)
(* native promise settles.  What they share with the calls that wait for   *)
(* nobody (stats, currentConnection) and with the state events, which      *)
(* arrive whenever the bridge delivers them: the traffic session, the      *)
(* description of the connection kept natively, and the bypass remembered  *)
(* for it.                                                                 *)
(*                                                                         *)
(* The native side is XrayVpnService reduced to what reaches JS: an intent *)
(* is refused where it is sent, or arrives later; a start that arrived     *)
(* stops the old engine, then succeeds, fails or fails with the tunnel     *)
(* held; a widget starts and the system stops what it likes.               *)
(***************************************************************************)
EXTENDS TrafficSession, Sequences, FiniteSets

CONSTANTS
    Direct, Chained,    (* what connect() may run: servers, through the bypass or not *)
    Only, Raw,          (* the tunnel of connectOlcrtcOnly(); what startRaw() takes   *)
    Olcrtc,             (* bypass configurations                                      *)
    None,
    Poll,               (* stats() calls underway at once                             *)
    Chunk,              (* what an engine counts at a time                            *)
    Races,              (* the races admitted, see Race                               *)
    MaxCalls, MaxPolls, MaxWorld, MaxBytes   (* bounds                                *)

\* The races that break NeverOverCounts, InfoTruthful or what the screen shows, left out of the
\* runs unless admitted: a sample delivered after the end of the restart, or the reset, that it
\* precedes; a first stats() during a restart, which finds no session to be held; an error
\* reported over a tunnel that stays up, or the failure of a widget's start reported after a
\* connect() was announced; a raw configuration replayed by a widget; a widget's start between
\* two steps of a call that starts, stops or forgets, or reported, or under way at a refusal,
\* while such a call has not reached the service.
Race == {"late sample", "first sample", "stray error", "early resume", "raw replay",
         "widget overlaps"}

Config == Direct \cup Chained \cup Only \cup Raw

ASSUME ClientAssumption ==
    /\ None \notin Config \cup Olcrtc \cup Session /\ "stop" \notin Config \cup {None}
    /\ Direct \cap (Chained \cup Only \cup Raw) = {} /\ Raw \cap (Chained \cup Only) = {}
    /\ Races \subseteq Race /\ Chunk \subseteq Counters
    /\ {MaxCalls, MaxPolls, MaxWorld, MaxBytes} \subseteq Nat

VARIABLES
    waiting, call,      \* the serial lock: those behind it, and who holds it
    armedOlcrtc, hooked, session,
    poll,               \* each stats() underway
    info,               \* the description of the connection, kept natively
    registered, events, \* the native callback is set; the events on their way to it
    interface, engine, raw, bypass,   \* the tunnel, and what runs behind it
    intent,             \* the command on its way to onStartCommand()
    start, task, stopping, \* a start taken there; the start that holds engineLock; a stop taken
    refused,            \* the start that could not be sent, and is what info describes
    answer,             \* how the promise the holder of the lock awaits has settled
    stored,             \* QuickConnectStore
    carried,            \* what the engines have carried for this session
    calls, polls, world

lockVars   == <<waiting, call, armedOlcrtc>>
jsVars     == <<hooked, session, poll>>
nativeVars == <<interface, engine, raw, bypass, intent, start, task, stopping, refused, answer,
                stored>>
streamVars == <<registered, events>>
bounds     == <<calls, polls, world>>
vars == <<lockVars, jsVars, info, nativeVars, streamVars, carried, bounds>>

NoCall == [op |-> "none", arg |-> None, at |-> "none"]
NoTask == [config |-> None, by |-> "none", at |-> "none"]
Idle   == [at |-> "idle", raw |-> Zero, behind |-> 0]
NoInfo == [config |-> None, olcrtc |-> None]

Op == {"connect", "connectOlcrtcOnly", "startRaw", "disconnect", "startOlcrtc",
       "stopOlcrtc", "setKillSwitch", "clearStoredConfig"}
Call  == [op : Op, arg : Config \cup Olcrtc \cup {None}, at : {"waiting", "bypass", "native"}]
Info  == [config : Config \cup {None}, olcrtc : Olcrtc \cup {None}]
State == {"connecting", "connected", "disconnecting", "disconnected", "blocked", "error"}

TypeOK ==
    /\ waiting \in Seq(Call) /\ call \in Call \cup {NoCall}
    /\ armedOlcrtc \in Olcrtc \cup {None}
    /\ hooked \in BOOLEAN /\ session \in Session \cup {None}
    /\ poll \in [Poll -> [at : {"idle", "asked", "sampled", "failed"}, raw : Counters, behind : Nat]]
    /\ info \in Info
    /\ registered \in BOOLEAN /\ events \in Seq(State)
    /\ interface \in BOOLEAN /\ engine \in Config \cup {None} /\ raw \in Counters
    /\ bypass \in Olcrtc \cup {None}
    /\ intent \in Config \cup {None, "stop"} /\ {start, refused} \subseteq Config \cup {None}
    /\ task \in [config : Config, by : {"js", "widget"}, at : {"stopped", "ready", "up"}] \cup {NoTask}
    /\ stopping \in BOOLEAN /\ answer \in {"none", "ok", "failed"}
    /\ stored \in [config : Config \cup {None}, info : Info]
    /\ carried \in Counters
    /\ calls \in Nat /\ polls \in Nat /\ world \in Nat

Init ==
    /\ waiting = <<>> /\ call = NoCall /\ armedOlcrtc = None
    /\ hooked = FALSE /\ session = None /\ poll = [p \in Poll |-> Idle]
    /\ info = NoInfo /\ registered = FALSE /\ events = <<>>
    /\ interface = FALSE /\ engine = None /\ raw = Zero /\ bypass = None
    /\ intent = None /\ start = None /\ task = NoTask /\ stopping = FALSE
    /\ refused = None /\ answer = "none"
    /\ stored = [config |-> None, info |-> NoInfo]
    /\ carried = Zero /\ calls = 0 /\ polls = 0 /\ world = 0
-----------------------------------------------------------------------------
(* native.ts: one native callback, however many listeners.  Whoever emits  *)
(* before it is set emits into nothing.                                    *)

Emit(state) == events' = IF registered THEN Append(events, state) ELSE events

\* A faulty variant: a hold of the kill switch is not taken for an end of the restart.
OnStateForgetsBlocked(state, s) ==
    IF state = "connecting" THEN Suspend(s)
    ELSE IF state \in {"connected", "disconnected", "error"} THEN CommitRestart(s) ELSE s

\* The hook of ensureSessionStateHook().
OnState(state, s) ==
    IF state = "connecting" THEN Suspend(s)
    ELSE IF state = "disconnecting" THEN s ELSE CommitRestart(s)

Deliver ==
    /\ events # <<>>
    /\ session' = IF hooked /\ session # None THEN OnState(Head(events), session) ELSE session
    /\ events' = Tail(events)
    /\ poll' = [p \in Poll |-> [poll[p] EXCEPT !.behind = IF @ = 0 THEN 0 ELSE @ - 1]]
    /\ UNCHANGED <<lockVars, hooked, info, registered, nativeVars, carried, bounds>>

\* The app subscribes for itself.
AddStateListener ==
    /\ ~registered /\ registered' = TRUE
    /\ UNCHANGED <<lockVars, jsVars, info, events, nativeVars, carried, bounds>>
-----------------------------------------------------------------------------
(* The serial lock, and what each operation does while it holds it.        *)

\* Who calls is behind whoever called before; the bypass to describe is set at once.
Request(op, arg) ==
    /\ calls < MaxCalls /\ calls' = calls + 1
    /\ waiting' = Append(waiting, [op |-> op, arg |-> arg, at |-> "waiting"])
    /\ armedOlcrtc' = CASE op = "startOlcrtc" -> arg [] op = "stopOlcrtc" -> None
                        [] OTHER -> armedOlcrtc
    /\ UNCHANGED <<call, jsVars, info, nativeVars, streamVars, carried, polls, world>>

Takes(c, at) == /\ call' = [c EXCEPT !.at = at]
                /\ waiting' = Tail(waiting)
                /\ UNCHANGED <<armedOlcrtc, calls, polls, world>>

\* Whether the samples read so far have been delivered.
SamplesIn == "late sample" \in Races \/ \A p \in Poll : poll[p].raw = Zero

ResetSession == /\ SamplesIn /\ session' = IF session # None THEN Fresh ELSE None
                /\ carried' = raw

\* A session outlives the engine, not the tunnel.
FreshSession == IF interface THEN UNCHANGED <<session, carried>> ELSE ResetSession

\* A faulty variant: a raw configuration goes by the name of the connection before.
DescribeStale(c) == [config |-> IF c \in Raw THEN info.config ELSE c,
                     olcrtc |-> IF c \in Chained \cup Only THEN armedOlcrtc ELSE None]

Describe(c) == [config |-> IF c \in Raw THEN None ELSE c,
                olcrtc |-> IF c \in Chained \cup Only THEN armedOlcrtc ELSE None]

NoFirstSample == session # None \/ "first sample" \in Races \/ \A p \in Poll : poll[p] = Idle

NoOverlap == "widget overlaps" \in Races \/ task.at # "stopped"

\* startXray(): what is to run is described before Android takes the intent or refuses it.  A
\* refusal is an answer, and what ran goes on under the new description.
SendStart(c) ==
    /\ NoOverlap /\ intent = None
    /\ hooked' = TRUE /\ registered' = TRUE
    /\ FreshSession
    /\ info' = Describe(c)
    /\ \/ intent' = c /\ refused' = None /\ answer' = "none"
       \/ /\ task # NoTask => "widget overlaps" \in Races
          /\ refused' = c /\ answer' = "failed" /\ UNCHANGED intent
    /\ UNCHANGED <<poll, events, interface, engine, raw, bypass, start, task, stopping, stored>>

\* connect() without the bypass stops one that runs first, whatever becomes of that.
StopsBypassFirst(c) == c.op = "connect" /\ c.arg \in Direct /\ bypass # None

Await(c) == /\ Takes(c, "native")
            /\ UNCHANGED <<info, hooked, session, poll, registered, carried>>

Connect(c) ==
    /\ c.op = "connect"
    /\ \/ ~StopsBypassFirst(c) /\ Takes(c, "native") /\ SendStart(c.arg)
       \/ /\ StopsBypassFirst(c) /\ Takes(c, "bypass")
          /\ UNCHANGED <<jsVars, info, nativeVars, streamVars, carried>>

StartRaw(c) == c.op = "startRaw" /\ Takes(c, "native") /\ SendStart(c.arg)

\* Without the bypass the call fails, and nothing is sent.
ConnectOlcrtcOnly(c) ==
    /\ c.op = "connectOlcrtcOnly"
    /\ \/ bypass # None /\ Takes(c, "native") /\ SendStart(c.arg)
       \/ /\ bypass = None /\ Await(c) /\ answer' = "failed"
          /\ UNCHANGED <<events, interface, engine, raw, bypass, intent, start, task, stopping,
                         refused, stored>>

\* stopXray(): a stop that Android refuses counts as done; without a context it fails.
Disconnect(c) ==
    /\ c.op = "disconnect" /\ Await(c) /\ intent = None
    /\ \/ intent' = "stop" /\ UNCHANGED answer
       \/ /\ task # NoTask => "widget overlaps" \in Races
          /\ answer' \in {"ok", "failed"} /\ UNCHANGED intent
    /\ UNCHANGED <<events, interface, engine, raw, bypass, start, task, stopping, refused, stored>>

StartOlcrtc(c)   == c.op = "startOlcrtc" /\ Await(c) /\ UNCHANGED <<events, nativeVars>>
StopOlcrtc(c)    == c.op = "stopOlcrtc" /\ Await(c) /\ UNCHANGED <<events, nativeVars>>
SetKillSwitch(c) == c.op = "setKillSwitch" /\ Await(c) /\ UNCHANGED <<events, nativeVars>>

\* The armed bypass is forgotten under the lock.
ClearStoredConfig(c) ==
    /\ c.op = "clearStoredConfig"
    /\ call' = [c EXCEPT !.at = "native"] /\ waiting' = Tail(waiting) /\ armedOlcrtc' = None
    /\ UNCHANGED <<jsVars, info, nativeVars, streamVars, carried, bounds>>

Begin(c) == \/ Connect(c) \/ StartRaw(c) \/ ConnectOlcrtcOnly(c) \/ Disconnect(c)
            \/ StartOlcrtc(c) \/ StopOlcrtc(c) \/ SetKillSwitch(c) \/ ClearStoredConfig(c)

Serve == call = NoCall /\ waiting # <<>> /\ Begin(Head(waiting))

\* stopOlcrtc() of a direct connection has settled; it goes on.
GoesOn ==
    /\ call.at = "bypass" /\ answer # "none"
    /\ call' = [call EXCEPT !.at = "native"]
    /\ SendStart(call.arg)
    /\ UNCHANGED <<waiting, armedOlcrtc, bounds>>

\* A faulty variant: a call that failed keeps the lock.
ReleaseUnlessFailed == IF answer = "ok" THEN call' = NoCall /\ answer' = "none"
                       ELSE UNCHANGED <<call, answer>>

Release == call' = NoCall /\ answer' = "none"

\* The promise has settled; a disconnect forgets the session and the connection.
Settle ==
    /\ call.at = "native" /\ answer # "none"
    /\ Release
    /\ IF call.op = "disconnect" /\ answer = "ok"
       THEN ResetSession /\ info' = NoInfo /\ refused' = None
       ELSE UNCHANGED <<session, carried, info, refused>>
    /\ UNCHANGED <<waiting, armedOlcrtc, hooked, poll, streamVars, bounds,
                   interface, engine, raw, bypass, intent, start, task, stopping, stored>>
-----------------------------------------------------------------------------
(* stats() waits for nobody.                                               *)

Stats(p) ==
    /\ session = None => "first sample" \in Races \/ (start = None /\ task = NoTask /\ events = <<>>)
    /\ poll[p] = Idle /\ polls < MaxPolls /\ polls' = polls + 1
    /\ poll' = [poll EXCEPT ![p].at = "asked"]
    /\ hooked' = TRUE /\ registered' = TRUE
    /\ UNCHANGED <<lockVars, session, info, events, nativeVars, carried, calls, world>>

\* On a thread of its own.  Where nothing runs, nothing has been counted.  What it read reaches
\* JS behind the events emitted before.
GetStats(p) ==
    /\ poll[p].at = "asked"
    /\ \/ poll' = [poll EXCEPT ![p] = [at |-> "sampled", raw |-> raw,
                                           behind |-> Len(events)]]
       \/ engine # None /\ poll' = [poll EXCEPT ![p].at = "failed"]
    /\ UNCHANGED <<lockVars, hooked, session, info, streamVars, nativeVars, carried, bounds>>

\* A session begins with its first sample.
TakeSample(p) ==
    /\ poll[p].at \in {"sampled", "failed"} /\ poll[p].behind = 0
    /\ session' = IF poll[p].at = "failed" THEN session
                  ELSE Update(IF session = None THEN Fresh ELSE session, poll[p].raw)
    /\ poll' = [poll EXCEPT ![p] = Idle]
    /\ UNCHANGED <<lockVars, hooked, info, streamVars, nativeVars, carried, bounds>>
-----------------------------------------------------------------------------
(* The native side.  The task is what holds engineLock.                    *)

\* onStartCommand() takes a start, which overtakes the commands taken before.
StartArrives ==
    /\ intent \in Config /\ NoFirstSample
    /\ intent' = None /\ start' = intent /\ stopping' = FALSE
    /\ Emit("connecting")
    /\ UNCHANGED <<lockVars, jsVars, info, registered, interface, engine, raw, bypass, task,
                   refused, answer, stored, carried, bounds>>

StopArrives ==
    /\ intent = "stop"
    /\ intent' = None /\ stopping' = TRUE
    /\ Emit("disconnecting")
    /\ UNCHANGED <<lockVars, jsVars, info, registered, interface, engine, raw, bypass, start, task,
                   refused, answer, stored, carried, bounds>>

\* A start stops what runs; the tunnel stays up.
StartRuns ==
    /\ start # None /\ task = NoTask
    /\ task' = [config |-> start, by |-> "js", at |-> "ready"]
    /\ start' = None /\ engine' = None /\ raw' = Zero
    /\ UNCHANGED <<lockVars, jsVars, info, streamVars, interface, bypass, intent, stopping, refused,
                   answer, stored, carried, bounds>>

\* A widget sends a start without JS.
Widget ==
    /\ task = NoTask /\ start = None /\ ~stopping
    /\ world < MaxWorld /\ world' = world + 1
    /\ NoFirstSample
    /\ stored.config \in Raw => "raw replay" \in Races
    /\ call.op = "disconnect" \/ intent # None => "widget overlaps" \in Races
    /\ IF stored.config = None
       THEN /\ interface => "stray error" \in Races
            /\ Emit("error") /\ UNCHANGED <<task, engine, raw>>
       ELSE /\ task' = [config |-> stored.config, by |-> "widget", at |-> "stopped"]
            /\ engine' = None /\ raw' = Zero
            /\ Emit("connecting")
    /\ UNCHANGED <<lockVars, jsVars, info, registered, interface, bypass, intent, start, stopping,
                   refused, answer, stored, carried, calls, polls>>

\* Nobody but QuickConnectStore remembers what it is called.
RestoreConnectionInfo ==
    /\ task.at = "stopped"
    /\ task' = [task EXCEPT !.at = "ready"]
    /\ IF stored.info = NoInfo THEN UNCHANGED <<info, refused>>
       ELSE info' = stored.info /\ refused' = None
    /\ UNCHANGED <<lockVars, jsVars, streamVars, interface, engine, raw, bypass, intent, start,
                   stopping, answer, stored, carried, bounds>>

AnswerStart(result) == answer' = IF task.by = "js" THEN result ELSE answer

EngineStarts ==
    /\ task.at = "ready"
    /\ task' = [task EXCEPT !.at = "up"]
    /\ interface' = TRUE /\ engine' = task.config
    /\ UNCHANGED <<lockVars, jsVars, info, streamVars, raw, bypass, intent, start, stopping, refused,
                   answer, stored, carried, bounds>>

\* A start overtaken by another command succeeds in silence.
Overtaken == start # None \/ stopping

\* The engine has been running for a while when its start is reported.
StartSucceeds ==
    /\ task.at = "up"
    /\ task' = NoTask
    /\ IF Overtaken THEN AnswerStart("failed") /\ UNCHANGED <<stored, events>>
       ELSE /\ SamplesIn /\ AnswerStart("ok") /\ Emit("connected")
            /\ intent \in Config => "widget overlaps" \in Races
            /\ stored' = [config |-> task.config, info |-> info]
    /\ UNCHANGED <<lockVars, jsVars, info, registered, interface, engine, raw, bypass, intent, start,
                   stopping, refused, carried, bounds>>

\* The kill switch holds the tunnel, which may just have come up, or it is torn down.
StartFails ==
    /\ task.at = "ready" /\ SamplesIn
    /\ start # None => "early resume" \in Races
    /\ task' = NoTask /\ AnswerStart("failed")
    /\ \/ interface' = TRUE /\ Emit("blocked") /\ UNCHANGED bypass
       \/ interface' = FALSE /\ bypass' = None /\ Emit("error")
    /\ UNCHANGED <<lockVars, jsVars, info, registered, engine, raw, intent, start, stopping, refused,
                   stored, carried, bounds>>

TunnelDown == /\ interface' = FALSE /\ engine' = None /\ raw' = Zero /\ bypass' = None
              /\ Emit("disconnected")

StopRuns ==
    /\ stopping /\ task = NoTask /\ SamplesIn
    /\ TunnelDown /\ stopping' = FALSE
    /\ answer' = IF call.op = "disconnect" THEN "ok" ELSE answer
    /\ UNCHANGED <<lockVars, jsVars, info, registered, intent, start, task, refused, stored, carried,
                   bounds>>

\* stopXray() waits for seven seconds, and the main thread takes an intent in less.  A start
\* taken since is the other way out.
StopTimesOut ==
    /\ call.op = "disconnect" /\ answer = "none" /\ intent # "stop"
    /\ answer' = "ok"
    /\ UNCHANGED <<lockVars, jsVars, info, streamVars, interface, engine, raw, bypass, intent, start,
                   task, stopping, refused, stored, carried, bounds>>

\* The notification's button, or the system, takes the tunnel.
TornDown ==
    /\ interface /\ task = NoTask /\ start = None /\ ~stopping /\ SamplesIn
    /\ world < MaxWorld /\ world' = world + 1
    /\ TunnelDown
    /\ UNCHANGED <<lockVars, jsVars, info, registered, intent, start, task, stopping, refused, answer,
                   stored, carried, calls, polls>>

\* The promises of the shorter calls.
Answer ==
    /\ answer = "none"
    /\ \/ /\ call.op = "startOlcrtc"
          /\ \/ bypass' = call.arg /\ answer' = "ok"
             \/ bypass' \in {None, bypass} /\ answer' = "failed"
          /\ UNCHANGED stored
       \/ /\ call.op = "stopOlcrtc" \/ call.at = "bypass"
          /\ bypass' = None /\ answer' = "ok" /\ UNCHANGED stored
       \/ /\ call.op = "setKillSwitch"
          /\ answer' \in {"ok", "failed"} /\ UNCHANGED <<bypass, stored>>
       \/ /\ call.op = "clearStoredConfig" /\ NoOverlap
          /\ stored' = [config |-> None, info |-> NoInfo] /\ answer' = "ok" /\ UNCHANGED bypass
    /\ UNCHANGED <<lockVars, jsVars, info, streamVars, interface, engine, raw, intent, start, task,
                   stopping, refused, carried, bounds>>

\* The engine carries something one way or the other.
Traffic ==
    /\ engine # None /\ carried.uplink + carried.downlink < MaxBytes
    /\ \E sent \in Chunk : raw' = raw ++ sent /\ carried' = carried ++ sent
    /\ UNCHANGED <<lockVars, jsVars, info, streamVars, interface, engine, bypass, intent, start, task,
                   stopping, refused, answer, stored, bounds>>
-----------------------------------------------------------------------------
Requests ==
    \/ \E c \in Direct \cup Chained : Request("connect", c)
    \/ \E c \in Only : Request("connectOlcrtcOnly", c)
    \/ \E c \in Raw : Request("startRaw", c)
    \/ \E b \in Olcrtc : Request("startOlcrtc", b)
    \/ \E op \in {"disconnect", "stopOlcrtc", "setKillSwitch", "clearStoredConfig"} :
          Request(op, None)

JsThread == Deliver \/ Serve \/ GoesOn \/ Settle \/ \E p \in Poll : TakeSample(p)

Native == \/ StartArrives \/ StopArrives
          \/ StartRuns \/ RestoreConnectionInfo \/ EngineStarts \/ StartSucceeds \/ StartFails
          \/ StopRuns \/ Answer \/ \E p \in Poll : GetStats(p)

World == AddStateListener \/ Widget \/ TornDown \/ StopTimesOut \/ Traffic

Next == Requests \/ (\E p \in Poll : Stats(p)) \/ JsThread \/ Native \/ World

Spec == Init /\ [][Next]_vars

\* The JS thread runs what is due, and what was sent to the native side arrives and is done.
FairSpec ==
    /\ Spec
    /\ WF_vars(Deliver) /\ WF_vars(Serve) /\ WF_vars(GoesOn) /\ WF_vars(Settle)
    /\ WF_vars(StartArrives) /\ WF_vars(StopArrives)
    /\ WF_vars(StartRuns) /\ WF_vars(RestoreConnectionInfo)
    /\ WF_vars(EngineStarts \/ StartFails) /\ WF_vars(StartSucceeds) /\ WF_vars(StopRuns) /\ WF_vars(Answer)
    /\ WF_vars(StopTimesOut)
    /\ \A p \in Poll : WF_vars(GetStats(p)) /\ WF_vars(TakeSample(p))
-----------------------------------------------------------------------------
\* What the app shows was carried: no engine's bytes are counted twice.
NeverOverCounts == session # None => AtMost(Total(session), carried)

\* Totals only grow, across every restart of the engine.  They start over when a
\* disconnect settles and when a connection begins with the tunnel down.
TotalsNeverShrink ==
    [][session # None =>
         /\ session' # None
         /\ \/ AtMost(Total(session), Total(session'))
            \/ call.op = "disconnect" /\ call' = NoCall
            \/ /\ ~interface /\ call.at # "native" /\ call'.at = "native"
               /\ call'.op \in {"connect", "startRaw", "connectOlcrtcOnly"}]_vars

\* While an engine runs and no start is on its way, currentConnection() names what runs or
\* nothing, whoever started it and however many starts failed before; or else the very start
\* that Android last refused, which described itself before it was sent.
InfoTruthful ==
    engine # None /\ intent \notin Config /\ start = None /\ task = NoTask =>
        info.config \in {None, engine, refused}

\* Whoever waits for the native side waits for something that is under way there: the
\* call that sent a start and holds the serial lock, for that start; the session that is
\* suspended, for a start or a stop, or for the event in which one ended.
Resumes(state) == state \notin {"connecting", "disconnecting"}
NativeBusy == start # None \/ task # NoTask \/ stopping
WaitsOwed ==
    /\ /\ call.op \in {"connect", "connectOlcrtcOnly", "startRaw"} /\ call.at = "native"
       /\ answer = "none"
       => intent \in Config \/ start # None \/ task.by = "js"
    /\ session # None /\ session.suspended =>
           NativeBusy \/ \E i \in DOMAIN events : Resumes(events[i])

\* No call holds the serial lock forever: every call that waits is served and settles,
\* whatever became of those before it.
CallsSettle == (call # NoCall \/ waiting # <<>>) ~> (call = NoCall /\ waiting = <<>>)

\* A restart the session was suspended for ends in an event that resumes it.
SessionThaws == (session # None /\ session.suspended) ~> (session = None \/ ~session.suspended)
=============================================================================
