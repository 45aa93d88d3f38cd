--------------------------- MODULE XrayAppProofs ---------------------------
(***************************************************************************)
(* What the screen shows, for any number of taps, calls, widgets and       *)
(* reloads: one toggle of the bypass at a time, the state the tunnel is    *)
(* in, and the connection and the row of what runs.                        *)
(*                                                                         *)
(* Every step of the screen is a step of the client or a reload, so what   *)
(* is invariant of the client is carried over once a reload keeps it.      *)
(***************************************************************************)
EXTENDS XrayApp, XrayClientProofs, FiniteSetTheorems

\* The types of what the screen keeps; a handler that connects has a server.
ScreenInv ==
    /\ state \in State /\ conn \in Info /\ misled \in Config \cup {None}
    /\ activeTag \in Tags \cup {None, "olcrtc-only"}
    /\ olcrtcOn \in BOOLEAN /\ olcrtcBusy \in BOOLEAN /\ olcrtcPort \in BOOLEAN
    /\ asking \subseteq {h \in Handler : h.op = "connect" => h.tag \in Tags}
    /\ taps \in Nat /\ reloads \in Nat

\* The toggles of the bypass: those that wait for the permission, for the lock, and who has it.
Toggling == {"startOlcrtc", "stopOlcrtc"}
Pending  == {h \in asking : h.op = "startOlcrtc"}
Queued   == {i \in DOMAIN waiting : waiting[i].op \in Toggling}
Held     == {c \in {call} : c.op \in Toggling}

\* One of them is somewhere, while the switch is busy, and none otherwise.
ToggleInv ==
    IF ~olcrtcBusy THEN Pending = {} /\ Queued = {} /\ Held = {}
    ELSE \/ (\E h \in asking : Pending = {h}) /\ Queued = {} /\ Held = {}
         \/ Pending = {} /\ (\E i \in DOMAIN waiting : Queued = {i}) /\ Held = {}
         \/ Pending = {} /\ Queued = {} /\ Held = {call}

\* No engine without its tunnel, and none behind a start that is not through.
NativeShape ==
    /\ registered = TRUE
    /\ engine # None => interface
    /\ task.at \in {"stopped", "ready"} => engine = None
    /\ task.at = "up" => engine = task.config

NativeIdle == start = None /\ task = NoTask /\ ~stopping

\* What the screen says once the events on their way have come.
Lastly == IF events = <<>> THEN state ELSE events[Len(events)]

\* With nothing under way behind it, that is the truth.
WillShow ==
    NativeIdle => IF engine # None THEN Lastly = "connected"
                  ELSE IF interface THEN Lastly = "blocked" ELSE Lastly \in {"disconnected", "error"}

\* The connection is read anew, or dropped, with the last event on its way.
WillDescribe ==
    intent \notin Config /\ NativeIdle /\ engine # None =>
        IF events = <<>> THEN conn.config \in {None, engine, misled}
        ELSE events[Len(events)] \in {"connected", "error"}

\* Whoever has sent a start waits for that one.
OwnStart ==
    /\ intent \in Config => call.arg = intent
    /\ start # None => call.arg = start
    /\ task.by = "js" => call.arg = task.config

\* The app does not start what it did not build.
AppOp    == {"connect", "connectOlcrtcOnly", "disconnect", "startOlcrtc", "stopOlcrtc"}
AppStart == {"connect", "connectOlcrtcOnly"}
AppCalls == call.op \in AppOp \cup {"none"} /\ \A i \in DOMAIN waiting : waiting[i].op \in AppOp

\* All that runs, or that a widget would start, is of one server.
AllOf(tag) ==
    /\ task # NoTask => TagOf[task.config] = tag
    /\ engine # None => TagOf[engine] = tag
    /\ stored.config # None => TagOf[stored.config] = tag

\* The row of a server is marked while the start last asked for, of that server, waits; while it
\* holds the lock, and has not failed; and while its tunnel is all there is.
Unasked == \A i \in DOMAIN waiting : waiting[i].op \notin AppStart

AskedFor(tag) ==
    \E i \in DOMAIN waiting : /\ waiting[i].op \in AppStart /\ TagOf[waiting[i].arg] = tag
                              /\ \A j \in DOMAIN waiting : j > i => waiting[j].op \notin AppStart

Underway(tag) ==
    /\ Unasked /\ call.op \in AppStart /\ TagOf[call.arg] = tag
    /\ call.at = "native" /\ answer = "ok" => AllOf(tag)

AtRest(tag) == Unasked /\ call.op \notin AppStart /\ AllOf(tag)

Row(tag) == AskedFor(tag) \/ Underway(tag) \/ AtRest(tag)

RowInv == activeTag # None => Row(activeTag)

\* A configuration goes by the server it was built for.
TagsMatch == /\ \A tag \in Tags : TagOf[DirectOf[tag]] = tag /\ TagOf[ChainedOf[tag]] = tag
             /\ \A c \in Only : TagOf[c] = "olcrtc-only"
-----------------------------------------------------------------------------
(* The client below.                                                       *)

LEMMA AppInitInv == AppInit => Inv
<1> SUFFICES ASSUME AppInit PROVE Inv
  OBVIOUS
<1>1. JsInv
  BY FreshType DEF AppInit, Idle, JsInv, Sample
<1>2. NoInfo \in Info
  BY DEF Info, NoInfo
<1>3. LockInv /\ StreamInv
  BY EmptySeq DEF AppInit, LockInv, StreamInv
<1>4. stored \in [config : Config \cup {None}, info : Info]
  <2>1. PICK nothing : nothing = NoInfo
    OBVIOUS
  <2> QED
    BY <1>2, <2>1 DEF AppInit
<1>5. NativeInv /\ Counted
  BY <1>4, FreshType DEF AppInit, NativeInv, Counted
<1> QED
  BY <1>1, <1>2, <1>3, <1>5 DEF AppInit, Inv

LEMMA AppInitInfo == AppInit => InfoInv
<1> SUFFICES ASSUME AppInit PROVE InfoInv
  OBVIOUS
<1>1. Awaited /\ StartNames /\ InfoTruthful
  BY ClientAssumption DEF AppInit, Awaited, StartNames, InfoTruthful, NoTask, NoCall
<1>2. StoredNames
  BY DEF AppInit, StoredNames, NoTask
<1> QED
  BY <1>1, <1>2, AppInitInv DEF InfoInv

\* What a reload does to the start under way: it goes on as nobody's.
LEMMA Orphaned ==
    ASSUME Inv, Reload
    PROVE  /\ task = NoTask <=> task' = NoTask
           /\ task # NoTask => task' \in [config : {task.config}, by : {"widget"}, at : {task.at}]
           /\ task'.config = task.config /\ task'.at = task.at /\ task'.by # "js"
           /\ task' \in [config : Config, by : {"js", "widget"}, at : {"stopped", "ready", "up"}]
                            \cup {NoTask}
<1>1. task' = IF task = NoTask THEN NoTask ELSE [task EXCEPT !.by = "widget"]
  BY DEF Reload
<1>2. CASE task = NoTask
  BY <1>1, <1>2 DEF NoTask
<1>3. CASE task # NoTask
  <2>1. task \in [config : Config, by : {"js", "widget"}, at : {"stopped", "ready", "up"}]
    BY <1>3 DEF Inv, NativeInv
  <2>2. task' = [task EXCEPT !.by = "widget"]
    BY <1>1, <1>3
  <2>3. task'.by = "widget"
    BY <2>1, <2>2
  <2>4. task' # NoTask
    BY <2>3 DEF NoTask
  <2> QED
    BY <1>3, <2>1, <2>2, <2>4
<1> QED
  BY <1>2, <1>3

LEMMA ReloadInv ==
    ASSUME Inv, Reload
    PROVE  Inv'
<1>1. LockInv' /\ StreamInv'
  BY EmptySeq DEF Inv, LockInv, StreamInv, Reload
<1>2. JsInv'
  BY FreshType DEF Idle, JsInv, Sample, Reload
<1>3. NativeInv' /\ Counted'
  <2>1. /\ UNCHANGED <<interface, engine, raw, bypass, intent, start, stopping, refused, stored>>
        /\ UNCHANGED <<calls, polls, world>> /\ answer' = "none" /\ carried' = raw
    BY DEF Reload, bounds
  <2> QED
    BY <2>1, Orphaned DEF Inv, NativeInv, Counted
<1>4. info' \in Info
  BY DEF Inv, Reload
<1> QED
  BY <1>1, <1>2, <1>3, <1>4 DEF Inv

LEMMA ReloadInfo ==
    ASSUME InfoInv, Reload
    PROVE  InfoInv'
<1>1. Inv /\ Inv'
  BY ReloadInv DEF InfoInv
<1>2. /\ start = None /\ intent \notin Config /\ call'.op = "none" /\ answer' = "none"
        /\ UNCHANGED <<info, intent, start, engine, stored, stopping, refused>>
  BY DEF Reload, NoCall
<1>3. task = NoTask <=> task' = NoTask
  BY <1>1, Orphaned
<1>4. task'.config = task.config /\ task'.at = task.at /\ task'.by # "js"
  BY <1>1, Orphaned
<1>5. Awaited' /\ StoredNames'
  BY <1>2, <1>3, <1>4 DEF InfoInv, Awaited, StoredNames
<1>6. StartNames' /\ InfoTruthful'
  BY <1>2, <1>3, <1>4 DEF InfoInv, StartNames, InfoTruthful, Names
<1> QED
  BY <1>1, <1>5, <1>6 DEF InfoInv

LEMMA BuiltFor == \A tag \in Tags : ConfigFor(tag) \in Direct \cup Chained
BY AppAssumption DEF ConfigFor

\* What each handler asks of the client.
LEMMA Requested ==
    ASSUME ScreenInv, NEW h \in asking, Granted(h)
    PROVE  \/ h.op = "connect" /\ Request("connect", ConfigFor(h.tag)) /\ h.tag \in Tags
           \/ h.op = "connectOlcrtcOnly" /\ \E c \in Only : Request("connectOlcrtcOnly", c)
           \/ h.op = "startOlcrtc" /\ \E b \in Olcrtc : Request("startOlcrtc", b)
BY DEF ScreenInv, Granted

\* A step of the screen is a step of the client, or nothing to it, or a reload.
LEMMA AppStep ==
    ASSUME ScreenInv, [AppNext]_appVars
    PROVE  [Next]_vars \/ Reload
<1>1. CASE Taps
  <2>1. \/ UNCHANGED vars \/ Request("stopOlcrtc", None) \/ Request("disconnect", None)
    BY <1>1 DEF Taps, TapConnect, TapOlcrtcOnly, ToggleOlcrtc, TapDisconnect
  <2> QED
    BY <2>1 DEF Next, Requests
<1>2. ASSUME NEW h \in asking, Granted(h)
      PROVE  Requests
  BY <1>2, Requested, BuiltFor DEF Requests
<1>3. CASE Unseen
  BY <1>3 DEF Unseen, Next, JsThread, World
<1> QED
  BY <1>1, <1>2, <1>3 DEF AppNext, appVars, DeliverToScreen, SettleAndGoOn, Denied, Next, JsThread
-----------------------------------------------------------------------------
(* The types.                                                              *)

LEMMA Undescribed == NoInfo \in Info /\ NoInfo.config = None
BY DEF NoInfo, Info

LEMMA InitScreen == AppInit => ScreenInv
<1> SUFFICES ASSUME AppInit PROVE ScreenInv
  OBVIOUS
<1>1. /\ state = "disconnected" /\ conn = NoInfo /\ activeTag = None /\ asking = {} /\ misled = None
      /\ olcrtcOn = FALSE /\ olcrtcBusy = FALSE /\ olcrtcPort = FALSE /\ taps = 0 /\ reloads = 0
  BY DEF AppInit
<1> QED
  BY <1>1, Undescribed DEF ScreenInv, State

\* What an event does to what is shown of the connection.
LEMMA EventShows ==
    ASSUME NEW s, ScreenOnState(s)
    PROVE  /\ state' = s
           /\ Reads \/ Drops \/ Keeps
           /\ activeTag' = None \/ activeTag' = activeTag
BY DEF ScreenOnState

LEMMA TapsScreen ==
    ASSUME ScreenInv, Taps
    PROVE  ScreenInv'
<1>1. taps' = taps + 1 /\ UNCHANGED <<reloads, connShown>>
  BY DEF Taps, TapConnect, TapOlcrtcOnly, ToggleOlcrtc, TapDisconnect, Tap, screen, connShown
<1>2. /\ olcrtcOn' \in BOOLEAN /\ olcrtcBusy' \in BOOLEAN /\ olcrtcPort' \in BOOLEAN
  BY DEF ScreenInv, Taps, TapConnect, TapOlcrtcOnly, ToggleOlcrtc, TapDisconnect, screen, toggleShown
<1>3. \/ asking' = asking
      \/ \E op \in {"connect", "connectOlcrtcOnly", "startOlcrtc"}, tag \in Tags \cup {None} :
            Ask(op, tag) /\ (op = "connect" => tag \in Tags)
  BY DEF Taps, TapConnect, TapOlcrtcOnly, ToggleOlcrtc, TapDisconnect, screen
<1>4. asking' \subseteq {h \in Handler : h.op = "connect" => h.tag \in Tags}
  BY <1>3 DEF ScreenInv, Ask, Handler
<1> QED
  BY <1>1, <1>2, <1>4 DEF ScreenInv, connShown

LEMMA HandlersScreen ==
    ASSUME ScreenInv, NEW h \in asking, Granted(h) \/ Denied(h)
    PROVE  ScreenInv'
<1>1. UNCHANGED <<state, conn, misled, olcrtcPort, taps, reloads>> /\ asking' = asking \ {h}
  BY DEF Granted, Denied, toggleShown
<1>2. olcrtcOn' \in BOOLEAN /\ olcrtcBusy' \in BOOLEAN
  BY DEF ScreenInv, Granted, Denied, EndOlcrtc, toggleShown
<1>3. activeTag' \in {activeTag, None, "olcrtc-only"} \cup Tags
  BY Requested DEF Granted, Denied, Mark, ScreenInv
<1> QED
  BY <1>1, <1>2, <1>3 DEF ScreenInv

LEMMA StepScreen ==
    ASSUME Inv, ScreenInv, [AppNext]_appVars
    PROVE  ScreenInv'
<1>1. info \in Info /\ refused \in Config \cup {None}
  BY DEF Inv, NativeInv
<1>2. CASE DeliverToScreen
  <2>1. Head(events) \in State /\ ScreenOnState(Head(events))
    BY <1>2, Behead DEF Inv, StreamInv, DeliverToScreen, Deliver
  <2>2. UNCHANGED <<olcrtcOn, olcrtcBusy, olcrtcPort, asking, taps, reloads>>
    BY <1>2 DEF DeliverToScreen, toggleShown
  <2>3. conn' \in Info /\ misled' \in Config \cup {None}
    BY <1>1, <2>1, EventShows, Undescribed DEF ScreenInv, Reads, Drops, Keeps
  <2> QED
    BY <2>1, <2>2, <2>3, EventShows DEF ScreenInv
<1>3. CASE SettleAndGoOn
  <2>1. /\ UNCHANGED <<state, conn, misled, asking, taps, reloads>>
        /\ activeTag' \in {None, activeTag}
    BY <1>3 DEF SettleAndGoOn
  <2>2. olcrtcOn' \in BOOLEAN /\ olcrtcBusy' \in BOOLEAN /\ olcrtcPort' \in BOOLEAN
    BY <1>3 DEF ScreenInv, SettleAndGoOn, EndOlcrtc, toggleShown
  <2> QED
    BY <2>1, <2>2 DEF ScreenInv
<1>4. CASE Reload
  <2>1. state' \in State /\ (Reads \/ Drops) /\ activeTag' = None
    BY <1>4 DEF Reload, State
  <2>2. /\ asking' = {} /\ olcrtcOn' = FALSE /\ olcrtcBusy' = FALSE /\ olcrtcPort' = FALSE
        /\ taps' \in Nat /\ reloads' \in Nat
    BY <1>4 DEF ScreenInv, Reload
  <2>3. conn' \in Info /\ misled' \in Config \cup {None}
    BY <1>1, <2>1, Undescribed DEF Reads, Drops
  <2> QED
    BY <2>1, <2>2, <2>3 DEF ScreenInv
<1>5. CASE UNCHANGED <<screen, taps, reloads>>
  BY <1>5 DEF ScreenInv, screen, connShown, toggleShown
<1> QED
  BY <1>2, <1>3, <1>4, <1>5, TapsScreen, HandlersScreen DEF AppNext, appVars

LEMMA AppInv == Inv /\ ScreenInv /\ [AppNext]_appVars => Inv' /\ ScreenInv'
BY StepScreen, AppStep, StepInv, ReloadInv

LEMMA AppInvHolds == AppSpec => [](Inv /\ ScreenInv)
BY AppInitInv, InitScreen, AppInv, PTL DEF AppSpec

\* The screen and the client under it are of their types, whatever the races and the reloads.
THEOREM AppTypeCorrect == AppSpec => []AppTypeOK
<1>1. Inv /\ ScreenInv => AppTypeOK
  BY InvTypeOK DEF ScreenInv, AppTypeOK
<1> QED
  BY <1>1, AppInvHolds, PTL
-----------------------------------------------------------------------------
(* The lock, as the screen uses it.                                        *)

\* Who is served comes off the queue.
LEMMA Served ==
    ASSUME Inv, Serve
    PROVE  /\ waiting # <<>> /\ call = NoCall /\ waiting' = Tail(waiting)
           /\ call'.op = Head(waiting).op /\ call'.arg = Head(waiting).arg
           /\ UNCHANGED <<task, engine, stored>>
<1> DEFINE c == Head(waiting)
<1>1. c \in Asked /\ waiting # <<>> /\ call = NoCall
  BY Behead DEF Inv, LockInv, Serve
<1>2. \A at : [c EXCEPT !.at = at].op = c.op /\ [c EXCEPT !.at = at].arg = c.arg
  BY <1>1 DEF Asked, Call
<1>3. \/ \E at : Takes(c, at)
      \/ ClearStoredConfig(c)
  BY DEF Serve, Begin, Connect, StartRaw, ConnectOlcrtcOnly, Disconnect, StartOlcrtc, StopOlcrtc,
         SetKillSwitch, Await
<1>4. UNCHANGED <<task, engine, stored>>
  BY DEF Serve, Begin, Connect, StartRaw, ConnectOlcrtcOnly, Disconnect, StartOlcrtc, StopOlcrtc,
         SetKillSwitch, ClearStoredConfig, SendStart, nativeVars
<1> QED
  BY <1>1, <1>2, <1>3, <1>4 DEF Takes, ClearStoredConfig

\* Places in the queue, after a request and after the first has been served.
LEMMA AfterRequest ==
    ASSUME Inv, NEW op, NEW arg, Request(op, arg)
    PROVE  /\ DOMAIN waiting = 1..Len(waiting) /\ Len(waiting) \in Nat
           /\ DOMAIN waiting' = 1..(Len(waiting) + 1)
           /\ waiting'[Len(waiting) + 1].op = op /\ waiting'[Len(waiting) + 1].arg = arg
           /\ \A i \in DOMAIN waiting : waiting'[i] = waiting[i]
<1>1. PICK c : c = [op |-> op, arg |-> arg, at |-> "waiting"]
  OBVIOUS
<1>2. waiting' = Append(waiting, c) /\ waiting \in Seq(Asked) /\ c.op = op /\ c.arg = arg
  BY <1>1 DEF Inv, LockInv, Request
<1> QED
  BY <1>2

LEMMA AfterServe ==
    ASSUME Inv, Serve
    PROVE  /\ DOMAIN waiting = 1..Len(waiting) /\ Len(waiting) \in Nat \ {0}
           /\ DOMAIN waiting' = 1..(Len(waiting) - 1) /\ Head(waiting) = waiting[1]
           /\ \A i \in DOMAIN waiting' : waiting'[i] = waiting[i + 1]
<1>1. waiting \in Seq(Asked) /\ waiting # <<>> /\ waiting' = Tail(waiting)
  BY Served DEF Inv, LockInv
<1> QED
  BY <1>1, HeadTailProperties, LenProperties
-----------------------------------------------------------------------------
(* One toggle at a time.                                                   *)

\* What a toggle depends on.
toggleVars == <<olcrtcBusy, asking, waiting, call>>

LEMMA ElsewhereToggle ==
    ASSUME ToggleInv, UNCHANGED <<olcrtcBusy, waiting>>, Pending' = Pending,
           call' = call \/ (call.op \notin Toggling /\ call'.op \notin Toggling)
                        \/ (call'.op = call.op)
    PROVE  ToggleInv'
<1>1. Queued' = Queued
  BY DEF Queued
<1>2. /\ Held = IF call.op \in Toggling THEN {call} ELSE {}
      /\ Held' = IF call'.op \in Toggling THEN {call'} ELSE {}
  BY DEF Held
<1>3. \A i : Queued = {i} => i \in DOMAIN waiting
  BY DEF Queued
<1>4. \A h : Pending' = {h} => h \in asking'
  BY DEF Pending
<1> QED
  BY <1>1, <1>2, <1>3, <1>4 DEF ToggleInv

LEMMA RequestQueued ==
    ASSUME Inv, NEW op, NEW arg, Request(op, arg)
    PROVE  /\ Queued' = IF op \in Toggling THEN Queued \cup {Len(waiting) + 1} ELSE Queued
           /\ Len(waiting) + 1 \in DOMAIN waiting' /\ Held' = Held
           /\ \A i \in DOMAIN waiting : i \in DOMAIN waiting'
<1>1. Held' = Held
  BY DEF Held, Request
<1> QED
  BY <1>1, AfterRequest DEF Queued

LEMMA ServeToggle ==
    ASSUME Inv, ToggleInv, Serve, UNCHANGED <<olcrtcBusy, asking>>
    PROVE  ToggleInv'
<1>1. Held = {} /\ Held' = IF waiting[1].op \in Toggling THEN {call'} ELSE {}
  BY Served, AfterServe DEF Held, NoCall, Toggling
<1>2. Pending' = Pending
  BY DEF Pending
<1>3. waiting[1].op \in Toggling <=> 1 \in Queued
  BY AfterServe DEF Queued
<1>4. \A i : i \in Queued' <=> i + 1 \in Queued /\ i \in 1..(Len(waiting) - 1)
  BY AfterServe DEF Queued
<1>5. Queued \subseteq 1..Len(waiting)
  BY AfterServe DEF Queued
<1>6. CASE Queued = {}
  BY <1>1, <1>2, <1>3, <1>4, <1>6 DEF ToggleInv
<1>7. CASE Queued = {1}
  <2>1. Queued' = {}
    BY <1>4, <1>7
  <2> QED
    BY <1>1, <1>2, <1>3, <1>7, <2>1 DEF ToggleInv
<1>8. ASSUME NEW i \in DOMAIN waiting, i # 1, Queued = {i}
      PROVE  ToggleInv'
  <2>1. i \in 2..Len(waiting)
    BY <1>8, AfterServe
  <2>2. i - 1 \in DOMAIN waiting' /\ Queued' = {i - 1}
    BY <1>4, <1>8, <2>1, AfterServe
  <2> QED
    BY <1>1, <1>2, <1>3, <1>8, <2>2 DEF ToggleInv
<1> QED
  BY <1>1, <1>6, <1>7, <1>8 DEF ToggleInv

LEMMA RequestToggle ==
    ASSUME Inv, NEW op, NEW arg, Request(op, arg),
           \/ op \notin Toggling /\ ToggleInv /\ Pending' = Pending /\ olcrtcBusy' = olcrtcBusy
           \/ op \in Toggling /\ Pending' = {} /\ Queued = {} /\ Held = {} /\ olcrtcBusy' = TRUE
    PROVE  ToggleInv'
<1>1. CASE op \in Toggling
  <2>1. Queued' = {Len(waiting) + 1} /\ Len(waiting) + 1 \in DOMAIN waiting' /\ Held' = {}
    BY <1>1, RequestQueued
  <2> QED
    BY <1>1, <2>1 DEF ToggleInv
<1>2. CASE op \notin Toggling
  <2>1. Queued' = Queued /\ Held' = Held /\ call' = call /\ \A i \in DOMAIN waiting : i \in DOMAIN waiting'
    BY <1>2, RequestQueued DEF Request
  <2>2. \A h : Pending' = {h} => h \in asking'
    BY DEF Pending
  <2> QED
    BY <1>2, <2>1, <2>2 DEF ToggleInv
<1> QED
  BY <1>1, <1>2

LEMMA TapsToggle ==
    ASSUME Inv, ToggleInv, Taps
    PROVE  ToggleInv'
<1>1. CASE TapOlcrtcOnly \/ \E tag \in Tags : TapConnect(tag)
  <2>1. /\ UNCHANGED <<waiting, call, olcrtcBusy>>
        /\ \E tag : \E op \in {"connect", "connectOlcrtcOnly"} : Ask(op, tag)
    BY <1>1 DEF TapOlcrtcOnly, TapConnect, vars, lockVars, toggleShown
  <2>2. Pending' = Pending
    BY <2>1 DEF Pending, Ask
  <2> QED
    BY <2>1, <2>2, ElsewhereToggle
<1>2. CASE TapDisconnect
  <2>1. Request("disconnect", None) /\ olcrtcBusy' = olcrtcBusy /\ Pending' = Pending
    BY <1>2 DEF TapDisconnect, screen, toggleShown, Pending
  <2> QED
    BY <2>1, RequestToggle DEF Toggling
<1>3. CASE ToggleOlcrtc
  <2>1. Pending = {} /\ Queued = {} /\ Held = {} /\ olcrtcBusy' = TRUE
    BY <1>3 DEF ToggleOlcrtc, ToggleInv
  <2>2. CASE olcrtcOn
    <3>1. Request("stopOlcrtc", None) /\ Pending' = {}
      BY <1>3, <2>1, <2>2 DEF ToggleOlcrtc, Pending
    <3> QED
      BY <2>1, <3>1, RequestToggle DEF Toggling
  <2>3. CASE ~olcrtcOn
    <3>1. PICK h : h = [op |-> "startOlcrtc", tag |-> None, id |-> taps]
      OBVIOUS
    <3>2. asking' = asking \cup {h} /\ UNCHANGED <<waiting, call>> /\ h.op = "startOlcrtc"
      BY <1>3, <2>3, <3>1 DEF ToggleOlcrtc, Ask, vars, lockVars
    <3>3. Pending' = {h} /\ h \in asking'
      BY <2>1, <3>2 DEF Pending
    <3>4. Queued' = {} /\ Held' = {}
      BY <2>1, <3>2 DEF Queued, Held
    <3> QED
      BY <2>1, <3>3, <3>4 DEF ToggleInv
  <2> QED
    BY <2>2, <2>3
<1> QED
  BY <1>1, <1>2, <1>3 DEF Taps

LEMMA HandlersToggle ==
    ASSUME Inv, ScreenInv, ToggleInv, NEW h \in asking, Granted(h) \/ Denied(h)
    PROVE  ToggleInv'
<1>1. asking' = asking \ {h}
  BY DEF Granted, Denied
<1>2. CASE h.op # "startOlcrtc"
  <2>1. Pending' = Pending
    BY <1>1, <1>2 DEF Pending
  <2>2. CASE Granted(h)
    <3>1. olcrtcBusy' = olcrtcBusy
      BY <2>2 DEF Granted, toggleShown
    <3>2. \E op \in {"connect", "connectOlcrtcOnly"}, arg \in Config : Request(op, arg)
      BY <1>2, <2>2, Requested, BuiltFor DEF Config
    <3> QED
      BY <2>1, <3>1, <3>2, RequestToggle DEF Toggling
  <2>3. CASE Denied(h)
    <3>1. UNCHANGED <<waiting, call, olcrtcBusy>>
      BY <1>2, <2>3 DEF Denied, vars, lockVars
    <3> QED
      BY <2>1, <3>1, ElsewhereToggle
  <2> QED
    BY <2>2, <2>3
<1>3. CASE h.op = "startOlcrtc"
  <2>1. h \in Pending
    BY <1>3 DEF Pending
  <2>2. Pending = {h} /\ Queued = {} /\ Held = {} /\ olcrtcBusy
    BY <2>1 DEF ToggleInv
  <2>3. Pending' = {}
    BY <1>1, <2>2 DEF Pending
  <2>4. CASE Granted(h)
    <3>1. olcrtcBusy' = olcrtcBusy
      BY <2>4 DEF Granted, toggleShown
    <3>2. \E b \in Olcrtc : Request("startOlcrtc", b)
      BY <1>3, <2>4, Requested
    <3>3. olcrtcBusy' = TRUE
      BY <2>2, <3>1 DEF ScreenInv
    <3> QED
      BY <2>2, <2>3, <3>2, <3>3, RequestToggle DEF Toggling
  <2>5. CASE Denied(h)
    <3>1. UNCHANGED <<waiting, call>> /\ olcrtcBusy' = FALSE
      BY <1>3, <2>5 DEF Denied, EndOlcrtc, vars, lockVars
    <3>2. Queued' = {} /\ Held' = {}
      BY <2>2, <3>1 DEF Queued, Held
    <3> QED
      BY <2>3, <3>1, <3>2 DEF ToggleInv
  <2> QED
    BY <2>4, <2>5
<1> QED
  BY <1>2, <1>3

LEMMA SettleToggle ==
    ASSUME ToggleInv, SettleAndGoOn
    PROVE  ToggleInv'
<1>1. call'.op = "none" /\ UNCHANGED <<waiting, asking>>
  BY DEF SettleAndGoOn, Settle, Release, NoCall
<1>2. Pending' = Pending /\ Queued' = Queued
  BY <1>1 DEF Pending, Queued
<1>3. CASE call.op \in Toggling
  <2>1. olcrtcBusy' = FALSE /\ call \in Held
    BY <1>3 DEF SettleAndGoOn, EndOlcrtc, Toggling, Held
  <2>2. Held' = {}
    BY <1>1 DEF Held, Toggling
  <2> QED
    BY <1>2, <2>1, <2>2 DEF ToggleInv
<1>4. CASE call.op \notin Toggling
  <2>1. olcrtcBusy' = olcrtcBusy
    BY <1>4 DEF SettleAndGoOn, toggleShown, Toggling
  <2>2. call'.op \notin Toggling
    BY <1>1 DEF Toggling
  <2> QED
    BY <1>1, <1>2, <1>4, <2>1, <2>2, ElsewhereToggle
<1> QED
  BY <1>3, <1>4

LEMMA UnseenToggle ==
    ASSUME Inv, ToggleInv, Unseen, UNCHANGED <<screen, taps, reloads>>
    PROVE  ToggleInv'
<1>1. UNCHANGED <<olcrtcBusy, asking>> /\ Pending' = Pending
  BY DEF screen, toggleShown, Pending
<1>2. CASE Serve
  BY <1>1, <1>2, ServeToggle
<1>3. CASE GoesOn
  <2>1. call'.op = call.op /\ waiting' = waiting
    BY <1>3 DEF GoesOn, Inv, LockInv, Asked, Call, NoCall
  <2> QED
    BY <1>1, <2>1, ElsewhereToggle
<1>4. CASE Native \/ Widget \/ TornDown \/ StopTimesOut
  <2>1. UNCHANGED <<call, waiting>>
    BY <1>4 DEF Native, StartArrives, StopArrives, StartRuns, RestoreConnectionInfo, EngineStarts,
       StartSucceeds, StartFails, StopRuns, Answer, GetStats, Widget, TornDown, StopTimesOut, lockVars
  <2> QED
    BY <1>1, <2>1, ElsewhereToggle
<1> QED
  BY <1>2, <1>3, <1>4 DEF Unseen

LEMMA StepToggle ==
    ASSUME Inv, ScreenInv, ToggleInv, [AppNext]_appVars
    PROVE  ToggleInv'
<1>1. CASE DeliverToScreen \/ UNCHANGED appVars
  <2>1. UNCHANGED <<olcrtcBusy, waiting, call, asking>>
    BY <1>1 DEF DeliverToScreen, Deliver, lockVars, toggleShown, appVars, vars, screen
  <2>2. Pending' = Pending
    BY <2>1 DEF Pending
  <2> QED
    BY <2>1, <2>2, ElsewhereToggle
<1>2. CASE Reload
  <2>1. ~olcrtcBusy' /\ asking' = {} /\ waiting' = <<>> /\ call'.op = "none"
    BY <1>2 DEF Reload, NoCall
  <2>2. Pending' = {} /\ Queued' = {} /\ Held' = {}
    BY <2>1 DEF Pending, Queued, Held, Toggling
  <2> QED
    BY <2>1, <2>2 DEF ToggleInv
<1> QED
  BY <1>1, <1>2, TapsToggle, HandlersToggle, SettleToggle, UnseenToggle DEF AppNext

LEMMA InitToggle == AppInit => ToggleInv
<1> SUFFICES ASSUME AppInit PROVE ToggleInv
  OBVIOUS
<1>1. ~olcrtcBusy /\ asking = {} /\ waiting = <<>> /\ call.op = "none"
  BY DEF AppInit, NoCall
<1> QED
  BY <1>1 DEF ToggleInv, Pending, Queued, Held, Toggling

\* The switch is busy exactly while one toggle waits for the permission or the lock, or has it,
\* and there are never two: whoever taps meanwhile, whatever fails, and over a reload.
THEOREM OneToggleAtATime == AppSpec => []OneToggle
<1>1. Inv /\ ScreenInv /\ ToggleInv /\ [AppNext]_appVars => ToggleInv'
  BY StepToggle
<1>2. ToggleInv => OneToggle
  <2> SUFFICES ASSUME ToggleInv PROVE OneToggle
    OBVIOUS
  <2>1. OneToggle <=> Cardinality(Pending) + Cardinality(Queued) + Cardinality(Held)
                        = IF olcrtcBusy THEN 1 ELSE 0
    BY DEF OneToggle, Pending, Queued, Held, Toggling
  <2>2. Cardinality({}) = 0 /\ \A x : Cardinality({x}) = 1
    BY FS_EmptySet, FS_Singleton
  <2>3. CASE ~olcrtcBusy
    <3>1. Pending = {} /\ Queued = {} /\ Held = {}
      BY <2>3 DEF ToggleInv
    <3> QED
      BY <2>1, <2>2, <2>3, <3>1
  <2>4. CASE olcrtcBusy
    <3>1. \/ Pending = {} /\ Queued = {} /\ \E x : Held = {x}
          \/ Pending = {} /\ Held = {} /\ \E x : Queued = {x}
          \/ Queued = {} /\ Held = {} /\ \E x : Pending = {x}
      BY <2>4 DEF ToggleInv
    <3>2. \/ Cardinality(Pending) = 0 /\ Cardinality(Queued) = 0 /\ Cardinality(Held) = 1
          \/ Cardinality(Pending) = 0 /\ Cardinality(Held) = 0 /\ Cardinality(Queued) = 1
          \/ Cardinality(Queued) = 0 /\ Cardinality(Held) = 0 /\ Cardinality(Pending) = 1
      BY <2>2, <3>1
    <3> QED
      BY <2>1, <2>4, <3>2
  <2> QED
    BY <2>3, <2>4
<1> QED
  BY <1>1, <1>2, InitToggle, AppInvHolds, PTL DEF AppSpec
-----------------------------------------------------------------------------
(* The tunnel, and what is said of it.                                     *)

\* What the native side says of itself when it comes to rest.
Says(e) ==
    \/ e = "connected" /\ engine' # None
    \/ e = "blocked" /\ engine' = None /\ interface'
    \/ e \in {"disconnected", "error"} /\ engine' = None /\ ~interface'
    \/ e = "error" /\ "stray error" \in Races

\* A step that does not touch it, or does not let it rest, or says what has become of it.
Untouched == /\ UNCHANGED <<start, task, stopping, engine, interface, events>>
             /\ intent \in Config => intent' = intent

Announces ==
    \/ Untouched
    \/ ~NativeIdle'
    \/ \E e \in State : events' = Append(events, e) /\ Says(e)

LEMMA SendStartAnnounces ==
    ASSUME NativeShape, NEW c \in Config, SendStart(c)
    PROVE  Announces /\ NativeShape'
<1>1. /\ registered' = TRUE /\ intent \notin Config
      /\ UNCHANGED <<start, task, stopping, engine, interface, events>>
  BY ClientAssumption DEF SendStart
<1> QED
  BY <1>1 DEF Announces, Untouched, NativeShape

LEMMA ServeAnnounces ==
    ASSUME Inv, NativeShape, Serve
    PROVE  Announces /\ NativeShape'
<1> DEFINE c == Head(waiting)
<1>1. c \in Asked
  BY Behead DEF Inv, LockInv, Serve
<1>2. CASE Connect(c) \/ StartRaw(c) \/ ConnectOlcrtcOnly(c)
  <2>1. c.arg \in Config
    BY <1>1, <1>2 DEF Asked, Connect, StartRaw, ConnectOlcrtcOnly
  <2>2. CASE SendStart(c.arg)
    BY <2>1, <2>2, SendStartAnnounces
  <2>3. CASE UNCHANGED <<intent, start, task, stopping, engine, interface, events, registered>>
    BY <2>3 DEF Announces, Untouched, NativeShape
  <2> QED
    BY <1>2, <2>2, <2>3 DEF Connect, StartRaw, ConnectOlcrtcOnly, Await, nativeVars, streamVars
<1>3. CASE Disconnect(c)
  <2>1. /\ UNCHANGED <<start, task, stopping, engine, interface, events, registered>>
        /\ intent \notin Config
    BY <1>3, ClientAssumption DEF Disconnect, Await
  <2> QED
    BY <2>1 DEF Announces, Untouched, NativeShape
<1>4. CASE StartOlcrtc(c) \/ StopOlcrtc(c) \/ SetKillSwitch(c) \/ ClearStoredConfig(c)
  <2>1. UNCHANGED <<intent, start, task, stopping, engine, interface, events, registered>>
    BY <1>4 DEF StartOlcrtc, StopOlcrtc, SetKillSwitch, ClearStoredConfig, Await, nativeVars, streamVars
  <2> QED
    BY <2>1 DEF Announces, Untouched, NativeShape
<1> QED
  BY <1>2, <1>3, <1>4 DEF Serve, Begin

LEMMA ArrivesAnnounces ==
    ASSUME NativeShape, StartArrives \/ StopArrives
    PROVE  Announces /\ NativeShape'
<1>1. UNCHANGED <<task, engine, interface, registered>> /\ (start' # None \/ stopping')
  BY ClientAssumption DEF StartArrives, StopArrives
<1> QED
  BY <1>1 DEF Announces, NativeIdle, NativeShape

LEMMA StartAnnounces ==
    ASSUME Inv, NativeShape, StartRuns \/ RestoreConnectionInfo \/ EngineStarts \/ StartSucceeds \/ StartFails
    PROVE  Announces /\ NativeShape'
<1>1. CASE StartRuns
  <2>1. /\ task' = [config |-> start, by |-> "js", at |-> "ready"] /\ engine' = None
        /\ UNCHANGED <<interface, registered>>
    BY <1>1 DEF StartRuns, streamVars
  <2>2. task' # NoTask
    BY <2>1 DEF NoTask
  <2> QED
    BY <2>1, <2>2 DEF Announces, NativeIdle, NativeShape
<1>2. CASE RestoreConnectionInfo \/ EngineStarts
  <2>1. task \in [config : Config, by : {"js", "widget"}, at : {"stopped", "ready", "up"}]
    BY <1>2 DEF Inv, NativeInv, NoTask, RestoreConnectionInfo, EngineStarts
  <2>2. /\ registered' = registered /\ task'.config = task.config
        /\ \/ task'.at = "ready" /\ task.at = "stopped" /\ UNCHANGED <<engine, interface>>
           \/ task'.at = "up" /\ engine' = task.config /\ interface' = TRUE
    BY <1>2, <2>1 DEF RestoreConnectionInfo, EngineStarts, streamVars
  <2>3. task' # NoTask
    BY <2>2 DEF NoTask
  <2> QED
    BY <2>2, <2>3 DEF Announces, NativeIdle, NativeShape
<1>3. CASE StartSucceeds
  <2>1. /\ task.at = "up" /\ task' = NoTask /\ UNCHANGED <<engine, interface, registered, start, stopping>>
        /\ Overtaken \/ Emit("connected")
    BY <1>3 DEF StartSucceeds
  <2>2. engine # None /\ registered = TRUE
    BY <2>1, ClientAssumption DEF NativeShape, Inv, NativeInv, NoTask
  <2>3. CASE Overtaken
    BY <2>1, <2>3 DEF Overtaken, Announces, NativeIdle, NativeShape, NoTask
  <2>4. CASE Emit("connected")
    <3>1. events' = Append(events, "connected") /\ Says("connected") /\ "connected" \in State
      BY <2>1, <2>2, <2>4 DEF Emit, Says, State
    <3> QED
      BY <2>1, <3>1 DEF Announces, NativeShape, NoTask
  <2> QED
    BY <2>1, <2>3, <2>4
<1>4. CASE StartFails
  <2>1. /\ task.at = "ready" /\ task' = NoTask /\ UNCHANGED <<engine, registered>>
        /\ \/ interface' = TRUE /\ events' = IF registered THEN Append(events, "blocked") ELSE events
           \/ interface' = FALSE /\ events' = IF registered THEN Append(events, "error") ELSE events
    BY <1>4 DEF StartFails, Emit
  <2>2. engine = None /\ registered = TRUE
    BY <2>1 DEF NativeShape
  <2>3. \E e \in {"blocked", "error"} : events' = Append(events, e) /\ Says(e)
    BY <2>1, <2>2 DEF Says
  <2> QED
    BY <2>1, <2>2, <2>3 DEF Announces, NativeShape, NoTask, State
<1> QED
  BY <1>1, <1>2, <1>3, <1>4

LEMMA OtherNativeAnnounces ==
    ASSUME Inv, NativeShape, Widget \/ StopRuns \/ StopTimesOut \/ TornDown \/ Answer \/ Traffic
    PROVE  Announces /\ NativeShape'
<1>1. CASE Widget
  <2>1. registered' = registered /\ UNCHANGED <<interface, start, stopping>> /\ task = NoTask
    BY <1>1 DEF Widget
  <2>2. CASE stored.config = None
    <3>1. /\ events' = Append(events, "error") /\ UNCHANGED <<task, engine>>
          /\ interface => "stray error" \in Races
      BY <1>1, <2>2 DEF Widget, Emit, NativeShape
    <3>2. Says("error") /\ "error" \in State
      BY <2>1, <3>1 DEF Says, NativeShape, State
    <3> QED
      BY <2>1, <3>1, <3>2 DEF Announces, NativeShape
  <2>3. CASE stored.config # None
    <3>1. engine' = None /\ task' = [config |-> stored.config, by |-> "widget", at |-> "stopped"]
      BY <1>1, <2>3 DEF Widget
    <3>2. task' # NoTask /\ task'.at = "stopped"
      BY <3>1 DEF NoTask
    <3> QED
      BY <2>1, <3>1, <3>2 DEF Announces, NativeIdle, NativeShape
  <2> QED
    BY <2>2, <2>3
<1>2. CASE StopRuns \/ TornDown
  <2>1. task = NoTask /\ TunnelDown /\ UNCHANGED <<registered, task>>
    BY <1>2 DEF StopRuns, TornDown
  <2>2. /\ events' = Append(events, "disconnected") /\ Says("disconnected")
        /\ "disconnected" \in State
    BY <2>1 DEF TunnelDown, Emit, NativeShape, Says, State
  <2> QED
    BY <2>1, <2>2 DEF TunnelDown, Announces, NativeShape, NoTask
<1>3. CASE StopTimesOut \/ Answer \/ Traffic
  <2>1. UNCHANGED <<intent, start, task, stopping, engine, interface, events, registered>>
    BY <1>3 DEF StopTimesOut, Answer, Traffic, streamVars
  <2> QED
    BY <2>1 DEF Announces, Untouched, NativeShape
<1> QED
  BY <1>1, <1>2, <1>3

\* The steps of the client in which the screen hears nothing.
Unheard ==
    \/ Requests \/ Settle \/ UNCHANGED vars
    \/ Serve \/ GoesOn \/ Native \/ Widget \/ TornDown \/ StopTimesOut

LEMMA UnheardAnnounces ==
    ASSUME Inv, NativeShape, Unheard
    PROVE  Announces /\ NativeShape'
<1>1. CASE Requests \/ Settle \/ UNCHANGED vars \/ \E p \in Poll : GetStats(p)
  <2>1. UNCHANGED <<intent, start, task, stopping, engine, interface, events, registered>>
    BY <1>1 DEF Requests, Request, Settle, GetStats, vars, nativeVars, streamVars
  <2> QED
    BY <2>1 DEF Announces, Untouched, NativeShape
<1>2. CASE GoesOn
  <2>1. call.arg \in Config /\ SendStart(call.arg)
    BY <1>2 DEF Inv, LockInv, GoesOn, NoCall, Asked
  <2> QED
    BY <2>1, SendStartAnnounces
<1> QED
  BY <1>1, <1>2, ServeAnnounces, ArrivesAnnounces, StartAnnounces, OtherNativeAnnounces
     DEF Unheard, Native

LEMMA ScreenStep ==
    ASSUME ScreenInv, [AppNext]_appVars
    PROVE  DeliverToScreen \/ Reload \/ (Unheard /\ UNCHANGED <<state, conn, misled>>)
<1>1. CASE Taps
  <2>1. \/ UNCHANGED vars \/ Request("stopOlcrtc", None) \/ Request("disconnect", None)
    BY <1>1 DEF Taps, TapConnect, TapOlcrtcOnly, ToggleOlcrtc, TapDisconnect
  <2>2. UNCHANGED <<state, conn, misled>>
    BY <1>1 DEF Taps, TapConnect, TapOlcrtcOnly, ToggleOlcrtc, TapDisconnect, screen, connShown
  <2> QED
    BY <2>1, <2>2 DEF Unheard, Requests
<1>2. ASSUME NEW h \in asking, Granted(h)
      PROVE  Requests /\ UNCHANGED <<state, conn, misled>>
  <2>1. UNCHANGED <<state, conn, misled>>
    BY <1>2 DEF Granted
  <2> QED
    BY <1>2, <2>1, Requested, BuiltFor DEF Requests
<1>3. ASSUME NEW h \in asking, Denied(h)
      PROVE  Unheard /\ UNCHANGED <<state, conn, misled>>
  BY <1>3 DEF Denied, Unheard
<1>4. CASE SettleAndGoOn
  BY <1>4 DEF SettleAndGoOn, Unheard
<1>5. CASE Unseen /\ UNCHANGED <<screen, taps, reloads>>
  BY <1>5 DEF Unseen, Unheard, screen, connShown
<1>6. CASE UNCHANGED appVars
  BY <1>6 DEF Unheard, appVars, screen, connShown
<1> QED
  BY <1>1, <1>2, <1>3, <1>4, <1>5, <1>6 DEF AppNext, Unheard

LEMMA StepShape ==
    ASSUME Inv, ScreenInv, NativeShape, [AppNext]_appVars
    PROVE  NativeShape'
<1>1. CASE DeliverToScreen
  BY <1>1 DEF DeliverToScreen, Deliver, NativeShape, nativeVars
<1>2. CASE Reload
  <2>1. UNCHANGED <<registered, engine, interface>>
    BY <1>2 DEF Reload
  <2> QED
    BY <1>2, <2>1, Orphaned DEF NativeShape
<1> QED
  BY <1>1, <1>2, ScreenStep, UnheardAnnounces

\* Events come in their order, and the last of them has the last word.
LEMMA Emitted ==
    ASSUME Inv, NEW e, events' = Append(events, e)
    PROVE  events' # <<>> /\ events'[Len(events')] = e
<1>1. events \in Seq(State)
  BY DEF Inv, StreamInv
<1> QED
  BY <1>1

LEMMA OneDelivered ==
    ASSUME Inv, DeliverToScreen
    PROVE  /\ events # <<>> /\ Head(events) \in State /\ ScreenOnState(Head(events))
           /\ events' = <<>> => Head(events) = events[Len(events)]
           /\ events' # <<>> => events'[Len(events')] = events[Len(events)]
           /\ UNCHANGED <<intent, start, task, stopping, engine, interface, info, refused>>
<1>1. events \in Seq(State) /\ events # <<>> /\ events' = Tail(events)
  BY DEF Inv, StreamInv, DeliverToScreen, Deliver
<1>2. /\ Len(events) \in Nat \ {0} /\ Len(events') = Len(events) - 1 /\ Head(events) = events[1]
      /\ \A i \in 1..Len(events') : events'[i] = events[i + 1]
  BY <1>1, HeadTailProperties, LenProperties
<1>3. events' = <<>> <=> Len(events') = 0
  BY <1>1, HeadTailProperties, EmptySeq
<1>4. /\ UNCHANGED <<intent, start, task, stopping, engine, interface, info, refused>>
      /\ ScreenOnState(Head(events))
  BY DEF DeliverToScreen, Deliver, nativeVars
<1> QED
  BY <1>1, <1>2, <1>3, <1>4, Behead

LEMMA StepWillShow ==
    ASSUME "stray error" \notin Races, ~OverHold, Inv, ScreenInv, NativeShape, WillShow, [AppNext]_appVars
    PROVE  WillShow'
<1>1. CASE DeliverToScreen
  <2>1. Lastly' = Lastly
    BY <1>1, OneDelivered, EventShows DEF Lastly
  <2>2. UNCHANGED <<start, task, stopping, engine, interface>>
    BY <1>1, OneDelivered
  <2>3. NativeIdle' <=> NativeIdle
    BY <2>2 DEF NativeIdle
  <2> QED
    BY <2>1, <2>2, <2>3 DEF WillShow
<1>2. CASE Reload
  <2>1. /\ events' = <<>> /\ UNCHANGED <<engine, interface, start, stopping>>
        /\ state' = IF interface THEN "connected" ELSE "disconnected"
        /\ engine # None \/ ~interface \/ task # NoTask
    BY <1>2 DEF Reload
  <2>2. task' = NoTask => task = NoTask
    BY <1>2, Orphaned
  <2> QED
    BY <2>1, <2>2 DEF WillShow, NativeIdle, Lastly, NativeShape
<1>3. CASE Announces /\ UNCHANGED <<state, conn, misled>>
  <2>1. CASE Untouched
    BY <1>3, <2>1 DEF WillShow, NativeIdle, Lastly, Untouched
  <2>2. CASE ~NativeIdle'
    BY <2>2 DEF WillShow
  <2>3. ASSUME NEW e \in State, events' = Append(events, e), Says(e)
        PROVE  WillShow'
    <3>1. Lastly' = e
      BY <2>3, Emitted DEF Lastly
    <3> QED
      BY <2>3, <3>1 DEF WillShow, Says
  <2> QED
    BY <1>3, <2>1, <2>2, <2>3 DEF Announces
<1> QED
  BY <1>1, <1>2, <1>3, ScreenStep, UnheardAnnounces

LEMMA InitShow == AppInit => NativeShape /\ WillShow
BY DEF AppInit, NativeShape, WillShow, NativeIdle, Lastly, NoTask

\* Once nothing is under way, the screen says what the tunnel is in, however starts, stops,
\* failures and widgets crossed on their way there, provided that no error is reported over a
\* tunnel that stays up and no app is reloaded over one that is held.
THEOREM ScreenTellsTheTruth ==
    ASSUME "stray error" \notin Races, ~OverHold
    PROVE  AppSpec => []ScreenTruthful
<1>1. Inv /\ ScreenInv /\ NativeShape /\ [AppNext]_appVars => NativeShape'
  BY StepShape
<1>2. Inv /\ ScreenInv /\ NativeShape /\ WillShow /\ [AppNext]_appVars => WillShow'
  BY StepWillShow
<1>3. WillShow => ScreenTruthful
  BY DEF WillShow, ScreenTruthful, Quiet, NativeIdle, Lastly
<1> QED
  BY <1>1, <1>2, <1>3, InitShow, AppInvHolds, PTL DEF AppSpec
-----------------------------------------------------------------------------
(* The connection and the row.                                             *)

LEMMA StepAppInfo ==
    ASSUME NoInfoRace, ScreenInv, InfoInv, [AppNext]_appVars
    PROVE  InfoInv'
BY AppStep, StepInfo, ReloadInfo

LEMMA StepWillDescribe ==
    ASSUME InfoInv, ScreenInv, NativeShape, WillDescribe, [AppNext]_appVars
    PROVE  WillDescribe'
<1>0. /\ Inv /\ NoInfo.config = None
      /\ intent \notin Config /\ NativeIdle /\ engine # None => info.config \in {None, engine, refused}
  BY Undescribed DEF InfoInv, InfoTruthful, NativeIdle
<1>1. CASE DeliverToScreen
  <2>1. UNCHANGED <<intent, start, task, stopping, engine, info, refused>>
    BY <1>0, <1>1, OneDelivered
  <2>2. NativeIdle' <=> NativeIdle
    BY <2>1 DEF NativeIdle
  <2>3. SUFFICES ASSUME intent \notin Config, NativeIdle, engine # None
                 PROVE  IF events' = <<>> THEN conn'.config \in {None, engine, misled'}
                        ELSE events'[Len(events')] \in {"connected", "error"}
    BY <2>1, <2>2 DEF WillDescribe
  <2>4. events[Len(events)] \in {"connected", "error"} /\ ScreenOnState(Head(events))
    BY <1>0, <1>1, <2>3, OneDelivered DEF WillDescribe
  <2>5. CASE events' = <<>>
    <3>1. PICK s \in {"connected", "error"} : s = Head(events)
      BY <1>0, <1>1, <2>4, <2>5, OneDelivered
    <3>2. Reads \/ Drops
      BY <2>4, <3>1 DEF ScreenOnState
    <3> QED
      BY <1>0, <2>3, <2>5, <3>2 DEF Reads, Drops
  <2>6. CASE events' # <<>>
    BY <1>0, <1>1, <2>4, <2>6, OneDelivered
  <2> QED
    BY <2>5, <2>6
<1>2. CASE Reload
  <2>1. /\ events' = <<>> /\ UNCHANGED <<engine, intent, start, stopping>>
        /\ Reads \/ Drops
    BY <1>2 DEF Reload
  <2>2. NativeIdle' => NativeIdle
    BY <1>0, <1>2, <2>1, Orphaned DEF NativeIdle
  <2> QED
    BY <1>0, <2>1, <2>2 DEF WillDescribe, Reads, Drops
<1>3. CASE Announces /\ UNCHANGED <<state, conn, misled>>
  <2>1. CASE Untouched
    BY <1>3, <2>1 DEF WillDescribe, NativeIdle, Untouched
  <2>2. CASE ~NativeIdle'
    BY <2>2 DEF WillDescribe
  <2>3. ASSUME NEW e \in State, events' = Append(events, e), Says(e)
        PROVE  WillDescribe'
    <3>1. events' # <<>> /\ events'[Len(events')] = e
      BY <1>0, <2>3, Emitted
    <3> QED
      BY <2>3, <3>1 DEF WillDescribe, Says
  <2> QED
    BY <1>3, <2>1, <2>2, <2>3 DEF Announces
<1> QED
  BY <1>0, <1>1, <1>2, <1>3, ScreenStep, UnheardAnnounces

\* The calls the app makes.
LEMMA StepAppCalls ==
    ASSUME Inv, ScreenInv, AppCalls, [AppNext]_appVars
    PROVE  AppCalls'
<1>1. ASSUME NEW op \in AppOp, NEW arg, Request(op, arg)
      PROVE  AppCalls'
  <2>1. call' = call
    BY <1>1 DEF Request
  <2> QED
    BY <1>1, <2>1, AfterRequest DEF AppCalls
<1>2. CASE Serve
  BY <1>2, Served, AfterServe DEF AppCalls
<1>3. CASE UNCHANGED <<call, waiting>>
  BY <1>3 DEF AppCalls
<1>4. CASE GoesOn
  <2>1. call'.op = call.op /\ waiting' = waiting
    BY <1>4 DEF GoesOn, Inv, LockInv, Asked, Call, NoCall
  <2> QED
    BY <2>1 DEF AppCalls
<1>5. CASE Settle
  BY <1>5 DEF Settle, Release, NoCall, AppCalls
<1>6. CASE Reload
  BY <1>6 DEF Reload, NoCall, AppCalls
<1>7. CASE DeliverToScreen \/ Native \/ Widget \/ TornDown \/ StopTimesOut
  BY <1>3, <1>7 DEF DeliverToScreen, Deliver, Native, StartArrives, StopArrives, StartRuns,
     RestoreConnectionInfo, EngineStarts, StartSucceeds, StartFails, StopRuns, Answer, GetStats, Widget,
     TornDown, StopTimesOut, lockVars
<1>8. CASE Taps
  <2>1. \/ UNCHANGED vars \/ Request("stopOlcrtc", None) \/ Request("disconnect", None)
    BY <1>8 DEF Taps, TapConnect, TapOlcrtcOnly, ToggleOlcrtc, TapDisconnect
  <2> QED
    BY <1>1, <1>3, <2>1 DEF AppOp, vars, lockVars
<1>9. ASSUME NEW h \in asking, Granted(h) \/ Denied(h)
      PROVE  AppCalls'
  <2>1. UNCHANGED vars \/ \E arg : \E op \in AppOp : Request(op, arg)
    BY <1>9, Requested DEF Denied, AppOp
  <2> QED
    BY <1>1, <1>3, <2>1 DEF vars, lockVars
<1> QED
  BY <1>2, <1>3, <1>4, <1>5, <1>6, <1>7, <1>8, <1>9
     DEF AppNext, Unseen, SettleAndGoOn, appVars, vars, lockVars

\* Who has sent a start holds the lock, for that start.
LEMMA StepOwnStart ==
    ASSUME ScreenInv, InfoInv, OwnStart, [AppNext]_appVars
    PROVE  OwnStart'
<1>0. Inv /\ Awaited
  BY DEF InfoInv
<1>1. CASE UNCHANGED <<call, intent, start, task>>
  BY <1>1 DEF OwnStart
<1>2. CASE Serve
  <2>1. /\ start = None /\ task.by # "js" /\ task' = task /\ call'.arg = Head(waiting).arg
        /\ intent \notin Config
    BY <1>0, <1>2, Served DEF Awaited, NoCall, Starts
  <2>2. start' = start /\ (intent' = intent \/ intent' = "stop" \/ intent' = Head(waiting).arg)
    BY <1>2 DEF Serve, Begin, Connect, StartRaw, ConnectOlcrtcOnly, Disconnect, StartOlcrtc, StopOlcrtc,
         SetKillSwitch, ClearStoredConfig, SendStart, nativeVars
  <2> QED
    BY <2>1, <2>2, ClientAssumption DEF OwnStart
<1>3. CASE GoesOn
  <2>1. call'.arg = call.arg /\ call.at = "bypass"
    BY <1>0, <1>3 DEF GoesOn, Inv, LockInv, Asked, Call, NoCall
  <2>2. /\ task' = task /\ start' = start /\ (intent' = call.arg \/ intent' = None)
        /\ task.by # "js" /\ start = None
    BY <1>0, <1>3, <2>1 DEF GoesOn, SendStart, Awaited
  <2> QED
    BY <2>1, <2>2, ClientAssumption DEF OwnStart
<1>4. CASE Settle
  <2>1. intent \notin Config /\ start = None /\ task.by # "js" /\ UNCHANGED <<intent, start, task>>
    BY <1>0, <1>4 DEF Settle, Awaited
  <2> QED
    BY <2>1 DEF OwnStart
<1>5. CASE Reload
  BY <1>0, <1>5, Orphaned DEF OwnStart, Reload
<1>6. CASE StartRuns
  BY <1>6 DEF StartRuns, OwnStart, lockVars
<1>7. CASE RestoreConnectionInfo \/ EngineStarts
  <2>1. task \in [config : Config, by : {"js", "widget"}, at : {"stopped", "ready", "up"}]
    BY <1>0, <1>7 DEF Inv, NativeInv, NoTask, RestoreConnectionInfo, EngineStarts
  <2>2. task'.config = task.config /\ task'.by = task.by /\ UNCHANGED <<call, intent, start>>
    BY <1>7, <2>1 DEF RestoreConnectionInfo, EngineStarts, lockVars
  <2> QED
    BY <2>2 DEF OwnStart
<1>8. CASE StartSucceeds \/ StartFails
  <2>1. UNCHANGED <<call, intent, start>> /\ task' = NoTask
    BY <1>8 DEF StartSucceeds, StartFails, lockVars
  <2>2. task'.by = "none"
    BY <2>1 DEF NoTask
  <2> QED
    BY <2>1, <2>2 DEF OwnStart
<1>9. CASE Widget
  <2>1. UNCHANGED <<call, intent, start>>
    BY <1>9 DEF Widget, lockVars
  <2>2. \/ task' = task
        \/ task' = [config |-> stored.config, by |-> "widget", at |-> "stopped"]
    BY <1>9 DEF Widget
  <2>3. task' = task \/ task'.by = "widget"
    BY <2>2
  <2> QED
    BY <2>1, <2>3 DEF OwnStart
<1>10. CASE \/ Requests \/ Deliver \/ UNCHANGED vars \/ StopRuns \/ Answer \/ TornDown \/ StopTimesOut
            \/ \E p \in Poll : GetStats(p)
  BY <1>1, <1>10 DEF Requests, Request, Deliver, StopRuns, Answer, TornDown, StopTimesOut, GetStats,
     vars, lockVars, nativeVars
<1>11. CASE StartArrives \/ StopArrives
  <2>1. /\ intent' = None /\ task' = task /\ call' = call
        /\ start' = start \/ (intent \in Config /\ start' = intent)
    BY <1>11 DEF StartArrives, StopArrives, lockVars
  <2> QED
    BY <2>1, ClientAssumption DEF OwnStart
<1> QED
  BY <1>2, <1>3, <1>4, <1>5, <1>6, <1>7, <1>8, <1>9, <1>10, <1>11, ScreenStep
     DEF Unheard, Native, DeliverToScreen
-----------------------------------------------------------------------------
(* The row.  The steps of the client, for a row that stays marked.         *)

LEMMA SameRow ==
    ASSUME NEW tag, Row(tag), UNCHANGED <<waiting, call, answer, task, engine, stored>>
    PROVE  Row(tag)'
BY DEF Row, AskedFor, Underway, AtRest, Unasked, AllOf

\* A step that changes only what runs, or what is stored.
LEMMA RowOfAll ==
    ASSUME NEW tag, Row(tag), UNCHANGED <<waiting, call>>, AllOf(tag) => AllOf(tag)',
           call.op \in AppStart /\ call.at = "native" => answer' = answer \/ answer' # "ok"
    PROVE  Row(tag)'
BY DEF Row, AskedFor, Underway, AtRest, Unasked

LEMMA RequestRow ==
    ASSUME Inv, NEW tag, NEW op, NEW arg, Request(op, arg),
           \/ op \in AppStart /\ TagOf[arg] = tag
           \/ op \notin AppStart /\ Row(tag)
    PROVE  Row(tag)'
<1>1. UNCHANGED <<call, answer, task, engine, stored>>
  BY DEF Request, nativeVars
<1>2. CASE op \in AppStart
  <2>1. AskedFor(tag)'
    BY <1>2, AfterRequest DEF AskedFor
  <2> QED
    BY <2>1 DEF Row
<1>3. CASE op \notin AppStart
  <2>1. AskedFor(tag) => AskedFor(tag)'
    BY <1>3, AfterRequest DEF AskedFor
  <2>2. Unasked => Unasked'
    BY <1>3, AfterRequest DEF Unasked
  <2>3. AllOf(tag) => AllOf(tag)'
    BY <1>1 DEF AllOf
  <2> QED
    BY <1>1, <1>3, <2>1, <2>2, <2>3 DEF Row, Underway, AtRest
<1> QED
  BY <1>2, <1>3

LEMMA ServeRow ==
    ASSUME Inv, NEW tag, Row(tag), Serve
    PROVE  Row(tag)'
<1> DEFINE n == Len(waiting)
<1>1. /\ call.op = "none" /\ call'.op = waiting[1].op /\ call'.arg = waiting[1].arg
      /\ UNCHANGED <<task, engine, stored>>
  BY Served, AfterServe DEF NoCall
<1>2. n \in Nat \ {0} /\ DOMAIN waiting = 1..n /\ DOMAIN waiting' = 1..(n - 1)
      /\ \A i \in 1..(n - 1) : waiting'[i] = waiting[i + 1]
  BY AfterServe
<1>3. AllOf(tag) => AllOf(tag)'
  BY <1>1 DEF AllOf
<1>4. call.op \notin AppStart
  BY <1>1 DEF AppStart
<1>5. CASE AtRest(tag)
  <2>1. call'.op \notin AppStart /\ Unasked'
    BY <1>1, <1>2, <1>5 DEF AtRest, Unasked
  <2> QED
    BY <1>3, <1>5, <2>1 DEF AtRest, Row
<1>6. CASE AskedFor(tag)
  <2>1. PICK i \in 1..n : /\ waiting[i].op \in AppStart /\ TagOf[waiting[i].arg] = tag
                          /\ \A j \in 1..n : j > i => waiting[j].op \notin AppStart
    BY <1>2, <1>6 DEF AskedFor
  <2>2. CASE i = 1
    <3>1. Unasked'
      BY <1>2, <2>1, <2>2 DEF Unasked
    <3>2. call'.at = "native" => answer' # "ok"
      <4> DEFINE c == Head(waiting)
      <4>1. c.op \in AppStart /\ c \in Asked
        BY <2>1, <2>2, AfterServe, Served, Behead DEF Inv, LockInv
      <4>2. Connect(c) \/ ConnectOlcrtcOnly(c)
        BY <4>1 DEF Serve, Begin, StartRaw, Disconnect, StartOlcrtc, StopOlcrtc, SetKillSwitch,
           ClearStoredConfig, AppStart
      <4>3. Takes(c, "bypass") => call'.at = "bypass"
        BY <4>1 DEF Takes, Asked, Call
      <4>4. answer' = "none" \/ answer' = "failed" \/ Takes(c, "bypass")
        BY <4>2 DEF Connect, ConnectOlcrtcOnly, SendStart
      <4> QED
        BY <4>3, <4>4
    <3> QED
      BY <1>1, <2>1, <2>2, <3>1, <3>2 DEF Row, Underway
  <2>3. CASE i # 1
    <3>1. i - 1 \in 1..(n - 1) /\ waiting'[i - 1] = waiting[i]
      BY <1>2, <2>1, <2>3
    <3>2. \A j \in 1..(n - 1) : j > i - 1 => waiting'[j].op \notin AppStart
      <4> SUFFICES ASSUME NEW j \in 1..(n - 1), j > i - 1 PROVE waiting'[j].op \notin AppStart
        OBVIOUS
      <4>1. j + 1 \in 1..n /\ j + 1 > i /\ waiting'[j] = waiting[j + 1]
        BY <1>2, <2>1
      <4> QED
        BY <2>1, <4>1
    <3>3. AskedFor(tag)'
      BY <1>2, <2>1, <3>1, <3>2 DEF AskedFor
    <3> QED
      BY <3>3 DEF Row
  <2> QED
    BY <2>2, <2>3
<1> QED
  BY <1>4, <1>5, <1>6 DEF Row, Underway

\* The steps of a start: what it leaves running is what it was asked for.
LEMMA StartRow ==
    ASSUME InfoInv, OwnStart, AppCalls, NEW tag, Row(tag),
           StartRuns \/ RestoreConnectionInfo \/ EngineStarts \/ StartSucceeds \/ StartFails
    PROVE  Row(tag)'
<1>0. UNCHANGED <<waiting, call>>
  BY DEF StartRuns, RestoreConnectionInfo, EngineStarts, StartSucceeds, StartFails, lockVars
<1>1. CASE StartRuns
  <2>1. call.op \in AppStart /\ answer = "none" /\ answer' = answer
    BY <1>1 DEF StartRuns, InfoInv, Awaited, Starts, AppCalls, AppOp, AppStart
  <2> QED
    BY <1>0, <2>1 DEF Row, AskedFor, Underway, AtRest, Unasked
<1>2. CASE RestoreConnectionInfo \/ EngineStarts
  <2>1. task \in [config : Config, by : {"js", "widget"}, at : {"stopped", "ready", "up"}]
    BY <1>2 DEF InfoInv, Inv, NativeInv, NoTask, RestoreConnectionInfo, EngineStarts
  <2>2. task'.config = task.config /\ task # NoTask /\ (engine' = engine \/ engine' = task.config)
    BY <1>2, <2>1 DEF RestoreConnectionInfo, EngineStarts, NoTask
  <2>3. UNCHANGED <<answer, stored>>
    BY <1>2 DEF RestoreConnectionInfo, EngineStarts
  <2>4. AllOf(tag) => AllOf(tag)'
    BY <2>2, <2>3 DEF AllOf
  <2> QED
    BY <1>0, <2>3, <2>4, RowOfAll
<1>3. CASE StartFails
  <2>1. task' = NoTask /\ UNCHANGED <<engine, stored>> /\ (answer' = answer \/ answer' = "failed")
    BY <1>3 DEF StartFails, AnswerStart
  <2>2. AllOf(tag) => AllOf(tag)'
    BY <2>1 DEF AllOf
  <2> QED
    BY <1>0, <2>1, <2>2, RowOfAll
<1>4. CASE StartSucceeds
  <2>1. /\ task.at = "up" /\ task' = NoTask /\ engine' = engine
        /\ \/ stored' = stored /\ AnswerStart("failed")
           \/ stored' = [config |-> task.config, info |-> info] /\ AnswerStart("ok")
    BY <1>4 DEF StartSucceeds
  <2>2. task # NoTask /\ engine = task.config
    BY <2>1 DEF InfoInv, StartNames, NoTask
  <2>3. stored'.config = stored.config \/ stored'.config = task.config
    BY <2>1
  <2>4. AllOf(tag) => AllOf(tag)'
    BY <2>1, <2>2, <2>3 DEF AllOf
  <2>5. CASE task.by # "js" \/ AnswerStart("failed")
    <3>1. answer' = answer \/ answer' = "failed"
      BY <2>1, <2>5 DEF AnswerStart
    <3> QED
      BY <1>0, <2>4, <3>1, RowOfAll
  <2>6. CASE task.by = "js" /\ stored' = [config |-> task.config, info |-> info]
    <3>1. call.op \in AppStart /\ call.arg = task.config
      BY <2>6 DEF InfoInv, Awaited, Starts, AppCalls, AppOp, AppStart, OwnStart
    <3>2. stored'.config = task.config
      BY <2>6
    <3>3. Underway(tag) => AllOf(tag)'
      BY <2>1, <2>2, <3>1, <3>2 DEF Underway, AllOf
    <3> QED
      BY <1>0, <3>1, <3>3 DEF Row, AskedFor, Underway, AtRest, Unasked
  <2> QED
    BY <2>1, <2>5, <2>6
<1> QED
  BY <1>1, <1>2, <1>3, <1>4

LEMMA OtherRow ==
    ASSUME InfoInv, NEW tag, Row(tag), Widget \/ StopRuns \/ TornDown \/ StopTimesOut \/ Answer
    PROVE  Row(tag)'
<1>0. UNCHANGED <<waiting, call>>
  BY DEF Widget, StopRuns, TornDown, StopTimesOut, Answer, lockVars
<1>1. CASE Widget
  <2>1. UNCHANGED <<answer, stored>>
    BY <1>1 DEF Widget
  <2>2. \/ UNCHANGED <<task, engine>>
        \/ /\ stored.config # None /\ engine' = None
           /\ task' = [config |-> stored.config, by |-> "widget", at |-> "stopped"]
    BY <1>1 DEF Widget
  <2>3. UNCHANGED <<task, engine>> \/ (stored.config # None /\ engine' = None /\ task'.config = stored.config)
    BY <2>2
  <2>4. AllOf(tag) => AllOf(tag)'
    BY <2>1, <2>3 DEF AllOf
  <2> QED
    BY <1>0, <2>1, <2>4, RowOfAll
<1>2. CASE StopRuns \/ TornDown
  <2>1. UNCHANGED <<task, stored>> /\ engine' = None /\ (answer' = answer \/ call.op = "disconnect")
    BY <1>2 DEF StopRuns, TornDown, TunnelDown
  <2>2. AllOf(tag) => AllOf(tag)'
    BY <2>1 DEF AllOf
  <2> QED
    BY <1>0, <2>1, <2>2, RowOfAll DEF AppStart
<1>3. CASE StopTimesOut
  <2>1. UNCHANGED <<task, engine, stored>> /\ call.op = "disconnect"
    BY <1>3 DEF StopTimesOut
  <2>2. AllOf(tag) => AllOf(tag)'
    BY <2>1 DEF AllOf
  <2> QED
    BY <1>0, <2>1, <2>2, RowOfAll DEF AppStart
<1>4. CASE Answer
  <2>1. UNCHANGED <<task, engine>> /\ (call.op \notin AppStart \/ call.at = "bypass")
    BY <1>4 DEF Answer, AppStart
  <2>2. stored' = stored \/ stored' = [config |-> None, info |-> NoInfo]
    BY <1>4 DEF Answer
  <2>3. stored'.config = stored.config \/ stored'.config = None
    BY <2>2
  <2>4. AllOf(tag) => AllOf(tag)'
    BY <2>1, <2>3 DEF AllOf
  <2> QED
    BY <1>0, <2>1, <2>4, RowOfAll
<1> QED
  BY <1>1, <1>2, <1>3, <1>4

LEMMA UnseenRow ==
    ASSUME InfoInv, OwnStart, AppCalls, NEW tag, Row(tag), Unseen
    PROVE  Row(tag)'
<1>0. Inv
  BY DEF InfoInv
<1>1. CASE Serve
  BY <1>0, <1>1, ServeRow
<1>2. CASE GoesOn
  <2>1. call'.op = call.op /\ call'.arg = call.arg /\ call.op = "connect"
    BY <1>0, <1>2 DEF GoesOn, Inv, LockInv, Asked, Call, NoCall
  <2>2. waiting' = waiting /\ answer' \in {"none", "failed"}
    BY <1>2 DEF GoesOn, SendStart
  <2> QED
    BY <2>1, <2>2 DEF Row, AskedFor, Underway, AtRest, Unasked, AppStart
<1>3. CASE StartArrives \/ StopArrives \/ \E p \in Poll : GetStats(p)
  <2>1. UNCHANGED <<waiting, call, answer, task, engine, stored>>
    BY <1>3 DEF StartArrives, StopArrives, GetStats, lockVars, nativeVars
  <2> QED
    BY <2>1, SameRow
<1> QED
  BY <1>1, <1>2, <1>3, StartRow, OtherRow DEF Unseen, Native

\* A row that stays marked stays that of what runs.
LEMMA KeepsRow ==
    ASSUME RowInv, activeTag' = activeTag, NEW tag, tag = activeTag, Row(tag) => Row(tag)'
    PROVE  RowInv'
BY DEF RowInv

LEMMA SettleRow ==
    ASSUME Inv, RowInv, AppCalls, SettleAndGoOn
    PROVE  RowInv'
<1>0. CASE activeTag' = None
  BY <1>0 DEF RowInv
<1> SUFFICES ASSUME activeTag' # None PROVE RowInv'
  BY <1>0
<1>1. call.op \in AppStart => answer # "failed"
  BY DEF SettleAndGoOn, AppStart
<1>2. activeTag' = activeTag
  BY DEF SettleAndGoOn
<1>3. PICK tag : tag = activeTag
  OBVIOUS
<1>4. Row(tag)
  BY <1>2, <1>3 DEF RowInv
<1>5. /\ call.at = "native" /\ answer # "none" /\ call'.op = "none"
      /\ UNCHANGED <<waiting, task, engine, stored>>
  BY DEF SettleAndGoOn, Settle, Release, NoCall
<1>6. call.op \in AppStart => answer = "ok"
  BY <1>1, <1>5 DEF Inv, NativeInv
<1>7. AllOf(tag) => AllOf(tag)'
  BY <1>5 DEF AllOf
<1>8. Row(tag)'
  BY <1>4, <1>5, <1>6, <1>7 DEF Row, AskedFor, Underway, AtRest, Unasked, AppStart
<1> QED
  BY <1>2, <1>3, <1>8, KeepsRow

LEMMA StepRow ==
    ASSUME TagsMatch, ScreenInv, InfoInv, OwnStart, AppCalls, RowInv, [AppNext]_appVars
    PROVE  RowInv'
<1>0. Inv
  BY DEF InfoInv
<1>1. PICK tag : tag = activeTag
  OBVIOUS
<1>2. CASE activeTag' = None
  BY <1>2 DEF RowInv
<1>3. CASE UNCHANGED <<waiting, call, answer, task, engine, stored, activeTag>>
  BY <1>1, <1>3, SameRow, KeepsRow
<1>4. ASSUME NEW op, NEW arg, Request(op, arg), op \notin AppStart, activeTag' = activeTag
      PROVE  RowInv'
  BY <1>0, <1>1, <1>4, RequestRow, KeepsRow
<1>5. CASE Unseen /\ UNCHANGED screen
  BY <1>1, <1>5, UnseenRow, KeepsRow DEF screen, connShown
<1>6. CASE DeliverToScreen
  <2>1. UNCHANGED <<waiting, call, answer, task, engine, stored>>
    BY <1>6 DEF DeliverToScreen, Deliver, lockVars, nativeVars
  <2>2. activeTag' = None \/ activeTag' = activeTag
    BY <1>6, EventShows DEF DeliverToScreen
  <2> QED
    BY <1>2, <1>3, <2>1, <2>2
<1>7. CASE Taps
  <2>1. \/ UNCHANGED vars \/ Request("stopOlcrtc", None) \/ Request("disconnect", None)
    BY <1>7 DEF Taps, TapConnect, TapOlcrtcOnly, ToggleOlcrtc, TapDisconnect
  <2>2. activeTag' = activeTag
    BY <1>7 DEF Taps, TapConnect, TapOlcrtcOnly, ToggleOlcrtc, TapDisconnect, screen, connShown
  <2> QED
    BY <1>3, <1>4, <2>1, <2>2 DEF AppStart, vars, lockVars, nativeVars
<1>8. ASSUME NEW h \in asking, Granted(h)
      PROVE  RowInv'
  <2>1. CASE h.op = "startOlcrtc"
    <3>1. activeTag' = activeTag
      BY <1>8, <2>1 DEF Granted
    <3>2. \E b \in Olcrtc : Request("startOlcrtc", b)
      BY <1>8, <2>1, Requested
    <3> QED
      BY <1>4, <3>1, <3>2 DEF AppStart
  <2>2. CASE h.op # "startOlcrtc"
    <3>1. activeTag' = Mark(h)
      BY <1>8, <2>2 DEF Granted
    <3>2. \E arg : \E op \in AppStart : Request(op, arg) /\ TagOf[arg] = Mark(h)
      BY <1>8, <2>2, Requested DEF AppStart, Mark, ConfigFor, TagsMatch
    <3>3. PICK new : new = Mark(h)
      OBVIOUS
    <3>4. Row(new)'
      BY <1>0, <3>2, <3>3, RequestRow
    <3> QED
      BY <3>1, <3>3, <3>4 DEF RowInv
  <2> QED
    BY <2>1, <2>2
<1>9. ASSUME NEW h \in asking, Denied(h)
      PROVE  RowInv'
  BY <1>2, <1>3, <1>9 DEF Denied, vars, lockVars, nativeVars
<1>10. CASE Reload \/ SettleAndGoOn
  BY <1>0, <1>2, <1>10, SettleRow DEF Reload
<1>11. CASE UNCHANGED appVars
  BY <1>3, <1>11 DEF appVars, vars, lockVars, nativeVars, screen, connShown
<1> QED
  BY <1>5, <1>6, <1>7, <1>8, <1>9, <1>10, <1>11 DEF AppNext

LEMMA InitRow == AppInit => OwnStart /\ AppCalls /\ RowInv /\ WillDescribe
BY ClientAssumption DEF AppInit, OwnStart, AppCalls, RowInv, WillDescribe, NoTask, NoCall

\* Once nothing is under way, the connection described is the one that runs or none, or the one
\* start that had been refused since the description read was last written, and the row marked is
\* that of what runs, or there is none: whoever started it, whatever failed before and whatever was
\* reloaded; provided the races that break InfoTruthful are left out.
THEOREM ScreenDescribesWhatRuns ==
    ASSUME NoInfoRace, TagsMatch
    PROVE  AppSpec => []ConnShownRuns
<1> DEFINE All == InfoInv /\ ScreenInv /\ NativeShape /\ WillDescribe /\ OwnStart /\ AppCalls /\ RowInv
<1>1. All /\ [AppNext]_appVars => All'
  <2> SUFFICES ASSUME All, [AppNext]_appVars PROVE All'
    OBVIOUS
  <2>1. Inv
    BY DEF InfoInv
  <2> QED
    BY <2>1, StepAppInfo, StepScreen, StepShape, StepWillDescribe, StepOwnStart, StepAppCalls, StepRow
<1>2. AppInit => All
  BY AppInitInfo, InitScreen, InitShow, InitRow
<1>3. All => ConnShownRuns
  <2> SUFFICES ASSUME All, Quiet, engine # None
               PROVE  conn.config \in {None, engine, misled} /\ activeTag \in {None, TagOf[engine]}
    BY DEF ConnShownRuns
  <2>1. conn.config \in {None, engine, misled}
    BY ClientAssumption DEF Quiet, WillDescribe, NativeIdle
  <2>2. activeTag # None => AllOf(activeTag)
    BY DEF Quiet, RowInv, Row, AskedFor, Underway, AtRest, NoCall, AppStart
  <2> QED
    BY <2>1, <2>2 DEF AllOf
<1> QED
  BY <1>1, <1>2, <1>3, PTL DEF AppSpec
=============================================================================
