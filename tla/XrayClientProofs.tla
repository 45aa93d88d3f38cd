-------------------------- MODULE XrayClientProofs --------------------------
(***************************************************************************)
(* The types of XrayClient, that the totals a screen shows only grow, that *)
(* the connection described is the one that runs, and that no byte is      *)
(* shown twice, for any number of calls, polls and engines; and which of   *)
(* the races each of them has to be spared.                                *)
(***************************************************************************)
EXTENDS XrayClient, TLAPS, SequenceTheorems

\* A call carries what its operation takes, and only connect() has two steps.
Asked ==
    {c \in Call : /\ c.op \in {"connect", "connectOlcrtcOnly", "startRaw"} => c.arg \in Config
                  /\ c.op = "startOlcrtc" => c.arg \in Olcrtc
                  /\ c.at = "bypass" => c.op = "connect"}

\* The type invariant by who writes what, with the calls' shape.
LockInv == waiting \in Seq(Asked) /\ call \in Asked \cup {NoCall} /\ armedOlcrtc \in Olcrtc \cup {None}

Sample == [at : {"idle", "asked", "sampled", "failed"}, raw : Counters, behind : Nat]

JsInv == /\ hooked \in BOOLEAN /\ session \in Session \cup {None}
         /\ poll \in [Poll -> Sample]

StreamInv == registered \in BOOLEAN /\ events \in Seq(State)

NativeInv ==
    /\ interface \in BOOLEAN /\ engine \in Config \cup {None} /\ raw \in Counters
    /\ bypass \in Olcrtc \cup {None} /\ intent \in Config \cup {None, "stop"}
    /\ start \in Config \cup {None} /\ refused \in Config \cup {None}
    /\ task \in [config : Config, by : {"js", "widget"}, at : {"stopped", "ready", "up"}] \cup {NoTask}
    /\ stopping \in BOOLEAN /\ answer \in {"none", "ok", "failed"}
    /\ stored \in [config : Config \cup {None}, info : Info]

Counted == carried \in Counters /\ calls \in Nat /\ polls \in Nat /\ world \in Nat

Inv == LockInv /\ JsInv /\ info \in Info /\ StreamInv /\ NativeInv /\ Counted
-----------------------------------------------------------------------------
(* The traffic session.                                                    *)

LEMMA FreshType == Fresh \in Session /\ Zero \in Counters
BY DEF Fresh, Session, Counters, Zero

LEMMA SumType == \A a, b \in Counters : a ++ b \in Counters /\ AtMost(a, a ++ b)
BY DEF Counters, ++, AtMost

\* Folding an engine into the baseline changes no total.
LEMMA BankKeepsTotal ==
    ASSUME NEW s \in Session
    PROVE  /\ Bank(s) \in Session /\ Total(Bank(s)) = Total(s)
           /\ Bank(s).suspended = s.suspended /\ Bank(s).lastRaw = Zero
<1>1. /\ s.baseline \in Counters /\ s.lastRaw \in Counters /\ s.suspended \in BOOLEAN
      /\ Total(s) \in Counters /\ Total(s) ++ Zero = Total(s)
  BY DEF Session, Counters, Total, ++, Zero
<1>2. PICK total, zero : total = Total(s) /\ zero = Zero
  OBVIOUS
<1>3. Bank(s) = [s EXCEPT !.baseline = total, !.lastRaw = zero]
  BY <1>2 DEF Bank
<1>4. /\ Bank(s).baseline = total /\ Bank(s).lastRaw = zero /\ Bank(s).suspended = s.suspended
      /\ total \in Counters /\ zero \in Counters => Bank(s) \in Session
  BY <1>3 DEF Session
<1> QED
  BY <1>1, <1>2, <1>4, FreshType DEF Total

LEMMA SuspendKeepsTotal ==
    ASSUME NEW s \in Session
    PROVE  Suspend(s) \in Session /\ Total(Suspend(s)) = Total(s)
BY DEF Suspend, Total, Session

LEMMA CommitKeepsTotal ==
    ASSUME NEW s \in Session
    PROVE  CommitRestart(s) \in Session /\ Total(CommitRestart(s)) = Total(s)
BY BankKeepsTotal DEF CommitRestart, Total, Session

\* No sample takes anything off the total, whichever engine it is of and however late it comes.
LEMMA UpdateGrows ==
    ASSUME NEW s \in Session, NEW r \in Counters
    PROVE  Update(s, r) \in Session /\ AtMost(Total(s), Total(Update(s, r)))
<1>1. CASE s.suspended
  BY <1>1 DEF Update, Session, Total, Counters, ++, AtMost
<1>2. CASE ~s.suspended /\ AtMost(s.lastRaw, r)
  BY <1>2 DEF Update, Session, Total, Counters, ++, AtMost
<1>3. CASE ~s.suspended /\ ~AtMost(s.lastRaw, r)
  <2>1. Update(s, r) = [Bank(s) EXCEPT !.lastRaw = r]
    BY <1>3 DEF Update
  <2>2. Update(s, r) \in Session /\ Update(s, r).baseline = Total(s) /\ Update(s, r).lastRaw = r
    BY <2>1, BankKeepsTotal DEF Bank, Session, Total, ++, Counters
  <2> QED
    BY <2>2, SumType DEF Total, Session
<1> QED
  BY <1>1, <1>2, <1>3

LEMMA OnStateKeepsTotal ==
    ASSUME NEW s \in Session, NEW state
    PROVE  OnState(state, s) \in Session /\ Total(OnState(state, s)) = Total(s)
BY SuspendKeepsTotal, CommitKeepsTotal DEF OnState
-----------------------------------------------------------------------------
(* Sequences of events and of calls.                                       *)

LEMMA Appended == \A S : \A s \in Seq(S), e \in S : Append(s, e) \in Seq(S)
OBVIOUS

LEMMA Behead == \A S : \A s \in Seq(S) : s # <<>> => Head(s) \in S /\ Tail(s) \in Seq(S)
BY HeadTailProperties

LEMMA EmitType ==
    ASSUME StreamInv, NEW state \in State, Emit(state), registered' = registered
    PROVE  StreamInv'
BY Appended DEF StreamInv, Emit

LEMMA AskedTakes ==
    ASSUME NEW c \in Asked, NEW at \in {"waiting", "bypass", "native"},
           at = "bypass" => c.op = "connect"
    PROVE  [c EXCEPT !.at = at] \in Asked
BY DEF Asked, Call

LEMMA InvTypeOK == Inv => TypeOK
BY SeqMonotonic DEF Inv, LockInv, JsInv, StreamInv, NativeInv, Counted, TypeOK, Asked, Sample

LEMMA InitInv == Init => Inv
<1> SUFFICES ASSUME Init PROVE Inv
  OBVIOUS
<1>1. JsInv
  BY FreshType DEF Init, Idle, JsInv, Sample
<1>2. NoInfo \in Info
  BY DEF Info, NoInfo
<1>3. LockInv /\ StreamInv
  BY EmptySeq DEF Init, LockInv, StreamInv
<1>4. stored \in [config : Config \cup {None}, info : Info]
  <2>1. PICK nothing : nothing = NoInfo
    OBVIOUS
  <2> QED
    BY <1>2, <2>1 DEF Init
<1>5. NativeInv /\ Counted
  BY <1>4, FreshType DEF Init, NativeInv, Counted
<1> QED
  BY <1>1, <1>2, <1>3, <1>5 DEF Init, Inv
-----------------------------------------------------------------------------
(* The serial lock.                                                        *)

LEMMA ResetType ==
    ASSUME Inv, FreshSession \/ ResetSession
    PROVE  session' \in Session \cup {None} /\ carried' \in Counters
BY FreshType DEF Inv, JsInv, NativeInv, Counted, FreshSession, ResetSession

LEMMA SendStartInv ==
    ASSUME Inv, NEW c \in Config, SendStart(c), UNCHANGED bounds
    PROVE  JsInv' /\ info' \in Info /\ StreamInv' /\ NativeInv' /\ Counted'
<1>1. JsInv' /\ Counted'
  BY ResetType DEF Inv, JsInv, Counted, SendStart, bounds
<1>2. Describe(c) \in Info
  BY DEF Inv, LockInv, Describe, Info
<1>3. StreamInv'
  BY DEF Inv, StreamInv, SendStart
<1>4. NativeInv'
  BY DEF Inv, NativeInv, SendStart
<1> QED
  BY <1>1, <1>2, <1>3, <1>4 DEF SendStart

LEMMA TakesType ==
    ASSUME Inv, waiting # <<>>, NEW at \in {"bypass", "native"}, Takes(Head(waiting), at),
           at = "bypass" => Head(waiting).op = "connect"
    PROVE  LockInv' /\ UNCHANGED bounds
<1>1. Head(waiting) \in Asked /\ Tail(waiting) \in Seq(Asked)
  BY Behead DEF Inv, LockInv
<1> QED
  BY <1>1, AskedTakes DEF Inv, LockInv, Takes, bounds

\* A call that waits for its promise only.
LEMMA AwaitInv ==
    ASSUME Inv, waiting # <<>>, Await(Head(waiting))
    PROVE  LockInv' /\ JsInv' /\ info' \in Info /\ Counted' /\ registered' = registered
<1>1. LockInv' /\ UNCHANGED bounds
  BY TakesType DEF Await
<1> QED
  BY <1>1 DEF Inv, Await, JsInv, Counted, bounds

LEMMA ServeInv ==
    ASSUME Inv, Serve
    PROVE  Inv'
<1> DEFINE c == Head(waiting)
<1>1. c \in Asked /\ waiting # <<>>
  BY Behead DEF Inv, LockInv, Serve
<1>2. CASE Connect(c)
  <2>1. CASE ~StopsBypassFirst(c) /\ Takes(c, "native") /\ SendStart(c.arg)
    <3>1. c.arg \in Config
      BY <1>1, <1>2 DEF Connect, Asked
    <3>2. LockInv' /\ UNCHANGED bounds
      BY <1>1, <2>1, TakesType
    <3> QED
      BY <2>1, <3>1, <3>2, SendStartInv DEF Inv
  <2>2. CASE Takes(c, "bypass") /\ UNCHANGED <<jsVars, info, nativeVars, streamVars, carried>>
    <3>1. LockInv' /\ UNCHANGED bounds
      BY <1>1, <1>2, <2>2, TakesType DEF Connect
    <3> QED
      BY <2>2, <3>1 DEF Inv, JsInv, StreamInv, NativeInv, Counted, jsVars, nativeVars, streamVars, bounds
  <2> QED
    BY <1>2, <2>1, <2>2 DEF Connect
<1>3. CASE StartRaw(c)
  <2>1. c.arg \in Config
    BY <1>1, <1>3 DEF StartRaw, Asked
  <2>2. LockInv' /\ UNCHANGED bounds
    BY <1>1, <1>3, TakesType DEF StartRaw
  <2> QED
    BY <1>3, <2>1, <2>2, SendStartInv DEF StartRaw, Inv
<1>4. CASE ConnectOlcrtcOnly(c)
  <2>1. CASE Takes(c, "native") /\ SendStart(c.arg)
    <3>1. c.arg \in Config
      BY <1>1, <1>4 DEF ConnectOlcrtcOnly, Asked
    <3>2. LockInv' /\ UNCHANGED bounds
      BY <1>1, <2>1, TakesType
    <3> QED
      BY <2>1, <3>1, <3>2, SendStartInv DEF Inv
  <2>2. CASE /\ Await(c) /\ answer' = "failed"
             /\ UNCHANGED <<events, interface, engine, raw, bypass, intent, start, task, stopping,
                            refused, stored>>
    BY <1>1, <2>2, AwaitInv DEF Inv, StreamInv, NativeInv
  <2> QED
    BY <1>4, <2>1, <2>2 DEF ConnectOlcrtcOnly
<1>5. CASE Disconnect(c)
  <2>1. LockInv' /\ JsInv' /\ info' \in Info /\ Counted' /\ registered' = registered
    BY <1>1, <1>5, AwaitInv DEF Disconnect
  <2>2. StreamInv'
    BY <1>5, <2>1 DEF Disconnect, Inv, StreamInv
  <2>3. NativeInv'
    BY <1>5 DEF Disconnect, Inv, NativeInv
  <2> QED
    BY <2>1, <2>2, <2>3 DEF Inv
<1>6. CASE StartOlcrtc(c) \/ StopOlcrtc(c) \/ SetKillSwitch(c)
  BY <1>1, <1>6, AwaitInv
     DEF StartOlcrtc, StopOlcrtc, SetKillSwitch, Inv, StreamInv, NativeInv, nativeVars
<1>7. CASE ClearStoredConfig(c)
  <2>1. LockInv'
    BY <1>1, <1>7, Behead, AskedTakes DEF ClearStoredConfig, Inv, LockInv
  <2> QED
    BY <1>7, <2>1 DEF ClearStoredConfig, Inv, JsInv, StreamInv, NativeInv, Counted,
                      jsVars, nativeVars, streamVars, bounds
<1> QED
  BY <1>2, <1>3, <1>4, <1>5, <1>6, <1>7 DEF Serve, Begin

LEMMA SettleInv ==
    ASSUME Inv, Settle
    PROVE  Inv'
<1>1. LockInv' /\ StreamInv' /\ NativeInv'
  BY DEF Inv, LockInv, StreamInv, NativeInv, Settle, Release, streamVars
<1>2. JsInv' /\ Counted'
  BY ResetType DEF Inv, JsInv, Counted, Settle, bounds
<1>3. info' \in Info
  BY DEF Inv, Settle, NoInfo, Info
<1> QED
  BY <1>1, <1>2, <1>3 DEF Inv

LEMMA GoesOnInv ==
    ASSUME Inv, GoesOn
    PROVE  Inv'
<1>1. call \in Asked /\ call.arg \in Config /\ call.op = "connect"
  BY DEF Inv, LockInv, GoesOn, NoCall, Asked
<1>2. LockInv'
  BY <1>1, AskedTakes DEF Inv, LockInv, GoesOn
<1> QED
  BY <1>1, <1>2, SendStartInv DEF GoesOn, Inv

LEMMA RequestsInv ==
    ASSUME Inv, Requests
    PROVE  Inv'
<1>1. PICK op \in Op, arg \in Config \cup Olcrtc \cup {None} :
          /\ Request(op, arg)
          /\ op \in {"connect", "connectOlcrtcOnly", "startRaw"} => arg \in Config
          /\ op = "startOlcrtc" => arg \in Olcrtc
  BY DEF Requests, Op, Config
<1>2. [op |-> op, arg |-> arg, at |-> "waiting"] \in Asked
  BY <1>1 DEF Asked, Call
<1>3. LockInv'
  BY <1>1, <1>2, Appended DEF Inv, LockInv, Request
<1> QED
  BY <1>1, <1>3 DEF Request, Inv, JsInv, StreamInv, NativeInv, Counted,
                    jsVars, nativeVars, streamVars
-----------------------------------------------------------------------------
(* What waits for nobody, and the native side.                             *)

LEMMA ListenersInv ==
    ASSUME Inv, Deliver \/ AddStateListener
    PROVE  Inv'
<1>1. StreamInv'
  <2>1. \/ events # <<>> /\ events' = Tail(events) /\ registered' = registered
        \/ events' = events /\ registered' = TRUE
    BY DEF Deliver, AddStateListener
  <2> QED
    BY <2>1, Behead DEF Inv, StreamInv
<1>2. JsInv'
  <2>1. CASE AddStateListener
    BY <2>1 DEF Inv, JsInv, AddStateListener, jsVars
  <2>2. CASE Deliver
    <3>1. poll' \in [Poll -> Sample]
      <4>1. \A p \in Poll : LET sent == [poll[p] EXCEPT !.behind = IF @ = 0 THEN 0 ELSE @ - 1]
                          IN  sent \in Sample
        BY DEF Inv, JsInv, Sample
      <4>2. poll' = [p \in Poll |-> [poll[p] EXCEPT !.behind = IF @ = 0 THEN 0 ELSE @ - 1]]
        BY <2>2 DEF Deliver
      <4> QED
        BY <4>1, <4>2
    <3>2. session' \in Session \cup {None} /\ hooked' = hooked
      BY <2>2, OnStateKeepsTotal DEF Inv, JsInv, Deliver
    <3> QED
      BY <3>1, <3>2 DEF Inv, JsInv
  <2> QED
    BY <2>1, <2>2
<1> QED
  BY <1>1, <1>2 DEF Deliver, AddStateListener, Inv, LockInv, NativeInv, Counted,
                    lockVars, nativeVars, bounds

LEMMA StatsInv ==
    ASSUME Inv, NEW p \in Poll, Stats(p) \/ GetStats(p) \/ TakeSample(p)
    PROVE  Inv'
<1>1. poll' \in [Poll -> Sample]
  <2>1. raw \in Counters /\ Len(events) \in Nat
    BY LenProperties DEF Inv, StreamInv, NativeInv
  <2>2. CASE Stats(p)
    BY <2>1, <2>2 DEF Inv, JsInv, Stats, Sample
  <2>3. CASE GetStats(p)
    <3>1. PICK n \in Nat : n = Len(events)
      BY <2>1
    <3> QED
      BY <2>1, <2>3, <3>1 DEF Inv, JsInv, GetStats, Sample
  <2>4. CASE TakeSample(p)
    <3>0. Idle \in Sample
      BY FreshType DEF Idle, Sample
    <3>1. PICK idle : idle = Idle
      OBVIOUS
    <3>2. poll' = [poll EXCEPT ![p] = idle]
      BY <2>4, <3>1 DEF TakeSample
    <3> QED
      BY <3>0, <3>1, <3>2 DEF Inv, JsInv
  <2> QED
    BY <2>2, <2>3, <2>4
<1>2. session' \in Session \cup {None} /\ hooked' \in BOOLEAN
  <2>1. CASE TakeSample(p)
    <3>1. poll[p].raw \in Counters /\ session \in Session \cup {None}
      BY DEF Inv, JsInv, Sample
    <3> QED
      BY <2>1, <3>1, UpdateGrows, FreshType DEF TakeSample, Inv, JsInv
  <2> QED
    BY <2>1 DEF Stats, GetStats, Inv, JsInv
<1>3. LockInv' /\ NativeInv' /\ info' \in Info
  BY DEF Stats, GetStats, TakeSample, Inv, LockInv, NativeInv, lockVars, nativeVars
<1>4. StreamInv' /\ Counted'
  <2>1. CASE Stats(p)
    <3>1. registered' = TRUE /\ polls' = polls + 1 /\ UNCHANGED <<events, carried, calls, world>>
      BY <2>1 DEF Stats
    <3> QED
      BY <3>1 DEF Inv, StreamInv, Counted
  <2>2. CASE GetStats(p) \/ TakeSample(p)
    BY <2>2 DEF GetStats, TakeSample, Inv, StreamInv, Counted, streamVars, bounds
  <2> QED
    BY <2>1, <2>2
<1> QED
  BY <1>1, <1>2, <1>3, <1>4 DEF Inv, JsInv

LEMMA StartInv ==
    ASSUME Inv, \/ StartArrives \/ StopArrives \/ StartRuns \/ RestoreConnectionInfo
                \/ EngineStarts \/ StartSucceeds \/ StartFails
    PROVE  Inv'
<1>1. NativeInv'
  <2>0. CASE StartArrives \/ StopArrives
    BY <2>0 DEF Inv, NativeInv, StartArrives, StopArrives
  <2>1. CASE StartRuns
    BY <2>1, FreshType DEF Inv, NativeInv, StartRuns
  <2>2. CASE RestoreConnectionInfo
    BY <2>2 DEF Inv, NativeInv, RestoreConnectionInfo, NoTask
  <2>3. CASE StartSucceeds
    <3>1. /\ UNCHANGED <<interface, engine, raw, bypass, intent, start, stopping, refused>>
          /\ task' = NoTask /\ answer' \in {answer, "ok", "failed"}
          /\ stored' = stored \/ stored' = [config |-> task.config, info |-> info]
      BY <2>3 DEF StartSucceeds, AnswerStart
    <3>2. task # NoTask
      <4>1. task.at = "up"
        BY <2>3 DEF StartSucceeds
      <4> QED
        BY <4>1 DEF NoTask
    <3>3. task.config \in Config
      BY <3>2 DEF Inv, NativeInv
    <3>4. info \in Info
      BY DEF Inv
    <3> QED
      BY <3>1, <3>3, <3>4 DEF Inv, NativeInv
  <2>4. CASE StartFails
    BY <2>4 DEF Inv, NativeInv, StartFails, AnswerStart
  <2>5. CASE EngineStarts
    BY <2>5 DEF Inv, NativeInv, EngineStarts, NoTask
  <2> QED
    BY <2>0, <2>1, <2>2, <2>3, <2>4, <2>5
<1>2. StreamInv'
  BY EmitType DEF Inv, StreamInv, State, StartArrives, StopArrives, StartRuns, RestoreConnectionInfo,
                  EngineStarts, StartSucceeds, StartFails, streamVars
<1>3. info' \in Info
  BY DEF Inv, NativeInv, StartArrives, StopArrives, StartRuns, RestoreConnectionInfo, EngineStarts,
         StartSucceeds, StartFails
<1> QED
  BY <1>1, <1>2, <1>3 DEF StartArrives, StopArrives, StartRuns, RestoreConnectionInfo, EngineStarts,
                          StartSucceeds, StartFails, Inv, LockInv, JsInv, Counted, lockVars, jsVars,
                          bounds

LEMMA OtherNativeInv ==
    ASSUME Inv, Widget \/ StopRuns \/ StopTimesOut \/ TornDown \/ Answer \/ Traffic
    PROVE  Inv'
<1>1. NativeInv'
  <2>1. CASE Widget
    <3>1. /\ task' \in [config : Config, by : {"js", "widget"}, at : {"stopped", "ready", "up"}] \cup {NoTask}
          /\ engine' \in Config \cup {None} /\ raw' \in Counters
      <4>1. \/ UNCHANGED <<task, engine, raw>>
            \/ /\ stored.config # None /\ engine' = None /\ raw' = Zero
               /\ task' = [config |-> stored.config, by |-> "widget", at |-> "stopped"]
        BY <2>1 DEF Widget
      <4> QED
        BY <4>1, FreshType DEF Inv, NativeInv
    <3>2. UNCHANGED <<interface, bypass, intent, start, stopping, refused, answer, stored>>
      BY <2>1 DEF Widget
    <3> QED
      BY <3>1, <3>2 DEF Inv, NativeInv
  <2>2. CASE StopRuns \/ TornDown
    BY <2>2, FreshType DEF Inv, NativeInv, StopRuns, TornDown, TunnelDown
  <2>3. CASE StopTimesOut
    BY <2>3 DEF Inv, NativeInv, StopTimesOut
  <2>4. CASE Answer
    <3>1. call.op = "startOlcrtc" => call.arg \in Olcrtc
      BY DEF Inv, LockInv, Asked, NoCall
    <3>2. bypass' \in Olcrtc \cup {None} /\ answer' \in {"none", "ok", "failed"}
      BY <2>4, <3>1 DEF Inv, NativeInv, Answer
    <3>3. stored' \in [config : Config \cup {None}, info : Info]
      <4>1. stored' = stored \/ stored' = [config |-> None, info |-> [config |-> None, olcrtc |-> None]]
        BY <2>4 DEF Answer, NoInfo
      <4> QED
        BY <4>1 DEF Inv, NativeInv, Info
    <3> QED
      BY <2>4, <3>2, <3>3 DEF Inv, NativeInv, Answer
  <2>5. CASE Traffic
    BY <2>5, SumType, ClientAssumption DEF Inv, NativeInv, Traffic
  <2> QED
    BY <2>1, <2>2, <2>3, <2>4, <2>5
<1>2. StreamInv'
  BY EmitType DEF Inv, StreamInv, State, Widget, StopRuns, StopTimesOut, TornDown, TunnelDown,
                  Answer, Traffic, streamVars
<1>3. Counted'
  <2>1. CASE Traffic
    BY <2>1, SumType, ClientAssumption DEF Inv, Counted, Traffic, bounds
  <2>2. CASE Widget \/ TornDown
    <3>1. world' = world + 1 /\ UNCHANGED <<carried, calls, polls>>
      BY <2>2 DEF Widget, TornDown
    <3> QED
      BY <3>1 DEF Inv, Counted
  <2>3. CASE StopRuns \/ StopTimesOut \/ Answer
    BY <2>3 DEF Inv, Counted, StopRuns, StopTimesOut, Answer, bounds
  <2> QED
    BY <2>1, <2>2, <2>3
<1> QED
  BY <1>1, <1>2, <1>3 DEF Widget, StopRuns, StopTimesOut, TornDown, Answer, Traffic, Inv, LockInv,
                          JsInv, lockVars, jsVars

LEMMA StepInv == Inv /\ [Next]_vars => Inv'
<1> SUFFICES ASSUME Inv, [Next]_vars PROVE Inv'
  OBVIOUS
<1>1. CASE UNCHANGED vars
  BY <1>1 DEF Inv, LockInv, JsInv, StreamInv, NativeInv, Counted, vars, lockVars, jsVars, nativeVars,
              streamVars, bounds
<1> QED
  BY <1>1, RequestsInv, StatsInv, ListenersInv, ServeInv, GoesOnInv, SettleInv, StartInv,
     OtherNativeInv DEF Next, JsThread, Native, World

THEOREM InvHolds == Spec => []Inv
BY InitInv, StepInv, PTL DEF Spec

\* What each operation, event and thread writes is of its type, whatever is admitted to race.
THEOREM TypeCorrect == Spec => []TypeOK
BY InvHolds, InvTypeOK, PTL
-----------------------------------------------------------------------------
(* The totals.                                                             *)

\* What a step may do to a session that there is.
Grows == session' \in Session /\ AtMost(Total(session), Total(session'))

Restarts == /\ session' \in Session /\ ~interface /\ call.at # "native" /\ call'.at = "native"
            /\ call'.op \in {"connect", "startRaw", "connectOlcrtcOnly"}

Ends == session' \in Session /\ call.op = "disconnect" /\ call' = NoCall

LEMMA SameTotal ==
    ASSUME session \in Session, session' = session
    PROVE  Grows
BY DEF Grows, Session, Counters, AtMost, Total, ++

LEMMA OnSample ==
    ASSUME Inv, session \in Session, NEW p \in Poll, TakeSample(p)
    PROVE  Grows
<1>1. poll[p].raw \in Counters /\ session # None
  BY ClientAssumption DEF Inv, JsInv, Sample
<1>2. session' = session \/ session' = Update(session, poll[p].raw)
  BY <1>1 DEF TakeSample
<1> QED
  BY <1>1, <1>2, SameTotal, UpdateGrows DEF Grows

LEMMA OnDelivery ==
    ASSUME Inv, session \in Session, Deliver
    PROVE  Grows
<1>1. session' = session \/ session' = OnState(Head(events), session)
  BY DEF Deliver
<1>2. OnState(Head(events), session) \in Session
      /\ Total(OnState(Head(events), session)) = Total(session)
  BY OnStateKeepsTotal
<1> QED
  BY <1>1, <1>2, SameTotal DEF Grows, Session, Counters, AtMost, Total, ++

LEMMA OnStart ==
    ASSUME session \in Session, NEW c, SendStart(c)
    PROVE  session' = session \/ (~interface /\ session' \in Session)
BY FreshType, ClientAssumption DEF SendStart, FreshSession, ResetSession

LEMMA OnServe ==
    ASSUME Inv, session \in Session, Serve
    PROVE  Grows \/ Restarts
<1> DEFINE c == Head(waiting)
<1>1. c \in Asked /\ waiting # <<>> /\ call.at = "none"
  BY Behead DEF Inv, LockInv, Serve, NoCall
<1>2. CASE \E x \in Config : /\ SendStart(x) /\ Takes(c, "native")
                             /\ c.op \in {"connect", "startRaw", "connectOlcrtcOnly"}
  <2>1. call'.at = "native" /\ call'.op = c.op
    BY <1>1, <1>2 DEF Takes, Asked, Call
  <2> QED
    BY <1>1, <1>2, <2>1, OnStart, SameTotal DEF Restarts
<1>3. CASE UNCHANGED session
  BY <1>3, SameTotal
<1>4. \/ UNCHANGED session
      \/ \E x \in Config : /\ SendStart(x) /\ Takes(c, "native")
                          /\ c.op \in {"connect", "startRaw", "connectOlcrtcOnly"}
  <2>1. c.op \in {"connect", "connectOlcrtcOnly", "startRaw"} => c.arg \in Config
    BY <1>1 DEF Asked
  <2>2. CASE Connect(c) \/ StartRaw(c) \/ ConnectOlcrtcOnly(c)
    BY <2>1, <2>2 DEF Connect, StartRaw, ConnectOlcrtcOnly, Await, jsVars
  <2>3. CASE \/ Disconnect(c) \/ StartOlcrtc(c) \/ StopOlcrtc(c) \/ SetKillSwitch(c)
             \/ ClearStoredConfig(c)
    BY <2>3 DEF Disconnect, StartOlcrtc, StopOlcrtc, SetKillSwitch, ClearStoredConfig, Await, jsVars
  <2> QED
    BY <2>2, <2>3 DEF Serve, Begin
<1> QED
  BY <1>2, <1>3, <1>4

LEMMA OnGoesOn ==
    ASSUME Inv, session \in Session, GoesOn
    PROVE  Grows \/ Restarts
<1>1. call \in Asked /\ call.at = "bypass" /\ call.op = "connect"
  BY DEF Inv, LockInv, GoesOn, NoCall, Asked
<1>2. call'.at = "native" /\ call'.op = "connect"
  BY <1>1 DEF GoesOn, Asked, Call
<1>3. SendStart(call.arg)
  BY DEF GoesOn
<1> QED
  BY <1>1, <1>2, <1>3, OnStart, SameTotal DEF Restarts

LEMMA OnSettle ==
    ASSUME Inv, session \in Session, Settle
    PROVE  Grows \/ Ends
BY SameTotal, FreshType, ClientAssumption DEF Settle, Release, ResetSession, Ends

LEMMA SessionStep ==
    ASSUME Inv, [Next]_vars, session \in Session
    PROVE  Grows \/ Restarts \/ Ends
<1>1. CASE Requests \/ (\E p \in Poll : Stats(p) \/ GetStats(p)) \/ AddStateListener
  BY <1>1, SameTotal DEF Requests, Request, Stats, GetStats, AddStateListener, jsVars
<1>2. CASE \/ StartArrives \/ StopArrives \/ StartRuns \/ RestoreConnectionInfo \/ EngineStarts
           \/ StartSucceeds \/ StartFails \/ StopRuns \/ Answer
  BY <1>2, SameTotal
     DEF StartArrives, StopArrives, StartRuns, RestoreConnectionInfo, EngineStarts, StartSucceeds,
         StartFails, StopRuns, Answer, jsVars
<1>3. CASE Widget \/ TornDown \/ StopTimesOut \/ Traffic
  BY <1>3, SameTotal DEF Widget, TornDown, StopTimesOut, Traffic, jsVars
<1>4. CASE UNCHANGED vars
  BY <1>4, SameTotal DEF vars, jsVars
<1>5. CASE \E p \in Poll : TakeSample(p)
  BY <1>5, OnSample
<1> QED
  BY <1>1, <1>2, <1>3, <1>4, <1>5, OnDelivery, OnServe, OnGoesOn, OnSettle
     DEF Next, JsThread, Native, World

\* However samples, events and restarts interleave, a total shown is never less than the one
\* shown before, until a disconnect settles or a connection begins with the tunnel down.
THEOREM TotalsGrow == Spec => TotalsNeverShrink
<1>1. ASSUME Inv, [Next]_vars
      PROVE  [session # None =>
                 /\ session' # None
                 /\ \/ AtMost(Total(session), Total(session'))
                    \/ call.op = "disconnect" /\ call' = NoCall
                    \/ /\ ~interface /\ call.at # "native" /\ call'.at = "native"
                       /\ call'.op \in {"connect", "startRaw", "connectOlcrtcOnly"}]_vars
  <2>1. CASE session = None
    BY <2>1
  <2>2. CASE session # None
    <3>1. session \in Session
      BY <1>1, <2>2 DEF Inv, JsInv
    <3>2. Grows \/ Restarts \/ Ends
      BY <1>1, <3>1, SessionStep
    <3> QED
      BY <3>2, ClientAssumption DEF Grows, Restarts, Ends
  <2> QED
    BY <2>1, <2>2
<1> QED
  BY <1>1, InvHolds, PTL DEF Spec, TotalsNeverShrink
-----------------------------------------------------------------------------
(* The description of the connection.                                      *)

Starts == {"connect", "startRaw", "connectOlcrtcOnly"}

\* The description is of c, as far as c is described.
Names(c) == info.config = IF c \in Raw THEN None ELSE c

\* Who has sent a start awaits its answer; a disconnect awaits the end of what runs.  One
\* command at a time is on its way.
Awaited ==
    /\ intent \in Config \/ start # None \/ task.by = "js" =>
          call.op \in Starts /\ call.at = "native" /\ answer = "none"
    /\ intent # None => start = None /\ task.by # "js"
    /\ task.by = "js" => start = None
    /\ call.op = "disconnect" /\ call.at = "native" =>
          stopping \/ task = NoTask \/ (intent = "stop" /\ answer = "none")
    /\ call = NoCall => answer = "none"

\* A widget's start is of what is stored, and what is stored is described.
StoredNames ==
    /\ task.at = "stopped" => /\ intent \notin Config /\ start = None
                              /\ task.config \notin Raw /\ task.config = stored.config
    /\ stored.config \notin Raw \cup {None} => stored.info.config = stored.config

\* What will run is described, until a disconnect forgets it; nothing else runs meanwhile.
StartNames ==
    /\ task # NoTask => engine = IF task.at = "up" THEN task.config ELSE None
    /\ start # None => Names(start)
    /\ intent \in Config => Names(intent)
    /\ task.at \in {"ready", "up"} /\ start = None /\ intent \notin Config =>
          \/ Names(task.config)
          \/ stopping /\ info.config = None

InfoInv == Inv /\ Awaited /\ StoredNames /\ StartNames /\ InfoTruthful

NoInfoRace == {"raw replay", "widget overlaps"} \cap Races = {}

\* What the description depends on.
infoVars == <<info, intent, start, task, stopping, refused, answer, engine, stored>>

LEMMA InitInfo == Init => InfoInv
<1> SUFFICES ASSUME Init PROVE InfoInv
  OBVIOUS
<1>1. Inv
  BY InitInv
<1>2. Awaited /\ StartNames /\ InfoTruthful
  BY ClientAssumption DEF Init, Awaited, StartNames, InfoTruthful, NoTask, NoCall
<1>3. StoredNames
  BY DEF Init, StoredNames, NoTask
<1> QED
  BY <1>1, <1>2, <1>3 DEF InfoInv

\* A step of whoever has no part in it.
LEMMA ElsewhereInfo ==
    ASSUME InfoInv, UNCHANGED infoVars,
           call' = call \/ (call = NoCall /\ call'.op # "disconnect")
                        \/ (call = NoCall /\ stopping)
    PROVE  Awaited' /\ StoredNames' /\ StartNames' /\ InfoTruthful'
BY DEF InfoInv, Awaited, StoredNames, StartNames, InfoTruthful, Names, infoVars, NoCall

LEMMA SendStartInfo ==
    ASSUME InfoInv, NoInfoRace, NEW c \in Config, SendStart(c), task.by # "js", start = None,
           call'.op \in Starts, call'.at = "native"
    PROVE  Awaited' /\ StoredNames' /\ StartNames' /\ InfoTruthful'
<1>1. c # None /\ c # "stop" /\ task.at # "stopped" /\ intent = None
  BY ClientAssumption DEF SendStart, NoOverlap, NoInfoRace
<1>2. info'.config = IF c \in Raw THEN None ELSE c
  BY DEF SendStart, Describe
<1>3. UNCHANGED <<start, task, stopping, engine, stored>>
  BY DEF SendStart
<1>4. call' # NoCall /\ call'.op # "disconnect"
  BY DEF Starts, NoCall
<1>5. CASE intent' = c /\ answer' = "none"
  BY <1>1, <1>2, <1>3, <1>4, <1>5
     DEF InfoInv, Awaited, StoredNames, StartNames, InfoTruthful, Names
<1>6. CASE task = NoTask /\ refused' = c /\ UNCHANGED intent
  <2>1. intent' \notin Config
    BY <1>1, <1>6, ClientAssumption
  <2> QED
    BY <1>1, <1>2, <1>3, <1>4, <1>6, <2>1
       DEF InfoInv, Awaited, StoredNames, StartNames, InfoTruthful, Names, NoTask
<1> QED
  BY <1>5, <1>6 DEF SendStart, NoInfoRace

LEMMA ServeInfo ==
    ASSUME InfoInv, NoInfoRace, Serve
    PROVE  Awaited' /\ StoredNames' /\ StartNames' /\ InfoTruthful'
<1> DEFINE c == Head(waiting)
<1>1. c \in Asked /\ call = NoCall /\ task.by # "js" /\ intent \notin Config /\ start = None
  BY Behead DEF InfoInv, Inv, LockInv, Serve, NoCall, Awaited, Starts
<1>2. \A at : Takes(c, at) => call'.at = at /\ call'.op = c.op
  BY <1>1 DEF Takes, Asked, Call
<1>3. CASE \E x \in Config : SendStart(x) /\ Takes(c, "native") /\ c.op \in Starts
  BY <1>1, <1>2, <1>3, SendStartInfo
<1>4. CASE Takes(c, "bypass") /\ UNCHANGED infoVars /\ c.op = "connect"
  BY <1>1, <1>2, <1>4, ElsewhereInfo
<1>5. CASE /\ ConnectOlcrtcOnly(c) /\ Takes(c, "native")
           /\ UNCHANGED <<info, intent, start, task, stopping, refused, engine, stored>>
  <2>1. call'.op = "connectOlcrtcOnly" /\ call' # NoCall
    BY <1>2, <1>5 DEF ConnectOlcrtcOnly, NoCall
  <2> QED
    BY <1>1, <1>5, <2>1 DEF InfoInv, Awaited, StoredNames, StartNames, InfoTruthful, Names, Starts
<1>6. CASE Disconnect(c)
  <2>1. /\ call'.op = "disconnect" /\ call' # NoCall /\ intent = None
        /\ UNCHANGED <<info, start, task, stopping, refused, engine, stored>>
        /\ \/ intent' = "stop" /\ answer' = answer
           \/ task = NoTask /\ intent' = intent
    <3>1. "widget overlaps" \notin Races
      BY DEF NoInfoRace
    <3>2. call'.op = "disconnect"
      BY <1>2, <1>6 DEF Disconnect, Await
    <3>3. call' # NoCall
      BY <3>2 DEF NoCall
    <3> QED
      BY <1>6, <3>1, <3>2, <3>3 DEF Disconnect, Await
  <2>2. intent' \notin Config /\ intent \notin Config
    BY <2>1, ClientAssumption
  <2> QED
    BY <1>1, <2>1, <2>2 DEF InfoInv, Awaited, StoredNames, StartNames, InfoTruthful, Names
<1>7. CASE StartOlcrtc(c) \/ StopOlcrtc(c) \/ SetKillSwitch(c)
  <2>1. call'.op # "disconnect" /\ UNCHANGED infoVars
    BY <1>2, <1>7 DEF StartOlcrtc, StopOlcrtc, SetKillSwitch, Await, nativeVars, infoVars
  <2> QED
    BY <1>1, <2>1, ElsewhereInfo
<1>8. CASE ClearStoredConfig(c)
  <2>1. call'.op # "disconnect" /\ UNCHANGED infoVars
    BY <1>1, <1>8 DEF ClearStoredConfig, nativeVars, infoVars, Asked, Call
  <2> QED
    BY <1>1, <2>1, ElsewhereInfo
<1>9. CASE Connect(c) \/ StartRaw(c) \/ ConnectOlcrtcOnly(c)
  <2>1. c.op \in Starts /\ c.arg \in Config
    BY <1>1, <1>9 DEF Connect, StartRaw, ConnectOlcrtcOnly, Asked, Starts
  <2>2. CASE StartRaw(c)
    BY <1>3, <2>1, <2>2 DEF StartRaw
  <2>3. CASE Connect(c)
    BY <1>3, <1>4, <2>1, <2>3 DEF Connect, nativeVars, infoVars
  <2>4. CASE ConnectOlcrtcOnly(c)
    BY <1>3, <1>5, <2>1, <2>4 DEF ConnectOlcrtcOnly, Await
  <2> QED
    BY <1>9, <2>2, <2>3, <2>4
<1> QED
  BY <1>6, <1>7, <1>8, <1>9 DEF Serve, Begin

LEMMA LockInfo ==
    ASSUME InfoInv, NoInfoRace, GoesOn \/ Settle
    PROVE  Awaited' /\ StoredNames' /\ StartNames' /\ InfoTruthful'
<1>1. CASE GoesOn
  <2>1. call \in Asked /\ call.op = "connect" /\ call.at = "bypass"
    BY <1>1 DEF InfoInv, Inv, LockInv, GoesOn, NoCall, Asked
  <2>2. call.arg \in Config /\ call'.op = "connect" /\ call'.at = "native"
    BY <1>1, <2>1 DEF GoesOn, Asked, Call
  <2>3. task.by # "js" /\ start = None
    BY <2>1 DEF InfoInv, Awaited
  <2> QED
    BY <1>1, <2>2, <2>3, SendStartInfo DEF GoesOn, Starts
<1>2. CASE Settle
  <2>1. /\ start = None /\ task.by # "js" /\ intent \notin Config
        /\ call'.op = "none" /\ answer' = "none"
        /\ UNCHANGED <<intent, start, task, stopping, engine, stored>>
    BY <1>2 DEF InfoInv, Awaited, Settle, Release, NoCall
  <2>2. CASE UNCHANGED <<info, refused>>
    BY <2>1, <2>2 DEF InfoInv, Awaited, StoredNames, StartNames, InfoTruthful, Names
  <2>3. CASE call.op = "disconnect" /\ info' = NoInfo
    <3>1. info'.config = None /\ (stopping \/ task = NoTask)
      BY <1>2, <2>3 DEF InfoInv, Awaited, Settle, NoInfo
    <3> QED
      BY <2>1, <3>1 DEF InfoInv, Awaited, StoredNames, StartNames, InfoTruthful, Names, NoTask
  <2> QED
    BY <1>2, <2>2, <2>3 DEF Settle
<1> QED
  BY <1>1, <1>2

LEMMA StartInfo ==
    ASSUME InfoInv, NoInfoRace,
           StartRuns \/ RestoreConnectionInfo \/ EngineStarts \/ StartSucceeds \/ StartFails
    PROVE  Awaited' /\ StoredNames' /\ StartNames' /\ InfoTruthful'
<1>1. CASE StartRuns
  <2>1. /\ task' = [config |-> start, by |-> "js", at |-> "ready"] /\ start' = None /\ engine' = None
        /\ start # None /\ UNCHANGED <<call, info, intent, stopping, refused, answer, stored>>
    BY <1>1 DEF StartRuns, lockVars
  <2>2. intent = None /\ intent \notin Config
    BY <2>1, ClientAssumption DEF InfoInv, Awaited
  <2> QED
    BY <2>1, <2>2 DEF InfoInv, Awaited, StoredNames, StartNames, InfoTruthful, Names, Starts
<1>2. CASE RestoreConnectionInfo
  <2>1. /\ task.at = "stopped" /\ task' = [task EXCEPT !.at = "ready"]
        /\ stored.info # NoInfo => info' = stored.info
        /\ UNCHANGED <<call, intent, start, engine, stopping, answer, stored>>
    BY <1>2 DEF RestoreConnectionInfo, lockVars
  <2>2. task \in [config : Config, by : {"js", "widget"}, at : {"stopped", "ready", "up"}]
    BY <2>1 DEF InfoInv, Inv, NativeInv, NoTask
  <2>3. stored.config = task.config /\ task.config # None /\ task.config \notin Raw
    BY <2>1, <2>2, ClientAssumption DEF InfoInv, StoredNames
  <2>4. stored.info.config = task.config /\ stored.info # NoInfo
    BY <2>3 DEF InfoInv, StoredNames, NoInfo
  <2>5. info'.config = task.config /\ task'.config = task.config /\ task'.at = "ready" /\ task'.by = task.by
    BY <2>1, <2>2, <2>4
  <2>6. task # NoTask /\ task' # NoTask
    BY <2>1, <2>5 DEF NoTask
  <2> QED
    BY <2>1, <2>3, <2>5, <2>6 DEF InfoInv, Awaited, StoredNames, StartNames, InfoTruthful, Names
<1>3. CASE StartSucceeds \/ StartFails
  <2>1. /\ task.at \in {"ready", "up"} /\ task # NoTask /\ task' = NoTask
        /\ UNCHANGED <<call, intent, start, stopping, refused, info>>
        /\ task.by # "js" => answer' = answer
        /\ engine' \in {task.config, None}
    <3>1. /\ task.at \in {"ready", "up"} /\ task' = NoTask /\ engine' = engine
          /\ UNCHANGED <<call, intent, start, stopping, refused, info>>
          /\ task.by # "js" => answer' = answer
      BY <1>3 DEF StartSucceeds, StartFails, AnswerStart, lockVars
    <3>2. task # NoTask
      BY <3>1 DEF NoTask
    <3> QED
      BY <3>1, <3>2 DEF InfoInv, StartNames
  <2>2. Awaited'
    <3>1. task.by = "js" => call # NoCall /\ call.op # "disconnect" /\ intent = None
      BY DEF InfoInv, Awaited, NoCall, Starts
    <3>2. task.by # "js" => answer' = answer
      BY <2>1
    <3> QED
      BY <2>1, <3>1, <3>2, ClientAssumption DEF InfoInv, Awaited, NoTask
  <2>3. StartNames' /\ InfoTruthful'
    BY <2>1 DEF InfoInv, StartNames, InfoTruthful, Names, NoTask
  <2>4. CASE stored' = stored
    BY <2>1, <2>2, <2>3, <2>4 DEF InfoInv, StoredNames, NoTask
  <2>5. CASE /\ ~Overtaken /\ intent \notin Config
             /\ stored' = [config |-> task.config, info |-> info]
    <3>1. Names(task.config)
      BY <2>1, <2>5 DEF InfoInv, StartNames, Overtaken
    <3> QED
      BY <2>1, <2>2, <2>3, <2>5, <3>1 DEF StoredNames, Names, NoTask
  <2> QED
    BY <1>3, <2>4, <2>5 DEF StartSucceeds, StartFails, NoInfoRace
<1>4. CASE EngineStarts
  <2>1. /\ task.at = "ready" /\ task' = [task EXCEPT !.at = "up"] /\ engine' = task.config
        /\ UNCHANGED <<call, info, intent, start, stopping, refused, answer, stored>>
    BY <1>4 DEF EngineStarts, lockVars
  <2>2. task \in [config : Config, by : {"js", "widget"}, at : {"stopped", "ready", "up"}]
    BY <2>1 DEF InfoInv, Inv, NativeInv, NoTask
  <2>3. /\ task'.config = task.config /\ task'.by = task.by /\ task'.at = "up"
        /\ task # NoTask /\ task' # NoTask
    BY <2>1, <2>2 DEF NoTask
  <2> QED
    BY <2>1, <2>3 DEF InfoInv, Awaited, StoredNames, StartNames, InfoTruthful, Names
<1> QED
  BY <1>1, <1>2, <1>3, <1>4

LEMMA ArrivesInfo ==
    ASSUME InfoInv, StartArrives \/ StopArrives
    PROVE  Awaited' /\ StoredNames' /\ StartNames' /\ InfoTruthful'
<1>1. UNCHANGED <<call, info, task, engine, refused, answer, stored>> /\ intent' = None
      /\ None \notin Config /\ "stop" \notin Config
  BY ClientAssumption DEF StartArrives, StopArrives, lockVars
<1>2. CASE StartArrives
  <2>1. intent \in Config /\ start' = intent /\ start' # None /\ stopping' = FALSE
    BY <1>1, <1>2 DEF StartArrives
  <2> QED
    BY <1>1, <2>1 DEF InfoInv, Awaited, StoredNames, StartNames, InfoTruthful, Names, Starts
<1>3. CASE StopArrives
  <2>1. intent = "stop" /\ start' = start /\ stopping' = TRUE
    BY <1>3 DEF StopArrives
  <2> QED
    BY <1>1, <2>1 DEF InfoInv, Awaited, StoredNames, StartNames, InfoTruthful, Names
<1> QED
  BY <1>2, <1>3

LEMMA OtherNativeInfo ==
    ASSUME InfoInv, NoInfoRace, Widget \/ StopRuns \/ StopTimesOut \/ TornDown \/ Answer \/ Traffic
    PROVE  Awaited' /\ StoredNames' /\ StartNames' /\ InfoTruthful'
<1>1. CASE Widget
  <2>1. \/ UNCHANGED <<task, engine>>
        \/ /\ engine' = None /\ stored.config \notin Raw
           /\ task' = [config |-> stored.config, by |-> "widget", at |-> "stopped"]
    BY <1>1 DEF Widget, NoInfoRace
  <2>2. /\ start = None /\ task = NoTask /\ call.op # "disconnect" /\ intent = None
        /\ UNCHANGED <<call, info, intent, start, stopping, refused, answer, stored>>
    BY <1>1 DEF Widget, NoInfoRace, lockVars
  <2>3. intent \notin Config
    BY <2>2, ClientAssumption
  <2> QED
    BY <2>1, <2>2, <2>3 DEF InfoInv, Awaited, StoredNames, StartNames, InfoTruthful, Names, NoTask
<1>2. CASE StopRuns \/ TornDown
  <2>1. /\ task = NoTask /\ engine' = None
        /\ UNCHANGED <<call, info, intent, start, task, refused, stored>>
        /\ call.op # "disconnect" => answer' = answer
    BY <1>2 DEF StopRuns, TornDown, TunnelDown, lockVars
  <2> QED
    BY <2>1
       DEF InfoInv, Awaited, StoredNames, StartNames, InfoTruthful, Names, NoTask, NoCall, Starts
<1>3. CASE StopTimesOut \/ Traffic
  <2>1. /\ UNCHANGED <<call, info, intent, start, task, stopping, refused, engine, stored>>
        /\ answer' = answer \/ (call.op = "disconnect" /\ intent # "stop")
    BY <1>3 DEF StopTimesOut, Traffic, lockVars
  <2> QED
    BY <2>1 DEF InfoInv, Awaited, StoredNames, StartNames, InfoTruthful, Names, NoCall, Starts
<1>4. CASE Answer
  <2>1. /\ UNCHANGED <<call, info, intent, start, task, stopping, refused, engine>>
        /\ call.op \notin Starts \/ call.at = "bypass"
        /\ call # NoCall /\ (call.op # "disconnect" \/ call.at = "bypass")
    BY <1>4 DEF Answer, lockVars, Starts, NoCall
  <2>2. Awaited' /\ StartNames' /\ InfoTruthful'
    BY <2>1 DEF InfoInv, Awaited, StartNames, InfoTruthful, Names
  <2>3. \/ stored' = stored
        \/ stored'.config = None /\ task.at # "stopped"
    <3>1. CASE stored' = [config |-> None, info |-> NoInfo] /\ NoOverlap
      <4>1. "widget overlaps" \notin Races
        BY DEF NoInfoRace
      <4>2. task.at # "stopped"
        BY <3>1, <4>1 DEF NoOverlap
      <4> QED
        BY <3>1, <4>2
    <3> QED
      BY <1>4, <3>1 DEF Answer
  <2> QED
    BY <2>1, <2>2, <2>3 DEF InfoInv, StoredNames
<1> QED
  BY <1>1, <1>2, <1>3, <1>4

LEMMA StepInfo == NoInfoRace /\ InfoInv /\ [Next]_vars => InfoInv'
<1> SUFFICES ASSUME NoInfoRace, InfoInv, [Next]_vars PROVE InfoInv'
  OBVIOUS
<1>1. Inv'
  BY StepInv DEF InfoInv
<1>2. CASE \/ Requests \/ Deliver \/ AddStateListener \/ UNCHANGED vars
           \/ \E p \in Poll : Stats(p) \/ GetStats(p) \/ TakeSample(p)
  <2>1. UNCHANGED call /\ UNCHANGED infoVars
    BY <1>2 DEF Requests, Request, Deliver, AddStateListener, Stats, GetStats, TakeSample, vars,
                lockVars, jsVars, nativeVars, infoVars
  <2> QED
    BY <1>1, <2>1, ElsewhereInfo DEF InfoInv
<1> QED
  BY <1>1, <1>2, ServeInfo, LockInfo, ArrivesInfo, StartInfo, OtherNativeInfo
     DEF Next, JsThread, Native, World, InfoInv

\* However starts, stops, failures, refusals and widgets follow one another, the description
\* names what runs, or nothing, or the one start that was refused since it was last written,
\* provided no raw configuration is replayed and no widget starts between two steps of a call.
THEOREM InfoNamesEngine ==
    ASSUME NoInfoRace
    PROVE  Spec => []InfoTruthful
<1>1. InfoInv /\ [Next]_vars => InfoInv'
  BY StepInfo
<1>2. InfoInv => InfoTruthful
  BY DEF InfoInv
<1> QED
  BY <1>1, <1>2, InitInfo, PTL DEF Spec
-----------------------------------------------------------------------------
(* The traffic.  However restarts, a poll and events interleave, a         *)
(* session's total is at most what its engines carried.                    *)

\* A session, or the one a first sample would begin.
S == IF session = None THEN Fresh ELSE session

\* Of the counters w of the engine that runs and the bytes c that all engines carried: the last
\* sample is of an engine that ended, or of the one that runs.
Banked(s, w, c)   == AtMost(Total(s) ++ w, c)
Counting(s, w, c) == Banked(s, w, c) \/ (AtMost(s.lastRaw, w) /\ AtMost(s.baseline ++ w, c))

\* A sample r on its way is of an engine that ended, after the last one or of the same engine;
\* or it is of the one that runs.
Past(s, r, w, c)    == AtMost((Total(s) ++ r) ++ w, c)
Follows(s, r, w, c) == AtMost(s.lastRaw, r) /\ AtMost((s.baseline ++ r) ++ w, c)
Current(s, r, w, c) == /\ AtMost(r, w)
                       /\ Banked(s, w, c) \/ (AtMost(s.lastRaw, r) /\ AtMost(s.baseline ++ w, c))

Sampled(P) == {p \in Poll : P[p].at = "sampled"}
AllTaken(P) == \A p \in Poll : P[p].raw = Zero

\* Whether an event that ends a restart is on its way.
ResumeDue(E)   == \E i \in 1..Len(E) : Resumes(E[i])

\* What has been counted was carried, whatever comes in: a sample or the end of a restart.
SumsOf(s, w, c, P, E) ==
    /\ Counting(s, w, c)
    /\ \A p \in Sampled(P) :
          Past(s, P[p].raw, w, c) \/ Follows(s, P[p].raw, w, c) \/ Current(s, P[p].raw, w, c)
    /\ ResumeDue(E) => /\ Banked(s, w, c)
                       /\ \A p \in Sampled(P) : AtMost(P[p].raw, w) \/ Past(s, P[p].raw, w, c)

Sums == SumsOf(S, raw, carried, poll, events)

\* A sample is taken after the ends of restarts that were emitted before it, and there are no
\* others while it is on its way.
OrderOf(P, E) == \A p \in Poll : P[p].raw # Zero =>
                    \A i \in 1..Len(E) : Resumes(E[i]) => i <= P[p].behind

\* After n more events the session is suspended.
Shielded(s, E, n) ==
    \/ s.suspended /\ \A i \in 1..n : ~Resumes(E[i])
    \/ \E i \in 1..n : E[i] = "connecting" /\ \A j \in (i + 1)..n : ~Resumes(E[j])

\* While a start is reported nowhere, none of its engine's samples is taken.
HeldBackOf(s, w, c, P, E) ==
    /\ Banked(s, w, c)
    /\ \A p \in Sampled(P) :
          \/ Shielded(s, E, P[p].behind)
          \/ Past(s, P[p].raw, w, c)
          \/ Follows(s, P[p].raw, w, c) /\ ~ResumeDue(E)

\* No start under way is reported before one sent since has arrived.
Outrun == Overtaken \/ intent \in Config

Fenced ==
    session # None =>
        /\ start # None \/ (task # NoTask /\ ~Outrun) => Shielded(session, events, Len(events))
        /\ task.at = "up" /\ ~Outrun => HeldBackOf(session, raw, carried, poll, events)

\* A first sample begins its session while nothing starts.
FirstAlone == session = None /\ (\E p \in Poll : poll[p] # Idle) => start = None /\ task = NoTask

\* Only an engine behind a tunnel counts.
Bare == /\ ~interface => engine = None /\ AllTaken(poll)
        /\ engine = None => raw = Zero
        /\ AtMost(raw, carried)

Shape == /\ session # None => hooked
         /\ \A p \in Poll : poll[p] # Idle => hooked
         /\ hooked => registered
         /\ start # None => ~stopping
         /\ \A p \in Poll : poll[p].at # "sampled" => poll[p].raw = Zero
         /\ \A p \in Poll : poll[p].behind <= Len(events)

Kept == Sums /\ OrderOf(poll, events) /\ Fenced /\ FirstAlone /\ Bare /\ Shape

TrafficInv == InfoInv /\ Kept

\* None of the races, and one poll at a time, as the app has.
NoRaces == Races = {} /\ \A p, q \in Poll : p = q
-----------------------------------------------------------------------------
(* Arithmetic.                                                             *)

LEMMA SessionParts ==
    ASSUME NEW s \in Session
    PROVE  s.baseline \in Counters /\ s.lastRaw \in Counters /\ Total(s) = s.baseline ++ s.lastRaw
           /\ Total(s) \in Counters
BY SumType DEF Session, Total

\* The engine that runs is stopped.
LEMMA Stopped ==
    ASSUME NEW b \in Counters, NEW l \in Counters, NEW w \in Counters, NEW c \in Counters,
           NEW r \in Counters
    PROVE  /\ \/ AtMost((b ++ l) ++ w, c)
              \/ AtMost(l, w) /\ AtMost(b ++ w, c)
              => AtMost((b ++ l) ++ Zero, c)
           /\ AtMost(((b ++ l) ++ r) ++ w, c) => AtMost(((b ++ l) ++ r) ++ Zero, c)
           /\ AtMost(l, r) /\ AtMost((b ++ r) ++ w, c) => AtMost((b ++ r) ++ Zero, c)
           /\ AtMost(r, w) /\ AtMost((b ++ l) ++ w, c) => AtMost(((b ++ l) ++ r) ++ Zero, c)
           /\ AtMost(r, w) /\ AtMost(b ++ w, c) => AtMost((b ++ r) ++ Zero, c)
BY DEF Counters, ++, AtMost, Zero

\* It carries x more.
LEMMA Carries ==
    ASSUME NEW a \in Counters, NEW w \in Counters, NEW c \in Counters, NEW x \in Counters
    PROVE  /\ AtMost(a ++ w, c) => AtMost(a ++ (w ++ x), c ++ x)
           /\ AtMost(a, w) => AtMost(a, w ++ x)
BY DEF Counters, ++, AtMost

\* A sample r replaces the last one, or the last one is banked first.
LEMMA Replaced ==
    ASSUME NEW b \in Counters, NEW l \in Counters, NEW w \in Counters, NEW c \in Counters,
           NEW r \in Counters
    PROVE  /\ AtMost(((b ++ l) ++ r) ++ w, c) => AtMost((b ++ r) ++ w, c)
           /\ AtMost((b ++ l) ++ w, c) => AtMost(b ++ w, c)
           /\ AtMost(l, Zero) => b ++ l = b ++ Zero
           /\ (b ++ l) ++ Zero = b ++ l
BY DEF Counters, ++, AtMost, Zero

LEMMA ZeroLeast == \A w \in Counters : AtMost(Zero, w) /\ AtMost(w, w) /\ Zero ++ w = w
BY DEF Counters, ++, AtMost, Zero

LEMMA FreshBanked ==
    ASSUME NEW w \in Counters, NEW c \in Counters, AtMost(w, c)
    PROVE  Banked(Fresh, w, c)
<1>1. Total(Fresh) = Zero
  BY ZeroLeast, FreshType DEF Total, Fresh
<1> QED
  BY <1>1, ZeroLeast DEF Banked

LEMMA CommitParts ==
    ASSUME NEW s \in Session
    PROVE  /\ CommitRestart(s) \in Session /\ Total(CommitRestart(s)) = Total(s)
           /\ ~CommitRestart(s).suspended
<1>1. CommitRestart(s) \in Session /\ Total(CommitRestart(s)) = Total(s)
  BY CommitKeepsTotal
<1>2. PICK b \in Session : b = Bank(s)
  BY BankKeepsTotal
<1> QED
  BY <1>1, <1>2 DEF CommitRestart, Session

LEMMA SuspendParts ==
    ASSUME NEW s \in Session
    PROVE  /\ Suspend(s) \in Session /\ Suspend(s).suspended
           /\ Suspend(s).baseline = s.baseline /\ Suspend(s).lastRaw = s.lastRaw
BY DEF Suspend, Session

LEMMA UpdateParts ==
    ASSUME NEW s \in Session, NEW r \in Counters
    PROVE  /\ Update(s, r) \in Session /\ Update(s, r).suspended = s.suspended
           /\ s.suspended => Update(s, r) = s
           /\ ~s.suspended => /\ Update(s, r).lastRaw = r
                              /\ Update(s, r).baseline = IF AtMost(s.lastRaw, r) THEN s.baseline
                                                         ELSE Total(s)
<1>1. CASE s.suspended
  BY <1>1 DEF Update
<1>2. CASE ~s.suspended /\ AtMost(s.lastRaw, r)
  BY <1>2 DEF Update, Session
<1>3. CASE ~s.suspended /\ ~AtMost(s.lastRaw, r)
  <2>1. PICK b \in Session : b = Bank(s)
    BY BankKeepsTotal
  <2>2. b.baseline = Total(s) /\ b.suspended = s.suspended
    <3>1. PICK total, zero : total = Total(s) /\ zero = Zero
      OBVIOUS
    <3> QED
      BY <2>1, <3>1 DEF Bank, Session
  <2> QED
    BY <1>3, <2>1, <2>2 DEF Update, Session
<1> QED
  BY <1>1, <1>2, <1>3
-----------------------------------------------------------------------------
(* What happens to the sums.                                               *)

LEMMA RawType == \A P \in [Poll -> Sample] : \A p \in Poll : P[p].raw \in Counters
BY DEF Sample

\* The engine that runs is stopped: whatever is on its way is of one that ended.
LEMMA SumsStop ==
    ASSUME NEW s \in Session, NEW w \in Counters, NEW c \in Counters, NEW P \in [Poll -> Sample],
           NEW E, SumsOf(s, w, c, P, E)
    PROVE  /\ SumsOf(s, Zero, c, P, E) /\ Banked(s, Zero, c)
           /\ \A p \in Sampled(P) : \/ Past(s, P[p].raw, Zero, c)
                                    \/ Follows(s, P[p].raw, Zero, c) /\ ~ResumeDue(E)
<1>1. Banked(s, Zero, c)
  BY Stopped, SessionParts, FreshType DEF SumsOf, Counting, Banked
<1>2. ASSUME NEW p \in Sampled(P)
      PROVE  /\ Past(s, P[p].raw, Zero, c) \/ Follows(s, P[p].raw, Zero, c)
             /\ ResumeDue(E) => Past(s, P[p].raw, Zero, c)
  <2>1. PICK r \in Counters : r = P[p].raw
    BY RawType DEF Sampled
  <2>2. /\ Past(s, r, w, c) \/ Follows(s, r, w, c) \/ Current(s, r, w, c)
        /\ ResumeDue(E) => Banked(s, w, c) /\ (AtMost(r, w) \/ Past(s, r, w, c))
    BY <2>1 DEF SumsOf
  <2>3. Past(s, r, Zero, c) \/ Follows(s, r, Zero, c)
    BY <2>2, Stopped, SessionParts DEF Past, Follows, Current, Banked
  <2>4. ResumeDue(E) => Past(s, r, Zero, c)
    BY <2>2, Stopped, SessionParts DEF Past, Banked
  <2> QED
    BY <2>1, <2>3, <2>4
<1> QED
  BY <1>1, <1>2 DEF SumsOf, Counting

LEMMA SumsTraffic ==
    ASSUME NEW s \in Session, NEW w \in Counters, NEW c \in Counters, NEW P \in [Poll -> Sample],
           NEW E, NEW x \in Counters
    PROVE  /\ SumsOf(s, w, c, P, E) => SumsOf(s, w ++ x, c ++ x, P, E)
           /\ HeldBackOf(s, w, c, P, E) => HeldBackOf(s, w ++ x, c ++ x, P, E)
<1>1. /\ Banked(s, w, c) => Banked(s, w ++ x, c ++ x)
      /\ Counting(s, w, c) => Counting(s, w ++ x, c ++ x)
  BY Carries, SessionParts DEF Banked, Counting
<1>2. ASSUME NEW r \in Counters
      PROVE  /\ AtMost(r, w) => AtMost(r, w ++ x)
             /\ Past(s, r, w, c) => Past(s, r, w ++ x, c ++ x)
             /\ Follows(s, r, w, c) => Follows(s, r, w ++ x, c ++ x)
             /\ Current(s, r, w, c) => Current(s, r, w ++ x, c ++ x)
  <2>1. Total(s) ++ r \in Counters /\ s.baseline ++ r \in Counters
    BY SumType, SessionParts
  <2> QED
    BY <1>1, <2>1, Carries, SessionParts DEF Past, Follows, Current
<1> QED
  BY <1>1, <1>2, RawType DEF SumsOf, HeldBackOf, Sampled

\* Fewer samples, or fewer events that would end a restart.
LEMMA SumsSame ==
    ASSUME NEW s, NEW w, NEW c, NEW P, NEW E, NEW Q, NEW F, SumsOf(s, w, c, P, E),
           \A p \in Poll : Q[p].at = "sampled" => P[p].at = "sampled" /\ Q[p].raw = P[p].raw,
           ResumeDue(F) => ResumeDue(E)
    PROVE  SumsOf(s, w, c, Q, F)
BY DEF SumsOf, Sampled

\* With no sample on its way any event may come.
LEMMA SumsQuiet ==
    ASSUME NEW s \in Session, NEW w \in Counters, NEW c, NEW P, NEW E, Banked(s, w, c), AllTaken(P)
    PROVE  SumsOf(s, w, c, P, E)
BY ZeroLeast DEF SumsOf, AllTaken, Sampled, Counting, Current

\* An event is delivered.
LEMMA SumsDeliver ==
    ASSUME NEW s \in Session, NEW w \in Counters, NEW c, NEW P \in [Poll -> Sample],
           NEW E, NEW F, NEW state, SumsOf(s, w, c, P, E), Resumes(state) => ResumeDue(E),
           ResumeDue(F) => ResumeDue(E)
    PROVE  SumsOf(OnState(state, s), w, c, P, F)
<1>1. CASE state = "disconnecting"
  BY <1>1, SumsSame DEF OnState
<1>2. CASE state = "connecting"
  <2>1. PICK t : t = OnState(state, s) /\ t.baseline = s.baseline /\ t.lastRaw = s.lastRaw
    BY <1>2, SuspendParts DEF OnState
  <2>2. Total(t) = Total(s)
    BY <2>1 DEF Total
  <2>3. SumsOf(t, w, c, P, F)
    BY <2>1, <2>2 DEF SumsOf, Counting, Banked, Past, Follows, Current
  <2> QED
    BY <2>1, <2>3
<1>3. CASE Resumes(state)
  <2>1. PICK t : t = OnState(state, s) /\ Total(t) = Total(s)
    BY OnStateKeepsTotal
  <2>2. SumsOf(t, w, c, P, F)
    BY <1>3, <2>1 DEF SumsOf, Counting, Banked, Past, Current
  <2> QED
    BY <2>1, <2>2
<1> QED
  BY <1>1, <1>2, <1>3 DEF Resumes

\* A sample is read.
LEMMA SumsGet ==
    ASSUME NEW s \in Session, NEW w \in Counters, NEW c, NEW P, NEW E, NEW Q,
           SumsOf(s, w, c, P, E),
           \A p \in Sampled(Q) : Q[p].raw = w \/ (p \in Sampled(P) /\ Q[p].raw = P[p].raw)
    PROVE  SumsOf(s, w, c, Q, E)
BY ZeroLeast DEF SumsOf, Counting, Current

\* A sample is taken.
LEMMA Taken ==
    ASSUME NEW s \in Session, NEW w \in Counters, NEW c \in Counters, NEW r \in Counters
    PROVE  /\ Past(s, r, w, c) => Banked(Update(s, r), w, c)
           /\ Follows(s, r, w, c) /\ ~s.suspended => Banked(Update(s, r), w, c)
           /\ Current(s, r, w, c) /\ ~s.suspended => Counting(Update(s, r), w, c)
           /\ Banked(s, w, c) /\ (r = Zero \/ s.suspended) => Banked(Update(s, r), w, c)
<1> DEFINE t == Update(s, r)
<1>1. t \in Session /\ (s.suspended => t = s)
  BY UpdateParts
<1>2. Past(s, r, w, c) => Banked(s, w, c)
  BY SessionParts DEF Past, Banked, Counters, ++, AtMost
<1>3. CASE ~s.suspended /\ AtMost(s.lastRaw, r)
  <2>1. t.lastRaw = r /\ t.baseline = s.baseline
    BY <1>3, UpdateParts
  <2>2. Total(t) = s.baseline ++ r
    BY <2>1 DEF Total
  <2> HIDE DEF t
  <2>3. Past(s, r, w, c) \/ Follows(s, r, w, c) => Banked(t, w, c)
    BY <2>2, Replaced, SessionParts DEF Past, Follows, Banked
  <2>4. Current(s, r, w, c) => Counting(t, w, c)
    BY <2>1, Replaced, SessionParts DEF Current, Counting, Banked
  <2>5. r = Zero => Total(t) = Total(s)
    BY <1>3, <2>2, Replaced, SessionParts
  <2> QED
    BY <1>3, <2>3, <2>4, <2>5 DEF t, Banked
<1>4. CASE ~s.suspended /\ ~AtMost(s.lastRaw, r)
  <2>1. t.lastRaw = r /\ t.baseline = Total(s)
    BY <1>4, UpdateParts
  <2>2. Total(t) = Total(s) ++ r
    BY <2>1 DEF Total
  <2> HIDE DEF t
  <2>3. Past(s, r, w, c) => Banked(t, w, c)
    BY <2>2 DEF Past, Banked
  <2>4. ~Follows(s, r, w, c)
    BY <1>4 DEF Follows
  <2>5. Current(s, r, w, c) => Counting(t, w, c)
    BY <1>4, <2>1 DEF Current, Counting, Banked
  <2>6. r = Zero => Total(t) = Total(s)
    BY <2>2, Replaced, SessionParts
  <2> QED
    BY <1>4, <2>3, <2>4, <2>5, <2>6 DEF t, Banked
<1> QED
  BY <1>1, <1>2, <1>3, <1>4

LEMMA SumsTake ==
    ASSUME NEW s \in Session, NEW w \in Counters, NEW c \in Counters, NEW P \in [Poll -> Sample],
           NEW E, NEW Q, NEW p \in Poll, P[p].at = "sampled", P[p].behind = 0, Sampled(Q) = {},
           E \in Seq(State), SumsOf(s, w, c, P, E), OrderOf(P, E)
    PROVE  /\ SumsOf(Update(s, P[p].raw), w, c, Q, E)
           /\ HeldBackOf(s, w, c, P, E) => HeldBackOf(Update(s, P[p].raw), w, c, Q, E)
<1>1. PICK r \in Counters : r = P[p].raw
  BY RawType
<1>2. PICK t : t = Update(s, r)
  OBVIOUS
<1>3. p \in Sampled(P)
  BY DEF Sampled
<1>4. ResumeDue(E) => r = Zero
  BY <1>1 DEF ResumeDue, OrderOf
<1>5. Counting(t, w, c)
  <2>1. CASE s.suspended
    BY <1>2, <2>1, UpdateParts DEF SumsOf
  <2>2. CASE ~s.suspended
    BY <1>1, <1>2, <1>3, <2>2, Taken DEF SumsOf, Counting
  <2> QED
    BY <2>1, <2>2
<1>6. ResumeDue(E) => Banked(t, w, c)
  BY <1>1, <1>2, <1>4, Taken DEF SumsOf
<1>7. HeldBackOf(s, w, c, P, E) => Banked(t, w, c)
  <2>1. Shielded(s, E, 0) => s.suspended
    BY DEF Shielded
  <2> QED
    BY <1>1, <1>2, <1>3, <2>1, Taken DEF HeldBackOf
<1> QED
  BY <1>1, <1>2, <1>5, <1>6, <1>7 DEF SumsOf, HeldBackOf
-----------------------------------------------------------------------------
(* Events on their way.                                                    *)

LEMMA OneMore ==
    ASSUME NEW E \in Seq(State), NEW state \in State
    PROVE  /\ Append(E, state) \in Seq(State) /\ Len(Append(E, state)) = Len(E) + 1
           /\ Append(E, state)[Len(E) + 1] = state
           /\ \A i \in 1..Len(E) : Append(E, state)[i] = E[i]
BY AppendProperties

LEMMA OneLess ==
    ASSUME NEW E \in Seq(State), E # <<>>
    PROVE  /\ Tail(E) \in Seq(State) /\ Len(Tail(E)) = Len(E) - 1 /\ Len(E) >= 1
           /\ Head(E) = E[1] /\ Head(E) \in State
           /\ \A i \in 1..(Len(E) - 1) : Tail(E)[i] = E[i + 1]
BY HeadTailProperties

LEMMA Harmless ==
    ASSUME NEW E \in Seq(State), NEW state \in State, ~Resumes(state), NEW P
    PROVE  /\ ResumeDue(Append(E, state)) => ResumeDue(E)
           /\ OrderOf(P, E) => OrderOf(P, Append(E, state))
           /\ \A s : Shielded(s, E, Len(E)) => Shielded(s, Append(E, state), Len(E) + 1)
<1>1. PICK F : F = Append(E, state)
  OBVIOUS
<1>2. Len(F) = Len(E) + 1 /\ F[Len(E) + 1] = state /\ \A i \in 1..Len(E) : F[i] = E[i]
  BY <1>1, OneMore
<1>3. Len(E) \in Nat
  BY LenProperties
<1>4. \A i \in 1..Len(F) : Resumes(F[i]) => i \in 1..Len(E) /\ Resumes(E[i])
  BY <1>2, <1>3
<1>5. ResumeDue(F) => ResumeDue(E)
  BY <1>4 DEF ResumeDue
<1>6. OrderOf(P, E) => OrderOf(P, F)
  BY <1>4 DEF OrderOf
<1>7. ASSUME NEW s, Shielded(s, E, Len(E)) PROVE Shielded(s, F, Len(E) + 1)
  <2>1. CASE s.suspended /\ \A i \in 1..Len(E) : ~Resumes(E[i])
    BY <1>2, <1>4, <2>1 DEF Shielded
  <2>2. CASE \E i \in 1..Len(E) : E[i] = "connecting" /\ \A j \in (i + 1)..Len(E) : ~Resumes(E[j])
    <3>1. PICK i \in 1..Len(E) : E[i] = "connecting" /\ \A j \in (i + 1)..Len(E) : ~Resumes(E[j])
      BY <2>2
    <3>2. i \in 1..(Len(E) + 1) /\ F[i] = "connecting"
      BY <1>2, <1>3, <3>1
    <3>3. \A j \in (i + 1)..(Len(E) + 1) : ~Resumes(F[j])
      BY <1>2, <1>3, <1>4, <3>1
    <3> QED
      BY <3>2, <3>3 DEF Shielded
  <2> QED
    BY <1>7, <2>1, <2>2 DEF Shielded
<1> QED
  BY <1>1, <1>5, <1>6, <1>7

\* From "connecting" on the session is suspended.
LEMMA Announced ==
    ASSUME NEW E \in Seq(State), NEW s
    PROVE  LET F == Append(E, "connecting") IN Shielded(s, F, Len(F))
<1>1. Len(E) \in Nat
  BY LenProperties
<1> QED
  BY <1>1, OneMore DEF Shielded, State

LEMMA Delivered ==
    ASSUME NEW E \in Seq(State), E # <<>>, NEW P, NEW Q,
           \A p \in Poll : /\ Q[p].raw = P[p].raw /\ P[p].behind \in Nat
                           /\ Q[p].behind = IF P[p].behind = 0 THEN 0 ELSE P[p].behind - 1
    PROVE  /\ ResumeDue(Tail(E)) => ResumeDue(E)
           /\ Resumes(Head(E)) => ResumeDue(E)
           /\ OrderOf(P, E) => OrderOf(Q, Tail(E))
<1>1. PICK F : F = Tail(E)
  OBVIOUS
<1>2. Len(E) \in Nat /\ Len(F) = Len(E) - 1 /\ Len(E) >= 1 /\ Head(E) = E[1]
  BY <1>1, OneLess, LenProperties
<1>3. \A i \in 1..Len(F) : i + 1 \in 1..Len(E) /\ F[i] = E[i + 1]
  BY <1>1, <1>2, OneLess
<1>4. ResumeDue(F) => ResumeDue(E)
  BY <1>3 DEF ResumeDue
<1>5. Resumes(Head(E)) => ResumeDue(E)
  BY <1>2 DEF ResumeDue
<1>6. ASSUME OrderOf(P, E) PROVE OrderOf(Q, F)
  <2>1. ASSUME NEW p \in Poll, Q[p].raw # Zero, NEW i \in 1..Len(F), Resumes(F[i])
        PROVE  i <= Q[p].behind
    <3>1. i + 1 <= P[p].behind
      BY <1>3, <1>6, <2>1 DEF OrderOf
    <3> QED
      BY <1>2, <2>1, <3>1
  <2> QED
    BY <2>1 DEF OrderOf
<1> QED
  BY <1>1, <1>4, <1>5, <1>6

\* What shields after n events shields after n - 1 of those left.
LEMMA StillShielded ==
    ASSUME NEW E \in Seq(State), E # <<>>, NEW s \in Session, NEW n \in 0..Len(E),
           Shielded(s, E, n), n = 0 => ~Resumes(Head(E))
    PROVE  Shielded(OnState(Head(E), s), Tail(E), IF n = 0 THEN 0 ELSE n - 1)
<1>1. PICK F, t : F = Tail(E) /\ t = OnState(Head(E), s)
  OBVIOUS
<1>2. /\ Len(E) \in Nat /\ Len(E) >= 1 /\ Head(E) = E[1]
      /\ \A i \in 1..(Len(E) - 1) : F[i] = E[i + 1]
  BY <1>1, OneLess, LenProperties
<1>3. /\ E[1] = "connecting" => t.suspended
      /\ s.suspended /\ ~Resumes(E[1]) => t.suspended
  BY <1>1, <1>2, SuspendParts DEF OnState, Resumes
<1>4. CASE n = 0
  BY <1>1, <1>2, <1>3, <1>4 DEF Shielded
<1>5. CASE n # 0 /\ s.suspended /\ \A i \in 1..n : ~Resumes(E[i])
  <2>1. t.suspended
    BY <1>2, <1>3, <1>5
  <2>2. \A i \in 1..(n - 1) : ~Resumes(F[i])
    BY <1>2, <1>5
  <2> QED
    BY <1>1, <1>5, <2>1, <2>2 DEF Shielded
<1>6. CASE n # 0 /\ \E i \in 1..n : E[i] = "connecting" /\ \A j \in (i + 1)..n : ~Resumes(E[j])
  <2>1. PICK i \in 1..n : E[i] = "connecting" /\ \A j \in (i + 1)..n : ~Resumes(E[j])
    BY <1>6
  <2>2. \A j \in i..(n - 1) : ~Resumes(F[j])
    BY <1>2, <2>1
  <2>3. CASE i = 1
    BY <1>1, <1>3, <1>6, <2>1, <2>2, <2>3 DEF Shielded
  <2>4. CASE i # 1
    <3>1. i - 1 \in 1..(n - 1) /\ F[i - 1] = "connecting"
      BY <1>2, <2>1, <2>4
    <3>2. \A j \in ((i - 1) + 1)..(n - 1) : ~Resumes(F[j])
      BY <2>2
    <3> QED
      BY <1>1, <1>6, <3>1, <3>2 DEF Shielded
  <2> QED
    BY <2>3, <2>4
<1> QED
  BY <1>4, <1>5, <1>6 DEF Shielded

LEMMA HeldBackDeliver ==
    ASSUME NEW s \in Session, NEW w \in Counters, NEW c \in Counters, NEW P \in [Poll -> Sample],
           NEW Q, NEW E \in Seq(State), E # <<>>, HeldBackOf(s, w, c, P, E), OrderOf(P, E),
           \A p \in Poll : P[p].behind <= Len(E),
           \A p \in Poll : /\ Q[p].raw = P[p].raw /\ (Q[p].at = "sampled" => P[p].at = "sampled")
                           /\ Q[p].behind = IF P[p].behind = 0 THEN 0 ELSE P[p].behind - 1
    PROVE  HeldBackOf(OnState(Head(E), s), w, c, Q, Tail(E))
<1>1. PICK t : t = OnState(Head(E), s) /\ Total(t) = Total(s)
  BY OnStateKeepsTotal
<1>2. Banked(t, w, c)
  BY <1>1 DEF HeldBackOf, Banked
<1>3. \A p \in Poll : P[p].behind \in Nat /\ P[p].raw \in Counters
  BY DEF Sample
<1>4. (ResumeDue(Tail(E)) => ResumeDue(E)) /\ (Resumes(Head(E)) => ResumeDue(E))
  BY <1>3, Delivered
<1>5. ASSUME NEW p \in Sampled(Q)
      PROVE  \/ Shielded(t, Tail(E), Q[p].behind)
             \/ Past(t, Q[p].raw, w, c)
             \/ Follows(t, Q[p].raw, w, c) /\ ~ResumeDue(Tail(E))
  <2>0. p \in Poll /\ p \in Sampled(P) /\ Q[p].raw = P[p].raw
    BY DEF Sampled
  <2>1. CASE Past(s, P[p].raw, w, c)
    BY <1>1, <2>0, <2>1 DEF Past
  <2>2. CASE Follows(s, P[p].raw, w, c) /\ ~ResumeDue(E)
    <3>1. t.baseline = s.baseline /\ t.lastRaw = s.lastRaw
      BY <1>1, <1>4, <2>2, SuspendParts DEF OnState, Resumes
    <3> QED
      BY <1>4, <2>0, <2>2, <3>1 DEF Follows
  <2>3. CASE Shielded(s, E, P[p].behind) /\ (P[p].behind = 0 => ~Resumes(Head(E)))
    BY <1>1, <1>3, <2>0, <2>3, StillShielded
  <2>4. CASE P[p].behind = 0 /\ Resumes(Head(E))
    <3>1. P[p].raw = Zero
      BY <1>4, <2>0, <2>4 DEF OrderOf, ResumeDue
    <3>2. Total(s) ++ Zero = Total(s)
      BY Replaced, SessionParts
    <3> QED
      BY <1>1, <1>2, <2>0, <3>1, <3>2 DEF Past, Banked
  <2> QED
    BY <2>0, <2>1, <2>2, <2>3, <2>4 DEF HeldBackOf
<1> QED
  BY <1>1, <1>2, <1>5 DEF HeldBackOf
-----------------------------------------------------------------------------
(* The steps.                                                              *)

LEMMA TrafficTypes ==
    ASSUME TrafficInv
    PROVE  /\ S \in Session /\ (session # None => S = session) /\ (session = None => S = Fresh)
           /\ session \in Session \cup {None} /\ None \notin Session
           /\ raw \in Counters /\ carried \in Counters
           /\ poll \in [Poll -> Sample] /\ events \in Seq(State) /\ Len(events) \in Nat
BY FreshType, ClientAssumption, LenProperties
   DEF TrafficInv, InfoInv, Inv, JsInv, StreamInv, NativeInv, Counted, S

LEMMA InitTraffic == Init => TrafficInv
<1> SUFFICES ASSUME Init PROVE TrafficInv
  OBVIOUS
<1>1. InfoInv
  BY InitInfo
<1>2. session = None /\ raw = Zero /\ carried = Zero /\ events = <<>> /\ start = None
      /\ task = NoTask /\ engine = None /\ S = Fresh /\ ~hooked
  BY DEF Init, S
<1>3. \A p \in Poll : poll[p] = Idle /\ poll[p].raw = Zero /\ poll[p].behind = 0
  BY DEF Init, Idle
<1>4. Sums
  <2>1. Banked(S, raw, carried)
    BY <1>2, FreshBanked, FreshType, ZeroLeast
  <2> QED
    BY <1>2, <1>3, <2>1, SumsQuiet, FreshType DEF Sums, AllTaken
<1>5. Len(events) = 0
  BY <1>2
<1>6. OrderOf(poll, events) /\ Fenced /\ FirstAlone
  BY <1>2, <1>3 DEF OrderOf, Fenced, FirstAlone
<1>7. Bare /\ Shape
  BY <1>2, <1>3, <1>5, ZeroLeast, FreshType DEF Bare, Shape, AllTaken
<1> QED
  BY <1>1, <1>4, <1>6, <1>7 DEF TrafficInv, Kept

\* What the counting depends on, but for the task.
trafficVars == <<session, poll, events, hooked, interface, engine, raw, intent, start, stopping,
                 carried>>

LEMMA ElsewhereTraffic ==
    ASSUME TrafficInv, UNCHANGED trafficVars, registered' = registered \/ registered' = TRUE,
           task' = task \/ (task.at = "stopped" /\ task'.at = "ready")
    PROVE  Kept'
<1>1. UNCHANGED <<session, poll, events, hooked, interface, engine, raw, intent, start, stopping,
                  carried>>
  BY DEF trafficVars
<1>2. Sums' /\ OrderOf(poll, events)'
  BY <1>1 DEF TrafficInv, Kept, Sums, S
<1>3. Fenced' /\ FirstAlone'
  BY <1>1 DEF TrafficInv, Kept, Fenced, FirstAlone, Outrun, Overtaken, NoTask
<1>4. Bare' /\ Shape'
  BY <1>1 DEF TrafficInv, Kept, Bare, Shape
<1> QED
  BY <1>2, <1>3, <1>4 DEF Kept

\* A reset, with the samples read so far delivered.
LEMMA ResetSums ==
    ASSUME TrafficInv, session' = IF session # None THEN Fresh ELSE None, carried' = raw, AllTaken(poll),
           NEW E
    PROVE  SumsOf(S', raw, carried', poll, E)
<1>1. S' = Fresh
  BY DEF S
<1>2. Banked(Fresh, raw, raw)
  BY FreshBanked, TrafficTypes, ZeroLeast
<1> QED
  BY <1>1, <1>2, SumsQuiet, TrafficTypes, FreshType

LEMMA SendStartTraffic ==
    ASSUME TrafficInv, NoRaces, start = None, NEW c \in Config, SendStart(c)
    PROVE  Kept'
<1>1. /\ hooked' = TRUE /\ registered' = TRUE
      /\ UNCHANGED <<poll, events, interface, engine, raw, start, task, stopping>>
      /\ intent' \in Config \/ task = NoTask
  BY DEF SendStart, NoRaces
<1>2. \/ interface /\ UNCHANGED <<session, carried>>
      \/ ~interface /\ session' = (IF session # None THEN Fresh ELSE None) /\ carried' = raw
  BY DEF SendStart, FreshSession, ResetSession
<1>3. Sums'
  <2>1. CASE interface /\ UNCHANGED <<session, carried>>
    BY <1>1, <2>1 DEF TrafficInv, Kept, Sums, S
  <2>2. CASE ~interface /\ session' = (IF session # None THEN Fresh ELSE None) /\ carried' = raw
    <3>1. SumsOf(S', raw, carried', poll, events)
      BY <2>2, ResetSums DEF TrafficInv, Kept, Bare
    <3> QED
      BY <1>1, <3>1 DEF Sums
  <2> QED
    BY <1>2, <2>1, <2>2
<1>4. OrderOf(poll, events)'
  BY <1>1 DEF TrafficInv, Kept
<1>5. Fenced'
  <2>1. task.at = "up" => task # NoTask
    BY DEF NoTask
  <2> QED
    BY <1>1, <2>1 DEF Fenced, Outrun
<1>6. FirstAlone'
  BY <1>1, <1>2, FreshType, ClientAssumption DEF TrafficInv, Kept, FirstAlone
<1>7. Bare'
  BY <1>1, <1>2, ZeroLeast, TrafficTypes DEF TrafficInv, Kept, Bare
<1>8. Shape'
  BY <1>1 DEF TrafficInv, Kept, Shape
<1> QED
  BY <1>3, <1>4, <1>5, <1>6, <1>7, <1>8 DEF Kept

LEMMA ServeTraffic ==
    ASSUME TrafficInv, NoRaces, Serve
    PROVE  Kept'
<1> DEFINE c == Head(waiting)
<1>1. c \in Asked /\ call = NoCall /\ start = None
  BY Behead DEF TrafficInv, InfoInv, Inv, LockInv, Serve, NoCall, Awaited, Starts
<1>2. CASE \E x \in Config : SendStart(x)
  BY <1>1, <1>2, SendStartTraffic
<1>3. CASE UNCHANGED trafficVars /\ UNCHANGED <<registered, task>>
  BY <1>3, ElsewhereTraffic
<1>4. CASE Disconnect(c)
  <2>1. /\ UNCHANGED <<session, poll, hooked, registered, events, interface, engine, raw, start, task,
                       stopping, carried>>
        /\ intent = None
    BY <1>4 DEF Disconnect, Await
  <2>2. intent \notin Config
    BY <2>1, ClientAssumption
  <2>3. Sums' /\ OrderOf(poll, events)'
    BY <2>1 DEF TrafficInv, Kept, Sums, S
  <2>4. Fenced' /\ FirstAlone'
    BY <2>1, <2>2 DEF TrafficInv, Kept, Fenced, FirstAlone, Outrun, Overtaken
  <2>5. Bare' /\ Shape'
    BY <2>1 DEF TrafficInv, Kept, Bare, Shape
  <2> QED
    BY <2>3, <2>4, <2>5 DEF Kept
<1>5. \/ \E x \in Config : SendStart(x)
      \/ UNCHANGED trafficVars /\ UNCHANGED <<registered, task>>
      \/ Disconnect(c)
  <2>1. CASE Connect(c) \/ StartRaw(c)
    BY <1>1, <2>1 DEF Connect, StartRaw, Asked, jsVars, nativeVars, streamVars, trafficVars
  <2>2. CASE ConnectOlcrtcOnly(c)
    BY <1>1, <2>2 DEF ConnectOlcrtcOnly, Await, Asked, trafficVars
  <2>3. CASE StartOlcrtc(c) \/ StopOlcrtc(c) \/ SetKillSwitch(c)
    BY <2>3 DEF StartOlcrtc, StopOlcrtc, SetKillSwitch, Await, nativeVars, trafficVars
  <2>4. CASE ClearStoredConfig(c)
    BY <2>4 DEF ClearStoredConfig, jsVars, nativeVars, streamVars, trafficVars
  <2> QED
    BY <2>1, <2>2, <2>3, <2>4 DEF Serve, Begin
<1> QED
  BY <1>2, <1>3, <1>4, <1>5

LEMMA LockTraffic ==
    ASSUME TrafficInv, NoRaces, GoesOn \/ Settle
    PROVE  Kept'
<1>1. CASE GoesOn
  <2>1. call.arg \in Config /\ SendStart(call.arg) /\ start = None
    BY <1>1 DEF TrafficInv, InfoInv, Inv, LockInv, Awaited, GoesOn, NoCall, Asked
  <2> QED
    BY <2>1, SendStartTraffic
<1>2. CASE Settle
  <2>1. UNCHANGED <<hooked, poll, registered, events, interface, engine, raw, intent, start, task, stopping>>
    BY <1>2 DEF Settle, streamVars
  <2>2. CASE UNCHANGED <<session, carried>>
    BY <2>1, <2>2, ElsewhereTraffic DEF trafficVars
  <2>3. CASE call.op = "disconnect" /\ ResetSession
    <3>1. session' = (IF session # None THEN Fresh ELSE None) /\ carried' = raw /\ AllTaken(poll)
      BY <2>3 DEF ResetSession, SamplesIn, NoRaces, AllTaken
    <3>2. start = None /\ (stopping \/ task = NoTask)
      BY <1>2, <2>3 DEF TrafficInv, InfoInv, Awaited, Settle, Starts
    <3>3. SumsOf(S', raw, carried', poll, events)
      BY <3>1, ResetSums
    <3>4. Sums' /\ OrderOf(poll, events)'
      BY <2>1, <3>3 DEF TrafficInv, Kept, Sums
    <3>5. Fenced'
      BY <2>1, <3>2 DEF Fenced, Outrun, Overtaken, NoTask
    <3>6. FirstAlone' /\ Bare' /\ Shape'
      BY <2>1, <3>1, FreshType, ClientAssumption, ZeroLeast, TrafficTypes
         DEF TrafficInv, Kept, FirstAlone, Bare, Shape
    <3> QED
      BY <3>4, <3>5, <3>6 DEF Kept
  <2> QED
    BY <1>2, <2>2, <2>3 DEF Settle
<1> QED
  BY <1>1, <1>2

LEMMA DeliverTraffic ==
    ASSUME TrafficInv, Deliver
    PROVE  Kept'
<1>1. /\ events # <<>> /\ events' = Tail(events)
      /\ session' = IF session # None THEN OnState(Head(events), session) ELSE None
      /\ poll' = [p \in Poll |-> [poll[p] EXCEPT !.behind = IF @ = 0 THEN 0 ELSE @ - 1]]
      /\ UNCHANGED <<hooked, registered, interface, engine, raw, intent, start, task, stopping, carried>>
  BY TrafficTypes DEF TrafficInv, Kept, Shape, Deliver, nativeVars
<1>2. PICK P : P = poll'
  OBVIOUS
<1>3. \A p \in Poll : /\ P[p].at = poll[p].at /\ P[p].raw = poll[p].raw
                      /\ P[p].behind = IF poll[p].behind = 0 THEN 0 ELSE poll[p].behind - 1
                      /\ poll[p].behind \in 0..Len(events)
  <2>1. poll \in [Poll -> Sample] /\ Len(events) \in Nat
    BY TrafficTypes
  <2>2. \A p \in Poll : poll[p].behind \in 0..Len(events)
    BY <2>1 DEF TrafficInv, Kept, Shape, Sample
  <2>3. P = [p \in Poll |-> [poll[p] EXCEPT !.behind = IF @ = 0 THEN 0 ELSE @ - 1]]
    BY <1>1, <1>2
  <2>4. ASSUME NEW p \in Poll
        PROVE  /\ P[p].at = poll[p].at /\ P[p].raw = poll[p].raw
               /\ P[p].behind = IF poll[p].behind = 0 THEN 0 ELSE poll[p].behind - 1
    BY <2>1, <2>3 DEF Sample
  <2> QED
    BY <2>2, <2>4
<1>4. /\ ResumeDue(Tail(events)) => ResumeDue(events)
      /\ Resumes(Head(events)) => ResumeDue(events)
      /\ OrderOf(P, Tail(events))
  <2>1. events \in Seq(State) /\ events # <<>> /\ OrderOf(poll, events)
    BY <1>1, TrafficTypes DEF TrafficInv, Kept
  <2>2. \A p \in Poll : /\ P[p].raw = poll[p].raw /\ poll[p].behind \in Nat
                        /\ P[p].behind = IF poll[p].behind = 0 THEN 0 ELSE poll[p].behind - 1
    BY <1>3, TrafficTypes
  <2> QED
    BY <2>1, <2>2, Delivered
<1>5. session # None => S' = OnState(Head(events), S) /\ session' = OnState(Head(events), S)
  <2>1. OnState(Head(events), session) # None \/ session = None
    BY TrafficTypes, OnStateKeepsTotal
  <2> QED
    BY <1>1, <2>1 DEF S
<1>6. Sums'
  <2>1. SumsOf(S', raw, carried, P, Tail(events))
    <3>1. SumsOf(S, raw, carried, poll, events)
      BY DEF TrafficInv, Kept, Sums
    <3>2. CASE session = None
      <4>1. S' = S
        BY <1>1, <3>2 DEF S
      <4>2. SumsOf(S, raw, carried, P, Tail(events))
        BY <1>3, <1>4, <3>1, SumsSame
      <4> QED
        BY <4>1, <4>2
    <3>3. CASE session # None
      <4>1. PICK s : s = OnState(Head(events), S)
        OBVIOUS
      <4>2. SumsOf(s, raw, carried, poll, Tail(events))
        BY <1>4, <3>1, <4>1, SumsDeliver, TrafficTypes
      <4>3. SumsOf(s, raw, carried, P, Tail(events))
        BY <1>3, <4>2, SumsSame
      <4> QED
        BY <1>5, <3>3, <4>1, <4>3
    <3> QED
      BY <3>2, <3>3
  <2> QED
    BY <1>1, <1>2, <2>1 DEF Sums
<1>7. OrderOf(poll, events)'
  BY <1>1, <1>2, <1>4
<1>8. Fenced'
  <2> SUFFICES ASSUME session' # None PROVE Fenced'
    BY DEF Fenced
  <2>1. session # None
    BY <1>1
  <2>2. PICK s : s = OnState(Head(events), S) /\ session' = s
    BY <1>5, <2>1
  <2>3. Len(events') = Len(events) - 1 /\ Len(events) >= 1
    BY <1>1, OneLess, TrafficTypes
  <2>4. ASSUME start # None \/ (task # NoTask /\ ~Outrun)
        PROVE  Shielded(s, Tail(events), Len(events) - 1)
    <3>1. Shielded(S, events, Len(events))
      BY <2>1, <2>4, TrafficTypes DEF TrafficInv, Kept, Fenced
    <3> QED
      BY <1>1, <2>2, <2>3, <3>1, StillShielded, TrafficTypes
  <2>5. ASSUME task.at = "up" /\ ~Outrun
        PROVE  HeldBackOf(s, raw, carried, P, Tail(events))
    <3>1. HeldBackOf(S, raw, carried, poll, events) /\ OrderOf(poll, events)
      BY <2>1, <2>5, TrafficTypes DEF TrafficInv, Kept, Fenced
    <3>2. \A p \in Poll : poll[p].behind <= Len(events)
      BY DEF TrafficInv, Kept, Shape
    <3> QED
      BY <1>1, <1>3, <2>2, <3>1, <3>2, HeldBackDeliver, TrafficTypes
  <2> QED
    BY <1>1, <1>2, <2>2, <2>3, <2>4, <2>5 DEF Fenced, Outrun, Overtaken
<1>9. \A p \in Poll : poll[p] = Idle => P[p] = Idle
  <2>1. ASSUME NEW p \in Poll, poll[p] = Idle PROVE P[p] = Idle
    <3>1. P[p] = [poll[p] EXCEPT !.behind = IF @ = 0 THEN 0 ELSE @ - 1]
      BY <1>1, <1>2
    <3>2. PICK zero : zero = Zero
      OBVIOUS
    <3> QED
      BY <2>1, <3>1, <3>2 DEF Idle
  <2> QED
    BY <2>1
<1>10. FirstAlone'
  BY <1>1, <1>2, <1>5, <1>9, TrafficTypes, OnStateKeepsTotal DEF TrafficInv, Kept, FirstAlone
<1>11. Bare' /\ Shape'
  <2>1. Len(events') = Len(events) - 1 /\ Len(events) >= 1
    BY <1>1, OneLess, TrafficTypes
  <2>2. session' # None => session # None
    BY <1>1
  <2>3. \A p \in Poll : P[p].behind <= Len(events')
    BY <1>3, <2>1, TrafficTypes
  <2>4. \A p \in Poll : P[p].at # "sampled" => P[p].raw = Zero
    BY <1>3 DEF TrafficInv, Kept, Shape
  <2>5. AllTaken(poll) => AllTaken(P)
    BY <1>3 DEF AllTaken
  <2>6. Shape'
    BY <1>1, <1>2, <1>9, <2>2, <2>3, <2>4 DEF TrafficInv, Kept, Shape
  <2>7. Bare'
    BY <1>1, <1>2, <2>5 DEF TrafficInv, Kept, Bare
  <2> QED
    BY <2>6, <2>7
<1> QED
  BY <1>6, <1>7, <1>8, <1>10, <1>11 DEF Kept

\* A poll asks, reads, and takes what it read.
LEMMA StatsTraffic ==
    ASSUME TrafficInv, NoRaces, NEW p \in Poll, Stats(p)
    PROVE  Kept'
<1>1. /\ poll[p] = Idle /\ poll' = [poll EXCEPT ![p].at = "asked"]
      /\ session = None => start = None /\ task = NoTask
      /\ hooked' = TRUE /\ registered' = TRUE
      /\ UNCHANGED <<session, events, interface, engine, raw, intent, start, task, stopping, carried>>
  BY DEF Stats, NoRaces, nativeVars
<1>2. PICK P : P = poll'
  OBVIOUS
<1>3. \A q \in Poll : /\ P[q].raw = poll[q].raw /\ P[q].behind = poll[q].behind
                      /\ (P[q].at = "sampled" => poll[q].at = "sampled")
                      /\ (poll[q].at = "sampled" => P[q].at = "sampled")
  <2>1. poll \in [Poll -> Sample] /\ P = [poll EXCEPT ![p].at = "asked"] /\ poll[p].at # "sampled"
    BY <1>1, <1>2, TrafficTypes DEF Idle
  <2> QED
    BY <2>1 DEF Sample
<1>4. SumsOf(S, raw, carried, P, events)
  BY <1>3, SumsSame DEF TrafficInv, Kept, Sums
<1>5. Sums'
  BY <1>1, <1>2, <1>4 DEF Sums, S
<1>6. OrderOf(P, events)
  BY <1>3 DEF TrafficInv, Kept, OrderOf
<1>7. ASSUME HeldBackOf(session, raw, carried, poll, events)
      PROVE  HeldBackOf(session, raw, carried, P, events)
  BY <1>3, <1>7 DEF HeldBackOf, Sampled
<1>8. Fenced'
  BY <1>1, <1>2, <1>7 DEF TrafficInv, Kept, Fenced, Outrun, Overtaken
<1>9. FirstAlone'
  BY <1>1 DEF FirstAlone
<1>10. AllTaken(poll) => AllTaken(P)
  BY <1>3 DEF AllTaken
<1>11. Bare'
  BY <1>1, <1>2, <1>10 DEF TrafficInv, Kept, Bare
<1>12. Shape'
  <2>1. \A q \in Poll : P[q].behind <= Len(events) /\ (P[q].at # "sampled" => P[q].raw = Zero)
    BY <1>3 DEF TrafficInv, Kept, Shape
  <2> QED
    BY <1>1, <1>2, <2>1 DEF TrafficInv, Kept, Shape
<1> QED
  BY <1>1, <1>2, <1>5, <1>6, <1>8, <1>9, <1>11, <1>12 DEF Kept

LEMMA GetStatsTraffic ==
    ASSUME TrafficInv, NoRaces, NEW p \in Poll, GetStats(p)
    PROVE  Kept'
<1>1. /\ poll[p].at = "asked"
      /\ \/ poll' = [poll EXCEPT ![p] = [at |-> "sampled", raw |-> raw, behind |-> Len(events)]]
         \/ engine # None /\ poll' = [poll EXCEPT ![p].at = "failed"]
      /\ UNCHANGED <<session, hooked, registered, events, interface, engine, raw, intent, start, task,
                     stopping, carried>>
  BY DEF GetStats, nativeVars, streamVars
<1>2. PICK P, n : P = poll' /\ n = Len(events)
  OBVIOUS
<1>3. /\ poll \in [Poll -> Sample] /\ raw \in Counters /\ n \in Nat /\ poll[p].raw = Zero
      /\ \A q \in Poll : q = p
  BY <1>1, <1>2, TrafficTypes DEF TrafficInv, Kept, Shape, NoRaces
<1>4. \/ P[p].at = "sampled" /\ P[p].raw = raw /\ P[p].behind = n
      \/ /\ engine # None /\ P[p].at = "failed" /\ P[p].raw = Zero /\ P[p].behind = poll[p].behind
  BY <1>1, <1>2, <1>3 DEF Sample
<1>5. /\ Sampled(poll) = {} /\ poll[p].behind <= n
      /\ \A q \in Sampled(P) : q = p /\ P[p].raw = raw /\ P[p].behind = n
  BY <1>1, <1>2, <1>3, <1>4 DEF Sampled, TrafficInv, Kept, Shape
<1>6. SumsOf(S, raw, carried, P, events)
  BY <1>5, SumsGet, TrafficTypes DEF TrafficInv, Kept, Sums
<1>7. Sums'
  BY <1>1, <1>2, <1>6 DEF Sums, S
<1>8. OrderOf(P, events)
  BY <1>2, <1>3, <1>4 DEF OrderOf
<1>9. ASSUME HeldBackOf(session, raw, carried, poll, events), Shielded(session, events, n)
      PROVE  HeldBackOf(session, raw, carried, P, events)
  BY <1>5, <1>9 DEF HeldBackOf
<1>10. Fenced'
  <2>1. task.at = "up" => task # NoTask
    BY DEF NoTask
  <2> QED
    BY <1>1, <1>2, <1>9, <2>1 DEF TrafficInv, Kept, Fenced, Outrun, Overtaken
<1>11. FirstAlone'
  <2>1. poll[p] # Idle
    BY <1>1 DEF Idle
  <2> QED
    BY <1>1, <2>1 DEF TrafficInv, Kept, FirstAlone
<1>12. Bare'
  <2>1. ~interface => engine = None /\ AllTaken(P)
    BY <1>3, <1>4 DEF TrafficInv, Kept, Bare, AllTaken
  <2> QED
    BY <1>1, <1>2, <2>1 DEF TrafficInv, Kept, Bare
<1>13. Shape'
  <2>1. \A q \in Poll : P[q].behind <= n /\ (P[q].at # "sampled" => P[q].raw = Zero)
    BY <1>3, <1>4, <1>5
  <2>2. poll[p] # Idle
    BY <1>1 DEF Idle
  <2> QED
    BY <1>1, <1>2, <2>1, <2>2 DEF TrafficInv, Kept, Shape
<1> QED
  BY <1>1, <1>2, <1>7, <1>8, <1>10, <1>11, <1>12, <1>13 DEF Kept

LEMMA TakeSampleTraffic ==
    ASSUME TrafficInv, NoRaces, NEW p \in Poll, TakeSample(p)
    PROVE  Kept'
<1>1. /\ poll[p].at \in {"sampled", "failed"} /\ poll[p].behind = 0
      /\ session' = IF poll[p].at = "failed" THEN session ELSE Update(S, poll[p].raw)
      /\ poll' = [poll EXCEPT ![p] = Idle]
      /\ UNCHANGED <<hooked, registered, events, interface, engine, raw, intent, start, task, stopping,
                     carried>>
  BY DEF TakeSample, S, nativeVars, streamVars
<1>2. PICK P, idle : P = poll' /\ idle = Idle
  OBVIOUS
<1>3. poll \in [Poll -> Sample] /\ \A q \in Poll : q = p
  BY TrafficTypes DEF NoRaces
<1>4. \A q \in Poll : P[q] = idle /\ P[q].at = "idle" /\ P[q].raw = Zero /\ P[q].behind = 0
  <2>1. P[p] = idle
    BY <1>1, <1>2, <1>3
  <2>2. idle.at = "idle" /\ idle.raw = Zero /\ idle.behind = 0
    BY <1>2 DEF Idle
  <2> QED
    BY <1>3, <2>1, <2>2
<1>5. Sampled(P) = {} /\ AllTaken(P)
  BY <1>4 DEF Sampled, AllTaken
<1>6. session = None => start = None /\ task = NoTask
  <2>1. poll[p] # Idle
    BY <1>1 DEF Idle
  <2> QED
    BY <2>1 DEF TrafficInv, Kept, FirstAlone
<1>7. OrderOf(P, events)
  BY <1>4 DEF OrderOf
<1>8. FirstAlone' /\ Bare'
  BY <1>1, <1>2, <1>4, <1>5 DEF TrafficInv, Kept, FirstAlone, Bare
<1>9. Shape'
  <2>1. session' # None => hooked
    <3>1. poll[p] # Idle
      BY <1>1 DEF Idle
    <3> QED
      BY <3>1 DEF TrafficInv, Kept, Shape
  <2> QED
    BY <1>1, <1>2, <1>4, <2>1, TrafficTypes DEF TrafficInv, Kept, Shape
<1>10. CASE poll[p].at = "failed"
  <2>1. SumsOf(S, raw, carried, P, events)
    BY <1>4, SumsSame DEF TrafficInv, Kept, Sums
  <2>2. Sums'
    BY <1>1, <1>2, <1>10, <2>1 DEF Sums, S
  <2>3. ASSUME HeldBackOf(session, raw, carried, poll, events)
        PROVE  HeldBackOf(session, raw, carried, P, events)
    BY <1>5, <2>3 DEF HeldBackOf
  <2>4. Fenced'
    BY <1>1, <1>2, <1>10, <2>3 DEF TrafficInv, Kept, Fenced, Outrun, Overtaken
  <2> QED
    BY <1>1, <1>2, <1>7, <1>8, <1>9, <2>2, <2>4 DEF Kept
<1>11. CASE poll[p].at = "sampled"
  <2>1. PICK s : s = Update(S, poll[p].raw) /\ s \in Session /\ s.suspended = S.suspended
    BY <1>3, UpdateParts, RawType, TrafficTypes
  <2>2. session' = s /\ s # None /\ S' = s
    BY <1>1, <1>11, <2>1, TrafficTypes DEF S
  <2>3. /\ SumsOf(s, raw, carried, P, events)
        /\ HeldBackOf(S, raw, carried, poll, events) => HeldBackOf(s, raw, carried, P, events)
    BY <1>1, <1>5, <1>11, <2>1, SumsTake, TrafficTypes DEF TrafficInv, Kept, Sums
  <2>4. Sums'
    BY <1>1, <1>2, <2>2, <2>3 DEF Sums
  <2>5. \A n : Shielded(S, events, n) => Shielded(s, events, n)
    BY <2>1 DEF Shielded
  <2>6. Fenced'
    <3>1. CASE session = None
      BY <1>1, <1>6, <3>1 DEF Fenced, NoTask
    <3>2. CASE session # None
      <4>1. S = session
        BY <3>2 DEF S
      <4> QED
        BY <1>1, <1>2, <2>2, <2>3, <2>5, <3>2, <4>1 DEF TrafficInv, Kept, Fenced, Outrun, Overtaken
    <3> QED
      BY <3>1, <3>2
  <2> QED
    BY <1>1, <1>2, <1>7, <1>8, <1>9, <2>4, <2>6 DEF Kept
<1> QED
  BY <1>1, <1>10, <1>11
-----------------------------------------------------------------------------
(* The native side.                                                        *)

\* What is kept of a poll and of the hook while JS does nothing.
jsSide == <<session, poll, hooked, registered>>

\* Whatever is emitted, while no start is known of and no sample is on its way.
LEMMA EmitTraffic ==
    ASSUME TrafficInv, UNCHANGED jsSide, NEW state \in State, Emit(state),
           AllTaken(poll), Banked(S, raw', carried), raw' \in Counters, AtMost(raw', carried),
           UNCHANGED <<start, carried>>, start = None, task' = NoTask,
           engine' = None => raw' = Zero, ~interface' => engine' = None
    PROVE  Kept'
<1>1. UNCHANGED <<session, poll, hooked, registered, start, carried>> /\ task' = NoTask
  BY DEF jsSide
<1>2. PICK F : F = events' /\ Len(F) >= Len(events)
  BY OneMore, TrafficTypes DEF Emit
<1>3. SumsOf(S, raw', carried, poll, F)
  BY SumsQuiet, TrafficTypes
<1>4. Sums' /\ OrderOf(poll, events)'
  BY <1>1, <1>2, <1>3 DEF Sums, S, OrderOf, AllTaken
<1>5. Fenced' /\ FirstAlone'
  BY <1>1 DEF Fenced, FirstAlone, NoTask
<1>6. Bare'
  BY <1>1 DEF Bare
<1>7. Shape'
  <2>1. \A p \in Poll : poll[p].behind <= Len(F)
    BY <1>2, OneMore, TrafficTypes DEF TrafficInv, Kept, Shape, Emit, Sample
  <2> QED
    BY <1>1, <1>2, <2>1 DEF TrafficInv, Kept, Shape
<1> QED
  BY <1>4, <1>5, <1>6, <1>7 DEF Kept

\* The engine that runs is stopped by a start.
LEMMA Restarting ==
    ASSUME TrafficInv
    PROVE  /\ SumsOf(S, Zero, carried, poll, events) /\ Banked(S, Zero, carried)
           /\ \A p \in Sampled(poll) : \/ Past(S, poll[p].raw, Zero, carried)
                                       \/ /\ Follows(S, poll[p].raw, Zero, carried)
                                          /\ ~ResumeDue(events)
           /\ AtMost(Zero, carried) /\ Zero \in Counters
BY SumsStop, TrafficTypes, ZeroLeast, FreshType DEF TrafficInv, Kept, Sums

\* A command arrives: what it announces suspends, or tells nothing.
LEMMA ArrivesTraffic ==
    ASSUME TrafficInv, NoRaces, StartArrives \/ StopArrives
    PROVE  Kept'
<1>1. PICK state \in {"connecting", "disconnecting"} :
          /\ Emit(state) /\ state = IF intent = "stop" THEN "disconnecting" ELSE "connecting"
  BY ClientAssumption DEF StartArrives, StopArrives
<1>2. /\ UNCHANGED <<session, poll, hooked, registered, interface, engine, raw, task, carried>>
      /\ intent # None /\ intent' = None /\ intent' \notin Config
      /\ intent = "stop" => stopping' = TRUE /\ start' = start
      /\ intent # "stop" =>
            /\ intent \in Config /\ start' = intent /\ start' # None /\ stopping' = FALSE
            /\ session # None \/ \A p \in Poll : poll[p] = Idle
  BY ClientAssumption DEF StartArrives, StopArrives, NoFirstSample, NoRaces, jsVars
<1>3. start = None
  BY <1>2 DEF TrafficInv, InfoInv, Awaited
<1>4. PICK F : F = events' /\ F = IF registered THEN Append(events, state) ELSE events
  BY <1>1 DEF Emit
<1>5. ~Resumes(state) /\ state \in State
  BY DEF Resumes, State
<1>6. /\ ResumeDue(F) => ResumeDue(events)
      /\ OrderOf(poll, F)
      /\ Len(F) \in Nat /\ Len(F) >= Len(events)
  BY <1>4, <1>5, Harmless, OneMore, TrafficTypes DEF TrafficInv, Kept
<1>7. SumsOf(S, raw, carried, poll, F)
  BY <1>6, SumsSame DEF TrafficInv, Kept, Sums
<1>8. Sums' /\ OrderOf(poll, events)'
  BY <1>2, <1>4, <1>6, <1>7 DEF Sums, S
<1>9. Fenced' /\ FirstAlone'
  <2>1. CASE intent = "stop"
    BY <1>2, <1>3, <2>1 DEF TrafficInv, Kept, Fenced, FirstAlone, Outrun, Overtaken
  <2>2. CASE intent # "stop"
    <3>1. session # None => Shielded(session, F, Len(F))
      BY <1>1, <1>4, <2>2, Announced, TrafficTypes DEF TrafficInv, Kept, Shape
    <3> QED
      BY <1>2, <1>4, <2>2, <3>1 DEF Fenced, FirstAlone, Outrun, Overtaken
  <2> QED
    BY <2>1, <2>2
<1>10. Bare'
  BY <1>2 DEF TrafficInv, Kept, Bare
<1>11. Shape'
  <2>1. \A p \in Poll : poll[p].behind <= Len(F)
    BY <1>6, TrafficTypes DEF TrafficInv, Kept, Shape, Sample
  <2> QED
    BY <1>2, <1>3, <1>4, <2>1 DEF TrafficInv, Kept, Shape
<1> QED
  BY <1>8, <1>9, <1>10, <1>11 DEF Kept

LEMMA StartRunsTraffic ==
    ASSUME TrafficInv, StartRuns
    PROVE  Kept'
<1>1. /\ start # None /\ task = NoTask /\ task'.at = "ready" /\ start' = None
      /\ engine' = None /\ raw' = Zero
      /\ UNCHANGED <<session, poll, hooked, registered, events, interface, intent, stopping, carried>>
  BY DEF StartRuns, jsVars, streamVars
<1>2. Sums' /\ OrderOf(poll, events)'
  BY <1>1, Restarting DEF TrafficInv, Kept, Sums, S
<1>3. Fenced' /\ FirstAlone'
  BY <1>1 DEF TrafficInv, Kept, Fenced, FirstAlone
<1>4. Bare' /\ Shape'
  BY <1>1, Restarting DEF TrafficInv, Kept, Bare, Shape
<1> QED
  BY <1>2, <1>3, <1>4 DEF Kept

\* Whatever is on its way when an engine starts is of one that ended.
LEMMA EngineStartsTraffic ==
    ASSUME TrafficInv, EngineStarts
    PROVE  Kept'
<1>1. /\ task.at = "ready" /\ task'.at = "up" /\ interface' = TRUE /\ engine' = task.config
      /\ UNCHANGED <<session, poll, hooked, registered, events, raw, intent, start, stopping, carried>>
      /\ task # NoTask /\ task' # NoTask /\ engine = None /\ engine' # None
  <2>1. task.at = "ready" /\ task' = [task EXCEPT !.at = "up"] /\ interface' = TRUE
        /\ engine' = task.config
        /\ UNCHANGED <<session, poll, hooked, registered, events, raw, intent, start, stopping, carried>>
    BY DEF EngineStarts, jsVars, streamVars
  <2>2. task # NoTask
    BY <2>1 DEF NoTask
  <2>3. task \in [config : Config, by : {"js", "widget"}, at : {"stopped", "ready", "up"}]
    BY <2>2 DEF TrafficInv, InfoInv, Inv, NativeInv
  <2>4. task'.at = "up" /\ task.config \in Config /\ None \notin Config
    BY <2>1, <2>3, ClientAssumption
  <2>5. engine = None
    BY <2>1, <2>2 DEF TrafficInv, InfoInv, StartNames
  <2> QED
    BY <2>1, <2>2, <2>4, <2>5 DEF NoTask
<1>2. raw = Zero
  BY <1>1 DEF TrafficInv, Kept, Bare
<1>3. Sums' /\ OrderOf(poll, events)'
  BY <1>1 DEF TrafficInv, Kept, Sums, S
<1>4. session # None => HeldBackOf(session, raw, carried, poll, events)
  BY <1>2, Restarting, TrafficTypes DEF HeldBackOf
<1>5. Fenced'
  BY <1>1, <1>4 DEF TrafficInv, Kept, Fenced, Outrun, Overtaken
<1>6. FirstAlone' /\ Bare' /\ Shape'
  BY <1>1 DEF TrafficInv, Kept, FirstAlone, Bare, Shape
<1> QED
  BY <1>3, <1>5, <1>6 DEF Kept

LEMMA StartSucceedsTraffic ==
    ASSUME TrafficInv, NoRaces, StartSucceeds
    PROVE  Kept'
<1>1. /\ task.at = "up" /\ task' = NoTask
      /\ UNCHANGED <<session, poll, hooked, registered, interface, engine, raw, intent, start, stopping, carried>>
      /\ \/ Overtaken /\ events' = events
         \/ ~Outrun /\ SamplesIn /\ Emit("connected")
  BY DEF StartSucceeds, NoRaces, Outrun, jsVars
<1>2. CASE Overtaken /\ events' = events
  <2>1. Sums' /\ OrderOf(poll, events)' /\ Bare' /\ Shape'
    BY <1>1, <1>2 DEF TrafficInv, Kept, Sums, S, Bare, Shape
  <2>2. Fenced' /\ FirstAlone'
    BY <1>1, <1>2 DEF TrafficInv, Kept, Fenced, FirstAlone, NoTask
  <2> QED
    BY <2>1, <2>2 DEF Kept
<1>3. CASE ~Outrun /\ SamplesIn /\ Emit("connected")
  <2>1. AllTaken(poll) /\ start = None
    BY <1>3 DEF SamplesIn, NoRaces, AllTaken, Outrun, Overtaken
  <2>2. Banked(S, raw, carried)
    <3>1. CASE session = None
      BY <3>1, FreshBanked, TrafficTypes DEF TrafficInv, Kept, Bare
    <3>2. CASE session # None
      BY <1>1, <1>3, <3>2, TrafficTypes DEF TrafficInv, Kept, Fenced, HeldBackOf
    <3> QED
      BY <3>1, <3>2
  <2>3. "connected" \in State
    BY DEF State
  <2>4. UNCHANGED jsSide
    BY <1>1 DEF jsSide
  <2>5. (engine = None => raw = Zero) /\ (~interface => engine = None) /\ AtMost(raw, carried)
    BY DEF TrafficInv, Kept, Bare
  <2> QED
    BY <1>1, <1>3, <2>1, <2>2, <2>3, <2>4, <2>5, EmitTraffic, TrafficTypes
<1> QED
  BY <1>1, <1>2, <1>3

LEMMA StartFailsTraffic ==
    ASSUME TrafficInv, NoRaces, StartFails
    PROVE  Kept'
<1>1. /\ task.at = "ready" /\ task' = NoTask /\ SamplesIn /\ start = None
      /\ UNCHANGED <<session, poll, hooked, registered, engine, raw, intent, start, stopping, carried>>
      /\ Emit("blocked") \/ Emit("error")
  BY DEF StartFails, NoRaces, jsVars
<1>2. engine = None
  <2>1. task # NoTask
    BY <1>1 DEF NoTask
  <2> QED
    BY <1>1, <2>1 DEF TrafficInv, InfoInv, StartNames
<1>3. raw = Zero /\ AllTaken(poll)
  BY <1>1, <1>2 DEF TrafficInv, Kept, Bare, SamplesIn, NoRaces, AllTaken
<1>4. "blocked" \in State /\ "error" \in State /\ UNCHANGED jsSide
  BY <1>1 DEF State, jsSide
<1> QED
  BY <1>1, <1>2, <1>3, <1>4, EmitTraffic, Restarting

LEMMA WidgetTraffic ==
    ASSUME TrafficInv, NoRaces, Widget
    PROVE  Kept'
<1>1. /\ task = NoTask /\ start = None
      /\ session # None \/ \A p \in Poll : poll[p] = Idle
      /\ UNCHANGED <<session, poll, hooked, registered, interface, intent, start, stopping, carried>>
      /\ \/ ~interface /\ Emit("error") /\ UNCHANGED <<task, engine, raw>>
         \/ task'.at = "stopped" /\ engine' = None /\ raw' = Zero /\ Emit("connecting")
  BY DEF Widget, NoFirstSample, NoRaces, jsVars
<1>2. CASE ~interface /\ Emit("error") /\ UNCHANGED <<task, engine, raw>>
  <2>1. engine = None /\ raw = Zero /\ AllTaken(poll)
    BY <1>2 DEF TrafficInv, Kept, Bare
  <2>2. "error" \in State /\ UNCHANGED jsSide
    BY <1>1 DEF State, jsSide
  <2> QED
    BY <1>1, <1>2, <2>1, <2>2, EmitTraffic, Restarting
<1>3. CASE task'.at = "stopped" /\ engine' = None /\ raw' = Zero /\ Emit("connecting")
  <2>1. ~Resumes("connecting") /\ "connecting" \in State
    BY DEF Resumes, State
  <2>2. PICK F : F = events'
    OBVIOUS
  <2>3. F = IF registered THEN Append(events, "connecting") ELSE events
    BY <1>3, <2>2 DEF Emit
  <2>4. /\ ResumeDue(F) => ResumeDue(events)
        /\ OrderOf(poll, F)
        /\ Len(F) \in Nat /\ Len(F) >= Len(events)
    BY <2>1, <2>3, Harmless, OneMore, TrafficTypes DEF TrafficInv, Kept
  <2>5. SumsOf(S, Zero, carried, poll, F)
    BY <2>4, SumsSame, Restarting
  <2>6. Sums' /\ OrderOf(poll, events)'
    BY <1>1, <1>3, <2>2, <2>4, <2>5 DEF Sums, S
  <2>7. session # None => Shielded(session, F, Len(F))
    BY <2>3, Announced, TrafficTypes DEF TrafficInv, Kept, Shape
  <2>8. Fenced' /\ FirstAlone'
    BY <1>1, <1>3, <2>2, <2>7 DEF Fenced, FirstAlone
  <2>9. Bare'
    BY <1>1, <1>3, Restarting DEF TrafficInv, Kept, Bare
  <2>10. Shape'
    <3>1. \A p \in Poll : poll[p].behind <= Len(F)
      BY <2>4, TrafficTypes DEF TrafficInv, Kept, Shape, Sample
    <3> QED
      BY <1>1, <2>2, <3>1 DEF TrafficInv, Kept, Shape
  <2> QED
    BY <2>6, <2>8, <2>9, <2>10 DEF Kept
<1> QED
  BY <1>1, <1>2, <1>3

LEMMA DownTraffic ==
    ASSUME TrafficInv, NoRaces, StopRuns \/ TornDown
    PROVE  Kept'
<1>1. /\ task = NoTask /\ task' = NoTask /\ start = None /\ SamplesIn /\ Emit("disconnected")
      /\ interface' = FALSE /\ engine' = None /\ raw' = Zero
      /\ UNCHANGED <<session, poll, hooked, registered, start, carried>>
  BY DEF StopRuns, TornDown, TunnelDown, jsVars, TrafficInv, Kept, Shape
<1>2. AllTaken(poll) /\ "disconnected" \in State /\ UNCHANGED jsSide
  BY <1>1 DEF SamplesIn, NoRaces, AllTaken, State, jsSide
<1> QED
  BY <1>1, <1>2, EmitTraffic, Restarting

LEMMA TrafficTraffic ==
    ASSUME TrafficInv, Traffic
    PROVE  Kept'
<1>1. PICK x \in Counters : raw' = raw ++ x /\ carried' = carried ++ x
  BY ClientAssumption DEF Traffic
<1>2. engine # None
      /\ UNCHANGED <<session, poll, hooked, registered, events, interface, engine, intent, start, task, stopping>>
  BY DEF Traffic, jsVars, streamVars
<1>3. SumsOf(S, raw ++ x, carried ++ x, poll, events)
  BY SumsTraffic, TrafficTypes DEF TrafficInv, Kept, Sums
<1>4. Sums' /\ OrderOf(poll, events)'
  BY <1>1, <1>2, <1>3 DEF TrafficInv, Kept, Sums, S
<1>5. ASSUME session # None, HeldBackOf(session, raw, carried, poll, events)
      PROVE  HeldBackOf(session, raw ++ x, carried ++ x, poll, events)
  BY <1>5, SumsTraffic, TrafficTypes
<1>6. Fenced'
  BY <1>1, <1>2, <1>5 DEF TrafficInv, Kept, Fenced, Outrun, Overtaken
<1>7. AtMost(raw ++ x, carried ++ x)
  BY TrafficTypes DEF TrafficInv, Kept, Bare, Counters, ++, AtMost
<1>8. FirstAlone' /\ Bare' /\ Shape'
  BY <1>1, <1>2, <1>7 DEF TrafficInv, Kept, FirstAlone, Bare, Shape
<1> QED
  BY <1>4, <1>6, <1>8 DEF Kept

LEMMA StepTraffic == NoRaces /\ TrafficInv /\ [Next]_vars => TrafficInv'
<1> SUFFICES ASSUME NoRaces, TrafficInv, [Next]_vars PROVE TrafficInv'
  OBVIOUS
<1>1. InfoInv'
  BY StepInfo DEF NoRaces, NoInfoRace, TrafficInv
<1>2. CASE Requests \/ RestoreConnectionInfo \/ StopTimesOut \/ Answer \/ AddStateListener
           \/ UNCHANGED vars
  <2>1. UNCHANGED trafficVars /\ registered' \in {registered, TRUE}
    BY <1>2 DEF Requests, Request, RestoreConnectionInfo, StopTimesOut, Answer, AddStateListener,
                vars, lockVars, jsVars, nativeVars, streamVars, trafficVars
  <2>2. task' = task \/ (task.at = "stopped" /\ task' = [task EXCEPT !.at = "ready"])
    BY <1>2 DEF Requests, Request, RestoreConnectionInfo, StopTimesOut, Answer, AddStateListener,
                vars, nativeVars
  <2>3. task.at = "stopped" => [task EXCEPT !.at = "ready"].at = "ready"
    BY DEF TrafficInv, InfoInv, Inv, NativeInv, NoTask
  <2> QED
    BY <1>1, <2>1, <2>2, <2>3, ElsewhereTraffic DEF TrafficInv
<1>3. CASE \E p \in Poll : Stats(p) \/ GetStats(p) \/ TakeSample(p)
  BY <1>1, <1>3, StatsTraffic, GetStatsTraffic, TakeSampleTraffic DEF TrafficInv
<1>4. CASE Serve \/ GoesOn \/ Settle \/ Deliver
  BY <1>1, <1>4, ServeTraffic, LockTraffic, DeliverTraffic DEF TrafficInv
<1>5. CASE \/ StartArrives \/ StopArrives \/ StartRuns \/ EngineStarts \/ StartSucceeds
           \/ StartFails \/ Widget \/ StopRuns \/ TornDown \/ Traffic
  BY <1>1, <1>5, ArrivesTraffic, StartRunsTraffic, EngineStartsTraffic, StartSucceedsTraffic,
     StartFailsTraffic, WidgetTraffic, DownTraffic, TrafficTraffic DEF TrafficInv
<1> QED
  BY <1>2, <1>3, <1>4, <1>5 DEF Next, JsThread, Native, World

\* What is counted was carried.
LEMMA Shown ==
    ASSUME NEW b \in Counters, NEW l \in Counters, NEW w \in Counters, NEW c \in Counters,
           AtMost((b ++ l) ++ w, c) \/ (AtMost(l, w) /\ AtMost(b ++ w, c))
    PROVE  AtMost(b ++ l, c)
BY DEF Counters, ++, AtMost

\* However a poll, the events, restarts of the engine, failures, widgets and the system
\* interleave, and whatever the engines carry, no byte is shown twice: provided none of the
\* races named above happens and one stats() is underway at a time.
THEOREM NothingCountedTwice ==
    ASSUME NoRaces
    PROVE  Spec => []NeverOverCounts
<1>1. TrafficInv /\ [Next]_vars => TrafficInv'
  BY StepTraffic
<1>2. TrafficInv => NeverOverCounts
  <2> SUFFICES ASSUME TrafficInv, session # None PROVE AtMost(Total(session), carried)
    BY DEF NeverOverCounts
  <2>1. Counting(session, raw, carried) /\ session \in Session
    BY TrafficTypes DEF TrafficInv, Kept, Sums, SumsOf
  <2> QED
    BY <2>1, Shown, SessionParts, TrafficTypes DEF Counting, Banked
<1> QED
  BY <1>1, <1>2, InitTraffic, PTL DEF Spec
-----------------------------------------------------------------------------
(* Whoever waits for the native side waits for something under way there.  *)

StartAwaited == call.op \in Starts /\ call.at = "native" /\ answer = "none"
                    => intent \in Config \/ start # None \/ task.by = "js"

Suspended == session # None /\ session.suspended

\* Every start that was announced has ended in an event, once nothing is under way.
Ended(E) == \A i \in 1..Len(E) : E[i] = "connecting" => \E j \in 1..Len(E) : j > i /\ Resumes(E[j])

Thaws == /\ Suspended => NativeBusy \/ ResumeDue(events)
         /\ NativeBusy \/ Ended(events)

\* Nothing is emitted to nobody, and only an event suspends.
Heard == /\ events # <<>> \/ Suspended => registered
         /\ Suspended => hooked

WaitInv == Inv /\ StartAwaited /\ Thaws /\ Heard

LEMMA InitWait == Init => WaitInv
<1> SUFFICES ASSUME Init PROVE WaitInv
  OBVIOUS
<1>1. StartAwaited /\ ~Suspended /\ events = <<>>
  BY DEF Init, StartAwaited, Starts, NoCall, Suspended
<1>2. Ended(events)
  BY <1>1 DEF Ended
<1> QED
  BY <1>1, <1>2, InitInv DEF WaitInv, Thaws, Heard

\* A queue of events: one more, or one less.
LEMMA EndedMore ==
    ASSUME NEW E \in Seq(State), NEW e \in State, Resumes(e)
    PROVE  ResumeDue(Append(E, e)) /\ Ended(Append(E, e))
<1>1. PICK F : F = Append(E, e)
  OBVIOUS
<1>2. Len(E) \in Nat /\ Len(F) = Len(E) + 1 /\ F[Len(E) + 1] = e
  BY <1>1
<1>3. Len(E) + 1 \in 1..Len(F) /\ \A i \in 1..Len(F) : i # Len(E) + 1 => Len(E) + 1 > i
  BY <1>2
<1>4. F[Len(E) + 1] # "connecting"
  BY <1>2 DEF Resumes
<1> QED
  BY <1>1, <1>2, <1>3, <1>4 DEF ResumeDue, Ended

LEMMA EndedLess ==
    ASSUME NEW E \in Seq(State), E # <<>>
    PROVE  /\ Ended(E) => Ended(Tail(E))
           /\ Ended(E) /\ Head(E) = "connecting" => ResumeDue(Tail(E))
           /\ ResumeDue(E) => ResumeDue(Tail(E)) \/ Resumes(Head(E))
<1>1. PICK F : F = Tail(E)
  OBVIOUS
<1>2. /\ Len(E) \in Nat \ {0} /\ Len(F) = Len(E) - 1 /\ Head(E) = E[1]
      /\ \A i \in 1..(Len(E) - 1) : F[i] = E[i + 1]
  BY <1>1
<1>3. \A j \in 1..Len(E) : j > 1 => j - 1 \in 1..Len(F) /\ F[j - 1] = E[j]
  BY <1>2
<1>4. \A i \in 1..Len(F) : i + 1 \in 1..Len(E) /\ F[i] = E[i + 1]
  BY <1>2
<1>5. ASSUME Ended(E) PROVE Ended(F)
  <2> SUFFICES ASSUME NEW i \in 1..Len(F), F[i] = "connecting"
               PROVE  \E j \in 1..Len(F) : j > i /\ Resumes(F[j])
    BY DEF Ended
  <2>1. PICK j \in 1..Len(E) : j > i + 1 /\ Resumes(E[j])
    BY <1>4, <1>5 DEF Ended
  <2>2. j > 1 /\ j - 1 > i
    BY <1>2, <2>1
  <2> QED
    BY <1>3, <2>1, <2>2
<1>6. ASSUME Ended(E), Head(E) = "connecting" PROVE ResumeDue(F)
  <2>1. 1 \in 1..Len(E) /\ E[1] = "connecting"
    BY <1>2, <1>6
  <2>2. PICK j \in 1..Len(E) : j > 1 /\ Resumes(E[j])
    BY <1>6, <2>1 DEF Ended
  <2> QED
    BY <1>3, <2>2 DEF ResumeDue
<1>7. ASSUME ResumeDue(E) PROVE ResumeDue(F) \/ Resumes(Head(E))
  <2>1. PICK j \in 1..Len(E) : Resumes(E[j])
    BY <1>7 DEF ResumeDue
  <2>2. j = 1 \/ j > 1
    BY <1>2
  <2> QED
    BY <1>2, <1>3, <2>1, <2>2 DEF ResumeDue
<1> QED
  BY <1>1, <1>5, <1>6, <1>7

\* Only an event suspends.
LEMMA NotSuspended ==
    ASSUME Inv, \/ UNCHANGED session \/ FreshSession \/ ResetSession
                \/ \E p \in Poll : TakeSample(p)
    PROVE  Suspended' => Suspended
<1>1. ~Fresh.suspended
  BY DEF Fresh
<1>2. CASE ResetSession \/ FreshSession \/ UNCHANGED session
  BY <1>1, <1>2 DEF ResetSession, FreshSession, Suspended
<1>3. CASE \E p \in Poll : TakeSample(p)
  <2>1. PICK p \in Poll : TakeSample(p)
    BY <1>3
  <2>2. PICK r \in Counters : r = poll[p].raw
    BY DEF Inv, JsInv, Sample
  <2>3. CASE session # None
    <3>1. session \in Session
      BY <2>3 DEF Inv, JsInv
    <3> QED
      BY <2>1, <2>2, <2>3, <3>1, UpdateParts DEF TakeSample, Suspended
  <2>4. CASE session = None
    <3>1. ~Update(Fresh, r).suspended
      BY <1>1, UpdateParts, FreshType
    <3> QED
      BY <2>1, <2>2, <2>4, <3>1 DEF TakeSample, Suspended
  <2> QED
    BY <2>3, <2>4
<1> QED
  BY <1>2, <1>3

\* A step that leaves the events alone, or ends what is under way with one.
LEMMA ThawKept ==
    ASSUME WaitInv, UNCHANGED events, registered' \in {registered, TRUE},
           hooked' \in {hooked, TRUE}, Suspended' => Suspended, NativeBusy => NativeBusy'
    PROVE  Thaws' /\ Heard'
BY DEF WaitInv, Thaws, Heard

LEMMA ThawUnderway ==
    ASSUME WaitInv, NativeBusy', registered' \in {registered, TRUE},
           hooked' \in {hooked, TRUE}, Suspended' => Suspended,
           registered' \/ events' = events
    PROVE  Thaws' /\ Heard'
BY DEF WaitInv, Thaws, Heard

LEMMA ThawEnds ==
    ASSUME WaitInv, NEW e \in State, Resumes(e), Emit(e), UNCHANGED <<registered, hooked>>,
           Suspended' => Suspended
    PROVE  Thaws' /\ Heard'
<1>1. CASE registered
  <2>1. events \in Seq(State) /\ events' = Append(events, e)
    BY <1>1 DEF WaitInv, Inv, StreamInv, Emit
  <2> QED
    BY <1>1, <2>1, EndedMore DEF WaitInv, Thaws, Heard
<1>2. CASE ~registered
  <2>1. events = <<>> /\ events' = <<>> /\ ~Suspended
    BY <1>2 DEF WaitInv, Heard, Emit
  <2>2. Ended(<<>>)
    BY DEF Ended
  <2> QED
    BY <2>1, <2>2 DEF Thaws, Heard
<1> QED
  BY <1>1, <1>2

LEMMA DeliverThaws ==
    ASSUME WaitInv, Deliver
    PROVE  Thaws' /\ Heard'
<1>1. PICK E \in Seq(State) : E = events /\ E # <<>> /\ events' = Tail(E)
  BY DEF WaitInv, Inv, StreamInv, Deliver
<1>2. NativeBusy' = NativeBusy /\ registered' = registered /\ hooked' = hooked /\ registered
  BY DEF WaitInv, Heard, Deliver, nativeVars, NativeBusy
<1>3. NativeBusy' \/ Ended(Tail(E))
  BY <1>1, <1>2, EndedLess DEF WaitInv, Thaws
<1>4. CASE hooked /\ session # None
  <2>1. session \in Session /\ session' = OnState(Head(E), session)
    BY <1>1, <1>4 DEF WaitInv, Inv, JsInv, Deliver
  <2>2. CASE Head(E) = "connecting"
    <3>1. NativeBusy' \/ ResumeDue(Tail(E))
      BY <1>1, <1>2, <2>2, EndedLess DEF WaitInv, Thaws
    <3> QED
      BY <1>1, <1>2, <1>3, <1>4, <3>1 DEF Thaws, Heard
  <2>3. CASE Resumes(Head(E))
    <3>1. ~Suspended'
      BY <2>1, <2>3, CommitParts DEF OnState, Resumes, Suspended
    <3> QED
      BY <1>1, <1>2, <1>3, <3>1 DEF Thaws, Heard
  <2>4. CASE Head(E) = "disconnecting"
    <3>1. session' = session /\ ~Resumes(Head(E))
      BY <2>1, <2>4 DEF OnState, Resumes
    <3>2. Suspended' = Suspended
      BY <3>1 DEF Suspended
    <3>3. Suspended => NativeBusy' \/ ResumeDue(Tail(E))
      BY <1>1, <1>2, <3>1, EndedLess DEF WaitInv, Thaws
    <3> QED
      BY <1>1, <1>2, <1>3, <1>4, <3>2, <3>3 DEF Thaws, Heard
  <2> QED
    BY <2>2, <2>3, <2>4 DEF Resumes
<1>5. CASE ~(hooked /\ session # None)
  <2>1. session' = session
    BY <1>5 DEF Deliver
  <2>2. ~Suspended /\ ~Suspended'
    BY <1>5, <2>1 DEF WaitInv, Heard, Suspended
  <2> QED
    BY <1>1, <1>2, <1>3, <2>2 DEF Thaws, Heard
<1> QED
  BY <1>4, <1>5

LEMMA DeliverAnswers ==
    ASSUME WaitInv, Deliver
    PROVE  StartAwaited'
BY DEF WaitInv, Deliver, lockVars, nativeVars, StartAwaited

LEMMA SendStartWaits ==
    ASSUME WaitInv, NEW c \in Config, SendStart(c)
    PROVE  StartAwaited' /\ Thaws' /\ Heard'
<1>1. registered' = TRUE /\ hooked' = TRUE /\ UNCHANGED <<events, start, task, stopping>>
  BY DEF SendStart
<1>2. Suspended' => Suspended
  BY NotSuspended DEF SendStart, WaitInv
<1>3. Thaws' /\ Heard'
  BY <1>1, <1>2, ThawKept DEF NativeBusy
<1>4. intent' \in Config \/ answer' = "failed"
  BY DEF SendStart
<1> QED
  BY <1>3, <1>4 DEF StartAwaited

LEMMA ServeWaits ==
    ASSUME WaitInv, Serve
    PROVE  StartAwaited' /\ Thaws' /\ Heard'
<1> DEFINE c == Head(waiting)
<1>1. c \in Asked
  BY Behead DEF WaitInv, Inv, LockInv, Serve
<1>2. \A at : Takes(c, at) => call'.at = at /\ call'.op = c.op
  BY <1>1 DEF Takes, Asked, Call
<1>3. CASE \E x \in Config : SendStart(x)
  BY <1>3, SendStartWaits
<1>4. CASE Takes(c, "bypass") /\ UNCHANGED <<jsVars, nativeVars, streamVars>>
  <2>1. Thaws' /\ Heard'
    BY <1>4, ThawKept DEF jsVars, nativeVars, streamVars, Suspended, NativeBusy
  <2> QED
    BY <1>2, <1>4, <2>1 DEF StartAwaited
<1>5. CASE Await(c) /\ answer' = "failed" /\ UNCHANGED <<events, start, task, stopping>>
  <2>1. Thaws' /\ Heard'
    BY <1>5, ThawKept DEF Await, Suspended, NativeBusy
  <2> QED
    BY <1>5, <2>1 DEF StartAwaited
<1>6. CASE Disconnect(c)
  <2>1. call'.op = "disconnect"
        /\ UNCHANGED <<session, registered, hooked, events, start, task, stopping>>
    BY <1>2, <1>6 DEF Disconnect, Await
  <2>2. Thaws' /\ Heard'
    BY <2>1, ThawKept DEF Suspended, NativeBusy
  <2> QED
    BY <2>1, <2>2 DEF StartAwaited, Starts
<1>7. CASE StartOlcrtc(c) \/ StopOlcrtc(c) \/ SetKillSwitch(c) \/ ClearStoredConfig(c)
  <2>1. call'.op \notin Starts
    <3>1. CASE ClearStoredConfig(c)
      BY <1>1, <3>1 DEF ClearStoredConfig, Asked, Call, Starts
    <3> QED
      BY <1>2, <1>7, <3>1 DEF StartOlcrtc, StopOlcrtc, SetKillSwitch, Await, Starts
  <2>2. UNCHANGED <<session, hooked, registered, events, start, task, stopping>>
    BY <1>7 DEF StartOlcrtc, StopOlcrtc, SetKillSwitch, ClearStoredConfig, Await,
                jsVars, nativeVars, streamVars
  <2>3. Thaws' /\ Heard'
    BY <2>2, ThawKept DEF Suspended, NativeBusy
  <2> QED
    BY <2>1, <2>3 DEF StartAwaited
<1>8. CASE Connect(c) \/ StartRaw(c) \/ ConnectOlcrtcOnly(c)
  <2>1. c.arg \in Config
    BY <1>1, <1>8 DEF Connect, StartRaw, ConnectOlcrtcOnly, Asked
  <2>2. \/ SendStart(c.arg)
        \/ Takes(c, "bypass") /\ UNCHANGED <<jsVars, nativeVars, streamVars>>
        \/ Await(c) /\ answer' = "failed" /\ UNCHANGED <<events, start, task, stopping>>
    BY <1>8 DEF Connect, StartRaw, ConnectOlcrtcOnly
  <2> QED
    BY <1>3, <1>4, <1>5, <2>1, <2>2
<1> QED
  BY <1>6, <1>7, <1>8 DEF Serve, Begin

LEMMA LockWaits ==
    ASSUME WaitInv, GoesOn \/ Settle
    PROVE  StartAwaited' /\ Thaws' /\ Heard'
<1>1. CASE GoesOn
  <2>1. call.arg \in Config
    BY <1>1 DEF WaitInv, Inv, LockInv, GoesOn, NoCall, Asked
  <2> QED
    BY <1>1, <2>1, SendStartWaits DEF GoesOn
<1>2. CASE Settle
  <2>1. UNCHANGED <<hooked, registered, events, start, task, stopping>> /\ call' = NoCall
    BY <1>2 DEF Settle, Release, streamVars
  <2>2. Suspended' => Suspended
    BY <1>2, NotSuspended DEF Settle, WaitInv
  <2>3. Thaws' /\ Heard'
    BY <2>1, <2>2, ThawKept DEF NativeBusy
  <2> QED
    BY <2>1, <2>3 DEF StartAwaited, NoCall, Starts
<1> QED
  BY <1>1, <1>2

\* Those who have no part in it.
LEMMA ElsewhereWaits ==
    ASSUME WaitInv, \/ Requests \/ AddStateListener \/ StopTimesOut \/ Answer \/ Traffic
                    \/ \E p \in Poll : Stats(p) \/ GetStats(p) \/ TakeSample(p)
                    \/ UNCHANGED vars
    PROVE  StartAwaited' /\ Thaws' /\ Heard'
<1>1. /\ UNCHANGED <<call, events, intent, start, task, stopping>>
      /\ registered' \in {registered, TRUE} /\ hooked' \in {hooked, TRUE}
      /\ answer' = answer \/ answer' # "none"
  BY DEF Requests, Request, AddStateListener, StopTimesOut, Answer, Traffic, Stats, GetStats,
         TakeSample, vars, lockVars, jsVars, nativeVars, streamVars
<1>2. Suspended' => Suspended
  <2>1. UNCHANGED session \/ \E p \in Poll : TakeSample(p)
    BY DEF Requests, Request, AddStateListener, StopTimesOut, Answer, Traffic, Stats, GetStats,
           vars, jsVars
  <2> QED
    BY <2>1, NotSuspended DEF WaitInv
<1>3. Thaws' /\ Heard'
  BY <1>1, <1>2, ThawKept DEF NativeBusy
<1> QED
  BY <1>1, <1>3 DEF StartAwaited, WaitInv

LEMMA ArrivesWaits ==
    ASSUME WaitInv, StartArrives \/ StopArrives
    PROVE  StartAwaited' /\ Thaws' /\ Heard'
<1>1. UNCHANGED <<call, answer, task, session, hooked, registered>>
      /\ \E state \in State : Emit(state)
  BY DEF StartArrives, StopArrives, lockVars, jsVars, State
<1>2. NativeBusy' /\ (intent \in Config => start' # None)
  BY ClientAssumption DEF StartArrives, StopArrives, NativeBusy
<1>3. Thaws' /\ Heard'
  BY <1>1, <1>2, ThawUnderway DEF Emit, Suspended
<1>4. intent \in Config \/ start' = start
  BY DEF StartArrives, StopArrives
<1> QED
  BY <1>1, <1>2, <1>3, <1>4 DEF StartAwaited, WaitInv

LEMMA StartWaits ==
    ASSUME WaitInv, StartRuns \/ RestoreConnectionInfo \/ EngineStarts
    PROVE  StartAwaited' /\ Thaws' /\ Heard'
<1>1. UNCHANGED <<call, answer, intent, session, hooked, registered, events>>
  BY DEF StartRuns, RestoreConnectionInfo, EngineStarts, lockVars, jsVars, streamVars
<1>2. CASE StartRuns
  <2>1. task'.by = "js" /\ task'.at = "ready"
    BY <1>2 DEF StartRuns
  <2>2. task' # NoTask
    BY <2>1 DEF NoTask
  <2>3. Thaws' /\ Heard'
    BY <1>1, <2>2, ThawKept DEF Suspended, NativeBusy
  <2> QED
    BY <2>1, <2>3 DEF StartAwaited
<1>3. CASE RestoreConnectionInfo \/ EngineStarts
  <2>1. task \in [config : Config, by : {"js", "widget"}, at : {"stopped", "ready", "up"}]
    BY <1>3 DEF WaitInv, Inv, NativeInv, NoTask, RestoreConnectionInfo, EngineStarts
  <2>2. task'.by = task.by /\ task'.at \in {"ready", "up"} /\ start' = start
    BY <1>3, <2>1 DEF RestoreConnectionInfo, EngineStarts
  <2>3. task' # NoTask
    BY <2>2 DEF NoTask
  <2>4. Thaws' /\ Heard'
    BY <1>1, <2>3, ThawKept DEF Suspended, NativeBusy
  <2> QED
    BY <1>1, <2>2, <2>4 DEF StartAwaited, WaitInv
<1> QED
  BY <1>2, <1>3

LEMMA EndsWait ==
    ASSUME WaitInv, StartSucceeds \/ StartFails
    PROVE  StartAwaited' /\ Thaws' /\ Heard'
<1>1. UNCHANGED <<call, session, hooked, registered, intent, start, stopping>>
  BY DEF StartSucceeds, StartFails, lockVars, jsVars
<1>2. task.by = "js" => answer' # "none"
  BY DEF StartSucceeds, StartFails, AnswerStart
<1>3. task.by # "js" => answer' = answer
  BY DEF StartSucceeds, StartFails, AnswerStart
<1>4. StartAwaited'
  BY <1>1, <1>2, <1>3 DEF StartAwaited, WaitInv
<1>5. CASE StartSucceeds /\ Overtaken
  <2>1. UNCHANGED events
    BY <1>5 DEF StartSucceeds
  <2>2. NativeBusy'
    BY <1>1, <1>5 DEF Overtaken, NativeBusy
  <2> QED
    BY <1>1, <1>4, <2>1, <2>2, ThawKept DEF Suspended
<1>6. CASE \E e \in {"connected", "blocked", "error"} : Emit(e)
  BY <1>1, <1>4, <1>6, ThawEnds DEF Suspended, State, Resumes
<1> QED
  BY <1>5, <1>6 DEF StartSucceeds, StartFails

LEMMA WorldWaits ==
    ASSUME WaitInv, Widget \/ StopRuns \/ TornDown
    PROVE  StartAwaited' /\ Thaws' /\ Heard'
<1>1. UNCHANGED <<call, session, hooked, registered, intent, start>>
  BY DEF Widget, StopRuns, TornDown, lockVars, jsVars
<1>2. CASE Widget /\ stored.config # None
  <2>1. /\ task' = [config |-> stored.config, by |-> "widget", at |-> "stopped"]
        /\ Emit("connecting") /\ answer' = answer /\ start = None /\ task = NoTask
    BY <1>2 DEF Widget
  <2>2. task' # NoTask /\ task.by # "js"
    BY <2>1 DEF NoTask
  <2>3. Thaws' /\ Heard'
    BY <1>1, <2>1, <2>2, ThawUnderway DEF Emit, Suspended, NativeBusy, WaitInv, Inv, StreamInv
  <2> QED
    BY <1>1, <2>1, <2>2, <2>3 DEF StartAwaited, WaitInv
<1>3. CASE \/ Widget /\ stored.config = None
           \/ StopRuns \/ TornDown
  <2>1. \E e \in {"error", "disconnected"} : Emit(e)
    BY <1>3 DEF Widget, StopRuns, TornDown, TunnelDown
  <2>2. task' = task /\ (answer' = answer \/ answer' = "ok")
    BY <1>3 DEF Widget, StopRuns, TornDown
  <2>3. Thaws' /\ Heard'
    BY <1>1, <2>1, ThawEnds DEF Suspended, State, Resumes
  <2> QED
    BY <1>1, <2>2, <2>3 DEF StartAwaited, WaitInv
<1> QED
  BY <1>2, <1>3

LEMMA StepWaits == WaitInv /\ [Next]_vars => WaitInv'
<1> SUFFICES ASSUME WaitInv, [Next]_vars PROVE WaitInv'
  OBVIOUS
<1>1. Inv'
  BY StepInv DEF WaitInv
<1>2. StartAwaited' /\ Thaws' /\ Heard'
  BY DeliverThaws, ServeWaits, LockWaits, ElsewhereWaits, ArrivesWaits, StartWaits, EndsWait,
     WorldWaits, DeliverAnswers DEF Next, JsThread, Native, World
<1> QED
  BY <1>1, <1>2 DEF WaitInv

\* No call holds the serial lock, and no session stays suspended, for a start that nobody is
\* working on and no event will tell of: whatever calls, failures, widgets and the system do,
\* with all the races and any number of polls.
THEOREM WaitsAreOwed == Spec => []WaitsOwed
<1>1. WaitInv => WaitsOwed
  BY DEF WaitInv, StartAwaited, Starts, Thaws, Suspended, ResumeDue, WaitsOwed, Inv, StreamInv
<1> QED
  BY <1>1, InitWait, StepWaits, PTL DEF Spec
=============================================================================
