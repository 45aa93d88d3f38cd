------------------------------ MODULE XrayApp ------------------------------
(***************************************************************************)
(* App.tsx, the screen over the client: what it shows of the connection,   *)
(* and what its buttons ask for.  Its handlers wait for a permission, then *)
(* for the call they made; what they do next is done in the step in which  *)
(* that settles.  State events reach the client's hook and the screen in   *)
(* one step.  A reload replaces the JS context under a running tunnel.     *)
(*                                                                         *)
(* The counters shown are left to XrayClient, the list to ServerList.      *)
(***************************************************************************)
EXTENDS XrayClient

CONSTANTS
    Tags, TagOf,        (* the servers, and which one each configuration dials       *)
    DirectOf, ChainedOf, (* the configurations built for each                        *)
    OverHold,           (* whether the app may be reloaded while a tunnel is held    *)
    MaxTaps, MaxReloads

ASSUME AppAssumption ==
    /\ DirectOf \in [Tags -> Direct] /\ ChainedOf \in [Tags -> Chained]
    /\ TagOf \in [Config -> Tags \cup {"olcrtc-only"}] /\ None \notin Tags
    /\ OverHold \in BOOLEAN /\ {MaxTaps, MaxReloads} \subseteq Nat

VARIABLES
    state, conn, activeTag,             \* what the screen shows of the connection
    olcrtcOn, olcrtcBusy, olcrtcPort,   \* and of the bypass; the port is known or not
    asking,                             \* the handlers that wait for the VPN permission
    misled,                             \* the refused start that conn describes
    taps, reloads

connShown   == <<state, conn, misled, activeTag>>
toggleShown == <<olcrtcOn, olcrtcBusy, olcrtcPort>>
screen      == <<connShown, toggleShown, asking>>
appVars     == <<vars, screen, taps, reloads>>

Handler == [op : {"connect", "connectOlcrtcOnly", "startOlcrtc"}, tag : Tags \cup {None}, id : Nat]

AppTypeOK ==
    /\ TypeOK
    /\ state \in State /\ conn \in Info /\ misled \in Config \cup {None}
    /\ activeTag \in Tags \cup {None, "olcrtc-only"}
    /\ {olcrtcOn, olcrtcBusy, olcrtcPort} \subseteq BOOLEAN
    /\ asking \subseteq Handler /\ taps \in Nat /\ reloads \in Nat

\* The first effect has run: the tunnel is down, the screen listens.
AppInit ==
    /\ waiting = <<>> /\ call = NoCall /\ armedOlcrtc = None
    /\ hooked = FALSE /\ session = None /\ poll = [p \in Poll |-> Idle]
    /\ info = NoInfo /\ registered = TRUE /\ events = <<>>
    /\ interface = FALSE /\ engine = None /\ raw = Zero /\ bypass = None
    /\ intent = None /\ start = None /\ task = NoTask /\ stopping = FALSE
    /\ refused = None /\ answer = "none"
    /\ stored = [config |-> None, info |-> NoInfo]
    /\ carried = Zero /\ calls = 0 /\ polls = 0 /\ world = 0
    /\ state = "disconnected" /\ conn = NoInfo /\ misled = None /\ activeTag = None
    /\ olcrtcOn = FALSE /\ olcrtcBusy = FALSE /\ olcrtcPort = FALSE
    /\ asking = {} /\ taps = 0 /\ reloads = 0
-----------------------------------------------------------------------------
(* The effects.                                                            *)

\* currentConnection() is read, kept, or dropped.
Reads == conn' = info /\ misled' = refused
Drops == conn' = NoInfo /\ misled' = None
Keeps == UNCHANGED <<conn, misled>>

\* A faulty variant: a hold is taken for a connection that goes on.
ScreenOnStateIgnoresHold(s) ==
    /\ state' = IF s = "blocked" THEN "connected" ELSE s
    /\ CASE s = "connected" -> Reads [] s \in {"disconnected", "error"} -> Drops [] OTHER -> Keeps
    /\ activeTag' = IF s \in {"disconnected", "error"} THEN None ELSE activeTag

\* A faulty variant: the connection is read once for a tunnel.
ScreenOnStateKeepsConn(s) ==
    /\ state' = s
    /\ CASE s = "connected" /\ conn = NoInfo -> Reads
         [] s \in {"disconnected", "error"} -> Drops [] OTHER -> Keeps
    /\ activeTag' = IF s \in {"disconnected", "error"} THEN None ELSE activeTag

\* The screen's listener.
ScreenOnState(s) ==
    /\ state' = s
    /\ CASE s = "connected" -> Reads [] s \in {"disconnected", "error"} -> Drops [] OTHER -> Keeps
    /\ activeTag' = IF s \in {"disconnected", "error"} THEN None ELSE activeTag

DeliverToScreen == Deliver /\ ScreenOnState(Head(events)) /\ UNCHANGED <<toggleShown, asking, taps, reloads>>

\* A new context forgets what the old one waited for; native goes on, and nobody hears the
\* answer of a start under way.  The screen starts from the flag of the tunnel.
Reload ==
    /\ reloads < MaxReloads /\ reloads' = reloads + 1
    /\ intent \notin Config /\ start = None
    /\ OverHold \/ engine # None \/ ~interface \/ task # NoTask
    /\ waiting' = <<>> /\ call' = NoCall /\ armedOlcrtc' = None
    /\ hooked' = FALSE /\ session' = None /\ poll' = [p \in Poll |-> Idle]
    /\ events' = <<>> /\ answer' = "none" /\ carried' = raw
    /\ task' = IF task = NoTask THEN NoTask ELSE [task EXCEPT !.by = "widget"]
    /\ IF interface THEN state' = "connected" /\ Reads
       ELSE state' = "disconnected" /\ Drops
    /\ activeTag' = None /\ asking' = {}
    /\ olcrtcOn' = FALSE /\ olcrtcBusy' = FALSE /\ olcrtcPort' = FALSE
    /\ UNCHANGED <<info, registered, interface, engine, raw, bypass, intent, start, stopping,
                   refused, stored, bounds, taps>>
-----------------------------------------------------------------------------
(* The handlers.                                                           *)

Tap == taps < MaxTaps /\ taps' = taps + 1 /\ UNCHANGED reloads

Ask(op, tag) == asking' = asking \cup {[op |-> op, tag |-> tag, id |-> taps]}

TapConnect(tag) == Tap /\ Ask("connect", tag) /\ UNCHANGED <<vars, connShown, toggleShown>>

TapOlcrtcOnly ==
    /\ olcrtcOn /\ olcrtcPort /\ bypass # None
    /\ Tap /\ Ask("connectOlcrtcOnly", None) /\ UNCHANGED <<vars, connShown, toggleShown>>

\* A faulty variant: the switch does not wait for the one before.
ToggleOlcrtcUnguarded ==
    /\ Tap /\ olcrtcBusy' = TRUE /\ olcrtcOn' = ~olcrtcOn
    /\ IF olcrtcOn THEN Request("stopOlcrtc", None) /\ UNCHANGED asking
       ELSE Ask("startOlcrtc", None) /\ UNCHANGED vars
    /\ UNCHANGED <<connShown, olcrtcPort>>

ToggleOlcrtc ==
    /\ ~olcrtcBusy
    /\ Tap /\ olcrtcBusy' = TRUE /\ olcrtcOn' = ~olcrtcOn
    /\ IF olcrtcOn THEN Request("stopOlcrtc", None) /\ UNCHANGED asking
       ELSE Ask("startOlcrtc", None) /\ UNCHANGED vars
    /\ UNCHANGED <<connShown, olcrtcPort>>

TapDisconnect == Tap /\ Request("disconnect", None) /\ UNCHANGED screen

\* If the bypass runs, the server is dialed through it.
ConfigFor(tag) == IF bypass # None THEN ChainedOf[tag] ELSE DirectOf[tag]

\* The row to mark in the list.
Mark(h) == IF h.op = "connect" THEN h.tag ELSE "olcrtc-only"

\* The permission is there: the handler marks what it connects to and makes its call.
Granted(h) ==
    /\ asking' = asking \ {h}
    /\ \/ h.op = "connect" /\ Request("connect", ConfigFor(h.tag))
       \/ h.op = "connectOlcrtcOnly" /\ \E c \in Only : Request("connectOlcrtcOnly", c)
       \/ h.op = "startOlcrtc" /\ \E b \in Olcrtc : Request("startOlcrtc", b)
    /\ activeTag' = IF h.op = "startOlcrtc" THEN activeTag ELSE Mark(h)
    /\ UNCHANGED <<state, conn, misled, toggleShown, taps, reloads>>

\* The end of toggleOlcrtc(): what failed is put back.
EndOlcrtc(ok) == olcrtcBusy' = FALSE /\ olcrtcOn' = IF ok THEN olcrtcOn ELSE ~olcrtcOn

Denied(h) ==
    /\ asking' = asking \ {h}
    /\ IF h.op = "startOlcrtc" THEN EndOlcrtc(FALSE) /\ UNCHANGED activeTag
       ELSE activeTag' = None /\ UNCHANGED <<olcrtcOn, olcrtcBusy>>
    /\ UNCHANGED <<vars, state, conn, misled, olcrtcPort, taps, reloads>>

\* A call has settled, and its handler goes on.
SettleAndGoOn ==
    /\ Settle
    /\ activeTag' = IF call.op \in {"connect", "connectOlcrtcOnly"} /\ answer = "failed"
                    THEN None ELSE activeTag
    /\ IF call.op \in {"startOlcrtc", "stopOlcrtc"}
       THEN /\ EndOlcrtc(answer = "ok")
            /\ olcrtcPort' = IF answer = "failed" THEN olcrtcPort
                             ELSE call.op = "startOlcrtc" /\ bypass # None
       ELSE UNCHANGED toggleShown
    /\ UNCHANGED <<state, conn, misled, asking, taps, reloads>>
-----------------------------------------------------------------------------
Taps == \/ \E tag \in Tags : TapConnect(tag)
        \/ TapOlcrtcOnly \/ ToggleOlcrtc \/ TapDisconnect

\* What the client and the native side do that the screen does not see at once.
Unseen == Serve \/ GoesOn \/ Native \/ Widget \/ TornDown \/ StopTimesOut

AppNext ==
    \/ Taps \/ (\E h \in asking : Granted(h) \/ Denied(h))
    \/ DeliverToScreen \/ SettleAndGoOn \/ Reload
    \/ Unseen /\ UNCHANGED <<screen, taps, reloads>>

AppSpec == AppInit /\ [][AppNext]_appVars
-----------------------------------------------------------------------------
\* Nothing is under way.
Quiet == /\ call = NoCall /\ waiting = <<>> /\ asking = {} /\ events = <<>>
         /\ intent = None /\ start = None /\ task = NoTask /\ ~stopping

\* Once nothing is under way, the screen says connected over a running engine and only then,
\* and blocked over a tunnel that is held.
ScreenTruthful ==
    Quiet => IF engine # None THEN state = "connected"
             ELSE IF interface THEN state = "blocked" ELSE state \in {"disconnected", "error"}

\* The connection the screen describes is the one that runs, or none, or the start that Android
\* had refused when the screen last read what the client describes; and the row it marks is that
\* of the server the tunnel runs through, or none.
ConnShownRuns ==
    Quiet /\ engine # None =>
        /\ conn.config \in {None, engine, misled}
        /\ activeTag \in {None, TagOf[engine]}

\* One toggle of the bypass is under way at a time: the switch is busy exactly while it is.
OneToggle ==
    LET pending == {h \in asking : h.op = "startOlcrtc"}
        queued  == {i \in DOMAIN waiting : waiting[i].op \in {"startOlcrtc", "stopOlcrtc"}}
        held    == {c \in {call} : c.op \in {"startOlcrtc", "stopOlcrtc"}}
    IN  Cardinality(pending) + Cardinality(queued) + Cardinality(held) = IF olcrtcBusy THEN 1 ELSE 0

\* The blackhole of the kill switch is never shown as connected.
HoldNeverConnected == Quiet /\ interface /\ engine = None => state # "connected"
=============================================================================
