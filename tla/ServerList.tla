----------------------------- MODULE ServerList -----------------------------
(***************************************************************************)
(* The list of servers of App.tsx: loaded from a subscription (client.ts,  *)
(* fetchSubscription) and sorted by urlTest.  Any server of it may be      *)
(* turned into the configuration a connection runs.                        *)
(***************************************************************************)
EXTENDS UrlTest, XrayConfig

CONSTANTS
    Payloads, UserInfo, (* what a host may serve                         *)
    Editions,           (* what it may publish later                     *)
    Options,            (* what a connection may be configured with      *)
    Load,               (* loads underway at once                        *)
    MaxLoads, MaxPings  (* bounds                                        *)

\* A document is a list of lines.  The tags a caller chooses are its own: no two outbounds
\* of a configuration have one tag.
ASSUME ServerListAssumption ==
    /\ MaxLoads \in Nat /\ MaxPings \in Nat /\ Editions \subseteq Payloads
    /\ \A payload \in Payloads : payload \in Seq({payload[i] : i \in DOMAIN payload})
    /\ \A options \in Options :
          /\ options.proxyTag \notin {"", "direct", "block", "dns-out"}
          /\ options.olcrtcTag \notin {"direct", "block", "dns-out", options.proxyTag}

VARIABLES
    site,       \* what the host of the subscription serves now
    load,       \* each load: "idle", "headers" awaited, "body" awaited, "failed"
    sent,       \* the document each load is being sent
    servers, subInfo, latencies, pinging,   \* the screen's
    shown, tested,  \* for the properties: the documents the list, and the list under test, are of
    loads, pings

loadVars == <<load, sent>>
appVars  == <<servers, subInfo, latencies, pinging, shown, tested>>
vars     == <<testVars, site, loadVars, appVars, loads, pings>>

Document == [payload : Payloads, header : UserInfo]
Nothing  == [payload |-> <<>>, header |-> <<>>]

Init ==
    /\ TestInit
    /\ site \in Document
    /\ load = [l \in Load |-> "idle"] /\ sent = [l \in Load |-> Nothing]
    /\ servers = <<>> /\ subInfo = <<>> /\ latencies = <<>> /\ pinging = FALSE
    /\ shown = Nothing /\ tested = Nothing
    /\ loads = 0 /\ pings = 0
-----------------------------------------------------------------------------
(* fromSubscriptionWithInfo() and the screen's loadSubscription().         *)

\* The host publishes another document.
Publish ==
    /\ site' \in [payload : Editions, header : UserInfo]
    /\ UNCHANGED <<testVars, loadVars, appVars, loads, pings>>

LoadSubscription(l) ==
    /\ load[l] \in {"idle", "failed"} /\ loads < MaxLoads /\ loads' = loads + 1
    /\ load' = [load EXCEPT ![l] = "headers"]
    /\ UNCHANGED <<testVars, site, sent, appVars, pings>>

LoadGoesOn(l, at) == load' = [load EXCEPT ![l] = at] /\ UNCHANGED <<testVars, site, loads, pings>>

LoadEnds(l, at) == LoadGoesOn(l, at) /\ sent' = [sent EXCEPT ![l] = Nothing]

\* The answer's first half: an HTTP error, a lost connection, or a body to come, of what the
\* host serves then.  In each case the timer is cleared.
HeadersArrive(l) ==
    /\ load[l] = "headers" /\ UNCHANGED appVars
    /\ \/ LoadGoesOn(l, "body") /\ sent' = [sent EXCEPT ![l] = site]
       \/ LoadEnds(l, "failed")

\* The timer aborts the fetch.
TimerFires(l) == load[l] = "headers" /\ LoadEnds(l, "failed") /\ UNCHANGED appVars

\* The body, which the timer no longer bounds, ends or breaks.  A fetch that resolves with the
\* body whole is one that goes on at once.
Body(l) ==
    /\ load[l] = "body"
    /\ \/ /\ LoadEnds(l, "idle")
          /\ servers' = parseSubscription(sent[l].payload)
          /\ subInfo' = parseSubscriptionUserInfo(sent[l].header)
          /\ shown' = sent[l]
          /\ UNCHANGED <<latencies, pinging, tested>>
       \/ LoadEnds(l, "failed") /\ UNCHANGED appVars
-----------------------------------------------------------------------------
(* pingAll().                                                              *)

PingAll ==
    /\ servers # <<>> /\ ~pinging
    /\ pings < MaxPings /\ pings' = pings + 1
    /\ pinging' = TRUE /\ BeginTest(servers) /\ tested' = shown
    /\ UNCHANGED <<site, loadVars, servers, subInfo, latencies, shown, loads>>

Rest == UNCHANGED <<site, loadVars, appVars, loads, pings>>

Timers   == (Tick \/ \E w \in Worker : Abort(w) \/ BackstopFires(w)) /\ Rest
Answers  == (\E w \in Worker : Responds(w) \/ Fails(w)) /\ Rest

\* The list becomes the results', whatever was loaded meanwhile; of two servers with one link
\* the later one's latency is shown.
ShowResults ==
    /\ pinging /\ ~testing
    /\ pinging' = FALSE /\ shown' = tested
    /\ servers' = [k \in Index |-> targets[Ranking[k]]]
    /\ latencies' = [r \in {targets[i].raw : i \in Index} |->
                        latencyMs[Ranking[CHOOSE k \in Index :
                            /\ targets[Ranking[k]].raw = r
                            /\ \A j \in Index : targets[Ranking[j]].raw = r => j <= k]]]
    /\ UNCHANGED <<testVars, site, loadVars, subInfo, tested, loads, pings>>
-----------------------------------------------------------------------------
Next ==
    \/ \E l \in Load : LoadSubscription(l) \/ HeadersArrive(l) \/ TimerFires(l) \/ Body(l)
    \/ Publish \/ PingAll \/ Timers \/ Answers \/ ShowResults

Spec == Init /\ [][Next]_vars

\* Timers fire and the JS thread goes on; nothing is asked of a host.
FairSpec == /\ Spec
            /\ WF_vars(Timers) /\ WF_vars(ShowResults)
            /\ \A l \in Load : WF_vars(TimerFires(l))
-----------------------------------------------------------------------------
ServersTypeOK ==
    /\ testing \in BOOLEAN /\ pinging \in BOOLEAN /\ (testing => pinging)
    /\ next \in 1..(Size + 1) /\ worker \in [Worker -> 0..Size]
    /\ aborted \in [Worker -> BOOLEAN] /\ now \in Nat
    /\ DOMAIN probed = Index /\ latencyMs \in [Index -> Nat \cup {Null}]
    /\ load \in [Load -> {"idle", "headers", "body", "failed"}]
    /\ sent \in [Load -> Document \cup {Nothing}] /\ {shown, tested} \subseteq Document \cup {Nothing}
    /\ \A i \in DOMAIN servers : servers[i] = parseShareLink(servers[i].raw)

\* The list shown is of one document that was sent, whole: every line of it that is a usable
\* link is shown as often as it stands there, whatever the other lines are and however loads
\* and tests overlap.  It is the document loaded last, until a test ends: then it is again the
\* one that was tested, in another order, even if a newer one was loaded meanwhile.
NothingLost ==
    \A k \in DOMAIN shown.payload : LET link == shown.payload[k]
        IN  Cardinality({i \in DOMAIN servers : servers[i].raw = link}) =
            IF link.usable THEN Cardinality({j \in DOMAIN shown.payload : shown.payload[j] = link})
            ELSE 0

\* When a test ends, the list is sorted by the latencies shown, unless it has two servers with
\* one link.
ShownSorted ==
    [][latencies' # latencies =>
         \A i, j \in DOMAIN servers' : i < j =>
             LET a == latencies'[servers'[i].raw]
                 b == latencies'[servers'[j].raw]
             IN  \/ b = Null \/ (a # Null /\ a <= b)
                 \/ \E k \in DOMAIN servers' \ {j} : servers'[k].raw = servers'[j].raw
                 \/ \E k \in DOMAIN servers' \ {i} : servers'[k].raw = servers'[i].raw]_vars

\* Whatever a configuration refers to is in it, once.
ReferencesResolve ==
    \A i \in DOMAIN servers, options \in Options :
        LET config == buildXrayConfig(servers[i], options)
        IN  \A tag \in References(config) : Cardinality(OutboundsOf(config, tag)) = 1

\* A hop that is asked for has a tag: one whose tag is "" is not listed, nor dialed through.
HopHasTag(options) == Get(options, "olcrtcTag") = "" <=> options.olcrtcPort = 0

\* What comes out of the tunnel is dialed as whoever wrote the link meant it, by the names the
\* parser knows (a plugin of a SIP002 link is not among them), its first hop being the bypass
\* whenever the connection asks for it.
DialsAsMeant ==
    \A i \in DOMAIN servers, options \in Options :
        LET config == buildXrayConfig(servers[i], options)
            out    == Taken(config)
            meant  == servers[i].raw.meant
        IN  /\ out.protocol = meant.protocol
            /\ out.settings.address = meant.address /\ out.settings.port = meant.port
            /\ meant.secret \in {out.settings.user[f] : f \in DOMAIN out.settings.user}
            /\ out.stream.network = meant.network /\ out.stream.security = meant.security
            /\ out.stream.secured = meant.secured /\ out.stream.transport = meant.transport
            /\ DialedFirst(config) = IF options.olcrtcPort = 0 THEN <<meant.address, meant.port>>
                                     ELSE <<Local, options.olcrtcPort>>

\* A test ends, whatever the hosts do, and the button can be pressed again.
PingEnds == pinging ~> ~pinging
=============================================================================
