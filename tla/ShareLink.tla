----------------------------- MODULE ShareLink ------------------------------
(***************************************************************************)
(* parse.ts: what the parsers of share links and subscriptions return.     *)
(*                                                                         *)
(* A link is given by the parts its parser splits it into, decoded: a      *)
(* record whose fields depend on the scheme.  "" is a part that is empty   *)
(* or absent, and a port that is no number is 0.  A server is a function   *)
(* over the fields that are defined.  fingerprint, alpn, shortId, spiderX  *)
(* and alterId are carried over like sni and publicKey, and left out.      *)
(***************************************************************************)
EXTENDS Integers, Sequences, FiniteSets

\* What is no link, and what is returned for one that cannot be used.
NoServer == [protocol |-> "none"]

\* {...a, ...b}, of objects with no field in common.
Spread(a, b) == [f \in DOMAIN a \cup DOMAIN b |-> IF f \in DOMAIN a THEN a[f] ELSE b[f]]

\* Each x || undefined of an object, which drops the empty fields.
Defined(obj) == [f \in {f \in DOMAIN obj : obj[f] # ""} |-> obj[f]]

Or(x, fallback) == IF x = "" THEN fallback ELSE x
Get(obj, f)     == IF f \in DOMAIN obj THEN obj[f] ELSE ""

\* `${protocol}-${host}:${port}`, and the name it stands in for.
fallbackTag(protocol, at) == <<protocol, at.host, at.port>>
Tag(name, protocol, at)   == IF name = "" THEN fallbackTag(protocol, at) ELSE <<name>>

\* A host and port are written host:port, [host]:port, or "unclosed", without the bracket's end.
splitHostPort(hp) == [host |-> hp.host, port |-> IF hp.written = "unclosed" THEN 0 ELSE hp.port]

\* A faulty variant: what the scheme implies is not the default.
streamFromQueryNoDefault(query, default) ==
    Spread([network |-> Or(Get(query, "type"), "tcp"), security |-> Or(Get(query, "security"), "none")],
           Defined([sni |-> Get(query, "sni"), publicKey |-> Get(query, "pbk"),
                    path |-> Get(query, "path"), host |-> Get(query, "host"),
                    serviceName |-> Get(query, "serviceName"), flow |-> Get(query, "flow"),
                    headerType |-> Get(query, "headerType")]))

streamFromQuery(query, default) ==
    Spread([network |-> Or(Get(query, "type"), "tcp"), security |-> Or(Get(query, "security"), default)],
           Defined([sni |-> Or(Get(query, "sni"), Get(query, "peer")), publicKey |-> Get(query, "pbk"),
                    path |-> Get(query, "path"), host |-> Get(query, "host"),
                    serviceName |-> Get(query, "serviceName"), flow |-> Get(query, "flow"),
                    headerType |-> Get(query, "headerType")]))

\* The parsers of vless and trojan: scheme://userinfo@host:port?query#fragment.
parseAuthority(link, secret, default) ==
    LET at == splitHostPort(link.at)
    IN  IF at.host = "" \/ link.userinfo = "" \/ at.port = 0 THEN NoServer
        ELSE Spread([protocol |-> link.scheme, tag |-> Tag(link.fragment, link.scheme, at),
                     address |-> at.host, port |-> at.port, raw |-> link],
                    Spread(secret, streamFromQuery(link.query, default)))

parseVless(link) == parseAuthority(link, [id |-> link.userinfo,
                                          encryption |-> Or(Get(link.query, "encryption"), "none")],
                                   "none")

\* trojan implies TLS unless the link says otherwise.
parseTrojan(link) == parseAuthority(link, [password |-> link.userinfo], "tls")

\* The payload is JSON in base64; what does not decode throws.  gRPC's service name is in path.
parseVmess(link) ==
    LET json == link.json
        net  == Or(json.net, "tcp")
    IN  IF json = <<>> THEN NoServer
        ELSE IF json.add = "" \/ json.port = 0 THEN NoServer
        ELSE Spread([protocol |-> "vmess", address |-> json.add, port |-> json.port, raw |-> link,
                     tag |-> Tag(json.ps, "vmess", [host |-> json.add, port |-> json.port]),
                     encryption |-> Or(json.scy, "auto"), network |-> net,
                     security |-> IF json.tls \in {"tls", "reality"} THEN json.tls ELSE "none"],
                    Defined([id |-> json.id, sni |-> json.sni, host |-> json.host,
                             headerType |-> json.type,
                             path |-> IF net = "grpc" THEN "" ELSE json.path,
                             serviceName |-> IF net = "grpc" THEN json.path ELSE ""]))

\* ss://base64(method:password)@host:port, or ss://base64(method:password@host:port).  The
\* credentials that are not base64 may be percent-encoded; those without a colon are none.
\* Only the first form cannot do without a method.
parseShadowsocks(link) ==
    LET at == splitHostPort(link.at)
    IN  IF \/ link.creds = <<>> \/ at.host = "" \/ at.port = 0
           \/ link.form = "SIP002" /\ Head(link.creds) = ""
        THEN NoServer
        ELSE [protocol |-> "shadowsocks", tag |-> Tag(link.fragment, "ss", at), address |-> at.host,
              port |-> at.port, method |-> link.creds[1], password |-> link.creds[2],
              network |-> "tcp", security |-> "none", raw |-> link]

parseShareLink(link) ==
    CASE link.scheme = "vless"  -> parseVless(link)
      [] link.scheme = "trojan" -> parseTrojan(link)
      [] link.scheme = "vmess"  -> parseVmess(link)
      [] link.scheme = "ss"     -> parseShadowsocks(link)
      [] OTHER -> NoServer

IsServer(server) == server # NoServer

\* A faulty variant: the first line that is no link ends the list.
parseSubscriptionUpTo(payload) ==
    LET bad == {i \in DOMAIN payload : ~IsServer(parseShareLink(payload[i]))}
    IN  [i \in {i \in DOMAIN payload : \A j \in bad : i < j} |-> parseShareLink(payload[i])]

\* The payload's lines, decoded if it is one base64 document; what is filtered are their
\* servers, the k-th of them being that of the k-th line that has one.
parseSubscription(payload) ==
    LET links == {i \in DOMAIN payload : IsServer(parseShareLink(payload[i]))}
        line(k) == CHOOSE i \in links : Cardinality({j \in links : j < i}) = k - 1
    IN  [k \in 1..Cardinality(links) |-> parseShareLink(payload[line(k)])]

\* The header's parts, key=value; a value that is empty, no number or negative is -1.
\* Of two with the same key the last one counts.
parseSubscriptionUserInfo(header) ==
    LET known(i) == header[i].key \in {"upload", "download", "total", "expire"}
                    /\ header[i].value >= 0
        named(k) == {i \in DOMAIN header : known(i) /\ header[i].key = k}
    IN  [k \in {header[i].key : i \in {j \in DOMAIN header : known(j)}} |->
            header[CHOOSE i \in named(k) : \A j \in named(k) : j <= i].value]
=============================================================================
