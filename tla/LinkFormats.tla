----------------------------- MODULE LinkFormats -----------------------------
(***************************************************************************)
(* How share links are written: each scheme's convention, from what is     *)
(* meant by a link to the parts it is split into.  The parser never sees   *)
(* what is meant.                                                          *)
(*                                                                         *)
(* "write" gives, for each part, the values a writer may put there;        *)
(* Optional adds the part that is left out.                                *)
(***************************************************************************)
EXTENDS XrayConfig

\* What no link can do without.
Writable(write) ==
    /\ "" \notin write.address /\ 0 \notin write.port
    /\ "" \notin write.secret /\ "" \notin write.method

Optional(S) == S \cup {""}

\* The transports that look like HTTP, and where the engine takes their settings from.
Web == {[net |-> "ws", key |-> "wsSettings"], [net |-> "httpupgrade", key |-> "httpupgradeSettings"],
        [net |-> "xhttp", key |-> "xhttpSettings"], [net |-> "h2", key |-> "httpSettings"]}

\* How a transport is asked for in a link, and the settings the engine must be given.
Transport(net, asked, path, host, header, key, value) ==
    [net |-> net, asked |-> asked, path |-> path, host |-> host, header |-> header,
     settings |-> [key |-> key, value |-> value]]

Tcp(asked, header) == Transport("tcp", asked, "", "", header, "", <<>>)
Http(asked, host)  == Transport("tcp", asked, "", host, "http", "tcpSettings",
                                Defined([header |-> "http", host |-> host]))
OfWeb(web, path, host) == Transport(web.net, web.net, path, host, "", web.key,
                                    Defined([path |-> Or(path, "/"), host |-> host]))

TcpPlain       == {Tcp(asked, header) : asked \in Optional({"tcp"}), header \in Optional({"none"})}
TcpHttp(write) == {Http(asked, host) : asked \in Optional({"tcp"}), host \in Optional(write.host)}
WebLike(write) == {OfWeb(web, path, host) :
                      web \in Web, path \in Optional(write.path), host \in Optional(write.host)}

Grpc(write) == {Transport("grpc", "grpc", service, "", "", "grpcSettings", [serviceName |-> service]) :
                   service \in Optional(write.path)}

Kcp(write) == {Transport("kcp", "kcp", "", "", header, "kcpSettings",
                         Defined([header |-> Or(header, "none")])) :
                  header \in Optional(write.header)}

Transports(write) == TcpPlain \cup TcpHttp(write) \cup WebLike(write) \cup Grpc(write) \cup Kcp(write)

\* How a security is asked for, what the certificate is checked against being named by sni or
\* by peer, and the settings the engine must be given.
Secure(security, asked, sni, peer, key) ==
    LET name == IF sni = "" THEN peer ELSE sni
    IN  [security |-> security, asked |-> asked, sni |-> sni, peer |-> peer, key |-> key,
         secured |-> CASE security = "none" -> <<>>
                       [] security = "tls" -> Defined([serverName |-> name])
                       [] security = "reality" -> Defined([serverName |-> name, publicKey |-> key])]

\* The security that a scheme implies need not be asked for.
Stated(security, sni, peer, key)  == Secure(security, security, sni, peer, key)
Implied(security, sni, peer, key) == Secure(security, "", sni, peer, key)

AllStated(write) ==
    {Stated(security, sni, peer, key) : security \in {"none", "tls", "reality"},
        sni \in Optional(write.name), peer \in Optional(write.name), key \in Optional(write.key)}
AllImplied(security, write) ==
    {Implied(security, sni, peer, key) :
        sni \in Optional(write.name), peer \in Optional(write.name), key \in Optional(write.key)}

Securities(implied, write) == AllStated(write) \cup AllImplied(implied, write)

Ats(write) == [host : write.address, port : write.port, written : {"plain", "bracketed"}]

Meant(protocol, address, port, secret, t, s) ==
    [protocol |-> protocol, address |-> address, port |-> port, secret |-> secret,
     network |-> t.net, security |-> s.security, transport |-> t.settings, secured |-> s.secured]

\* gRPC's service has a key of its own.
Query(t, s) ==
    [type |-> t.asked, security |-> s.asked, headerType |-> t.header, host |-> t.host,
     path |-> IF t.net = "grpc" THEN "" ELSE t.path,
     serviceName |-> IF t.net = "grpc" THEN t.path ELSE "",
     sni |-> s.sni, peer |-> s.peer, pbk |-> s.key]

\* vless://secret@host:port?query#fragment, and trojan alike.
UrlLink(scheme, at, secret, fragment, t, s) ==
    [scheme |-> scheme, userinfo |-> secret, at |-> at, fragment |-> fragment, usable |-> TRUE,
     query |-> Query(t, s), meant |-> Meant(scheme, at.host, at.port, secret, t, s)]

UrlLinks(scheme, implied, write) ==
    {UrlLink(scheme, at, secret, fragment, t, s) :
        at \in Ats(write), secret \in write.secret, fragment \in Optional(write.tag),
        t \in Transports(write), s \in Securities(implied, write)}

\* vmess://base64(JSON): TLS or none, and gRPC's service where others have their path.
VmessLink(at, secret, name, t, s) ==
    [scheme |-> "vmess", usable |-> TRUE, meant |-> Meant("vmess", at.host, at.port, secret, t, s),
     json |-> [add |-> at.host, port |-> at.port, id |-> secret, ps |-> name, scy |-> "",
               net |-> t.asked, type |-> t.header, host |-> t.host, path |-> t.path,
               tls |-> s.asked, sni |-> s.sni]]

VmessSecurities(write) == {Implied("none", "", "", "")} \cup
                          {Stated("tls", sni, "", "") : sni \in Optional(write.name)}

VmessLinks(write) == {VmessLink(at, secret, name, t, s) :
                         at \in Ats(write), secret \in write.secret, name \in Optional(write.tag),
                         t \in Transports(write), s \in VmessSecurities(write)}

\* ss://base64(method:password)@host:port, or all of it in base64.
SsLink(form, at, method, secret, fragment) ==
    [scheme |-> "ss", form |-> form, at |-> at, creds |-> <<method, secret>>, fragment |-> fragment,
     usable |-> TRUE,
     meant |-> Meant("shadowsocks", at.host, at.port, secret,
                     Tcp("", ""), Implied("none", "", "", ""))]

SsLinks(write) ==
    {SsLink(form, at, method, secret, fragment) :
        form \in {"SIP002", "legacy"}, at \in Ats(write), method \in write.method,
        secret \in write.secret, fragment \in Optional(write.tag)}

\* Every link that can be written.
Written(write) == UrlLinks("vless", "none", write) \cup UrlLinks("trojan", "tls", write) \cup
                  VmessLinks(write) \cup SsLinks(write)
=============================================================================
