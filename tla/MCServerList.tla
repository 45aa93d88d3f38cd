---------------------------- MODULE MCServerList ----------------------------
(* Documents of links that are written by the conventions of LinkFormats:   *)
(* under every scheme each transport and each security, in every way a link *)
(* may leave them out, and each way in which a link cannot be used.         *)
EXTENDS ServerList, LinkFormats, TLC

Write == [address |-> {"address"}, port |-> {443}, secret |-> {"secret"}, method |-> {"method"},
          name |-> {"sni"}, key |-> {"key"}, path |-> {"/path"}, host |-> {"host"},
          header |-> {"utp"}, tag |-> {"name"}]

Place(written) == [host |-> "address", port |-> 443, written |-> written]
Plain == CHOOSE t \in Transports(Write) : t.settings = NoTransport
Tls   == Secure("tls", "tls", "sni", "", "key")

\* Every transport with one security, and every security with one transport.
UrlChosen(scheme, implied) ==
    {UrlLink(scheme, Place("plain"), "secret", "", t, Tls) : t \in Transports(Write)} \cup
    {UrlLink(scheme, Place("bracketed"), "secret", "name", Plain, s) : s \in Securities(implied, Write)}

Links == UrlChosen("vless", "none") \cup UrlChosen("trojan", "tls") \cup
         VmessLinks([Write EXCEPT !.tag = {}]) \cup SsLinks(Write)

ASSUME LinksAreWritten == Writable(Write) /\ Links \subseteq Written(Write)

Bad(link) == [link EXCEPT !.usable = FALSE]
A == UrlLink("vless", Place("plain"), "secret", "", Plain, Secure("reality", "reality", "sni", "", "key"))
B == SsLink("SIP002", Place("plain"), "method", "secret", "")
C == VmessLink(Place("plain"), "secret", "", Plain, Secure("tls", "tls", "sni", "", ""))

BadLinks == {
    [scheme |-> "hysteria2", usable |-> FALSE],
    Bad([A EXCEPT !.userinfo = ""]), Bad([A EXCEPT !.at.port = 0]),
    Bad([A EXCEPT !.at.written = "unclosed"]), Bad([A EXCEPT !.at.host = ""]),
    Bad([B EXCEPT !.creds = <<>>]), Bad([B EXCEPT !.creds = <<"", "secret">>]),
    Bad([B EXCEPT !.at.port = 0]), Bad([C EXCEPT !.json = <<>>]),
    Bad([C EXCEPT !.json.add = ""]), Bad([C EXCEPT !.json.port = 0])}

\* Each link alone, each bad one between good ones, and lists to be tested.
Documents == {<<link>> : link \in Links} \cup {<<A, bad, C>> : bad \in BadLinks} \cup
             {<<A, B, C>>, <<B, A, B>>, <<C, A>>}

\* What takes the place of any of them.
Later == {<<C, A>>}

Quota == {<<[key |-> "upload", value |-> 1], [key |-> "total", value |-> -1],
            [key |-> "upload", value |-> 2], [key |-> "plan", value |-> 3]>>}

Configured == [proxyTag : {"proxy", "mine"}, olcrtcPort : {0}, olcrtcTag : {""}] \cup
              [proxyTag : {"proxy", "mine"}, olcrtcPort : {1080}, olcrtcTag : {"olcrtc-out"}]

ASSUME HopsHaveTags == \A options \in Configured : HopHasTag(options)
=============================================================================
