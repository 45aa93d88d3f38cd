----------------------------- MODULE XrayConfig -----------------------------
(***************************************************************************)
(* build.ts: the configuration of the engine made from a server.  Of its   *)
(* JSON, what decides where a packet goes: the outbounds, the rules, and   *)
(* what an outbound dials.                                                 *)
(***************************************************************************)
EXTENDS ShareLink

Local == "127.0.0.1"

NoTransport == [key |-> "", value |-> <<>>]
NoStream    == [network |-> "tcp", security |-> "none", dialerProxy |-> "",
                secured |-> <<>>, transport |-> NoTransport]

\* An outbound that needs no settings, and one that dials a SOCKS server.
Builtin(protocol, tag) == [tag |-> tag, protocol |-> protocol, settings |-> <<>>, stream |-> NoStream]
Socks(tag, host, port) ==
    [tag |-> tag, protocol |-> "socks", stream |-> NoStream,
     settings |-> [address |-> host, port |-> port, user |-> <<>>]]

\* What authenticates; ?? takes only what is undefined for missing.
Field(server, f, missing) == IF f \in DOMAIN server THEN server[f] ELSE missing

Credentials(server) ==
    CASE server.protocol = "vless" ->
           [id |-> Field(server, "id", ""), encryption |-> Field(server, "encryption", "none"),
            flow |-> Field(server, "flow", "")]
      [] server.protocol = "vmess" ->
           [id |-> Field(server, "id", ""), security |-> Field(server, "encryption", "auto")]
      [] server.protocol = "trojan" ->
           [password |-> server.password, flow |-> Field(server, "flow", "")]
      [] server.protocol = "shadowsocks" ->
           [method |-> server.method, password |-> server.password]

buildSettings(server) ==
    [address |-> server.address, port |-> server.port, user |-> Defined(Credentials(server))]

Path(server) == Field(server, "path", "/")

buildTransportSettings(server) ==
    LET host == Field(server, "host", "")
        with(key, value) == [key |-> key, value |-> Defined(value)]
    IN  CASE server.network = "ws" -> with("wsSettings", [path |-> Path(server), host |-> host])
          [] server.network = "httpupgrade" ->
               with("httpupgradeSettings", [path |-> Path(server), host |-> host])
          [] server.network = "xhttp" -> with("xhttpSettings", [path |-> Path(server), host |-> host])
          [] server.network = "grpc" ->
               [key |-> "grpcSettings", value |-> [serviceName |-> Field(server, "serviceName", "")]]
          [] server.network = "h2" -> with("httpSettings", [path |-> Path(server), host |-> host])
          [] server.network = "kcp" ->
               with("kcpSettings", [header |-> Field(server, "headerType", "none")])
          [] server.network = "tcp" /\ Field(server, "headerType", "") = "http" ->
               with("tcpSettings", [header |-> "http", host |-> host])
          [] OTHER -> NoTransport

\* The settings of the security a link asks for.
Secured(server) ==
    CASE server.security = "tls" -> Defined([serverName |-> Field(server, "sni", "")])
      [] server.security = "reality" ->
           Defined([serverName |-> Field(server, "sni", ""),
                    publicKey |-> Field(server, "publicKey", "")])
      [] OTHER -> <<>>

buildStreamSettings(server, dialerProxyTag) ==
    [network |-> server.network, security |-> server.security, dialerProxy |-> dialerProxyTag,
     secured |-> Secured(server), transport |-> buildTransportSettings(server)]

buildOutbound(server, tag, dialerProxyTag) ==
    [tag |-> tag, protocol |-> server.protocol, settings |-> buildSettings(server),
     stream |-> buildStreamSettings(server, dialerProxyTag)]

\* DNS is answered by the engine, private ranges go out directly, the rest through the proxy.
Rules(proxyTag) == <<[of |-> "port 53", outboundTag |-> "dns-out"],
                     [of |-> "private ranges", outboundTag |-> "direct"],
                     [of |-> "tun-in", outboundTag |-> proxyTag]>>

Builtins == <<Builtin("freedom", "direct"), Builtin("blackhole", "block"), Builtin("dns", "dns-out")>>

Config(outbounds, proxyTag) == [outbounds |-> outbounds \o Builtins, rules |-> Rules(proxyTag)]

\* A faulty variant: the hop to the bypass is dialed and not listed.
buildXrayConfigNoHop(server, options) ==
    Config(<<buildOutbound(server, options.proxyTag, Get(options, "olcrtcTag"))>>, options.proxyTag)

\* options.olcrtc is asked for by a port, olcrtcPort; without a tag there is no hop.
buildXrayConfig(server, options) ==
    LET olcrtcTag == Get(options, "olcrtcTag")
        config == Config(<<buildOutbound(server, options.proxyTag, olcrtcTag)>>, options.proxyTag)
    IN  IF olcrtcTag = "" THEN config
        ELSE [config EXCEPT !.outbounds = Append(@, Socks(olcrtcTag, Local, options.olcrtcPort))]

\* No server: the tunnel goes into the bypass.
buildOlcrtcTunnelConfig(options) ==
    Config(<<Socks(options.proxyTag, Local, options.olcrtcPort)>>, options.proxyTag)
-----------------------------------------------------------------------------
(* How the engine reads a configuration.                                   *)

OutboundsOf(config, tag) ==
    {i \in DOMAIN config.outbounds : config.outbounds[i].tag = tag}

\* The tags a configuration refers to.
References(config) ==
    {config.rules[i].outboundTag : i \in DOMAIN config.rules} \cup
    ({config.outbounds[i].stream.dialerProxy : i \in DOMAIN config.outbounds} \ {""})

\* The outbound that takes what comes out of the tunnel, and the one it is dialed through.
OutboundOf(config, tag) == config.outbounds[CHOOSE i \in OutboundsOf(config, tag) : TRUE]

Taken(config) ==
    OutboundOf(config, config.rules[CHOOSE i \in DOMAIN config.rules :
                                       config.rules[i].of = "tun-in"].outboundTag)

\* Where the first connection of a packet goes: through the hop if there is one.
DialedFirst(config) ==
    LET via == Taken(config).stream.dialerProxy
        out == IF via = "" THEN Taken(config) ELSE OutboundOf(config, via)
    IN  <<out.settings.address, out.settings.port>>
=============================================================================
