------------------------------ MODULE NodeDial ------------------------------
(***************************************************************************)
(* One line of a feed on its way into a tunnel: the parser turns it into a *)
(* candidate, the probe dials the endpoint and judges what it hears, the   *)
(* admission gate checks it again, the renderer writes the outbound that   *)
(* sing-box dials.  Parser, probe and renderer read the same URI with      *)
(* three different readers; the properties say where they agree, and name  *)
(* the fields in which they do not.                                        *)
(*                                                                         *)
(* A URI is abstracted to the features the three readers look at.  A peer  *)
(* is the machine behind the endpoint: the model knows whether it really   *)
(* relays, the probe only hears what it answers.                           *)
(***************************************************************************)
EXTENDS Integers

CONSTANTS
    Schemes,      \* the schemes of the lines under study
    Transports,   \* values of the transport field (query "type")
    Securities,   \* values of the "security" field
    OptionSets,   \* sets of further query options a line may carry
    Rates,        \* download rates a probe may measure
    Floor,        \* throughput_min_kb_s
    Gate          \* throughput_enabled

AllSchemes == {"vless", "trojan", "hysteria2", "hy2", "tuic", "http", "socks5",
               "bare", "https", "vmess", "ss", "ssr"}
AllTransports == {"absent", "tcp", "raw", "ws", "grpc", "h2", "quic"}
AllSecurities == {"absent", "none", "tls", "reality"}
\* allowInsecure, alpn or fp, pbk and flow.
AllOptions == {"insecure", "hello", "pbk", "flow"}
NoRate == -1

ASSUME SchemesAssumption == Schemes \subseteq AllSchemes
ASSUME FieldsAssumption == /\ Transports \subseteq AllTransports
                           /\ Securities \subseteq AllSecurities
                           /\ OptionSets \subseteq SUBSET AllOptions
ASSUME RatesAssumption == Rates \subseteq Nat /\ Floor \in Nat /\ Gate \in BOOLEAN

(* A line of a feed.  port "slash" is host:443/?..., "bareslash" host/?...,  *)
(* "bad" is no number.  user "twoAt" is a user name with an '@' in it.  body *)
(* is how the payload of ss, ssr and vmess is written ("list": JSON, but no  *)
(* object); method and plugin are those of ss.                               *)
Line(schemes, users, hosts, ports, transports, securities, snis, options) ==
    [scheme: schemes, user: users, host: hosts, port: ports, transport: transports,
     security: securities, sni: snis, options: options,
     body: {"plain"}, method: {"absent"}, plugin: {"absent"}]

Payload(scheme, hosts, ports, transports, securities, bodies, methods, plugins) ==
    [scheme: Schemes \cap {scheme}, user: {"text"}, host: hosts, port: ports,
     transport: transports, security: securities, sni: {"absent"}, options: {{}},
     body: bodies, method: methods, plugin: plugins]

Lines ==
    UNION {
      Line(Schemes \cap {"vless", "trojan", "hysteria2", "hy2", "tuic"},
           {"none", "uuid", "text", "twoAt"}, {"name", "v6"},
           {"given", "none", "bad", "slash", "bareslash"},
           Transports, Securities, {"absent", "sni", "alt"}, OptionSets),
      Line(Schemes \cap {"http", "socks5"}, {"none", "text", "twoAt"}, {"name", "v6"},
           {"given", "none", "bad", "slash"}, Transports, {"absent"}, {"absent"}, {{}}),
      Line(Schemes \cap {"bare", "https"}, {"none", "text"}, {"name", "v6"},
           {"given", "none", "bad"}, {"absent"}, {"absent"}, {"absent"}, {{}}),
      Payload("ss", {"name", "v6"}, {"given", "none", "bad", "slash"}, {"absent"},
              {"absent"}, {"plain", "b64", "legacy", "junk"},
              {"aead", "listed", "unknown", "absent"}, {"absent", "first", "escaped"}),
      Payload("vmess", {"name"}, {"given", "none", "bad"}, Transports, Securities,
              {"json", "noadd", "list", "query", "junk"}, {"absent"}, {"absent"}),
      Payload("ssr", {"name"}, {"given", "none", "bad"}, {"absent"}, {"absent"},
              {"b64", "junk"}, {"absent"}, {"absent"}) }

-----------------------------------------------------------------------------
(* The parser. *)

Needs(u) == u.scheme \in {"vless", "trojan", "hysteria2", "hy2", "tuic"}

\* Fault: the default port of the TLS protocols handed to every scheme.
DefaultPortAlways(u) == u.scheme \in AllSchemes

\* Only these get a default port; "bad" and "slash" ports never parse.
DefaultPort(u) == u.scheme \in {"vless", "trojan"}

\* _parse_host_port: rpartition(":") takes the last colon, so a bracketed
\* address without a port never parses.
HostPort(u) ==
    \/ u.port = "given"
    \/ u.port \in {"none", "bareslash"} /\ DefaultPort(u) /\ u.host = "name"

\* _parse_ss insists on a port; a base64 user without ":" is kept as password,
\* the two plain forms need method:password to be told apart from the host.
ParsesSS(u) == u.body \in {"plain", "b64", "legacy"} /\ u.port = "given"

ParsesVmess(u) == u.body = "json" /\ u.port = "given"

\* A payload that is JSON but no object: .get raises out of parse_feed.
ParseRaises(u) == u.scheme = "vmess" /\ u.body = "list"

\* ssr carries host:port:... in base64; nothing else of it is read.
ParsesSSR(u) == u.body # "junk" /\ u.port = "given"

Parses(u) ==
    CASE u.scheme = "https" -> FALSE
      [] u.scheme = "bare"  -> u.port = "given"
      [] u.scheme = "ss"    -> ParsesSS(u)
      [] u.scheme = "vmess" -> ParsesVmess(u)
      [] u.scheme = "ssr"   -> ParsesSSR(u)
      [] OTHER              -> (Needs(u) => u.user # "none") /\ HostPort(u)

\* PROXY_PROTOCOLS: the values of the protocol column.
Protocols == {"vless", "vmess", "ss", "ssr", "trojan", "tuic", "hysteria2",
              "http", "socks5"}

\* Fault: the hy2 alias stored as a protocol of its own.
ProtocolUnaliased(u) == IF u.scheme = "bare" THEN "http" ELSE u.scheme

Protocol(u) ==
    CASE u.scheme = "hy2"  -> "hysteria2"
      [] u.scheme = "bare" -> "http"
      [] OTHER             -> u.scheme

\* The server column: still dressed when brackets, a second '@' or a slash were
\* left on the host name.  vmess reads its host from JSON, as it is.
ServerOf(u) ==
    [host    |-> u.host,
     dressed |-> \/ u.host = "v6" \/ u.user = "twoAt" \/ u.port = "bareslash"
                 \/ u.scheme = "bare" /\ u.user # "none",
     port    |-> IF u.port = "given" THEN "given" ELSE "443"]

-----------------------------------------------------------------------------
(* The renderer. *)

RenderPort(u) ==
    IF u.port \in {"given", "slash"} THEN "given"
    ELSE CASE Protocol(u) = "http"   -> "80"
           [] Protocol(u) = "socks5" -> "1080"
           [] Protocol(u) = "ss"     -> "8388"
           [] OTHER                  -> "443"

\* _transport_from_query: quic and mkcp have no sing-box transport.
RenderTransport(u) ==
    IF Protocol(u) \in {"http", "socks5", "ss"} THEN "none"
    ELSE CASE u.transport \in {"absent", "tcp", "raw", "quic"} -> "none"
           [] u.transport = "h2" -> "http"
           [] OTHER -> u.transport

RequiresTls(u) == Protocol(u) \in {"trojan", "tuic", "hysteria2"}

RenderTls(u) ==
    \/ RequiresTls(u)
    \/ Protocol(u) \in {"vless", "vmess"} /\ u.security \in {"tls", "reality"}

\* server_name; without one sing-box takes the server address.
RenderName(u) ==
    IF RenderTls(u) THEN (IF u.sni = "absent" THEN "host" ELSE u.sni) ELSE "none"

RendersSS(u) ==
    /\ u.body \in {"plain", "b64", "legacy"}
    /\ u.method \in {"aead", "listed"}
    /\ u.port \in {"given", "none"}

\* The query form uuid@host of vmess renders although the parser drops it.
RendersVmess(u) ==
    \/ u.body = "query" /\ u.port # "bad"
    \/ u.body \in {"json", "noadd"} /\ u.port = "given"

\* _outbound_from_node does not raise.
Renders(u) ==
    CASE Protocol(u) \in {"ssr", "https"} -> FALSE
      [] u.scheme = "bare" -> FALSE    \* urlparse finds no authority in host:port
      [] u.scheme = "ss"   -> RendersSS(u)
      [] u.scheme = "vmess" -> RendersVmess(u)
      [] OTHER -> u.port # "bad" /\ (RequiresTls(u) => u.sni # "absent")

\* Without pbk a reality line is dialled over plain TLS.
RenderReality(u) == RenderTls(u) /\ u.security = "reality" /\ "pbk" \in u.options

\* The certificate is verified unless allowInsecure is set.
RenderCheck(u) == RenderTls(u) /\ "insecure" \notin u.options

\* alpn and a uTLS fingerprint, where the line names one.
RenderHello(u) == RenderTls(u) /\ "hello" \in u.options

RenderFlow(u) == Protocol(u) = "vless" /\ "flow" \in u.options

\* auth: the username and password of http and socks5.
Outbound(u) ==
    [host |-> u.host, port |-> RenderPort(u), transport |-> RenderTransport(u),
     plugin |-> u.scheme = "ss" /\ u.plugin = "first",
     tls |-> RenderTls(u), name |-> RenderName(u), reality |-> RenderReality(u),
     check |-> RenderCheck(u), hello |-> RenderHello(u), flow |-> RenderFlow(u),
     auth |-> Protocol(u) \in {"http", "socks5"} /\ u.user # "none"]

-----------------------------------------------------------------------------
(* The probe. *)

ProbesSS(u) ==
    /\ u.method = "aead"
    /\ u.plugin = "absent"

\* Fault: the transport gate forgotten, as before ADR-0006.
ProbeableAnyTransport(u) ==
    CASE Protocol(u) = "ss" -> ProbesSS(u)
      [] OTHER -> Protocol(u) \in {"vless", "trojan", "http", "socks5"}

Probeable(u) ==
    CASE Protocol(u) = "ss" -> ProbesSS(u)
      [] Protocol(u) \in {"vless", "trojan", "http", "socks5"} ->
            u.transport \in {"absent", "tcp"}
      [] OTHER -> FALSE

ProbeTls(u) ==
    \/ Protocol(u) = "trojan"
    \/ Protocol(u) = "vless" /\ (u.security \in {"tls", "reality"} \/ u.sni = "sni")

ProbeName(u) ==
    IF ProbeTls(u) THEN (IF u.sni = "sni" THEN "sni" ELSE "host") ELSE "none"

\* How the probe reaches the endpoint, in the terms of Outbound: the TLS of the
\* standard library under CERT_NONE, no vless addons, CONNECT and the socks
\* greeting without a user.
ProbedAs(u) ==
    [host |-> u.host, port |-> ServerOf(u).port, transport |-> "none", plugin |-> FALSE,
     tls |-> ProbeTls(u), name |-> ProbeName(u), reality |-> FALSE, check |-> FALSE,
     hello |-> FALSE, flow |-> FALSE, auth |-> FALSE]

\* The vless header needs a UUID; building it raises after the dial.
ChallengeRaises(u) == Protocol(u) = "vless" /\ u.user # "uuid"

(* Peers.  A stub answers everything alike; a relay serves one protocol.     *)
Stubs == {"refuses", "silent", "closes", "echo", "web2xx", "web4xx"}
Peers ==
    [kind: Stubs, proto: {"none"}, tls: BOOLEAN, creds: {FALSE}, wire: {"tcp"},
     target: {"none"}]
    \cup
    [kind: {"relay"}, proto: {"vless", "trojan", "ss", "http", "socks5"},
     tls: BOOLEAN, creds: BOOLEAN, wire: {"tcp", "ws"}, target: {"2xx", "4xx", "none"}]

\* The protocol's own greeting (vless 00 00, socks5 05 00, a decryptable ss
\* frame, a 2xx to CONNECT) and the page that comes after it.
Heard(greet, page) == [greet |-> greet, page |-> page]
Nothing == Heard("none", "none")

\* What a relay of this protocol, behind this wire and these credentials, says.
RelayAnswers(u, p) ==
    IF p.proto = Protocol(u) /\ p.wire = "tcp" /\ p.creds
    THEN {IF p.target = "none" THEN Nothing ELSE Heard("own", p.target)}
    ELSE {Nothing, Heard("noise", "noise"), Heard("http4xx", "4xx")}

\* TLS to a clear port fails, and a clear hello gets a TLS alert.
Answers(u, p) ==
    IF p.kind \in {"silent", "closes"} \/ (ProbeTls(u) /\ ~p.tls) THEN {Nothing}
    ELSE IF p.tls /\ ~ProbeTls(u) THEN {Heard("noise", "noise")}
    ELSE CASE p.kind = "echo"   -> {Heard("echo", "echo")}
           [] p.kind = "web2xx" -> {Heard("http2xx", "2xx")}
           [] p.kind = "web4xx" -> {Heard("http4xx", "4xx")}
           [] OTHER             -> RelayAnswers(u, p)

\* Fault: the vless acknowledgement no longer required.
JudgePageOnly(u, h) == h.page = "2xx"

\* _judge: a trojan server has no greeting of its own.
RelayGreets(u, h) == Protocol(u) = "trojan" \/ h.greet = "own"

\* _attempt_ss_relay: the first chunk decrypts.
SSGreets(h) == h.greet = "own"

\* _socks5_setup grants twice; CONNECT is granted by any 2xx or 3xx.
ForwardGreets(u, h) ==
    h.greet \in (IF Protocol(u) = "http" THEN {"own", "http2xx"} ELSE {"own"})

\* After the greeting a 2xx or 3xx page must follow.
Judge(u, h) ==
    /\ h.page = "2xx"
    /\ CASE Protocol(u) = "ss" -> SSGreets(h)
         [] Protocol(u) \in {"http", "socks5"} -> ForwardGreets(u, h)
         [] OTHER -> RelayGreets(u, h)

-----------------------------------------------------------------------------
VARIABLES line, stage, peer, alive, rate, out
dialVars == <<line, stage, peer, alive, rate, out>>

NoPeer == [kind |-> "none", proto |-> "none", tls |-> FALSE, creds |-> FALSE,
           wire |-> "tcp", target |-> "none"]
NoOut == [host |-> "none"]

DialInit ==
    /\ line \in Lines
    /\ stage = "scraped"
    /\ peer = NoPeer
    /\ alive = FALSE
    /\ rate = NoRate
    /\ out = NoOut

Parse ==
    /\ stage = "scraped"
    /\ stage' = IF ParseRaises(line) THEN "aborted"
                ELSE IF Parses(line) THEN "untested" ELSE "dropped"
    /\ UNCHANGED <<line, peer, alive, rate, out>>

\* probe() dismisses a node it cannot certify without touching the network.
Dismiss ==
    /\ stage = "untested"
    /\ ~Probeable(line)
    /\ stage' = "judged"
    /\ UNCHANGED <<line, peer, alive, rate, out>>

\* _dial: a dressed server name does not resolve.
Dial ==
    /\ stage = "untested"
    /\ Probeable(line)
    /\ \E p \in Peers :
        /\ peer' = p
        /\ stage' = IF ServerOf(line).dressed \/ p.kind = "refuses" \/ ChallengeRaises(line)
                    THEN "judged" ELSE "connected"
    /\ UNCHANGED <<line, alive, rate, out>>

Handshake ==
    /\ stage = "connected"
    /\ \E h \in Answers(line, peer) : alive' = Judge(line, h)
    /\ stage' = IF alive' /\ Gate THEN "measuring" ELSE "judged"
    /\ UNCHANGED <<line, peer, rate, out>>

\* _measure_body, _ss_body_kb: None when no byte of the body arrived.
Measure ==
    /\ stage = "measuring"
    /\ rate' \in Rates \cup {NoRate}
    /\ stage' = "judged"
    /\ UNCHANGED <<line, peer, alive, out>>

\* _admit_batch on a verdict whose URI is still the probed one.
Certified(u, a, r) ==
    /\ a
    /\ Renders(u)
    /\ Gate => r # NoRate /\ r >= Floor

Admit ==
    /\ stage = "judged"
    /\ stage' = IF Certified(line, alive, rate) THEN "alive" ELSE "dead"
    /\ UNCHANGED <<line, peer, alive, rate, out>>

\* render_config over a tunnel that was assigned this node.  A node that raises
\* takes the whole config with it; a URI replaced after the gate can, and that
\* is NodePool's matter.
Render ==
    /\ stage = "alive"
    /\ Renders(line)
    /\ stage' = "serving"
    /\ out' = Outbound(line)
    /\ UNCHANGED <<line, peer, alive, rate>>

DialNext == Parse \/ Dismiss \/ Dial \/ Handshake \/ Measure \/ Admit \/ Render

DialSpec == DialInit /\ [][DialNext]_dialVars

-----------------------------------------------------------------------------
(* Properties. *)

\* The variables keep their types: a parsed line has one of the protocols the
\* store and the renderer know, a peer is one of Peers once dialled.
DialTypeOK ==
    /\ line \in Lines
    /\ stage \in {"scraped", "aborted", "dropped", "untested", "connected", "measuring",
                  "judged", "alive", "dead", "serving"}
    /\ stage \notin {"scraped", "aborted", "dropped"} => Protocol(line) \in Protocols
    /\ peer = NoPeer \/ peer \in Peers
    /\ alive \in BOOLEAN
    /\ rate \in Rates \cup {NoRate}
    /\ out = NoOut \/ out = Outbound(line)

Genuine(u, p) ==
    /\ p.kind = "relay" /\ p.proto = Protocol(u) /\ p.creds
    /\ p.wire = "tcp" /\ p.target = "2xx" /\ p.tls = ProbeTls(u)

\* ADR-0006: alive means the server completed the node's own protocol to the
\* target.  vless, ss and socks5 are certified by their greeting; trojan has
\* none and CONNECT accepts any 2xx, so there a responder that answers 200 to
\* everything passes too, and nothing else does.
HandshakeCertifies ==
    stage \in {"alive", "serving"} =>
        \/ Genuine(line, peer)
        \/ Protocol(line) \in {"trojan", "http"} /\ peer.kind = "web2xx"

\* The fields in which sing-box may dial otherwise than the probe did, and the
\* features of a line that make it so.  vless with an sni but no security is
\* probed over TLS and rendered in the clear, and only the renderer knows the
\* serverName spelling.  The probe verifies no certificate, dresses no hello,
\* speaks neither REALITY nor the vless flow and logs in nowhere.
SniAlone(u) == Protocol(u) = "vless" /\ u.sni = "sni" /\ u.security \notin {"tls", "reality"}
ReadersPart(u) ==
    { f \in {"tls", "name", "check", "hello", "reality", "flow", "auth"} :
        CASE f = "tls"     -> SniAlone(u)
          [] f = "name"    -> SniAlone(u) \/ (ProbeTls(u) /\ u.sni = "alt")
          [] f = "check"   -> ProbeTls(u) /\ "insecure" \notin u.options
          [] f = "hello"   -> ProbeTls(u) /\ "hello" \in u.options
          [] f = "reality" -> u.security = "reality" /\ "pbk" \in u.options
          [] f = "flow"    -> Protocol(u) = "vless" /\ "flow" \in u.options
          [] f = "auth"    -> Protocol(u) \in {"http", "socks5"} /\ u.user # "none" }

\* What sing-box dials for a tunnel is what the probe dialled, field by field:
\* host, port, transport and plugin always (ADR-0006: what the probe cannot
\* speak is not certified), TLS, its server name and the rest except where a
\* feature of the line named in ReadersPart sets that very field apart.
DialsAsProbed ==
    stage = "serving" =>
        \A f \in DOMAIN out : out[f] = ProbedAs(line)[f] \/ f \in ReadersPart(line)

\* The pool names a node by server and port of the parsed line; whatever the
\* renderer accepts of it dials that very endpoint, unless the server column
\* is one that cannot be dialled at all.
RowNamesEndpoint ==
    stage \notin {"scraped", "aborted", "dropped"} /\ Renders(line) /\ ~ServerOf(line).dressed =>
        /\ Outbound(line).host = ServerOf(line).host
        /\ Outbound(line).port = ServerOf(line).port
=============================================================================
