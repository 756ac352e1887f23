------------------------------- MODULE Settings -------------------------------
(***************************************************************************)
(* How an inbound comes out of two sources: the panel's node response      *)
(* (api/v2board/v2board.go, ParseUniProxyNodeResponse) and the local       *)
(* ControllerConfig (service/controller/inboundbuilder.go and              *)
(* stream_resolve.go).  Pure operators, used by Certificates.              *)
(*                                                                         *)
(* A response r and a local configuration l are records; Blank is a field  *)
(* that is absent or blank.  A build that fails is the record Fail.        *)
(***************************************************************************)
EXTENDS Integers, Sequences

Fail == [ok |-> FALSE]
Blank == ""

(* strings.TrimSpace(v) != "" along a list of alternatives *)
FirstSet(s) ==
    IF \A i \in DOMAIN s : s[i] = Blank THEN Blank
    ELSE s[CHOOSE i \in DOMAIN s : s[i] # Blank /\ \A j \in 1..(i - 1) : s[j] = Blank]

defaultRealityMinClientVer == "1.8.0"

-----------------------------------------------------------------------------
(* The panel's side. *)

resolvePanelMinClientVer(t) ==
    FirstSet(<<t.min_client_ver, t.minClientVer, defaultRealityMinClientVer>>)

(* The REALITY settings as JSON, or "no settings" when the response names  *)
(* neither a server nor a key.  A destination is a host and a port.        *)
buildRealitySettings(t) ==
    LET host == FirstSet(<<t.dest, t.server_name>>)
    IN  IF t.server_name = Blank /\ t.private_key = Blank
        THEN [present |-> FALSE]
        ELSE [present |-> TRUE, names |-> t.server_name, key |-> t.private_key,
              dest |-> <<host, FirstSet(<<t.dest_port, t.server_port, "443">>)>>,
              minClientVer |-> resolvePanelMinClientVer(t),
              mldsa65Seed |-> FirstSet(<<t.mldsa65_seed, t.mldsa65Seed>>),
              show |-> t.show]

(* EnableReality forces REALITY on a node the panel does not run with it,  *)
(* AnyTLS nodes excepted; there are no settings to go with it then.        *)
ForcesReality(l, r) == l.EnableReality /\ r.tls # 2 /\ l.NodeType # "anytls"

ParseUniProxyNodeResponse(l, r) ==
    IF r.server_port \notin 1..65535 THEN Fail
    ELSE [ok |-> TRUE, port |-> r.server_port,
          TransportProtocol |-> FirstSet(<<r.network, "tcp">>),
          EnableTLS |-> r.tls \in {1, 2} \/ ForcesReality(l, r),
          TLSType |-> IF r.tls = 2 \/ ForcesReality(l, r) THEN "reality"
                      ELSE IF r.tls = 1 THEN "tls" ELSE Blank,
          EnableVision |-> \/ ForcesReality(l, r)
                           \/ r.tls \in {1, 2} /\ r.flow = "xtls-rprx-vision",
          RealitySettings |-> IF r.tls = 2 THEN buildRealitySettings(r.tls_settings)
                              ELSE [present |-> FALSE],
          VlessDecryption |-> FirstSet(<<r.decryption, r.vless_decryption>>)]

-----------------------------------------------------------------------------
(* Local configuration against the panel. *)

normalizeTransportProtocol(p) == IF p \in {"http", "h2", "h3", "quic"} THEN "xhttp" ELSE p

(* conf.TransportProtocol.Build: the core's name, Blank for an unknown one *)
TransportBuild(p) ==
    CASE p \in {"tcp", "raw"} -> "tcp"
      [] p \in {"ws", "websocket"} -> "websocket"
      [] p \in {"xhttp", "splithttp"} -> "splithttp"
      [] p \in {"grpc", "kcp", "httpupgrade", "hysteria"} -> p
      [] OTHER -> Blank

normalizeSecurityType(s) == IF s = "xtls" THEN "tls"
                            ELSE IF s \in {"tls", "reality"} THEN s ELSE Blank

(* mutant: the panel's transport wins *)
resolveTransportPanel(l, info) ==
    normalizeTransportProtocol(FirstSet(<<info.TransportProtocol, l.Transport, "tcp">>))

resolveTransport(l, info) ==
    normalizeTransportProtocol(FirstSet(<<l.Transport, info.TransportProtocol, "tcp">>))

resolveSecurity(l, info) ==
    CASE l.Security \in {"none", "0"} -> Blank
      [] l.Security \notin {Blank, "none", "0"} -> normalizeSecurityType(l.Security)
      [] OTHER -> normalizeSecurityType(info.TLSType)

(* Over XHTTP the panel has to ask, elsewhere too: the two branches of the *)
(* code agree.                                                             *)
resolveVision(l, info) == CASE l.Vision = "on" -> TRUE
                            [] l.Vision = "off" -> FALSE
                            [] OTHER -> info.EnableVision

resolveVlessDecryption(l, info) ==
    FirstSet(<<l.VlessDecryption, info.VlessDecryption, "none">>)

(* Host and path of the transport: the panel's parser sets neither. *)
buildXHTTPSettings(l) ==
    IF l.XHTTP.Path = Blank \/ l.XHTTP.Extra = "bad" THEN Fail
    ELSE [ok |-> TRUE, Host |-> l.XHTTP.Host, Path |-> l.XHTTP.Path,
          Mode |-> FirstSet(<<l.XHTTP.Mode, "auto">>), Extra |-> l.XHTTP.Extra]

applyRealityLocalOverrides(l, s) ==
    [s EXCEPT !.minClientVer = FirstSet(<<l.RealityMinClientVer, @, defaultRealityMinClientVer>>),
              !.mldsa65Seed = FirstSet(<<l.RealityMldsa65Seed, @>>),
              !.show = @ \/ l.RealityShow]

(* The switch on the network type. *)
TransportSettings(l, network) ==
    CASE network = "splithttp" -> buildXHTTPSettings(l)
      [] network = "websocket" -> [ok |-> TRUE, Host |-> l.XHTTP.Host, Path |-> l.XHTTP.Path]
      [] network = Blank          -> Fail
      [] OTHER                 -> [ok |-> TRUE]

(* getCertFile, and the two checks before it.  cert says what the ACME     *)
(* call answered: TRUE when it returned the paths of a certificate.        *)
CertMode(l) == l.CertConfig.CertMode
Acme(l) == CertMode(l) \in {"dns", "http"}

buildTLSSettings(l, cert) ==
    IF \/ CertMode(l) = "file" /\ l.CertConfig.Files
       \/ Acme(l) /\ cert
    THEN [ok |-> TRUE, pair |-> IF Acme(l) THEN l.CertConfig.CertDomain ELSE "file"]
    ELSE Fail

SecuritySettings(l, info, cert) ==
    CASE resolveSecurity(l, info) = "reality" ->
            IF info.RealitySettings.present
            THEN [ok |-> TRUE, reality |-> applyRealityLocalOverrides(l, info.RealitySettings)]
            ELSE Fail
      [] resolveSecurity(l, info) = "tls" -> buildTLSSettings(l, cert)
      [] OTHER -> [ok |-> TRUE]

(* PROXY protocol goes to the socket on every network but TCP; "ws" is not *)
(* a name TransportBuild returns, so WebSocket carries it twice.           *)
buildStreamSetting(l, info, cert) ==
    LET network  == TransportBuild(resolveTransport(l, info))
        trans    == TransportSettings(l, network)
        security == SecuritySettings(l, info, cert)
    IN  IF ~trans.ok \/ ~security.ok THEN Fail
        ELSE [ok |-> TRUE, network |-> network, transport |-> trans,
              Security |-> resolveSecurity(l, info), settings |-> security,
              proxy |-> l.EnableProxyProtocol]

(* The certificate is asked for when the transport is fine and security    *)
(* is TLS with a mode that issues certificates.                            *)
AsksCertificate(l, info) ==
    /\ TransportSettings(l, TransportBuild(resolveTransport(l, info))).ok
    /\ resolveSecurity(l, info) = "tls"
    /\ Acme(l)

(* conf.StreamConfig.Build: REALITY runs on three networks only *)
StreamBuilds(s) == s.Security = "reality" => s.network \in {"tcp", "splithttp", "grpc"}

buildVlessFallbacks(l) == l.EnableFallback = "dest"

(* An address is described by what the check finds in it. *)
ValidateFallbackAddr(addr) == addr \in {Blank, "host:port"}

Handler(l, info, stream, settings) ==
    [ok |-> TRUE, protocol |-> l.NodeType, port |-> info.port,
     sniffing |-> ~l.DisableSniffing, stream |-> stream, ProxySettings |-> settings]

(* AnyTLS refuses a transport that does not encrypt. *)
buildAnyTLSHandlerConfig(l, info, stream) ==
    IF /\ stream.Security # Blank /\ StreamBuilds(stream)
       /\ ValidateFallbackAddr(l.AnyTLSFallback)
    THEN Handler(l, info, stream, [fallback |-> l.AnyTLSFallback])
    ELSE Fail

(* VLESS takes no fallbacks together with an encryption of its own; flow   *)
(* is what addNewUser gives the users.                                     *)
buildVless(l, info, stream) ==
    LET decryption == resolveVlessDecryption(l, info) IN
    IF /\ StreamBuilds(stream)
       /\ l.EnableFallback = "off" \/ (decryption = "none" /\ buildVlessFallbacks(l))
    THEN Handler(l, info, stream, [decryption |-> decryption, fallbacks |-> l.EnableFallback,
                                   flow |-> resolveVision(l, info)])
    ELSE Fail

InboundBuilder(l, info, cert) ==
    LET stream == buildStreamSetting(l, info, cert)
    IN  IF ~stream.ok THEN Fail
        ELSE IF l.NodeType = "anytls" THEN buildAnyTLSHandlerConfig(l, info, stream)
        ELSE buildVless(l, info, stream)
==============================================================================
