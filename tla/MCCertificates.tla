--------------------------- MODULE MCCertificates ---------------------------
(* Two nodes.  The configurations with a certificate of their own share an *)
(* account and a variable of the environment; the others are there for the *)
(* resolution of settings.                                                 *)
EXTENDS Certificates

Base == [NodeType |-> "vless", EnableReality |-> FALSE, Transport |-> "tcp", Security |-> "tls",
         Vision |-> "off", VlessDecryption |-> "none", XHTTP |-> [Host |-> "h", Path |-> "p",
         Mode |-> "", Extra |-> ""], RealityMinClientVer |-> "", RealityMldsa65Seed |-> "",
         RealityShow |-> FALSE, EnableProxyProtocol |-> FALSE, DisableSniffing |-> FALSE,
         EnableFallback |-> "off", AnyTLSFallback |-> "",
         CertConfig |-> [CertMode |-> "file", Files |-> TRUE, Valid |-> TRUE, CertDomain |-> "d1",
                         Email |-> "e", DNSEnv |-> [x \in {} |-> ""]]]

With(mode, domain, vs) ==
    [Base EXCEPT !.CertConfig = [@ EXCEPT !.CertMode = mode, !.CertDomain = domain, !.DNSEnv = vs]]

Dns1 == With("dns", "d1", [x \in {"K"} |-> "v1"])
PanelDns1 == [Dns1 EXCEPT !.Security = ""]
Dns2 == With("dns", "d2", [x \in {"K"} |-> "v2"])
Http2 == With("http", "d2", [x \in {} |-> ""])
Refused == With("dns", "d2", [x \in {"PATH"} |-> "v2"])
Unsettable == With("dns", "d2", [x \in {"K", "L"} |-> IF x = "K" THEN "v2" ELSE "nul"])
Invalid == [Dns2 EXCEPT !.CertConfig.Valid = FALSE]
Panel == [Base EXCEPT !.Transport = "", !.Security = "", !.Vision = "", !.VlessDecryption = ""]

Quiet == [Base EXCEPT !.DisableSniffing = TRUE]

Others == {Base, Panel,
           [Panel EXCEPT !.EnableReality = TRUE],
           [Panel EXCEPT !.RealityMinClientVer = "2", !.EnableFallback = "dest"],
           [Panel EXCEPT !.NodeType = "anytls", !.EnableReality = TRUE, !.AnyTLSFallback = "host:port"],
           [Panel EXCEPT !.NodeType = "anytls", !.AnyTLSFallback = "blocked"],
           [Panel EXCEPT !.EnableFallback = "nodest", !.XHTTP.Extra = "bad"],
           [Base EXCEPT !.Transport = "xhttp"],
           [Base EXCEPT !.Transport = "ws", !.Security = "none", !.EnableProxyProtocol = TRUE],
           [Base EXCEPT !.CertConfig.Files = FALSE]}

(* The pair shares account and environment; the rest are alone, among them *)
(* the node that is rebuilt with and without a certificate.                *)
MCLocals == {<<Dns1, Dns2>>} \cup
            ({Quiet} \X (Others \cup {PanelDns1, Http2, Refused, Unsettable, Invalid}))

Tls1 == [server_port |-> 1, network |-> "", tls |-> 1, flow |-> "xtls-rprx-vision",
         decryption |-> "", vless_decryption |-> "mlkem"]
Tls0 == [server_port |-> 2, network |-> "grpc", tls |-> 0, flow |-> "", decryption |-> "",
         vless_decryption |-> ""]
Settings2 == [server_name |-> "s", private_key |-> "k", dest |-> "", dest_port |-> "",
              server_port |-> "", min_client_ver |-> "", minClientVer |-> "",
              mldsa65_seed |-> "", mldsa65Seed |-> "", show |-> FALSE]
Tls2(t, network) == [server_port |-> 1, network |-> network, tls |-> 2, flow |-> "",
                     decryption |-> "", vless_decryption |-> "", tls_settings |-> t]

MCResponses(l) ==
    CASE l \in {Quiet, Dns1, Dns2} -> {Tls1}
      [] Acme(l) /\ l \notin {Dns1, Dns2} -> {Tls1, Tls0}
      [] OTHER -> {Tls1, Tls0, Tls2(Settings2, "h2"), Tls2(Settings2, "bogus"), [Tls1 EXCEPT !.server_port = 0],
          Tls2([Settings2 EXCEPT !.server_name = "", !.private_key = ""], ""),
          Tls2([Settings2 EXCEPT !.dest = "d", !.dest_port = "9", !.minClientVer = "3"], "ws")}

MCOrder == <<1, 2>>
MCInitEnv == [x \in {"K", "L", "PATH"} |-> IF x = "PATH" THEN "bin" ELSE "unset"]

(* The hypothesis of EnvironmentGivenBack. *)
ASSUME MCRefused == RefusedAlone
=============================================================================
