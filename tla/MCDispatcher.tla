---------------------------- MODULE MCDispatcher ----------------------------
(* Instances of Dispatcher for TLC.                                         *)
EXTENDS Dispatcher

(* A protocol known from its first chunk, one that needs two, one that      *)
(* names no domain, and a payload no sniffer knows.                         *)
ClientSpeaks == {<<"http", 1>>, <<"tls", 2>>, <<"bittorrent", 1>>, <<"none", 1>>}
=============================================================================
