---------------------------- MODULE MC_SocksServer ----------------------------
(* The listeners of MC_Listener, each accepted client running a SOCKS5     *)
(* session, over an upstream that may answer with a transport, with a      *)
(* connect or resolve error, or with an empty error and no transport.      *)
EXTENDS SocksServer, MC_Listener

CONSTANTS b1, zero

MCErrorCodes == {"none", "connect", "resolve"}
MCBound == {b1}
=============================================================================
