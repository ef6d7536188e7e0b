----------------------------- MODULE MC_Listener -----------------------------
(* Two servers, one over TCP and one over TLS, with two clients each; the   *)
(* first client of each stays silent in any TLS handshake.                  *)
EXTENDS Listener, TLC

CONSTANTS l1, l2, c1, c2, c3, c4

MCListeners == {l1, l2}
MCKind == (l1 :> "tcp") @@ (l2 :> "ssl")
MCClients == {c1, c2, c3, c4}
MCListenerOf == (c1 :> l1) @@ (c2 :> l1) @@ (c3 :> l2) @@ (c4 :> l2)
MCSilent == {c1, c3}
MCMaxAcceptErrors == [l \in MCListeners |-> 1]
MCNoSslErrors == (l1 :> 1) @@ (l2 :> 0)
=============================================================================
