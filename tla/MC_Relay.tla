------------------------------- MODULE MC_Relay -------------------------------
(* The relay between a downstream D and an upstream U, each over TCP or TLS. *)
EXTENDS Relay, TLC

MCTransports == {D, U}
MCTcp == (D :> "tcp") @@ (U :> "tcp")
MCSslDown == (D :> "ssl") @@ (U :> "tcp")
MCSslBoth == (D :> "ssl") @@ (U :> "ssl")
=============================================================================
