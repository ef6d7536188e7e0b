------------------------------ MODULE Listener ------------------------------
(***************************************************************************)
(* The accept loops of the transport factories: StartAccept and DoAccept  *)
(* of TcpTransportFactoryImpl (tcp_transport.cc) and of                   *)
(* SslTransportFactoryImpl (ssl.cc), driven by the downstream server's    *)
(* accept callback.                                                       *)
(*                                                                         *)
(* One async_accept is outstanding at a time; the loop re-arms itself     *)
(* from a completion handler when the callback returns true.  The TCP     *)
(* loop re-arms from the accept handler.  The TLS loop performs the       *)
(* server handshake first and re-arms from the handshake handler, and an  *)
(* accept error ends it.                                                  *)
(*                                                                         *)
(* A configuration may declare several servers (one listener each), each  *)
(* over TCP or TLS.  Clients connect once each, to one listener; the      *)
(* kernel queues them in its listen backlog whether or not an accept is   *)
(* outstanding.  A client in Silent connects and never sends its part of  *)
(* the TLS handshake.                                                     *)
(***************************************************************************)
EXTENDS Naturals, Sequences

CONSTANTS
  Listeners,        \* the listeners (server blocks)
  Kind,             \* Kind[l]: the transport factory of l, "tcp" or "ssl"
  Clients,          \* the connecting clients
  ListenerOf,       \* ListenerOf[c]: the listener client c connects to
  Silent,           \* clients that never complete a TLS handshake
  MaxAcceptErrors,  \* MaxAcceptErrors[l]: bound on l's accept errors (e.g. EMFILE)
  NoClient,         \* a null transport
  Unconnected       \* the fresh socket a failed TCP accept leaves unconnected

ASSUME
  /\ Silent \subseteq Clients
  /\ Kind \in [Listeners -> {"tcp", "ssl"}]
  /\ ListenerOf \in [Clients -> Listeners]
  /\ MaxAcceptErrors \in [Listeners -> Nat]

VARIABLES
  cstate,        \* cstate[c]: out, queued, handshaking, handed or failed
  backlog,       \* backlog[l]: connected clients not yet accepted, in order
  armed,         \* armed[l]: an async_accept is outstanding on l's acceptor
  acceptErrors,  \* acceptErrors[l]: accept errors so far
  calls,         \* calls[l]: l's accept callback invocations, in order
  accepted       \* accepted[l]: the clients l's acceptor accepted, in order

vars == <<cstate, backlog, armed, acceptErrors, calls, accepted>>

(* The accept callback the downstream server installs (spec 4.6 and 7):  *)
(* it returns "continue accepting" for every connection and for errors    *)
(* that leave the acceptor usable, which are the only ones modelled.      *)
ContinueAccepting(ec) == TRUE

(* callback(ec, transport) on listener l and its answer, which re-arms    *)
(* the loop.                                                              *)
Callback(l, ec, c) ==
  /\ calls' = [calls EXCEPT ![l] = Append(@, [ec |-> ec, transport |-> c])]
  /\ armed' = [armed EXCEPT ![l] = ContinueAccepting(ec)]

(* StartAccept on every listener: the acceptor is opened and the first    *)
(* accept armed.                                                          *)
Init ==
  /\ cstate = [c \in Clients |-> "out"]
  /\ backlog = [l \in Listeners |-> <<>>]
  /\ armed = [l \in Listeners |-> TRUE]
  /\ acceptErrors = [l \in Listeners |-> 0]
  /\ calls = [l \in Listeners |-> <<>>]
  /\ accepted = [l \in Listeners |-> <<>>]

(* A client connects and waits in its listener's backlog.                *)
Connect(c) ==
  /\ cstate[c] = "out"
  /\ cstate' = [cstate EXCEPT ![c] = "queued"]
  /\ backlog' = [backlog EXCEPT ![ListenerOf[c]] = Append(@, c)]
  /\ UNCHANGED <<armed, acceptErrors, calls, accepted>>

(* The first connection of l's backlog is accepted.                       *)
Accept(l, to) ==
  /\ armed[l]
  /\ backlog[l] # <<>>
  /\ cstate' = [cstate EXCEPT ![Head(backlog[l])] = to]
  /\ backlog' = [backlog EXCEPT ![l] = Tail(@)]
  /\ accepted' = [accepted EXCEPT ![l] = Append(@, Head(backlog[l]))]

(* An accept fails, at most MaxAcceptErrors[l] times.                     *)
AcceptError(l) ==
  /\ armed[l]
  /\ acceptErrors[l] < MaxAcceptErrors[l]
  /\ acceptErrors' = [acceptErrors EXCEPT ![l] = @ + 1]

(* Mutant of TcpAcceptDone: the handler forgets to re-arm the acceptor.  *)
TcpAcceptDoneNoRearm(l) ==
  /\ Kind[l] = "tcp"
  /\ Accept(l, "handed")
  /\ calls' = [calls EXCEPT ![l] = Append(@, [ec |-> "none",
                                              transport |-> Head(backlog[l])])]
  /\ armed' = [armed EXCEPT ![l] = FALSE]
  /\ UNCHANGED acceptErrors

(* The TCP accept handler: the callback receives the transport and the   *)
(* loop re-arms if it returns true.                                       *)
TcpAcceptDone(l) ==
  /\ Kind[l] = "tcp"
  /\ Accept(l, "handed")
  /\ Callback(l, "none", Head(backlog[l]))
  /\ UNCHANGED acceptErrors

(* The TCP accept handler on an error: the callback receives the error   *)
(* with the fresh, unconnected transport, and the loop re-arms if it     *)
(* returns true.                                                          *)
TcpAcceptFailed(l) ==
  /\ Kind[l] = "tcp"
  /\ AcceptError(l)
  /\ Callback(l, "accept", Unconnected)
  /\ UNCHANGED <<cstate, backlog, accepted>>

(* Mutant of SslAcceptDone: the acceptor is re-armed at once, before the  *)
(* handshake completes.                                                   *)
SslAcceptDoneRearm(l) ==
  /\ Kind[l] = "ssl"
  /\ Accept(l, "handshaking")
  /\ UNCHANGED <<armed, acceptErrors, calls>>

(* The TLS accept handler: the server handshake starts on the accepted   *)
(* socket; nothing re-arms the acceptor until it completes.              *)
SslAcceptDone(l) ==
  /\ Kind[l] = "ssl"
  /\ Accept(l, "handshaking")
  /\ armed' = [armed EXCEPT ![l] = FALSE]
  /\ UNCHANGED <<acceptErrors, calls>>

(* The TLS accept handler on an error: StartClose, callback(ec, nullptr) *)
(* and return; the loop ends whatever the callback answers.              *)
SslAcceptFailed(l) ==
  /\ Kind[l] = "ssl"
  /\ AcceptError(l)
  /\ calls' = [calls EXCEPT ![l] = Append(@, [ec |-> "accept",
                                              transport |-> NoClient])]
  /\ armed' = [armed EXCEPT ![l] = FALSE]
  /\ UNCHANGED <<cstate, backlog, accepted>>

(* The TLS handshake handler: on failure the transport is closed; then   *)
(* callback(ec, ec ? nullptr : transport), and the loop re-arms if it    *)
(* returns true.                                                          *)
SslHandshakeDone(c) ==
  /\ cstate[c] = "handshaking"
  /\ c \notin Silent
  /\ \E ok \in BOOLEAN :
       /\ cstate' = [cstate EXCEPT ![c] = IF ok THEN "handed" ELSE "failed"]
       /\ Callback(ListenerOf[c], IF ok THEN "none" ELSE "handshake",
                   IF ok THEN c ELSE NoClient)
  /\ UNCHANGED <<backlog, acceptErrors, accepted>>

Next ==
  \/ \E c \in Clients : Connect(c) \/ SslHandshakeDone(c)
  \/ \E l \in Listeners :
       \/ TcpAcceptDone(l) \/ TcpAcceptFailed(l)
       \/ SslAcceptDone(l) \/ SslAcceptFailed(l)

(* An outstanding accept completes once a client waits in the backlog,   *)
(* and a client that takes part in its handshake finishes it.  Accept    *)
(* errors and connecting clients are the environment's choice.           *)
Fairness ==
  /\ \A l \in Listeners : WF_vars(TcpAcceptDone(l)) /\ WF_vars(SslAcceptDone(l))
  /\ \A c \in Clients : WF_vars(SslHandshakeDone(c))

Spec == Init /\ [][Next]_vars /\ Fairness

-----------------------------------------------------------------------------
(* Spec 4.6: the listener does not block on any individual handshake, and *)
(* spec 7: only errors that make the acceptor unusable end accepting.     *)
(* Every client of a listener in L that connects and takes part in the   *)
(* protocol is eventually handed to the accept callback (or rejected by  *)
(* a failed handshake), whatever other clients do.                        *)
AcceptProgress(L) ==
  \A c \in {c \in Clients \ Silent : ListenerOf[c] \in L} :
    cstate[c] = "queued" ~> cstate[c] \in {"handed", "failed"}

(* ... for the TCP listeners (TcpTransportFactoryImpl::DoAccept).         *)
TcpAcceptProgress == AcceptProgress({l \in Listeners : Kind[l] = "tcp"})

(* ... for the TLS listeners (SslTransportFactoryImpl::DoAccept).         *)
SslAcceptProgress == AcceptProgress({l \in Listeners : Kind[l] = "ssl"})

(* Spec 5: a listener delivers the connections it accepts to the accept   *)
(* callback in the order the OS accepted them.  The TLS loop keeps this   *)
(* order only because it accepts the next connection once the previous   *)
(* handshake has finished (SslTransportFactoryImpl::DoAccept, line 108).  *)
Settled(c) == cstate[c] \in {"handed", "failed"}

DeliveredInAcceptOrder ==
  \A l \in Listeners : \A i, j \in DOMAIN accepted[l] :
    i < j /\ Settled(accepted[l][j]) => Settled(accepted[l][i])

=============================================================================
