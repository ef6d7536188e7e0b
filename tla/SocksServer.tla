------------------------------ MODULE SocksServer ------------------------------
(***************************************************************************)
(* The downstream SOCKS5 server of spec 4.6 composed with the accept      *)
(* loops that feed it (Listener) and with the upstream factory it asks    *)
(* for a connection to the target.  The server's own source is not in the *)
(* tree: its state machine, its accept callback and its mapping of        *)
(* failures to response codes (spec 7) follow the spec.  The upstream is  *)
(* the UpstreamFactory contract.  DirectUpstream and SocksUpstream over  *)
(* TCP are checked to implement it; SocksUpstream over TLS does not (its  *)
(* failed connect calls back twice, ssl_connect_double_callback).         *)
(*                                                                         *)
(* Each accepted transport runs its own session: read the AuthMethodList, *)
(* write the AuthMethodSelect, read the RequestPacket, ask the upstream,  *)
(* write the ResponsePacket, then relay (Relay) or close.  Every step is  *)
(* the completion handler of one read or write; the upstream's callback   *)
(* runs inside the upstream's own step, or inside StartRequest when the   *)
(* factory answers at once.                                               *)
(***************************************************************************)
EXTENDS Listener

CONSTANTS
  ErrorCodes,     \* the error codes an upstream callback may carry
  Bound,          \* bound addresses an upstream transport may report
  DefaultBound    \* the default Address, 0.0.0.0:0

VARIABLES
  spc,        \* spc[c]: where client c's session is
  resp,       \* resp[c]: the ResponsePacket the session wrote, or NoClient
  upT,        \* upT[c]: none, held, relayed or closed: the upstream transport
  requested,  \* the sessions that called UpstreamFactory::StartRequest
  answer      \* answer[c]: the upstream callback's arguments for c

serverVars == <<spc, resp, upT, requested, answer>>
allVars == <<vars, serverVars>>

Up == INSTANCE UpstreamFactory
  WITH Req <- Clients, NoError <- "none", NoTransport <- NoClient,
       None <- NoClient

(* Spec 7: the ResponseCode sent for the error an upstream reported.      *)
MapError(ec) ==
  CASE ec = "connect" -> "ConnectionRefused"
    [] ec = "resolve" -> "HostUnreachable"
    [] ec = "rep"     -> "UpstreamRep"
    [] OTHER          -> "GeneralFailure"

(* The server's accept callback: a transport delivered without an error   *)
(* starts a session; every call answers "continue" (ContinueAccepting).   *)
AcceptCallback ==
  spc' = [c \in Clients |->
            IF \E l \in Listeners :
                 calls'[l] # calls[l]
                 /\ calls'[l][Len(calls'[l])] = [ec |-> "none", transport |-> c]
            THEN "greeting" ELSE spc[c]]

(* A step of a listener together with the callback it invokes.           *)
WithCallback(A) == A /\ AcceptCallback /\ UNCHANGED <<resp, upT, requested, answer>>

ServerInit ==
  /\ Init
  /\ spc = [c \in Clients |-> "none"]
  /\ resp = [c \in Clients |-> NoClient]
  /\ upT = [c \in Clients |-> "none"]
  /\ Up!Init

(* Write a ResponsePacket with REP rep and bound address bound.           *)
Respond(c, rep, bound) ==
  /\ resp' = [resp EXCEPT ![c] = [rep |-> rep, bound |-> bound]]
  /\ spc' = [spc EXCEPT ![c] = "responding"]

(* S0 -> S1: the AuthMethodList read completes.  A transport error, a     *)
(* VER other than 5 or an empty method list closes silently; NoAuth among *)
(* the methods selects it, anything else selects NoAcceptable.            *)
GreetingRead(c) ==
  /\ spc[c] = "greeting"
  /\ \E next \in {"selecting", "rejecting", "closed"} :
       spc' = [spc EXCEPT ![c] = next]
  /\ UNCHANGED <<resp, upT, requested, answer>>

(* The AuthMethodSelect write completes: after NoAuth the request is read *)
(* next (S2); after NoAcceptable, or on an error, the session closes.     *)
SelectWritten(c) ==
  /\ spc[c] \in {"selecting", "rejecting"}
  /\ \E ok \in BOOLEAN :
       spc' = [spc EXCEPT ![c] = IF ok /\ spc[c] = "selecting"
                                   THEN "request" ELSE "closed"]
  /\ UNCHANGED <<resp, upT, requested, answer>>

(* S4, the request callback the session passes to the upstream factory:  *)
(* with a transport, Success with its local address as the bound         *)
(* address (spec 6.2); without one, whatever the error code, the failure *)
(* mapped by spec 7 (spec 10: a null transport is a failure).             *)
OnUpstream(c) ==
  LET a == answer'[c] IN
  IF a.transport # NoClient
    THEN Respond(c, "Success", a.transport)
         /\ upT' = [upT EXCEPT ![c] = "held"]
    ELSE Respond(c, MapError(a.ec), DefaultBound) /\ UNCHANGED upT

(* S2 -> S3: the RequestPacket read completes.  A transport error closes  *)
(* silently; an unknown ATYP and a CMD other than Connect are answered    *)
(* with their codes and the default address; a Connect calls              *)
(* StartRequest, whose callback may run before it returns.                *)
RequestRead(c) ==
  /\ spc[c] = "request"
  /\ \/ /\ spc' = [spc EXCEPT ![c] = "closed"]
        /\ UNCHANGED <<resp, upT, requested, answer>>
     \/ /\ \E rep \in {"AddressTypeNotSupported", "CommandNotSupported"} :
             Respond(c, rep, DefaultBound)
        /\ UNCHANGED <<upT, requested, answer>>
     \/ /\ Up!StartRequest(c)
        /\ spc' = [spc EXCEPT ![c] = "upstream"]
        /\ UNCHANGED <<resp, upT>>
     \/ /\ Up!StartAndAnswer(c)
        /\ OnUpstream(c)

(* The upstream factory invokes the session's request callback.          *)
UpstreamAnswered(c) ==
  /\ spc[c] = "upstream"
  /\ Up!Answer(c)
  /\ OnUpstream(c)

(* The ResponsePacket write completes: after Success the relay takes both *)
(* transports (S5); otherwise, or on an error, both transports are        *)
(* closed (spec 7: the failing path closes both).                         *)
ResponseWritten(c) ==
  /\ spc[c] = "responding"
  /\ \E ok \in BOOLEAN :
       IF ok /\ resp[c].rep = "Success"
         THEN /\ spc' = [spc EXCEPT ![c] = "relaying"]
              /\ upT' = [upT EXCEPT ![c] = "relayed"]
         ELSE /\ spc' = [spc EXCEPT ![c] = "closed"]
              /\ upT' = [upT EXCEPT ![c] = IF @ = "held" THEN "closed" ELSE @]
  /\ UNCHANGED <<resp, requested, answer>>

Session(c) ==
  \/ GreetingRead(c) \/ SelectWritten(c) \/ RequestRead(c)
  \/ UpstreamAnswered(c) \/ ResponseWritten(c)

ServerNext ==
  \/ WithCallback(Next)
  \/ \E c \in Clients : Session(c) /\ UNCHANGED vars

(* The listeners' fairness (Listener), the upstream's promise to answer  *)
(* every request (UpstreamFactory), and the completion of the response   *)
(* write: ten bytes fit the socket's send buffer.  A client may keep      *)
(* silent for ever, so the session's reads are not assumed to complete.  *)
ServerFairness ==
  /\ \A l \in Listeners :
       /\ WF_allVars(WithCallback(TcpAcceptDone(l)))
       /\ WF_allVars(WithCallback(SslAcceptDone(l)))
  /\ \A c \in Clients :
       /\ WF_allVars(WithCallback(SslHandshakeDone(c)))
       /\ WF_allVars(UpstreamAnswered(c) /\ UNCHANGED vars)
       /\ WF_allVars(ResponseWritten(c) /\ UNCHANGED vars)

ServerSpec == ServerInit /\ [][ServerNext]_allVars /\ ServerFairness

=============================================================================
