--------------------------- MODULE DirectUpstream ---------------------------
(***************************************************************************)
(* DirectTcpUpstreamFactory::StartRequest (the direct_upstream.cc part of *)
(* socks_upstream.cc): the target is dialled from the relay itself over   *)
(* the TCP transport factory.  A domain name is resolved asynchronously   *)
(* and only the first result is dialled; an IPv4 or IPv6 address is      *)
(* converted to an asio endpoint and dialled at once; an unknown address *)
(* type is answered at once with an empty error code and a null          *)
(* transport.                                                             *)
(*                                                                         *)
(* Addresses are the Address struct of common.h: a SOCKS5 address type,   *)
(* the host (the address bytes for IPv4 and IPv6, the name for a domain)  *)
(* and a port.  Endpoints are asio tcp::endpoints: an address family, the *)
(* address bytes and a port.  Requests share no mutable state but the     *)
(* resolver object, so they are independent actors; a success hands over *)
(* the transport, whose GetLocalAddress is the bound address the server   *)
(* reports.                                                               *)
(***************************************************************************)
EXTENDS Naturals, Sequences

CONSTANTS
  Req,              \* the requests (StartRequest calls)
  Addresses,        \* the Address values a request may carry
  ResolverResults,  \* the endpoint lists a resolution may return
  Reachable,        \* endpoints that accept a connection
  LocalEndpoint,    \* LocalEndpoint[f]: local endpoint of a socket of family f
  NoEndpoint,       \* no endpoint dialled yet
  NoTransport,      \* a null transport
  None              \* no request or answer yet

(* AddressType (common.h): the SOCKS5 ATYP values.                        *)
kIPv4 == 1
kDomainName == 3
kIPv6 == 4

(* The sizes of address_v4::bytes_type and address_v6::bytes_type.       *)
BytesSize == [v4 |-> 4, v6 |-> 16]

(* The default Address (common.h): 0.0.0.0 port 0, of type IPv4.          *)
DefaultAddress == [type |-> kIPv4, host |-> <<0, 0, 0, 0>>, port |-> 0]

(* Address::FromAsioEndpoint: the bytes of a v4 or v6 address become the  *)
(* host, with the type and port set to match; any other endpoint leaves  *)
(* the default Address with type 0xff.                                    *)
FromAsioEndpoint(e) ==
  CASE e.family = "v4" -> [type |-> kIPv4, host |-> e.bytes, port |-> e.port]
    [] e.family = "v6" -> [type |-> kIPv6, host |-> e.bytes, port |-> e.port]
    [] OTHER -> [DefaultAddress EXCEPT !.type = 255]

ASSUME
  /\ \A a \in Addresses : a.type \in 0..255 /\ a.port \in 0..65535
  /\ \A res \in ResolverResults : res # <<>>
  /\ \A f \in {"v4", "v6"} : LocalEndpoint[f].family = f

ErrorCodes == {"none", "resolve", "connect"}

VARIABLES
  pc,       \* pc[r]: idle, resolving, connecting or done
  request,  \* request[r]: the Address StartRequest was called with
  target,   \* target[r]: the endpoint StartConnect dials
  tstate,   \* tstate[r]: none, closed or handed (to the callback)
  replies   \* replies[r]: the callback invocations for r, in order

vars == <<pc, request, target, tstate, replies>>

Reply(r, res) == replies' = [replies EXCEPT ![r] = Append(@, res)]

Init ==
  /\ pc = [r \in Req |-> "idle"]
  /\ request = [r \in Req |-> None]
  /\ target = [r \in Req |-> NoEndpoint]
  /\ tstate = [r \in Req |-> "none"]
  /\ replies = [r \in Req |-> <<>>]

(* Mutant of IpEndpoint: the IPv6 case is a copy of the IPv4 one, so the *)
(* host is copied into an address_v4.                                     *)
IpEndpointAsV4(a) ==
  [family |-> "v4", bytes |-> [i \in 1..4 |-> a.host[i]], port |-> a.port]

(* The IPv4 and IPv6 cases of StartRequest: address.host is copied into  *)
(* the bytes_type of the family, and the endpoint takes address.port.    *)
IpEndpoint(a) ==
  LET f == IF a.type = kIPv4 THEN "v4" ELSE "v6"
  IN  [family |-> f, bytes |-> [i \in 1..BytesSize[f] |-> a.host[i]],
       port |-> a.port]

(* StartRequest: the switch on address.type.                              *)
StartRequest(r) ==
  /\ pc[r] = "idle"
  /\ \E a \in Addresses :
       /\ request' = [request EXCEPT ![r] = a]
       /\ CASE a.type = kDomainName ->
                 /\ pc' = [pc EXCEPT ![r] = "resolving"]
                 /\ UNCHANGED <<target, replies>>
            [] a.type \in {kIPv4, kIPv6} ->
                 /\ target' = [target EXCEPT ![r] = IpEndpoint(a)]
                 /\ pc' = [pc EXCEPT ![r] = "connecting"]
                 /\ UNCHANGED replies
            [] OTHER ->
                 /\ pc' = [pc EXCEPT ![r] = "done"]
                 /\ Reply(r, [ec |-> "none", transport |-> NoTransport])
                 /\ UNCHANGED target
  /\ UNCHANGED tstate

(* Mutant of ResolveDone: a failed resolution is logged and dropped.     *)
ResolveDoneNoCallback(r) ==
  /\ pc[r] = "resolving"
  /\ \/ /\ pc' = [pc EXCEPT ![r] = "done"]
        /\ UNCHANGED <<target, replies>>
     \/ \E res \in ResolverResults :
          /\ target' = [target EXCEPT ![r] = Head(res)]
          /\ pc' = [pc EXCEPT ![r] = "connecting"]
          /\ UNCHANGED replies
  /\ UNCHANGED <<request, tstate>>

(* The async_resolve handler: an error goes to the callback as it is;    *)
(* otherwise StartConnect with *iter, the first result only.             *)
ResolveDone(r) ==
  /\ pc[r] = "resolving"
  /\ \/ /\ pc' = [pc EXCEPT ![r] = "done"]
        /\ Reply(r, [ec |-> "resolve", transport |-> NoTransport])
        /\ UNCHANGED target
     \/ \E res \in ResolverResults :
          /\ target' = [target EXCEPT ![r] = Head(res)]
          /\ pc' = [pc EXCEPT ![r] = "connecting"]
          /\ UNCHANGED replies
  /\ UNCHANGED <<request, tstate>>

(* TcpTransportImpl::GetLocalAddress: FromAsioEndpoint of the socket's   *)
(* local endpoint, which has the family of the endpoint it connected to. *)
GetLocalAddress(r) == FromAsioEndpoint(LocalEndpoint[target[r].family])

(* TcpTransportFactoryImpl::StartConnect's handler, with the request's    *)
(* callback: a refused connect closes the transport and reports the      *)
(* error; a connected transport is handed over.                           *)
ConnectDone(r) ==
  /\ pc[r] = "connecting"
  /\ pc' = [pc EXCEPT ![r] = "done"]
  /\ IF target[r] \in Reachable
       THEN /\ tstate' = [tstate EXCEPT ![r] = "handed"]
            /\ Reply(r, [ec |-> "none", transport |-> GetLocalAddress(r)])
       ELSE /\ tstate' = [tstate EXCEPT ![r] = "closed"]
            /\ Reply(r, [ec |-> "connect", transport |-> NoTransport])
  /\ UNCHANGED <<request, target>>

Step(r) == ResolveDone(r) \/ ConnectDone(r)

Next == \E r \in Req : StartRequest(r) \/ Step(r)

(* The reactor runs every ready handler, and the resolver and the         *)
(* connect eventually complete.                                           *)
Spec == Init /\ [][Next]_vars /\ \A r \in Req : WF_vars(Step(r))

-----------------------------------------------------------------------------
(* The IPv4 and IPv6 cases of StartRequest (lines 232-249) undo          *)
(* Address::FromAsioEndpoint (common.h): the endpoint dialled for an IP   *)
(* request is the one its Address names, family, bytes and port, so the  *)
(* client reaches the host it asked for and not one of another family.   *)
DialsRequestedAddress ==
  \A r \in Req :
    request[r] # None /\ request[r].type \in {kIPv4, kIPv6}
      => FromAsioEndpoint(target[r]) = request[r]

(* The direct upstream keeps the UpstreamFactory contract: every started  *)
(* request is answered by exactly one callback, eventually, and a         *)
(* success reports the transport's own local address as the bound one.    *)
Upstream == INSTANCE UpstreamFactory
  WITH NoError <- "none",
       Bound <- {FromAsioEndpoint(LocalEndpoint[f]) : f \in {"v4", "v6"}},
       requested <- {r \in Req : pc[r] # "idle"},
       answer <- [r \in Req |->
                    IF replies[r] = <<>> THEN None
                    ELSE replies[r][Len(replies[r])]]

UpstreamSpec == Upstream!Spec

=============================================================================
