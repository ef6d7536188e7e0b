--------------------------- MODULE MC_DirectUpstream ---------------------------
(* Three requests, each for one of five addresses: two IPv4 hosts, the     *)
(* IPv6 loopback, a domain name and an unknown address type.  The name     *)
(* resolves to one or two endpoints, and the second IPv4 host refuses      *)
(* connections, so dialling only the first result can fail.               *)
EXTENDS DirectUpstream

CONSTANTS r1, r2, r3, localhost

MCReq == {r1, r2, r3}

Port == 80
HostA == <<127, 0, 0, 1>>
HostB == <<10, 0, 0, 2>>
(* ::1, sixteen bytes.                                                     *)
HostV6 == [i \in 1..16 |-> IF i = 16 THEN 1 ELSE 0]

EndpointA == [family |-> "v4", bytes |-> HostA, port |-> Port]
EndpointB == [family |-> "v4", bytes |-> HostB, port |-> Port]
EndpointV6 == [family |-> "v6", bytes |-> HostV6, port |-> Port]

MCAddresses ==
  { [type |-> kIPv4, host |-> HostA, port |-> Port],
    [type |-> kIPv4, host |-> HostB, port |-> Port],
    [type |-> kIPv6, host |-> HostV6, port |-> Port],
    [type |-> kDomainName, host |-> localhost, port |-> Port],
    [type |-> 2, host |-> HostA, port |-> Port] }

MCResolverResults == {<<EndpointA>>, <<EndpointB, EndpointA>>}
MCReachable == {EndpointA, EndpointV6}
MCLocalEndpoint ==
  [f \in {"v4", "v6"} |->
     [family |-> f, bytes |-> IF f = "v4" THEN HostA ELSE HostV6,
      port |-> 40000]]
=============================================================================
