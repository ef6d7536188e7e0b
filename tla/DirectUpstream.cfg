\* Direct upstream: the UpstreamFactory contract over every address type,
\* and the conversion of IP addresses to the endpoints dialled.
CONSTANTS
  r1 = r1
  r2 = r2
  r3 = r3
  localhost = localhost
  NoEndpoint = NoEndpoint
  NoTransport = NoTransport
  None = None
  Req <- MCReq
  Addresses <- MCAddresses
  ResolverResults <- MCResolverResults
  Reachable <- MCReachable
  LocalEndpoint <- MCLocalEndpoint
SPECIFICATION Spec
INVARIANT DialsRequestedAddress
PROPERTY UpstreamSpec
\* Every request done is the final state.
CHECK_DEADLOCK FALSE
