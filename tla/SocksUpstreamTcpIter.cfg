\* TCP factory: the endpoint remembered after TryConnect.
CONSTANTS
  r1 = r1  r2 = r2  r3 = r3  t1 = t1  t2 = t2  e1 = e1  e2 = e2
  NoEndpoint = NoEndpoint  Bound = Bound  LocalAddr = LocalAddr
  NoTransport = NoTransport  None = None
  SelfServed = FALSE
  Factory = "tcp"
  Req <- MCReq
  Threads <- MCThreads
  ThreadOf <- MCThreadOf
  ResolverResults <- MCResolverResults
  Reachable <- MCReachable
SPECIFICATION Spec
INVARIANT RememberedIsConnected
CHECK_DEADLOCK FALSE
