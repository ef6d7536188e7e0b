\* TLS factory, two threads: TryConnect remembers the endpoint it reached,
\* every failure path closes its transport,
\* and the mutex is always released.
CONSTANTS
  r1 = r1  r2 = r2  r3 = r3  t1 = t1  t2 = t2  e1 = e1  e2 = e2
  NoEndpoint = NoEndpoint  Bound = Bound  LocalAddr = LocalAddr
  NoTransport = NoTransport  None = None
  SelfServed = FALSE
  Factory = "ssl"
  Req <- MCReq
  Threads <- MCThreads
  ThreadOf <- MCThreadOf
  ResolverResults <- MCResolverResults
  Reachable <- MCReachable
SPECIFICATION Spec
INVARIANT RememberedIsConnected
INVARIANT ClosedOnFailure
PROPERTY LockReleased
\* All requests done is the final state.
CHECK_DEADLOCK FALSE
