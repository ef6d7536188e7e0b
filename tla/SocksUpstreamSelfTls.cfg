\* TLS factory, two threads, and an upstream that is a TLS listener of this
\* same process: the blocking handshake under the mutex waits for a free thread.
CONSTANTS
  r1 = r1  r2 = r2  r3 = r3  t1 = t1  t2 = t2  e1 = e1  e2 = e2
  NoEndpoint = NoEndpoint  Bound = Bound  LocalAddr = LocalAddr
  NoTransport = NoTransport  None = None
  SelfServed = TRUE
  Factory = "ssl"
  Req <- MCReq
  Threads <- MCThreads
  ThreadOf <- MCThreadOf
  ResolverResults <- MCResolverResults
  Reachable <- MCReachable
SPECIFICATION Spec
PROPERTY LockReleased
CHECK_DEADLOCK FALSE
