\* TLS factory: a failed StartConnect answers the request twice.
\* One reactor thread, so the trace needs no data race.
CONSTANTS
  r1 = r1  r2 = r2  r3 = r3  t1 = t1  t2 = t2  e1 = e1  e2 = e2
  NoEndpoint = NoEndpoint  Bound = Bound  LocalAddr = LocalAddr
  NoTransport = NoTransport  None = None
  SelfServed = FALSE
  Factory = "ssl"
  Req <- MCReq
  Threads <- MCThreads
  ThreadOf <- MCOneThread
  ResolverResults <- MCResolverResults
  Reachable <- MCReachable
SPECIFICATION Spec
INVARIANT ReplyOnce
CHECK_DEADLOCK FALSE
