\* TCP factory, two threads: refinement of UpstreamFactory (answered once
\* and eventually), the double-checked lock, and the type invariant.
CONSTANTS
  r1 = r1  r2 = r2  r3 = r3  t1 = t1  t2 = t2  e1 = e1  e2 = e2
  NoEndpoint = NoEndpoint  Bound = Bound  LocalAddr = LocalAddr
  NoTransport = NoTransport  None = None
  SelfServed = FALSE
  Factory = "tcp"
  Req <- MCReq
  Threads <- MCThreads
  ThreadOf <- MCThreadOf
  ResolverResults <- MCResolverResults
  Reachable <- MCReachable
SPECIFICATION Spec
INVARIANT TypeOK
INVARIANT EndpointWrittenOnce
PROPERTY UpstreamSpec
\* Every request is answered after finitely many steps; the final state,
\* with all requests done, has no successor.
CHECK_DEADLOCK FALSE
