\* Relay over two TLS transports: a write started after close fails, one in flight may succeed.
CONSTANTS
  D = D
  U = U
  Transports <- MCTransports
  Kind <- MCSslBoth
  MaxData = 2
  MaxCloses = 2
SPECIFICATION Spec
INVARIANT ClosedWritesFail
\* A relay whose transports are destroyed has no further step.
CHECK_DEADLOCK FALSE
