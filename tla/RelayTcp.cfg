\* Relay over two TCP transports: the relay completes; writes after close fail.
CONSTANTS
  D = D
  U = U
  Transports <- MCTransports
  Kind <- MCTcp
  MaxData = 2
  MaxCloses = 2
SPECIFICATION Spec
PROPERTY RelayCompletes
INVARIANT ClosedWritesFail
\* A relay whose transports are destroyed has no further step.
CHECK_DEADLOCK FALSE
