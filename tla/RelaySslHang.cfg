\* Relay with a TLS downstream whose peer ignores close_notify.
CONSTANTS
  D = D
  U = U
  Transports <- MCTransports
  Kind <- MCSslDown
  MaxData = 2
  MaxCloses = 2
SPECIFICATION Spec
PROPERTY RelayCompletes
\* A relay whose transports are destroyed has no further step.
CHECK_DEADLOCK FALSE
