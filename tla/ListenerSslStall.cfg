\* A TCP and a TLS listener: a client silent in its TLS handshake stops the TLS listener.
CONSTANTS
  l1 = l1
  l2 = l2
  c1 = c1
  c2 = c2
  c3 = c3
  c4 = c4
  NoClient = NoClient
  Unconnected = Unconnected
  Listeners <- MCListeners
  Kind <- MCKind
  Clients <- MCClients
  ListenerOf <- MCListenerOf
  Silent <- MCSilent
  MaxAcceptErrors <- MCNoSslErrors
SPECIFICATION Spec
PROPERTY SslAcceptProgress
\* Every client handled is a final state.
CHECK_DEADLOCK FALSE
