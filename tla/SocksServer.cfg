\* A TCP and a TLS listener feeding SOCKS5 sessions: the TCP loop keeps
\* accepting and both deliver in accept order, with sessions consuming
\* what they deliver.
CONSTANTS
  l1 = l1
  l2 = l2
  c1 = c1
  c2 = c2
  c3 = c3
  c4 = c4
  b1 = b1
  zero = zero
  NoClient = NoClient
  Unconnected = Unconnected
  Listeners <- MCListeners
  Kind <- MCKind
  Clients <- MCClients
  ListenerOf <- MCListenerOf
  Silent <- MCSilent
  MaxAcceptErrors <- MCMaxAcceptErrors
  ErrorCodes <- MCErrorCodes
  Bound <- MCBound
  DefaultBound = zero
SPECIFICATION ServerSpec
PROPERTY TcpAcceptProgress
INVARIANT DeliveredInAcceptOrder
\* Every session relaying or closed is a final state.
CHECK_DEADLOCK FALSE
