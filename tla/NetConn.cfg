\* A TCP connection of a client closed by its owner, by Stop, by the other end and by
\* failures of the socket, in every order.
SPECIFICATION FairSpec
CONSTANTS
  u1 = u1
  u2 = u2
  m1 = m1
  m2 = m2
  Closers <- TwoClosers
  Msgs <- TwoMsgs
  IsTCP = TRUE
  IsServer = FALSE
  InLimit = 1
  OutLimit = 1
  BatchLimit = 2
  MaxIn = 1
INVARIANTS
  ClosedOnce
  InOrder
  GracefulClose
  StopDisconnects
\* The connection is closed and its goroutines have returned.
CHECK_DEADLOCK FALSE
