\* A TCP connection that is asked to close, or stopped, closes.
SPECIFICATION FairSpec
CONSTANTS
  u1 = u1
  u2 = u2
  m1 = m1
  m2 = m2
  Closers <- OneCloser
  Msgs <- OneMsg
  IsTCP = TRUE
  IsServer = TRUE
  InLimit = 1
  OutLimit = 1
  BatchLimit = 2
  MaxIn = 2
PROPERTIES
  CloseCompletes
  StopReturns
\* The connection is closed and its goroutines have returned.
CHECK_DEADLOCK FALSE
