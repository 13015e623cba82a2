\* A service that reconnects, and another one.
SPECIFICATION FairSpec
CONSTANTS
  x = x
  y = y
  z = z
  i = i
  j = j
  Conns <- ThreeConns
  Ids <- TwoIds
  IdOf <- IdOfThree
  DisconnCap = 1
INVARIANTS
  ToldAfterLife
  OpenIsFound
PROPERTIES
  ClosedIsForgotten
\* All connections have been closed.
CHECK_DEADLOCK FALSE
