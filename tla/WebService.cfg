\* A client, two callers of Close, both ways to dispatch, channels that fill up.
SPECIFICATION FairSpec
CONSTANTS
  n1 = n1
  c1 = c1
  c2 = c2
  loop = loop
  r2 = r2
  Nodes = {n1}
  Closers = {c1, c2}
  Runners = {loop, r2}
  Loop = loop
  DelLimit = 1
  SendLimit = 2
  TaskLimit = 1
  MaxIn = 2
  Payloads = {1, 2}
INVARIANTS
  ToldOnce
PROPERTIES
  DrainedByClose
  NodesAreForgotten
\* Nodes are closed, and then nothing happens.
CHECK_DEADLOCK FALSE
