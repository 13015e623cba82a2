\* Three tasks for two routines.
SPECIFICATION FairPoolSpec
CONSTANTS
  r1 = r1
  r2 = r2
  x = x
  y = y
  z = z
  Routines <- TwoRoutines
  Calls <- ThreeCalls
INVARIANTS
  OneTaker
PROPERTIES
  HandsOver
  CallsReturn
\* All tasks have been dispatched and the routines wait.
CHECK_DEADLOCK FALSE
