\* Timers added, expiring, deleted, paused and resumed in every order.
SPECIFICATION FairSpec
CONSTANTS
  Calls <- ThreeCalls
  Ids <- TwoIds
  IdOf <- IdOfThree
  Repeats <- TheThird
  MaxOps = 2
INVARIANTS
  RunsOnce
  DeletedIsForgotten
PROPERTIES
  AddedRuns
\* When every timer has run or has been deleted, the loop waits.
CHECK_DEADLOCK FALSE
