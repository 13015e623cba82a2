\* A repeating timer is deleted, paused or resumed once.
SPECIFICATION Spec
CONSTANTS
  Calls <- TheThird
  Ids <- TwoIds
  IdOf <- IdOfThird
  Repeats <- TheThird
  MaxOps = 1
INVARIANTS
  NoEmptyTimer
CHECK_DEADLOCK FALSE
