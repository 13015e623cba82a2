\* Calls, responses, timers and failed sends in every order.
SPECIFICATION FairSpec
CONSTANTS
  a1 = a1
  a2 = a2
  s1 = s1
  w1 = w1
  w2 = w2
  AsyncOps <- TwoAsync
  SyncOps <- OneSync
  Workers <- TwoWorkers
  ResCap = 1
  CbCap = 1
  MaxReplies = 2
INVARIANTS
  OneOutcome
  SignalsNeverBlock
  ReplyFindsTimer
PROPERTIES
  FailedSendIsFinal
  KeepsPromise
  AsyncCallsFinish
  SyncCallsReturn
  NothingLeaks
\* Every call ends, and then the system rests.
CONSTRAINT TwoCalls
CHECK_DEADLOCK FALSE
