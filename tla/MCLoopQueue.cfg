SPECIFICATION FairSpec
CONSTANTS
  w1 = w1
  w2 = w2
  n1 = n1
  s1 = s1
  none = none
  NoRequest = none
  Requests <- Calls
  Waiting <- RunOnLoopCalls
  Child <- Nesting
  Capacity = 1
  MaxRuns = 2
INVARIANT NoStrandedJob
PROPERTIES ImplementsContract CallReturns
CHECK_DEADLOCK FALSE
