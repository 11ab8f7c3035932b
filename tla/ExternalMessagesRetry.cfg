SPECIFICATION FairSpec
CONSTANTS
  m1 = m1
  m2 = m2
  m3 = m3
  Message = {m1}
  None = None
  Gone = Gone
  Limit = 2
  LimitAfterErrors = 1
  MaxSends <- MCTwoSends
  Edited = {m1}
  Timed = {m1}
  MaxEdits = 1
  MaxFaults = 0
PROPERTY DueMessageIsTried
CHECK_DEADLOCK FALSE
