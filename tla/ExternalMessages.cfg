SPECIFICATION MCSpec
CONSTANTS
  m1 = m1
  m2 = m2
  m3 = m3
  Message <- MCMessage
  None = None
  Gone = Gone
  Limit = 3
  LimitAfterErrors = 1
  MaxSends <- MCMaxSends
  Edited = {m1}
  Timed = {m1, m2}
  MaxEdits = 2
  MaxFaults = 1
INVARIANTS TypeOK DeliveredOnce
PROPERTIES FatalIsFinal RunsEnd HeardMessageIsTried
CHECK_DEADLOCK FALSE
