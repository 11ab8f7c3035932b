\* As many tries as in the code.
SPECIFICATION Spec
CONSTANTS
    Session = {1, 2, 3}
    Optional = {}
    Players = 2
    IdealGap = 1
    NowWindow = 1
    MaxAhead = 1
    MaxTime = 2
    Limit = 200
    None = None
INVARIANTS
    NeverStuck
CHECK_DEADLOCK FALSE
