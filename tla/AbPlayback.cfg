\* Three clips of which one is optional, and two players.  Deadlock is off since the clock ends.
SPECIFICATION Spec
CONSTANTS
    Session = {1, 2, 3}
    Optional = {3}
    Players = 2
    IdealGap = 1
    NowWindow = 1
    MaxAhead = 2
    MaxTime = 3
    Limit = 10
    None = None
INVARIANTS
    TypeOK
    NextClipIsLoaded
PROPERTIES
    RefusedOnlyWhenFull
    OnAirStays
CHECK_DEADLOCK FALSE
