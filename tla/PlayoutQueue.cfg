SPECIFICATION Spec
CONSTANTS
    Part = {1, 2, 3}
    Segment = {"a", "b"}
    None = None
    SegmentOf <- MCSegmentOf
    Rank <- MCRank
    Segments <- MCSegments
    Shows <- MCShows
    HoldFrom = {1}
    HoldTo = {2}
    AutoNext = {2}
    AllowResetOnAir = FALSE
PROPERTIES
    TakeOfTheQueueClearsIt
CHECK_DEADLOCK FALSE
