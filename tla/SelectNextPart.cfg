SPECIFICATION Spec
CONSTANTS
    Part = {1, 2, 3, 4, 5}
    Segment = {"a", "b", "c"}
    None = None
    SegmentOf <- MCSegmentOf
    Rank <- MCRank
    Segments <- MCSegments
INVARIANTS
    ContinuesWhereItWas
    QueueIsHonoured
CHECK_DEADLOCK FALSE
