SPECIFICATION FairSpec
CONSTANTS
    Thread = {t1, t2}
    Resource = {r1}
    LockId = {l1, l2}
    NoLock = NoLock
INVARIANTS
    TypeOK
    MutualExclusion
    NoWaiterOfAFreeResource
    IdleThreadHasNoLocks
    AnswersMatchRequests
PROPERTIES
    QueuedRequestLeavesTheQueue
    TimedOutLockIsFreed
CHECK_DEADLOCK FALSE
