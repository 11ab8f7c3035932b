SPECIFICATION FairSpec
CONSTANTS
    Job = {j1, j2, j3}
    NoJob = NoJob
    MaxFaults = 3
INVARIANTS
    TypeOK
    NoOrphanedJob
    NoLostWakeUp
    NoForgottenChange
PROPERTIES
    ImplementsJobService
    EveryJobIsAnswered
CHECK_DEADLOCK FALSE
