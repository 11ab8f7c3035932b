SPECIFICATION FairSpec
INVARIANTS
    SomethingWillAnswer
    ReplyIsNotLeftToTheTimer
PROPERTIES
    EveryCallerIsAnswered
    EveryDocumentIsRemoved
CHECK_DEADLOCK FALSE
