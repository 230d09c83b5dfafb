SPECIFICATION FairSpec
CONSTANTS
    SubmitNum = 2
    QueueNum = 2
    Threshold = 2
    SmallWrite = 1
    StripeSize = 2
    Capacity = 1
    MaxTasks = 2
    Requests <- MixedRequests
INVARIANTS
    TypeOK
    EveryWriteCountedOnce
    ReadIsWhole
    HomeServes
    InOrder
PROPERTIES
    WritesComplete
    ReadsReturn
