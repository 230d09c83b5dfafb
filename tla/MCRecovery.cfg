CONSTANTS
    Workers = {0, 1}
    Keys = {1, 2, 3}
    Values = {"a", "b", "c", "d"}
    PerBlock = 2
    Threads = {m1, m2}
    Requests <- MCRequests
    MaxEvents = 5
SPECIFICATION FairSpec
INVARIANTS
    TypeOK
    RebuildsFromCleared
    ServesRebuilt
    CountedIsDurable
    IndexedIsCounted
    BlocksDescribeIndex
PROPERTY StartEnds
