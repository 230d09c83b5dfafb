SPECIFICATION FairSpec
CONSTANTS
    t1 = t1
    t2 = t2
    NoTask = NoTask
    Task = {t1, t2}
    Size = 4
    Wrap = 8
INVARIANTS
    TypeOK
    NoOverrun
    RingInv
PROPERTIES
    FifoSpec
    PostReturns
