CONSTANTS
    SegmentNum = 2
    ThreadNum = 2
    HashSize = 6
    Keys <- MCKeys
    Bucket <- MCBucket
    PerBlock = 2
    Stripe = 3
    Threshold = 1
    Values = {v1, v2}
    Requests <- SmallWrites
    SsdQueueSize = 1
SPECIFICATION Spec
INVARIANT WritesWhatItStaged
CHECK_DEADLOCK FALSE
