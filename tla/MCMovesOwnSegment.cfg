CONSTANTS
    SegmentNum = 2
    ThreadNum = 1
    HashSize = 6
    Keys <- MCKeys
    Bucket <- MCBucket
    PerBlock = 2
    Stripe = 3
    Threshold = 1
    Values = {v1, v2}
    Requests <- BothSegments
    SsdQueueSize = 1
SPECIFICATION Spec
INVARIANT MovesOwnSegment
CHECK_DEADLOCK FALSE
