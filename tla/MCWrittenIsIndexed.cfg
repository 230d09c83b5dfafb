CONSTANTS
    SegmentNum = 2
    ThreadNum = 1
    HashSize = 6
    Keys <- MCKeys
    Bucket <- MCBucket
    PerBlock = 2
    Stripe = 3
    Threshold = 1
    Values = {v1}
    Requests <- OneSegment
    SsdQueueSize = 1
SPECIFICATION Spec
INVARIANT WrittenIsIndexed
CHECK_DEADLOCK FALSE
