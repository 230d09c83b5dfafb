CONSTANTS
    SegmentNum = 2
    ThreadNum = 2
    HashSize = 3
    Keys <- MCKeys
    Bucket <- MCBucket
SPECIFICATION FairSpec
PROPERTY MigrationEnds
\* A thread that lowers a flag raised for the next migration stops them all.
CHECK_DEADLOCK FALSE
