CONSTANTS
    Keys = {0, 1, 2, 3}
    Values = {10, 11}
    HashSize = 2
    Bucket <- MCBucket
    None = None
SPECIFICATION Spec
INVARIANTS TypeOK LenIsExact OneEntryPerKey
PROPERTY MapSpec
