CONSTANTS
    Keys = {1, 2, 3}
    H1 <- MCH1
    H2 <- MCH2
    Word = 256
    NFuncs = 2
    CountsPerFunc = 3
    MaxAdds = 9
SPECIFICATION Spec
INVARIANTS TypeOK CellCounts ZeroMeansAbsent
