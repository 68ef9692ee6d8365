CONSTANTS
    w1 = w1
    w2 = w2
    w3 = w3
    Writers = {w1, w2, w3}
    Start = 2
    MaxBlock = 2
    MaxNumber = 3
SPECIFICATION NumberingSpec
SYMMETRY WriterSymmetry
INVARIANT FreshNumber
PROPERTY SeriesKept
CHECK_DEADLOCK FALSE
