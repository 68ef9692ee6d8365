CONSTANTS
    r1 = r1
    r2 = r2
    NoRow = NoRow
    Rows = {r1, r2}
    SlotLimits = {1, 2}
    RetryLimits = {1}
    Ceiling = 1
    CallCap = 1
    MaxOther = 1
    Boards = {"normal"}
    MaxInFlight = 1
    MaxReports = 1
    MaxMoves = 1
    MaxCrashes = 1
    MaxFaults = 1
SPECIFICATION Spec
SYMMETRY RowSymmetry
INVARIANT MadeCountsAttempts
PROPERTY SlotBound
CHECK_DEADLOCK FALSE
