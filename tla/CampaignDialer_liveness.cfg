CONSTANTS
    r1 = r1
    r2 = r2
    NoRow = NoRow
    Rows = {r1}
    SlotLimits = {2}
    RetryLimits = {2}
    Ceiling = 2
    CallCap = 1
    MaxOther = 0
    Boards = {"ai", "phoneless"}
    MaxInFlight = 1
    MaxReports = 1
    MaxMoves = 1
    MaxCrashes = 1
    MaxFaults = 1
SPECIFICATION FairSpec
INVARIANT NoCallingWhenCompleted
INVARIANT SecondCallOnlyAfterFiveMinutes
 
 
CHECK_DEADLOCK FALSE
