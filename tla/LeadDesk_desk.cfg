CONSTANTS
    r1 = r1
    r2 = r2
    Brands = {"fmc", "admitverse"}
    Stages = {"created", "contacted", "dnp", "dnp_pre_qualified", "connected", "qualified", "opportunity", "disbursed", "lost"}
    Requests = {r1, r2}
    MaxAttempts = 1
    Churn = 1
    Boards = {"ai"}
    Horizon = 2
    MaxTasks = 2
    MaxRequests = 3
SPECIFICATION Spec
SYMMETRY RequestSymmetry
INVARIANT LogTellsStage
INVARIANT DueHasATask
INVARIANT CallsCounted
PROPERTY MovesFollowTable
PROPERTY FinishedStays
CHECK_DEADLOCK FALSE
