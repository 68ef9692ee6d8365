CONSTANTS
    u1 = u1
    u2 = u2
    l1 = l1
    axis = axis
    pnb = pnb
    leeds = leeds
    york = york
    msc = msc
    m1 = m1
    q1 = q1
    q2 = q2
    p1 = p1
    p2 = p2
    Default = {axis}
    Nobody = Nobody
    Times = {5}
    MessageIds = {m1}
    NoId = NoId
    About <- AboutAxis
    Requests = {q1, q2}
    Processes = {p1, p2}
    TTL = 1
    MaxTime = 2
    MaxWrites = 3
    MaxLoads = 1
    NoProgram = NoProgram
    NoFile = NoFile
    NoLender = NoLender
    Users = {u1, u2}
    Leads = {l1}
    Lenders = {axis, pnb}
    Rate <- TwoRates
    Amounts = {1, 2}
    Sanctions = {2}
    Days = {40}
    Today = 50
    RateUnit = 2
    Offered = {"applied", "disbursed"}
    Legacy = {}
    Payments = {}
    Agreed = {}
    TaxPercent = 18
    MaxChanges = 3
    Universities = {leeds, york}
    Programs = {msc}
    Picked = {"applied", "offer_received"}
    MaxRows = 3
    MaxRequests = 3
    Unattributed = Unattributed
    Source <- NoSource
    Closing <- ThisMonth
    Aggregators = {}
    Billable = {axis}
    MonthsShown = 3
    MaterialFloor = 1
    NetPercent = 80
    Filters = {}
SYMMETRY Symmetric
SPECIFICATION FilingSpec
INVARIANT FilesShown
INVARIANT FirstTrancheOnce
INVARIANT ConversationsRight
INVARIANT ListsCurrent
PROPERTY MoneyMovesRight
CHECK_DEADLOCK FALSE
