CONSTANTS
    u1 = u1
    c1 = c1
    p1 = p1
    p2 = p2
    l1 = l1
    l2 = l2
    axis = axis
    unicred = unicred
    meta = meta
    Ids = {1, 2}
    Born <- OneImport
    Servers = {p1, p2}
    Counsellors = {u1}
    Admin = Admin
    Unassigned = Unassigned
    BoardStages = {"created", "processing", "dnp", "lost"}
    ShortStages = {"created", "dnp", "lost"}
    WonStage = "processing"
    Stamped = {"processing"}
    NoAnswer = {"dnp"}
    Campaigns = {c1}
    Amount <- OneAmount
    LeadSource <- OneSourceEach
    DueDate <- EarlyLate
    Limits = {1, 2}
    Asked <- TheAsked
    Kept <- TheKept
    Deals <- TheDeals
    Orders = {"created_at_desc"}
    DealStages = {"any"}
    BoardTTL = 0
    DayLength = 1
    MaxTick = 1
    MaxEdits = 2
    MaxCached = 1
    MaxOpen = 1
    Users = {}
    Leads = {l1, l2}
    Lenders = {axis, unicred}
    Rate <- AxisAlone
    Amounts = {60}
    Sanctions = {101}
    Days = {10, 100, 130}
    RateUnit = 8
    Offered = {"sanctioned"}
    Legacy <- TheTracker
    Payments = {1}
    Agreed = {5}
    TaxPercent = 18
    MaxChanges = 2
    NoFile = "none"
    NoLender = NoLender
    Source <- OneFromMeta
    Unattributed = Unattributed
    Closing <- OneExpected
    Aggregators = {unicred}
    Billable = {axis}
    Today = 120
    MonthsShown = 3
    MaterialFloor = 10
    NetPercent = 80
    Filters <- TheFilters
    Watched <- TheWatched
    PanelTTL = 0
    MaxTicks = 1
    MaxPanels = 1
SYMMETRY Symmetric
SPECIFICATION ScreensSpec
INVARIANT BoardsWhole
INVARIANT LeadReportsAgree
INVARIANT CacheFollowsMoves
INVARIANT OneFigure
INVARIANT RowsBehindFigures
PROPERTY DealsFreeOnesOnly
CHECK_DEADLOCK FALSE
