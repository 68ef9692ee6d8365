CONSTANTS
    e1 = e1
    e2 = e2
    w1 = w1
    w2 = w2
    p1 = p1
    p2 = p2
    r1 = r1
    r2 = r2
    c1 = c1
    c2 = c2
    NoEvent = NoEvent
    Blank = Blank
    Addresses = {p1, p2}
    Phone <- OneWithout
    Email <- NoAddress
    Sourceless = {}
    Target <- BothHere
    Entered <- EnteredHere
    MaxAttempts = 2
    BatchSize = 2
    MaxDeliveries = 3
    MaxCrashes = 1
    MaxFaults = 1
    Workers = {w1, w2}
    Events = {e1, e2}
    People = {anil}
    Requests = {r1, r2}
    Connections = {c1, c2}
    Submissions = {web1}
    MaxFile = 2
    MaxLeads = 2
    MaxRequests = 3
SPECIFICATION IntakeSpec
SYMMETRY Symmetric
INVARIANT OneLeadPerEvent
INVARIANT OnePersonOneLead
INVARIANT ImportsSeeEachOther
INVARIANT InboxAgrees
CHECK_DEADLOCK FALSE
