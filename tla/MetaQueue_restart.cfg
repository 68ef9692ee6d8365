CONSTANTS
    e1 = e1
    e2 = e2
    e3 = e3
    w1 = w1
    p1 = p1
    p2 = p2
    m1 = m1
    NoEvent = NoEvent
    Blank = Blank
    Addresses = {p1, p2}
    Phone <- TwoPhones
    Email <- NoAddress
    Sourceless = {}
    Target <- BothHere
    Entered <- Nobody
    MaxAttempts = 2
    BatchSize = 2
    MaxDeliveries = 1
    MaxCrashes = 1
    MaxFaults = 0
    Workers = {w1}
    Events = {e1, e2}
SPECIFICATION FairSpec
PROPERTY PickedIsResolved
CHECK_DEADLOCK FALSE
