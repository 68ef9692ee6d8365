CONSTANTS
    e1 = e1
    e2 = e2
    e3 = e3
    w1 = w1
    p1 = p1
    p2 = p2
    m1 = m1
    NoEvent = NoEvent
    Blank = Blank
    Addresses = {p1, m1}
    Phone <- OnePerson
    Email <- OneAddress
    Sourceless = {e3}
    Target <- Everywhere
    Entered <- EnteredBoth
    MaxAttempts = 2
    BatchSize = 2
    MaxDeliveries = 1
    MaxCrashes = 1
    MaxFaults = 1
    Workers = {w1}
    Events = {e1, e2, e3}
SPECIFICATION FairSpec
PROPERTY AckedIsSettled
PROPERTY DoneReachesTenant
CHECK_DEADLOCK FALSE
