CONSTANTS
    u1 = u1
    u2 = u2
    Users = {u1, u2}
    NumReleases = 2
    Commission <- TwoReleases
    TaxRate = 50
    Receipts <- PaidAndWithheld
    Itemised = {0, 3}
    Edits <- SomeEdits
    MaxBills = 2
    MaxPayments = 2
    MaxChanges = 1
    MaxFaults = 1
SPECIFICATION Spec
SYMMETRY UserSymmetry
INVARIANT NothingLost
INVARIANT TaxAddsUp
PROPERTY PaymentClears
INVARIANT LinksAgree
CHECK_DEADLOCK FALSE
