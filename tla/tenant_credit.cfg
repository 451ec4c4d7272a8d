SPECIFICATION CreditSpec
CONSTANTS
    t1 = t1
    t2 = t2
    t3 = t3
    w1 = w1
    w2 = w2
    Tenants <- MCTenants
    Threads <- MCThreads
    MaxTenants = 1
    Starting = 1
    Interval = 2
    Keep = 1
    Amounts = {2}
    MaxClock = 4
    MaxLag = 1
    MaxAdmin = 1
    MaxFaults = 1
SYMMETRY MCSymmetry
INVARIANTS CreditTypeOK BalanceIsBooked ChargedOnce SeatsAreBounded LedgerIsBounded
PROPERTIES AdminStands
CHECK_DEADLOCK FALSE
