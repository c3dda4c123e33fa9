SPECIFICATION BillingSpec
CONSTANTS
    Buyers = {o1, o2}
    MaxSessions = 2
    CheckoutPending = 1
    SessionLife = 2
    Grace = 2
    MaxTime = 2
    MaxFaults = 1
    MaxChanges = 2
INVARIANTS NoDoubleBilling RowFollowsStripe
CONSTRAINT Tight
CHECK_DEADLOCK FALSE
