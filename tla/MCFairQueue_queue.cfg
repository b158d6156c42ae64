\* Two accounts and nobody, two generations a minute.
CONSTANTS
    alice = alice
    bob = bob
    Accounts <- MCAccounts
    Nobody = Nobody
    NoTicket = NoTicket
    Limit = 3
    Share = 2
    Rate = 2
    Minute = 3
    Second = 2
    MaxArrivals = 4
    MaxTime = 4
SPECIFICATION Spec
SYMMETRY Symmetry
INVARIANT TypeOK
INVARIANT NobodyGoesTwiceBefore
INVARIANT OrderIsKept
INVARIANT RequestsWithinBounds
INVARIANT AtMostRateInAMinute
INVARIANT RetryIsHonest
CHECK_DEADLOCK FALSE
