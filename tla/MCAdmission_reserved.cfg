\* What the doc of Reserved says, beside a load under way.
CONSTANTS
    a = a
    b = b
    Models <- TwoModels
    Total = 5
    Floor = 2
    Bytes <- Some
    Unknown = Unknown
    RunSizes <- RunOf
    GuestSizes <- None
SPECIFICATION Spec
INVARIANT ReservedIsKept
CHECK_DEADLOCK FALSE
