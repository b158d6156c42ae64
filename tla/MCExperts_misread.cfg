\* What a comment says of a read that fails.
CONSTANTS
    a = a
    b = b
    c = c
    Models <- OneModel
    Total = 5
    Floor = 2
    Bytes <- One
    Unknown = Unknown
    RunSizes <- None
    GuestSizes <- None
    Layers <- Layered
    ExpertBytes = 1
SPECIFICATION MemorySpec
INVARIANT FailedReadsCostNoAnswer
CHECK_DEADLOCK FALSE
