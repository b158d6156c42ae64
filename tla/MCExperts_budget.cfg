\* Three models, one of them too large and read through a cache; a training
\* run; another's layers.
CONSTANTS
    a = a
    b = b
    c = c
    Models <- ThreeModels
    Total = 5
    Floor = 2
    Bytes <- Several
    Unknown = Unknown
    RunSizes <- RunOf
    GuestSizes <- Guests
    Layers <- Layered
    ExpertBytes = 1
SPECIFICATION MemorySpec
SYMMETRY Symmetry
INVARIANT MemoryTypeOK
INVARIANT OnlyWaysOver
INVARIANT ExpertsAreTheirs
CONSTRAINT Apart
CHECK_DEADLOCK FALSE
