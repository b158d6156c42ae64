\* Liveness and the refinement: replies on two residents, or jobs of any sort, one
\* of which may be stopped, and an engine that panics.
CONSTANTS
    alice = alice
    bob = bob
    qwen = qwen
    gemma = gemma
    Accounts <- Two
    Nobody = Nobody
    NoTicket = NoTicket
    Limit = 2
    Share = 0
    Key <- TwoKeys
    Ids <- Ids3
    MaxSteps = 1
    MaxPanics = 1
    Asked <- Two
    Menu <- Sorts
    Batch = 2
    Capacity = 1
    MaxArrivals = 3
    MaxCancels = 1
    MaxLeavers = 0
    MayClose = TRUE
    Resident <- TwoKeys
SPECIFICATION FairSpec
PROPERTY EveryJobEnds
PROPERTY KeepsItsPromises
CONSTRAINT EitherEnds
CHECK_DEADLOCK FALSE
