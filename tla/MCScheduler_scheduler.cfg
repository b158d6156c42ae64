\* Two generations, or models that come and go; one of them stopped.
CONSTANTS
    alice = alice
    bob = bob
    qwen = qwen
    gemma = gemma
    Accounts <- Two
    Nobody = Nobody
    NoTicket = NoTicket
    Limit = 0
    Share = 0
    Key <- TwoKeys
    Ids <- Ids2
    MaxSteps = 1
    MaxPanics = 1
    Asked <- Two
    Menu <- Anything
    Batch = 2
    Capacity = 1
    MaxArrivals = 2
    MaxCancels = 1
    MaxLeavers = 1
    MayClose = TRUE
    Resident <- OneKey
SPECIFICATION Spec
SYMMETRY Symmetry
INVARIANT TypeOK
INVARIANT BooksMatchStreams
INVARIANT OnlyTheStoppedStop
INVARIANT AnswersAreTheirs
INVARIANT DepthIsHonest
INVARIANT OneEnding
INVARIANT OneAtATime
CONSTRAINT EitherSide
CHECK_DEADLOCK FALSE
