\* A model across two workers.
CONSTANTS
    Workers <- Two
    Contested <- First
    MaxLoads = 2
    MaxMishaps = 2
    Prompts <- LongAndShort
    Token = 1
    MaxReply = 1
    MaxCalls = 3
SPECIFICATION FairSpec
CONSTRAINT OneMore
INVARIANT TypeOK
INVARIANT OnePlace
INVARIANT RepliesAreTheirs
INVARIANT InStep
PROPERTY CallsEnd
CHECK_DEADLOCK FALSE
