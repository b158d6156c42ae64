\* A take of two words over three sockets, with one mishap.
CONSTANTS
    MaxSockets = 3
    MaxWords = 2
    MostAtOnce = 1
    MaxMishaps = 1
SPECIFICATION FairSpec
INVARIANT TypeOK
INVARIANT HeardInPlace
INVARIANT OneHolder
INVARIANT NobodyWaitsForTheHeld
INVARIANT WordsOnceInOrder
INVARIANT CommitCoversWhatThereWas
PROPERTY TakesEnd
CHECK_DEADLOCK FALSE
