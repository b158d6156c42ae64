\* A session the server let go of, followed by another.
CONSTANTS
    MaxSockets = 3
    MaxWords = 3
    MostAtOnce = 3
    MaxMishaps = 1
SPECIFICATION Spec
INVARIANT NoWordIsLost
CHECK_DEADLOCK FALSE
