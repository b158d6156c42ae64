\* Jobs or videos, beside a move; one death, two faults.
CONSTANTS
    JobIds <- Two
    VideoIds <- Two
    Kept <- First
    Menu <- Several
    MaxCalls = 3
    MaxCrashes = 1
    MaxFaults = 2
SPECIFICATION Spec
CONSTRAINT EitherKind
INVARIANT TypeOK
INVARIANT RunningRowsHaveMakers
INVARIANT OverlapsOnlyWhenBothLooked
INVARIANT MemoryOutlivesTheRun
INVARIANT WatchersHear
INVARIANT CompletedHasFiles
INVARIANT UnfinishedVideosHaveMakers
INVARIANT DeletedIsGone
INVARIANT FailedMoveLeavesNothing
PROPERTY EndedStaysEnded
CHECK_DEADLOCK FALSE
