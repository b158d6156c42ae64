\* A switch that fails beside a video that is being kept.
CONSTANTS
    JobIds <- Nothing
    VideoIds <- Two
    Kept <- First
    Menu <- Nothing
    MaxCalls = 2
    MaxCrashes = 0
    MaxFaults = 1
SPECIFICATION Spec
INVARIANT EverythingBackInPlace
CHECK_DEADLOCK FALSE
