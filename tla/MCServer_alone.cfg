\* A benchmark and a LoRA run; nothing dies and no write fails.
CONSTANTS
    JobIds <- Two
    VideoIds <- Nothing
    Kept <- Nothing
    Menu <- Several
    MaxCalls = 3
    MaxCrashes = 0
    MaxFaults = 0
SPECIFICATION Spec
INVARIANT BenchmarksAreAlone
CHECK_DEADLOCK FALSE
