CONSTANTS
    NewImage = {a, b}
    Goroutine = {g, h}
    MaxPosts = 2
    MaxFailures = 1
    MaxRestarts = 1
SPECIFICATION FairSpec
CHECK_DEADLOCK FALSE
INVARIANTS
    SchedulerTypeOK
    OneBuild
    NoLostWakeup
PROPERTIES
    EventuallySearchable
    EventuallyQuiet
