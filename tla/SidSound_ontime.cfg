SPECIFICATION Spec
CONSTANTS
    Ring = 5
    SampleRing = 4
    Clock = 7
    Rate = 2
    Batch = 3
    LongestRow = 2
    Slack = 1
    Lag = 3
    MaxCycles = 8
    MaxResets = 1
CHECK_DEADLOCK FALSE
INVARIANTS
    Backlog
PROPERTIES
    TimelineSpec
