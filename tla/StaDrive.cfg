SPECIFICATION LinkSpec
CONSTANTS
    SlowAnswers = FALSE
    MaxAsks = 1
    StallTicks = 1
    Requests = {r1}
    Goals = {g1}
    MaxInflight = 1
    Deadline = 1
    Ttl = 1
    Unknown = Unknown
    MaxSends = 3
CHECK_DEADLOCK FALSE
PROPERTIES
    NoSelfStart
    SilentStops
    YieldEnds
    CalledOnce
