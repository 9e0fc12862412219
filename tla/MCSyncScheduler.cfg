SPECIFICATION FairSpec
CONSTANTS
    Wrap = 16
    Step = 2
    ConnectDelay = 2
    IdlePoll = 6
    AgainDelay = 2
    NotifyDelay = 4
    BackoffBase = 2
    BackoffMax = 4
    MaxFailures = 2
    Durations <- Short
INVARIANTS
    TypeOK
PROPERTIES
    BackoffHonoured
    PendingIsServed
    PollsWhenIdle
