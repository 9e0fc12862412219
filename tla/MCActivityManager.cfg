SPECIFICATION FairSpec
CONSTANTS
    a1 = a1
    a2 = a2
    a3 = a3
    a4 = a4
    None = None
    Activities <- Three
    Exclusive <- Drive
    MaxStack = 2
    MaxVersion = 1
    UnlockedChanges = FALSE
INVARIANTS
    TypeOK
    RenderedIsAlive
    ResultsReachTheirCaller
PROPERTIES
    WaitShowsTheState
    WaiterWakes
    RequestedIsDrawn
