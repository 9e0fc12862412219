SPECIFICATION Spec
CONSTANTS
    a1 = a1
    a2 = a2
    a3 = a3
    a4 = a4
    None = None
    Activities <- Four
    Exclusive <- Drive
    MaxStack = 2
    MaxVersion = 2
    UnlockedChanges = TRUE
SYMMETRY Alike
PROPERTIES
    WaitShowsTheState
