CONSTANTS
    None = None
    Bodies = {b1, b2}
    MaxId = 3
    MaxBatch = 2
    ScanLimit = 4
    Faults <- ReadFaults
    MaxResets = 2
SPECIFICATION FairSpec
INVARIANTS
    TypeOK
    OneBodyPerIdentity
    NothingWrittenIsLost
    AttemptsInOrder
PROPERTIES
    RetiredStaysRetired
    EventuallyDelivered
