CONSTANTS
    None = None
    Books = {a, b}
    Positions = {p, q}
    Bodies <- BookBodies
    MaxId = 3
    MaxBatch = 1
    ScanLimit = 1
    Faults <- CardFaults
    MaxResets = 1
SPECIFICATION ReadingSpec
INVARIANTS
    NoEventVanishes
    LastMovementIsKept
