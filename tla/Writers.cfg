CONSTANTS
    Content = {c1, c2, c3}
    NoFile = NoFile
    Torn = Torn
    MaxSeq = 6
SPECIFICATION AllSpec
INVARIANTS
    TypeOK
    QuietFileIsWhole
    FallbackIsOneSaveBehind
    UpdateIsAllOrNothing
PROPERTIES
    RegisterSpec
    ProgressRegisterSpec
