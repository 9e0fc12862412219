CONSTANTS
    MaxStream = 2
    LocalEvents = {e1}
    PageSize = 2
    MaxBatch = 1
    MaxResets = 1
SPECIFICATION FairSpec
INVARIANTS
    CursorCoversInbox
    UploadOnlyAfterCompletePull
PROPERTIES
    DecisionSurvivesReplay
    NothingReturnsBelowTheCursor
    CatchesUp
