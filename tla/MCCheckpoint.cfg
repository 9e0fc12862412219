CONSTANTS
    None = None
    GenModulus = 6
    MaxSequence = 4
    Cursors = {0, 1, 2}
    Missed <- OneSlotMissed
SPECIFICATION Spec
INVARIANTS
    SequencesStrictlyIncrease
    AckedCursorSurvives
    BootLosesAtMostOneSave
PROPERTIES
    DurableCursorNeverFalls
