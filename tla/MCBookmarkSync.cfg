CONSTANTS
    Marks = {m}
    Contents = {plain, noted}
    Plain = plain
    MaxId = 2
    MaxLog = 3
    MaxApply = 2
    Rarities <- AllRare
    MaxRare = 1
    MaxRareLog = 2
SPECIFICATION Spec
INVARIANTS
    TypeOK
    SettledMeansSame
PROPERTIES
    RetiredIsSaved
CONSTRAINT ShortReplay
