SPECIFICATION Spec
CONSTANTS
    MaxStream = 3
    MaxRequests = 2
    StorageFails = TRUE
    Rarities <- AllRare
CONSTRAINT FewRareKinds
INVARIANTS
    TypeOK
    ConsentIsDurable
    NoSuggestionLost
PROPERTIES
    OrdinaryJumpOnlyWithConsent
