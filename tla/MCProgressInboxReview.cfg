SPECIFICATION Spec
CONSTANTS
    MaxStream = 2
    MaxRequests = 1
    StorageFails = FALSE
    Rarities <- OnlyReview
PROPERTIES
    JumpOnlyWithConsent
