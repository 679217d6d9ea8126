SPECIFICATION Spec
CHECK_DEADLOCK FALSE
CONSTANTS
    a1 = a1
    a2 = a2
    b1 = b1
    b2 = b2
    c1 = c1
    c2 = c2
    NoTx = NoTx
    NoDispute = NoDispute
    NoHash = NoHash
SYMMETRY Interchangeable
INVARIANTS
    VaultIsAccounted
    ReviewAnswersStand
    
    TrailIsReadWhole
    SettlementsAddUp
    StatusIsBacked
    DuplicateHasCause
    
    
PROPERTIES
    ClosedStands
