SPECIFICATION Spec
CONSTANTS
    r1 = r1
    r2 = r2
    l1 = l1
    Requests <- TwoRequests
    Loads <- OneLoad
    MaxChanges = 2
INVARIANTS
    TypeOK
    BadgeExplained
PROPERTY
    BellCatchesUp
