SPECIFICATION Spec
CONSTANTS
    Messages = {x1}
    Members = {u1}
    Groups = {g1, g2}
    Links = {g1, g2}
    Phoned = {u1}
    Numbers = {n1}
    o1 = o1
    o2 = o2
    Offices <- TwoRequests
    Editors = {e1}
    None = None
    MaxAttempts = 3
INVARIANTS
    PendingIsCarried
    DuplicatesExplained
    UnlinkHolds
    AddressedToGroup
PROPERTY
    DeliversAsPromised
CHECK_DEADLOCK FALSE
