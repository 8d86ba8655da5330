SPECIFICATION Spec
CONSTANTS
    Editors = {e1}
    t1 = t1
    t2 = t2
    c1 = c1
    c2 = c2
    Tabs <- TwoTabs
    Calls <- TwoCalls
    MaxPairs = 2
SYMMETRY BrowserSymmetry
INVARIANTS
    TypeOK
    SessionKept
    
    LogoutHolds
PROPERTY
    BlockKept
