SPECIFICATION Spec
CONSTANTS
    s1 = s1
    s2 = s2
    p1 = p1
    w1 = w1
    w2 = w2
    Subs = {s1, s2}
    Packages = {p1}
    Limit <- OneOffice
    Workers = {w1, w2}
    None = None
    MaxRows <- FewRows
INVARIANTS
    PendingBounded
    OvershootBounded
    CodesDense
PROPERTY
    TermEndNoticed
CHECK_DEADLOCK FALSE
