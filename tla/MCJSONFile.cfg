SPECIFICATION FairSpec
CONSTANTS
    c1 = c1
    c2 = c2
    c3 = c3
    d1 = d1
    d2 = d2
    Callers <- MCCallers
    Documents <- MCDocuments
    Missing = Missing
    Nothing = Nothing
    Partial = Partial
    Free = Free
INVARIANTS
    TmpIsMine
    PathWhole
PROPERTIES
    Atomic
    CallsReturn
