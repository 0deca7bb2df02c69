CONSTANTS
    Ids = {f1}
    NumPages = 1
    Tasks = {t1, t2}
    PageSizes <- MCOneSize
    MaxPagesSet <- MCRoomy
    InitPageSize = 128
    InitMaxPages = 2
    NodeBound = 3
    MissCanFail = FALSE
    FlushCanFail = FALSE
    HostWritesBack = FALSE
    NoTask = NoTask
    NoNode = NoNode
SPECIFICATION Spec
INVARIANT SingleFlight
CONSTRAINT MCConstraint
SYMMETRY MCSymmetry
