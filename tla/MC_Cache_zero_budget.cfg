CONSTANTS
    Ids = {f1}
    NumPages = 1
    Tasks = {t1}
    PageSizes <- MCOneSize
    MaxPagesSet <- MCBudgetZero
    InitPageSize = 128
    InitMaxPages = 1
    NodeBound = 3
    MissCanFail = FALSE
    FlushCanFail = FALSE
    HostWritesBack = FALSE
    NoTask = NoTask
    NoNode = NoNode
SPECIFICATION Spec
INVARIANT NoDanglingEntry
CONSTRAINT MCConstraint
