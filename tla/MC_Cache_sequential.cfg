CONSTANTS
    Ids = {f1}
    NumPages = 2
    Tasks = {t1}
    PageSizes <- MCOneSize
    MaxPagesSet <- MCBudgets
    InitPageSize = 128
    InitMaxPages = 1
    NodeBound = 4
    MissCanFail = TRUE
    FlushCanFail = FALSE
    HostWritesBack = FALSE
    NoTask = NoTask
    NoNode = NoNode
SPECIFICATION Spec
INVARIANT TypeOK
INVARIANT NoLostWrite
INVARIANT CapacityAtRest
CONSTRAINT MCConstraint
