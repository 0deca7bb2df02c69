CONSTANTS
    Ids = {f1}
    NumPages = 2
    Tasks = {t1}
    PageSizes <- MCOneSize
    MaxPagesSet <- MCBudget
    InitPageSize = 128
    InitMaxPages = 1
    NodeBound = 4
    MissCanFail = FALSE
    FlushCanFail = FALSE
    HostWritesBack = FALSE
    NoTask = NoTask
    NoNode = NoNode
SPECIFICATION Spec
INVARIANT ReadSeesLatestWrite
CONSTRAINT MCConstraint
