CONSTANTS
    Ids = {f1}
    NumPages = 1
    Tasks = {t1, t2}
    PageSizes <- MCOneSize
    MaxPagesSet <- MCBudgetZero
    InitPageSize = 128
    InitMaxPages = 1
    NodeBound = 3
    MissCanFail = TRUE
    FlushCanFail = TRUE
    HostWritesBack = TRUE
    NoTask = NoTask
    NoNode = NoNode
SPECIFICATION Spec
INVARIANT InFlightEntryHasFetcher
PROPERTY OpsComplete
CONSTRAINT MCConstraint
