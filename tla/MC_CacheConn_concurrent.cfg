CONSTANTS
    Ids = {f1}
    NumPages = 2
    Tasks = {t1, t2}
    PageSizes <- MCTwoSizes
    MaxPagesSet <- MCBudgets
    InitPageSize = 128
    InitMaxPages = 1
    NodeBound = 4
    RefBound = 3
    MissCanFail = TRUE
    NoTask = NoTask
    NoNode = NoNode
SPECIFICATION Spec
INVARIANT TypeOK
INVARIANT PathEntryLive
PROPERTY OpsComplete
CONSTRAINT MCConstraint
