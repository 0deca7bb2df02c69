CONSTANTS
    Ids = {f1}
    NumPages = 2
    Tasks = {t1, t2}
    PageSizes <- MCOneSize
    MaxPagesSet <- MCBudget
    InitPageSize = 128
    InitMaxPages = 1
    NodeBound = 4
    RefBound = 3
    MissCanFail = TRUE
    NoTask = NoTask
    NoNode = NoNode
SPECIFICATION Spec
INVARIANT NoDanglingEntry
CONSTRAINT MCConstraint
SYMMETRY MCSymmetry
