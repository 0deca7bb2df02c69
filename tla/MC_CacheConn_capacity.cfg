CONSTANTS
    Ids = {f1}
    NumPages = 3
    Tasks = {t1, t2}
    PageSizes <- MCOneSize
    MaxPagesSet <- MCBudget
    InitPageSize = 128
    InitMaxPages = 1
    NodeBound = 5
    RefBound = 3
    MissCanFail = FALSE
    NoTask = NoTask
    NoNode = NoNode
SPECIFICATION Spec
INVARIANT CapacityAtRest
CONSTRAINT MCConstraint
SYMMETRY MCSymmetry
