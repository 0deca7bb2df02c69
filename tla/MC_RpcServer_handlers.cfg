CONSTANTS
    fa = fa
    fb = fb
    n1 = n1
    n2 = n2
    Files = {fa, fb}
    Names = {n1, n2}
    Bytes = {0, 1}
    Errnos = {"EIO"}
    Requests <- MCRequests
    Listings <- MCListings
    Contents <- MCContents
    Caps = {0, 2}
    Chunk = 1
    DiskBytes = 4
    CallsFail = TRUE
    ShortIO = FALSE
    ConnBound = 2
    ReqBound = 2
SPECIFICATION Spec
CONSTRAINT MCConstraint
INVARIANT TypeOK
INVARIANT ResponseViewsValid
PROPERTY CopyFaithful
PROPERTY StopEndsRun
