CONSTANTS
    fa = fa
    fb = fb
    n1 = n1
    n2 = n2
    Files = {fa, fb}
    Names = {n1, n2}
    Bytes = {0, 1}
    Errnos = {"ENOENT", "EIO"}
    Requests <- MCRequests
    Listings <- MCListings
    Contents <- MCLongContents
    Caps = {0, 2}
    Chunk = 2
    DiskBytes = 4
    CallsFail = TRUE
    ShortIO = TRUE
    ConnBound = 2
    ReqBound = 2
SPECIFICATION Spec
CONSTRAINT MCConstraint
PROPERTY CopyFaithful
