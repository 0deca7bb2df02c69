CONSTANTS
    WordBits = 6
    DirtyBitPos = 2
    SizeBits = 8
    PageSize = 4
    NumPages = 1
    Writers = {a}
    Zero = Zero
    Garbage = Garbage
    NoPage = NoPage
    NoWrite = NoWrite
    ReadPastEnd = TRUE
SPECIFICATION Spec
INVARIANT DirtyFlagFaithful
