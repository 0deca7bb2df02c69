CONSTANTS
    WordBits = 6
    DirtyBitPos = 2
    SizeBits = 8
    PageSize = 2
    NumPages = 2
    Writers = {a}
    Zero = Zero
    Garbage = Garbage
    NoPage = NoPage
    NoWrite = NoWrite
    ReadPastEnd = TRUE
SPECIFICATION Spec
INVARIANT WrittenBytesFlushed
