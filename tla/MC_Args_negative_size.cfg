CONSTANTS
    s1 = s1
    s2 = s2
    Serials <- MCSerials
    NoSerial = NoSerial
    DeviceLists <- MCDeviceLists
    ListError = ListError
    StdinInputs <- MCAnswers
    Junk = Junk
    LevelArgs = {"warn"}
    CacheArgs <- MCNegCacheArgs
    PageArgs <- MCPageArgs
    CacheMin = 4
    PageMin = 2
    SizeBits = 5
    ChoiceBits = 3
    BitCeilUB = {1, Abort}
    Pending = Pending
    Abort = Abort
SPECIFICATION Spec
INVARIANT SizesNormalised
