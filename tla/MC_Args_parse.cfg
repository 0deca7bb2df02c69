CONSTANTS
    s1 = s1
    s2 = s2
    Serials <- MCSerials
    NoSerial = NoSerial
    DeviceLists <- MCDeviceLists
    ListError = ListError
    StdinInputs <- MCAnswers
    Junk = Junk
    LevelArgs = {"error", "verbose"}
    CacheArgs <- MCCacheArgs
    PageArgs <- MCPageArgs
    CacheMin = 4
    PageMin = 2
    SizeBits = 5
    ChoiceBits = 3
    BitCeilUB = {1, Abort}
    Pending = Pending
    Abort = Abort
SPECIFICATION Spec
INVARIANT TypeOK
INVARIANT ArgsOwnership
PROPERTY PromptAnswered
PROPERTY ImplementsContract
