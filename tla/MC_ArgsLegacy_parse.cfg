CONSTANTS
    s1 = s1
    s2 = s2
    Serials = {s1, s2}
    NoSerial = NoSerial
    Outputs <- MCOutputs
    Header = Header
    Malformed = Malformed
    StdinInputs <- MCAnswers
    Junk = Junk
    LevelArgs = {"warn", "off", "verbose"}
    CacheArgs <- MCCacheArgs
    SizeBits = 10
    ChoiceBits = 3
    ExecFailure = {"empty"}
    Pending = Pending
    Abort = Abort
SPECIFICATION Spec
INVARIANT TypeOK
INVARIANT ArgsOwnership
PROPERTY ImplementsContract
