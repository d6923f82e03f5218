SPECIFICATION FairSpec
CONSTANTS
    Calls = {"tool", "settle"}
    KindOf <- MCKindOf
    Streams = {"console"}
    Buffer = 1
    MaxBroken = 1
INVARIANTS
    TypeOK
    StreamsTellWhatHappened
    OrderlyEnd
PROPERTY ShutdownFinishes
CHECK_DEADLOCK FALSE
