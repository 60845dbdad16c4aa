\* Every four requests of four kinds, cut in every way; the buffer can overflow.
CONSTANTS
    MaxMessages = 4
    ChunckMin = 3
    BufferMax = 10
SPECIFICATION Spec
CHECK_DEADLOCK FALSE
INVARIANTS
    TypeOK
    OnceAndInOrder
    NothingLost
    IInv
PROPERTIES
    WaitsForOneEvent
    LeftOnlyBehindAnother
    EarlyBehindAnother
