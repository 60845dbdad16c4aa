SPECIFICATION FairSpec
CONSTANTS
    c1 = c1
    c2 = c2
    Call <- MCCalls
    Requests = {"bridgeable", "refused"}
    CallMayFail = FALSE
    MediaMayBeGone = FALSE
    MaxDigits = 0
PROPERTIES
    CallIsCleared
    KeepsPromise
CHECK_DEADLOCK FALSE
