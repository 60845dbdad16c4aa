SPECIFICATION FairSpec
CONSTANTS
    c1 = c1
    c2 = c2
    Call <- MCOneCall
    Requests = {"bridgeable"}
    CallMayFail = TRUE
    MediaMayBeGone = FALSE
    MaxDigits = 0
PROPERTY
    NoCallerLeftRinging
CHECK_DEADLOCK FALSE
