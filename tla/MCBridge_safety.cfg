SPECIFICATION Spec
CONSTANTS
    c1 = c1
    c2 = c2
    Call <- MCCalls
    Requests = {"bridgeable", "refused", "unserviceable"}
    CallMayFail = TRUE
    MediaMayBeGone = TRUE
    MaxDigits = 1
SYMMETRY MCSymmetry
INVARIANTS
    TypeOK
    IInv
    AcceptFollowsAnswer
    HangUpReachesOtherLeg
    NoOrphanDialog
    NoReferenceCycle
    MissedAttachMeansEnd
    AttachNeedsBothAnswers
PROPERTIES
    TerminatedIsFinal
    StepsArePromised
CHECK_DEADLOCK FALSE
