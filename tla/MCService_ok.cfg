SPECIFICATION Spec
CONSTANTS
    C2CThread = {h1}
    Recaptcha = r
    Email = {e1}
    MaxId = 2
    Lifetime = 1
    MaxClock = 2
    KillEvery = 2
    MaxRequests = 4
    MaxLaunch = 2
INVARIANTS
    ServiceTypeOK
    ActivatedWasMailed
    AcknowledgedIsDurable
    MailedCodeLives
    SipHasOwner
    OnlyStopMeetsClosedDb
    IInv
PROPERTIES
    OnlyStaleDeactivates
CHECK_DEADLOCK FALSE
