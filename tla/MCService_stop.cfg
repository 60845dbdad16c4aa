SPECIFICATION Spec
CONSTANTS
    C2CThread = {h1}
    Recaptcha = r
    Email = {e1}
    MaxId = 2
    Lifetime = 1
    MaxClock = 2
    KillEvery = 2
    MaxRequests = 2
    MaxLaunch = 1
INVARIANT
    DbOpenWhenUsed
CHECK_DEADLOCK FALSE
