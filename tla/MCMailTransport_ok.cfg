SPECIFICATION FairSpec
CONSTANTS
    m1 = m1  m2 = m2  m3 = m3
    NoMail = NoMail
    Mail <- MCMails
    ConnectFails = TRUE
    ServerCloses = TRUE
CHECK_DEADLOCK FALSE
INVARIANTS TypeOK StuckOnlyAfterFailure
PROPERTY SavedMailIsSent
