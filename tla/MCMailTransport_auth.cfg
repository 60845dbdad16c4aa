SPECIFICATION Spec
CONSTANTS
    m1 = m1  m2 = m2  m3 = m3
    NoMail = NoMail
    Mail <- MCTwoMails
    ConnectFails = FALSE
    ServerCloses = FALSE
CHECK_DEADLOCK FALSE
INVARIANT AuthenticatesOnce
