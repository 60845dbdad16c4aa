SPECIFICATION FairSpec
CONSTANTS
    r1 = r1  r2 = r2  f1 = f1  f2 = f2
    NoRequest = NoRequest
    NoFd = NoFd
    Genuine <- MCGenuine
    Request <- MCRequests
    Fd <- MCTwoFds
    ConnectionsFail = TRUE
    Framing = {"whole", "cut", "headers", "length"}
CHECK_DEADLOCK FALSE
INVARIANTS TypeOK MisledOnlyByEarlyReuse
PROPERTIES RequestIsSent ReplyIsUsed
