SPECIFICATION Spec
CONSTANTS
    r1 = r1  r2 = r2  f1 = f1  f2 = f2
    NoRequest = NoRequest
    NoFd = NoFd
    Genuine <- MCGenuine
    Request <- MCRequests
    Fd <- MCOneFd
    ConnectionsFail = TRUE
    Framing = {"whole"}
CHECK_DEADLOCK FALSE
INVARIANT OnlyGenuineAccepted
