CONSTANTS
    Cookies <- MCCookies
    NumMarshaller = 2
    QueueCap = 1
    AgeLimit = 1
    MaxInfo = 1
    MaxCycles = 2
    MaxTime = 2
    RotateMayFail = TRUE
    DumpMayMiss = FALSE
    WriteMayFail = FALSE

SPECIFICATION Spec

PROPERTY RetryAfterFailedRotate
