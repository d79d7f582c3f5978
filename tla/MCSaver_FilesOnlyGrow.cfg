CONSTANTS
    Cookies <- MCCookies
    NumMarshaller = 2
    QueueCap = 1
    AgeLimit = 1
    MaxInfo = 1
    MaxCycles = 3
    MaxTime = 2
    RotateMayFail = FALSE
    DumpMayMiss = TRUE
    WriteMayFail = FALSE

SPECIFICATION Spec

PROPERTY FilesOnlyGrow
