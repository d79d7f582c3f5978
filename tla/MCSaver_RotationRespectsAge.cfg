CONSTANTS
    Cookies <- MCCookies
    NumMarshaller = 2
    QueueCap = 1
    AgeLimit = 1
    MaxInfo = 1
    MaxCycles = 3
    MaxTime = 4
    RotateMayFail = FALSE
    DumpMayMiss = FALSE
    WriteMayFail = FALSE

SPECIFICATION Spec

PROPERTY RotationRespectsAge
