CONSTANTS
    Cookies <- MCCookies
    NumMarshaller = 2
    QueueCap = 1
    AgeLimit = 1
    MaxInfo = 1
    MaxCycles = 2
    MaxTime = 2
    RotateMayFail = FALSE
    DumpMayMiss = FALSE
    WriteMayFail = FALSE

SPECIFICATION Spec

INVARIANT TypeOK
INVARIANT TasksRespectFileLifecycle
INVARIANT ConnectionsFollowCache
INVARIANT CacheReflectedOnDisk
PROPERTY SaverImplementsSpec
