CONSTANTS
    HdrSize = 4
    AttrTypes <- MCAttrTypes
    Values <- MCValues
    MaxAttrs = 3
    AlignedOnly = TRUE
    Addrs <- MCAddrs
    NlMsgs <- MCNlMsgs
    MaxNlMsgs = 2

SPECIFICATION Spec

INVARIANT ReplayMatchesSpec
