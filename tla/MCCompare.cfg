CONSTANTS
    States <- MCStates
    LastDataSentOffset = 1
    PmtuOffset = 2
    InfoValues <- MCInfoFull
    OtherValues <- MCOtherValues
    AttrLens = {4}

SPECIFICATION Spec

INVARIANT CompareMatchesSpec
