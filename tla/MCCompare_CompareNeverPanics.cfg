CONSTANTS
    States <- MCStates
    LastDataSentOffset = 1
    PmtuOffset = 2
    InfoValues <- MCInfoAny
    OtherValues <- MCOtherValues
    AttrLens = {1, 3, 4}

SPECIFICATION Spec

INVARIANT CompareNeverPanics
