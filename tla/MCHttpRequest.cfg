SPECIFICATION Spec
CONSTANTS
    h1 = h1
    h2 = h2
    o1 = o1
    o2 = o2
    Handles <- MCHandles
    Objects <- MCObjects
    NoObject = NoObject
    Names <- MCNames
    Values <- MCValues
    Length <- MCLength
    ValueSize = 8192
    LineSize = 8192
    Params = {"p"}
    Settings = {0}
    MaxCalls = 5
    MaxQueue = 2
SYMMETRY Symmetry
CHECK_DEADLOCK FALSE
INVARIANTS
    TypeOK
    HandlesLive
    OneRequestPerHandle
    HeadersAsSet
