SPECIFICATION KeysFairSpec
CONSTANTS
    v1 = v1
    v2 = v2
    true = true
    h1 = h1
    h2 = h2
    k1 = k1
    k2 = k2
    i1 = i1
    Values = {v1, v2}
    Singletons = {true}
    Handles = {h1, h2}
    Keys = {k1, k2}
    Iterators = {i1}
    MaxLen = 1
    NoValue = NoValue
INVARIANTS
    KeysTypeOK
    KeysSafe
    KeysExact
PROPERTY
    NativeReturns
