SPECIFICATION Spec
CONSTANTS
    v1 = v1
    v2 = v2
    v3 = v3
    true = true
    h1 = h1
    h2 = h2
    h3 = h3
    k1 = k1
    Values = {v1, v2, v3}
    Singletons = {true}
    Handles = {h1, h2, h3}
    Keys = {k1}
    MaxLen = 2
    NoValue = NoValue
SYMMETRY Symmetry
INVARIANTS
    TypeOK
    RefExact
    NoFreedReference
    OnlyCyclesLeak
PROPERTY
    CascadeShrinks
