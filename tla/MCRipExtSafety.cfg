SPECIFICATION Spec
CONSTANTS
    r1 = r1
    f1 = f1
    d1 = d1
    p1 = p1
    p2 = p2
    RequestContexts = {r1}
    FormContexts = {f1}
    FileContexts = {d1}
    Untimed = {f1}
    Plugins = {p1, p2}
    MaxProcess = 2
    NoContext = NoContext
    NoPlugin = NoPlugin
SYMMETRY Symmetry
INVARIANTS
    TypeOK
    NoDangling
    NoLeak
    SingleOwner
    PopSafe
    CallbackOnce
    CallbackOwnerLoaded
    FileOpenWhileUsed
    HandlesScoped
CHECK_DEADLOCK TRUE
