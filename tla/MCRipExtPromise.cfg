SPECIFICATION FairSpec
CONSTANTS
    r1 = r1
    f1 = f1
    d1 = d1
    p1 = p1
    RequestContexts = {r1}
    FormContexts = {f1}
    FileContexts = {d1}
    Untimed = {f1}
    Plugins = {p1}
    MaxProcess = 1
    NoContext = NoContext
    NoPlugin = NoPlugin
PROPERTIES
    Promise
    UnloadQuiet
    RequestSettles
    MainReturns
