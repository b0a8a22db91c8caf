SPECIFICATION FairSpec
CONSTANTS
    d1 = d1
    p1 = p1
    RequestContexts = {}
    FormContexts = {}
    FileContexts = {d1}
    Untimed = {}
    Plugins = {p1}
    MaxProcess = 1
    NoContext = NoContext
    NoPlugin = NoPlugin
PROPERTY
    CallbackAnswers
