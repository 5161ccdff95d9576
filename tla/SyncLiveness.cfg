SPECIFICATION LiveSpec
CONSTANTS
    URIs = {u1}
    Texts = {x1, x2}
    Locks = {l1, l2}
    Loop = loop
    Openers = {o1}
    Refreshers = {}
    Readers = {}
    Callbacks = {c1, c2}
    Threads <- MCThreads
    NoThread = NoThread
    NoDoc = NoDoc
    NoLock = NoLock
    NoTimer = NoTimer
    NoURI = NoURI
    ResetFn = ResetFn
    Muted = {}
    Included = {}
    CollectorsPanic = FALSE
    MaxSessions = 1
    MaxVersion = 2
PROPERTIES
    LoopResponds
    EventuallyCurrent
