SPECIFICATION Spec
CONSTANTS
    URIs = {u1}
    Texts = {x1, x2}
    Locks = {l1, l2, l3, l4}
    Loop = loop
    Openers = {o1}
    Refreshers = {}
    Readers = {i1}
    Callbacks = {c1, c2}
    Threads <- MCThreads
    NoThread = NoThread
    NoDoc = NoDoc
    NoLock = NoLock
    NoTimer = NoTimer
    NoURI = NoURI
    ResetFn = ResetFn
    Muted = {}
    Included = {}
    CollectorsPanic = FALSE
    MaxSessions = 2
    MaxVersion = 2
SYMMETRY Symmetry
INVARIANTS
    NoLostLock
    NoCircularWait
