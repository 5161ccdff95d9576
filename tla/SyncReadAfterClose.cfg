SPECIFICATION Spec
CONSTANTS
    URIs = {u1}
    Texts = {x1}
    Locks = {l1, l2, l3}
    Loop = loop
    Openers = {o1}
    Refreshers = {}
    Readers = {i1}
    Callbacks = {c1, c2}
    Threads <- MCThreads
    NoThread = NoThread
    NoDoc = NoDoc
    NoLock = NoLock
    NoTimer = NoTimer
    NoURI = NoURI
    ResetFn = ResetFn
    Muted = {}
    Included = {}
    CollectorsPanic = FALSE
    MaxSessions = 1
    MaxVersion = 1
SYMMETRY Symmetry
INVARIANTS
    ClosedShowsNothing
