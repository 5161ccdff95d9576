SPECIFICATION Spec
CONSTANTS
    URIs = {u1}
    Texts = {x1, x2}
    Locks = {l1, l2}
    Loop = loop
    Openers = {o1}
    Refreshers = {r1}
    Readers = {}
    Callbacks = {c1, c2}
    Threads <- MCThreads
    NoThread = NoThread
    NoDoc = NoDoc
    NoLock = NoLock
    NoTimer = NoTimer
    NoURI = NoURI
    ResetFn = ResetFn
    Muted = {}
    Included = {}
    CollectorsPanic = TRUE
    MaxSessions = 1
    MaxVersion = 3
SYMMETRY Symmetry
INVARIANTS
    TypeOK
    AnalysedUnderLock
    LockNotUnlockedTwice
    ClosedShowsNothing
PROPERTIES
    ShownVersionGrows
    ImplementsService
