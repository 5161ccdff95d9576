SPECIFICATION Spec
CONSTANTS
    URIs = {u1, u2}
    Texts = {x1, x2}
    Locks = {l1, l2, l3, l4}
    Loop = loop
    Openers = {o1}
    Refreshers = {}
    Readers = {i1}
    Callbacks = {c1}
    Threads <- MCThreads
    NoThread = NoThread
    NoDoc = NoDoc
    NoLock = NoLock
    NoTimer = NoTimer
    NoURI = NoURI
    ResetFn = ResetFn
    Muted = {u1}
    Included = {u2}
    CollectorsPanic = FALSE
    MaxSessions = 1
    MaxVersion = 2
SYMMETRY Symmetry
INVARIANTS
    OpenDocumentIsEditors
