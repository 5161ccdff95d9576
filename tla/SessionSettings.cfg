SPECIFICATION Spec
CONSTANTS
    URIs = {u1}
    Settings <- MCSettings
    Initial <- MCInitial
    NoSettings = none
    Fetchers = {f1, f2}
    Requested = {"initialize", "shutdown", "textDocument/inlayHint", "textDocument/moniker"}
    MaxRequests = 3
    MaxInbox = 1
    MaxChanges = 1
    MaxOpens = 2
INVARIANTS
    TypeOK
    RefusedOutsideSession
    ClientKnown
PROPERTIES
    EveryRequestAnswered
    SettingsApplied
CHECK_DEADLOCK FALSE
