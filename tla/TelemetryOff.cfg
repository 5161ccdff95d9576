SPECIFICATION LiveSpec
CONSTANTS
    Loop = loop
    Background = background
    Fetchers = {f1}
    Heartbeats = {b1}
    Usage = {e1}
    Panics = {p1}
    Batch = 2
PROPERTIES
    OffSendsNothing
CHECK_DEADLOCK FALSE
