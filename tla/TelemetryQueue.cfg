SPECIFICATION LiveSpec
CONSTANTS
    Loop = loop
    Background = background
    Fetchers = {f1}
    Heartbeats = {b1, b2}
    Usage = {e1}
    Panics = {p1}
    Batch = 2
INVARIANTS
    TypeOK
    EachRecordOnce
PROPERTIES
    EventuallyPublished
CHECK_DEADLOCK FALSE
