SPECIFICATION Spec
CONSTANTS
    Keys = {k1, k2}
    Loop = loop
    Hints = {h1}
    Pages = 2
    NoCaller = NoCaller
    NoKey = NoKey
    NoEntry = NoEntry
    Failed = Failed
INVARIANTS
    HintsDoNotBlock
