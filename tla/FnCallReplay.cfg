CONSTANTS
    IdemKeys = {plain}
    TxKeys = {}
    SweptKeys = {}
    Digests = {d1, d2}
    FnCalls = {c1, c2}
    NoCall = NoCall
    LastNumber = 2
SPECIFICATION CallSpec
INVARIANTS NeverAnUnrelatedResult
CHECK_DEADLOCK FALSE
