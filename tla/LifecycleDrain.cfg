CONSTANTS
    PlainLoops = {p1}
    TlsLoops = {}
    QuicLoops = {}
    Conns = {c1}
    MaxEdits = 1
    MaxHups = 1
    MaxRenewals = 0
SPECIFICATION Spec
CHECK_DEADLOCK FALSE
INVARIANTS RequestsDrained
