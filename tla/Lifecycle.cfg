CONSTANTS
    PlainLoops = {}
    TlsLoops = {t1}
    QuicLoops = {}
    Conns = {c1}
    MaxEdits = 2
    MaxHups = 2
    MaxRenewals = 1
SPECIFICATION Spec
CHECK_DEADLOCK FALSE
INVARIANTS StaleOnlyIfPending
PROPERTIES NeverBackwards ReloadReaches TermExits
