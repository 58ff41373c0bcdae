CONSTANTS
    PlainLoops = {}
    TlsLoops = {t1}
    QuicLoops = {}
    Conns = {c1}
    MaxEdits = 1
    MaxHups = 1
    MaxRenewals = 0
SPECIFICATION Spec
CHECK_DEADLOCK FALSE
PROPERTIES ReloadKeepsTls
