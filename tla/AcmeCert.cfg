CONSTANTS
    Loops = {l1}
    Ids = {1, 2, 3, 4, 5, 6}
    Responders = {"http", "nobody"}
    MaxAttempts = 2
    Interval = 1
    RetryAfters = {0, 2}
    MaxCaFaults = 2
    MaxBreaks = 1
SPECIFICATION Spec
INVARIANTS FilesMatch
PROPERTIES ServesOnlyWithCert RetryWaits HotSwap RenewedWhenDue StartupServes
