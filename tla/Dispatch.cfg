CONSTANTS
    t1 = t1
    t2 = t2
    N = 3
    Weight <- MCWeight
    Tasks = {t1, t2}
    Strategies = {"round-robin", "least-conn", "ip-hash"}
    HashIp <- MCHashIp
    Allowed = {0, 2}
    CursorRange = 6
    MaxReloads = 1
SPECIFICATION Spec
INVARIANTS DeliveredOnce FailoverComplete RoundRobinFair GaugeExact LeastConnOrder
PROPERTIES SweepEnds
