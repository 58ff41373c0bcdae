CONSTANTS
    Conns = {c1, c2, c3, c4}
    HttpLoops = {h1}
    QuicLoops = {q1}
    RawLoops = {r1}
    MaxConnections = 3
    NoConn = NoConn
SPECIFICATION Spec
INVARIANTS CounterExact
PROPERTIES RefusedNearCap AdmissionSpec LoopReturns
