CONSTANTS
    Cases <- MCCases
    MaxBody = 3
    MaxSize = 6
    MaxRatio = 2
    MaxChunk = 2
    ValidPaths <- MCValidPaths
    PanicPaths <- MCPanicPaths
    UriPaths <- MCUriPaths
    Rules <- MCRules
    HostsNamed = {"site"}
    HostsAllowed = {"alias"}
    u1 = u1
    u2 = u2
    d1 = d1
    d2 = d2
    NoGroup = NoGroup
    Reqs = {q1, q2}
    Sessions = {u1, u2}
    Splits = {d1, d2}
    Sticky = {d1, d2}
    Groups <- MCGroups
    Hash <- MCHash
    MaxSessions = 1
    MaxReloads = 1
    Tasks = {t1, t2}
    Hosts = {h1, h2}
    Addresses = {a1, a2, x1}
    Allowed = {a1, a2}
    DnsAnswers = {{}, {a1}, {a2}, {a2, x1}}
    Ttl = 2
    MaxEntries = 1
    MaxTime = 3
SPECIFICATION PathSpec
INVARIANTS
    DispatchedClean
    BodyBounded
    LocationChosen
    HeadersStripped
    AttributionHonest
    TunnelVetted
    LoggedOnce
    TableBounded
    OwnAssignment
    VettedOnly
    CacheBounded
