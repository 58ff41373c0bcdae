CONSTANTS
    Cases <- MCCases
    MaxBody = 3
    MaxSize = 6
    MaxRatio = 2
    MaxChunk = 2
    ValidPaths <- MCValidPaths
    PanicPaths <- MCPanicPaths
    UriPaths <- MCUriPaths
    Rules <- MCRules
    HostsNamed = {"site"}
    HostsAllowed = {"alias"}
SPECIFICATION Spec
INVARIANTS
    RejectionsLogged
