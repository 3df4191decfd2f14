SPECIFICATION Spec
CONSTANTS
    h1 = h1
    h2 = h2
    wild = wild
    glob = glob
    Hosts <- MCHosts
    DynHosts <- MCDynHosts
    Paths <- MCPaths
    Root <- MCRoot
    DynPaths <- MCDynPaths
    Prefix <- MCPrefix
    Fits <- MCFits
    Empty = Empty
    Star = Star
    Calls <- MCCalls
    MatcherSets <- MCMatcherSets
    Endpoints = {"web", "tls"}
    Listeners <- MCListeners
    MaxRoutes = 5
    MaxRules = 4
INVARIANTS NothingWidened NothingLost LaunchURLsServed RoutesReported
CHECK_DEADLOCK FALSE
