CONSTANTS
    Patterns = {"pRetry", "pConn"}
    Lines = {"lRetry", "lConn", "lOther"}
    MatchSet <- MCMatchSet
    Inf = Inf
    ClientIgnores <- MCClientIgnores
    ServerIgnores <- MCServerIgnores
    MustHaveLines <- ServerMustHaves
    StartTime = 2
    EndTime = 5
    TicksPerSecond = 2
    Times = {0, 1, 2, 3, 4, 5}
    MaxBody = 3
SPECIFICATION Spec
INVARIANT FilterVerdict
