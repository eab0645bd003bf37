CONSTANTS
    Patterns = {"pRetry", "pConn", "pGc"}
    Lines = {"lRetry", "lConn", "lGc", "lOther"}
    MatchSet <- MCMatchSet
    Rules <- MCRules
    Inf = Inf
    StartTime = 1
    EndTime = 2
    Times = {0, 1, 2, 3}
    MaxCalls = 4
SPECIFICATION Spec
PROPERTY BudgetRefinement
CHECK_DEADLOCK FALSE
