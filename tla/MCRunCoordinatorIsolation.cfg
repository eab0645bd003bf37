CONSTANTS
    Groups <- MCGroups
    RunsOf <- MCRunsOf
    Files = 2
    Workers = 2
    Windows <- MCWindows
    IntOf <- MCIntOf
SPECIFICATION Spec
INVARIANT GroupIsolation
