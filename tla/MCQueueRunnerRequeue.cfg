CONSTANTS
    Dirs <- MCDirs
    Names = {"a", "b"}
    Prefix <- MCPrefix
    Target <- MCRequeue
    NCmds = 2
    MaxCrashes = 1
SPECIFICATION Spec
INVARIANT ConsistentExecution
