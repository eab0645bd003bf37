CONSTANTS
    Dirs <- MCDirs
    Names = {"a", "b"}
    Prefix <- MCPrefix
    Target <- MCMixed
    NCmds = 2
    MaxCrashes = 1
SPECIFICATION Spec
INVARIANT ConsistentSole
INVARIANT CompleteExecution
INVARIANT NoRerunWithoutCrash
PROPERTY EveryUploadRuns
