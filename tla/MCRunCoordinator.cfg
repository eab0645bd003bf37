CONSTANTS
    Groups <- MCGroups
    RunsOf <- MCRunsOf
    Files = 2
    Workers = 2
    Windows <- MCWindows
    IntOf <- MCIntOf
SPECIFICATION Spec
INVARIANT GroupBarrier
INVARIANT GroupStageAsSpecified
INVARIANT FolderGroupsChecked
INVARIANT RawRecordsConsistent
INVARIANT AvgThroughputMergesLogs
PROPERTY BatchEnds
INVARIANT PermutationsAsSpecified
INVARIANT SolveFindsAllOptima
INVARIANT SignatureStageAsSpecified
