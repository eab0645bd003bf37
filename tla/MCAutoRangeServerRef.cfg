CONSTANTS
    Times = {0, 3, 15, 30}
    Throughputs = {0, 1, 2}
    LogTypes = {"client", "server"}
    ReferenceType = "server"
    MinEntries = 1
    MaxEntries = 2
    MaxLogs = 2
    None = None
    Requested = {None}
SPECIFICATION Spec
INVARIANT WindowAsSpecified
