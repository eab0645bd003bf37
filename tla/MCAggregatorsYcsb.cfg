\* YCSB raw logs (parser/ycsb_raw.py) record every entry with client -1.
CONSTANTS
    LogTypes = {"latency"}
    LogIds = {"client-0", "client-1"}
    ClientCounts = {1}
    ClientIds <- YcsbClientIds
    Times = {0, 1}
    Latencies = {1, 2}
    Tags = {"READ"}
    StartTime = 1
    EndTime = 2
    MaxEntries = 2
    MaxLogs = 2
SPECIFICATION Spec
INVARIANT OrderIndependent
