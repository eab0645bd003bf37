--------------------------- MODULE MCBenchmarkRun ---------------------------
EXTENDS BenchmarkRun, Flatten

\* Names of entries of the results directory and of its subdirectories.
FlatNames == {"a", "b", "c"}

\* Two servers (a client and a replica host), waited for in this order.
MCServerOrder == <<"s1", "s2">>

\* The directories over FlatNames and walk orders for which
\* flatten_directory's result differs from SpecFlatten's.
FlattenFailures ==
    {<<dir, order>> \in UNION {{<<d, o>> : o \in WalkOrders(d)} : d \in Dirs(FlatNames)} :
        FlattenDirectory(dir, order) # SpecFlatten(dir)}

\* Once stage_store has returned True, which it does only after
\* flatten_directory ran: flatten_directory, for every results directory
\* over FlatNames and every order os.walk lists its subdirectories in,
\* raises FlattenException and leaves the directory alone exactly when a
\* name would be moved onto another, and otherwise lifts every entry
\* without losing or replacing one.
FlattenAsSpecified == stored = "True" => FlattenFailures = {}
=============================================================================
