---------------------------- MODULE MCLogFilter ----------------------------
(***************************************************************************)
(* Rule lists for the filter runs.  Client: a retry rule with budget 1,   *)
(* exempt during startup, above a reconnect catch-all with budget 0 that   *)
(* is exempt on both sides (the shape of bench/refit.py client_ignores).  *)
(* Server: must-have rules built like `Rule(pattern)` (budget 0, no        *)
(* exemptions).                                                            *)
(***************************************************************************)
EXTENDS LogFilter

MCMatchSet == [p \in Patterns |->
                 CASE p = "pRetry" -> {"lRetry"}
                   [] p = "pConn"  -> {"lRetry", "lConn"}]

MCClientIgnores ==
    << [pattern |-> "pRetry", count |-> 1,
        ok_during_startup |-> TRUE, ok_during_shutdown |-> FALSE],
       [pattern |-> "pConn", count |-> 0,
        ok_during_startup |-> TRUE, ok_during_shutdown |-> TRUE] >>

MCServerIgnores ==
    << [pattern |-> "pConn", count |-> 1,
        ok_during_startup |-> TRUE, ok_during_shutdown |-> TRUE] >>

ServerMustHaves ==
    << [pattern |-> "pRetry", count |-> 0,
        ok_during_startup |-> FALSE, ok_during_shutdown |-> FALSE] >>

NoRules == <<>>

=============================================================================
