\* Two callers race on three endpoints; one retriable kind of error and one that
\* is not.
CONSTANTS
    N = 3
    Callers = {c1, c2}
    Replies = {"ok", "http_429", "rpc_app"}
    MaxCalls = 2
SPECIFICATION FairSpec
INVARIANT GivesUpOnlyAfterAll StatsBalance
PROPERTY EveryCallReturns
\* A caller that has made its MaxCalls calls stops.
CHECK_DEADLOCK FALSE
