\* A live worker and one in dry-run mode share a breaker that opens after two
\* failures; liquidations at, below and above the limit for one, a budget of
\* three, and a clock that outruns the window.
CONSTANTS
    Workers = {w1, w2}
    DryWorkers = {w2}
    Notionals = {1, 2, 3}
    Stalenesses = {0, 1}
    MaxConcurrent = 1
    MaxNotionalPerLiq = 2
    MaxNotionalPerWindow = 3
    MaxConsecutiveFailures = 2
    MaxStaleness = 0
    PauseOnBreaker = TRUE
    Window = 1
    MaxTime = 2
SPECIFICATION Spec
INVARIANT OverspendBounded InFlightConserved TripNotLost OpenBarsNewCalls
