------------------------------ MODULE Execution ------------------------------
(***************************************************************************)
(* ExecutionEngine::execute (crates/liq-execution/src/lib.rs) and the      *)
(* CircuitBreaker it consults (crates/liq-risk/src/lib.rs).                *)
(*                                                                         *)
(* The breaker is shared through an Arc and guards each of its fields by a *)
(* lock of its own, never holding two at once.  A step of a worker is      *)
(* therefore one lock acquisition, and calls of execute by several workers *)
(* interleave with each other, with an operator that pauses, trips or      *)
(* resets the breaker, and with time.  execute has no await, so a call     *)
(* that has started runs to its end.  A live submission always fails: the  *)
(* Jito / TPU path is not wired (line 149).                                *)
(*                                                                         *)
(* Metrics, the bid (a pure function that is only logged) and the error    *)
(* values are left out.                                                    *)
(***************************************************************************)
EXTENDS Integers, FiniteSets, Functions

CONSTANTS Workers,                 \* tasks that call execute
          DryWorkers,              \* those whose engine has dry_run = true
          Notionals,               \* notional_usd_micro of a PreparedTx
          Stalenesses,             \* oracle_staleness_slots a caller passes
          MaxConcurrent,           \* limits.max_concurrent_liquidations
          MaxNotionalPerLiq,       \* limits.max_notional_per_liq_usd_micro
          MaxNotionalPerWindow,    \* limits.max_notional_per_minute_usd_micro
          MaxConsecutiveFailures,  \* limits.max_consecutive_failures
          MaxStaleness,            \* limits.oracle_max_staleness_slots
          PauseOnBreaker,          \* limits.pause_on_breaker
          Window,                  \* length of the rolling window, in clock ticks
          MaxTime                  \* bound of the model: the last clock tick

ASSUME ExecutionAssumption ==
    /\ IsFiniteSet(Workers) /\ Workers # {}
    /\ DryWorkers \subseteq Workers
    /\ Notionals \subseteq Nat
    /\ Stalenesses \subseteq Nat
    /\ MaxConcurrent \in Nat
    /\ MaxNotionalPerLiq \in Nat
    /\ MaxNotionalPerWindow \in Nat
    /\ MaxConsecutiveFailures \in Nat \ {0}
    /\ MaxStaleness \in Nat
    /\ PauseOnBreaker \in BOOLEAN
    /\ Window \in Nat
    /\ MaxTime \in Nat

VARIABLES paused,                \* RwLock<bool>
          open,                  \* RwLock<bool>
          reason,                \* RwLock<Option<&str>>, "none" for None
          consecutive_failures,  \* RwLock<u32>
          in_flight,             \* RwLock<u32>
          rolling,               \* RwLock<RollingWindow>: notional kept, by time of the event
          now,                   \* Instant::now()
          pc,                    \* the lock a worker takes next
          notional,              \* notional of the call a worker is in
          operator,              \* where the operator is in trip or reset
          barred                 \* history: calls begun while open or paused, still so

breakerVars == <<paused, open, reason, consecutive_failures, in_flight, rolling>>
vars == <<breakerVars, now, pc, notional, operator, barred>>

Instants == 0 .. MaxTime

WorkerPC == {"idle", "check_open", "check_in_flight", "check_rolling",
             "begin_in_flight", "begin_rolling", "end_in_flight",
             "end_failures", "trip_open", "trip_reason"}

OperatorPC == {"idle", "trip_reason", "reset_reason", "reset_failures"}

TypeOK ==
    /\ paused \in BOOLEAN
    /\ open \in BOOLEAN
    /\ reason \in {"none", "manual", "max_consecutive_failures"}
    /\ consecutive_failures \in Nat
    /\ in_flight \in Nat
    /\ rolling \in [Instants -> Nat]
    /\ now \in Instants
    /\ pc \in [Workers -> WorkerPC]
    /\ notional \in [Workers -> Notionals \cup {0}]
    /\ operator \in OperatorPC
    /\ barred \in SUBSET Workers

Init ==
    /\ paused = FALSE
    /\ open = FALSE
    /\ reason = "none"
    /\ consecutive_failures = 0
    /\ in_flight = 0
    /\ rolling = [t \in Instants |-> 0]
    /\ now = 0
    /\ pc = [w \in Workers |-> "idle"]
    /\ notional = [w \in Workers |-> 0]
    /\ operator = "idle"
    /\ barred = {}

Goto(w, label) == pc' = [pc EXCEPT ![w] = label]

-----------------------------------------------------------------------------
(* The rolling window                                                      *)

\* The code keeps a Vec of (time, notional), which it only ever filters by time
\* and adds up: the events of one instant are one amount here.

\* prune: an event exactly one window old is kept.
Pruned == [t \in Instants |-> IF now - t <= Window THEN rolling[t] ELSE 0]

\* sum
Spent == SumFunctionOnSet(Pruned, Instants)

-----------------------------------------------------------------------------
(* check_allow: one step per lock, with the local tests after it           *)

\* execute is called and check_allow reads paused.
CheckPaused(w) ==
    /\ pc[w] = "idle"
    /\ ~paused
    /\ \E n \in Notionals : notional' = [notional EXCEPT ![w] = n]
    /\ barred' = IF open THEN barred \cup {w} ELSE barred \ {w}
    /\ Goto(w, "check_open")
    /\ UNCHANGED <<breakerVars, now, operator>>

\* The bounds on one liquidation, which read no shared state.
WithinOwnLimits(n, staleness) == staleness <= MaxStaleness /\ n <= MaxNotionalPerLiq

\* Mutant: the test of open is lost.
CheckOpen_Ignored(w) ==
    /\ pc[w] = "check_open"
    /\ \E st \in Stalenesses :
          Goto(w, IF WithinOwnLimits(notional[w], st) THEN "check_in_flight" ELSE "idle")
    /\ UNCHANGED <<breakerVars, now, notional, operator, barred>>

\* Read open; then staleness and notional.  A rejection ends the call.
CheckOpen(w) ==
    /\ pc[w] = "check_open"
    /\ \E st \in Stalenesses :
          Goto(w, IF ~open /\ WithinOwnLimits(notional[w], st)
                  THEN "check_in_flight" ELSE "idle")
    /\ UNCHANGED <<breakerVars, now, notional, operator, barred>>

CheckInFlight(w) ==
    /\ pc[w] = "check_in_flight"
    /\ Goto(w, IF in_flight >= MaxConcurrent THEN "idle" ELSE "check_rolling")
    /\ UNCHANGED <<breakerVars, now, notional, operator, barred>>

\* Mutant: the liquidation asked for is not counted, only those before it.
Affordable_PastOnly(n) == Spent <= MaxNotionalPerWindow

Affordable(n) == Spent + n <= MaxNotionalPerWindow

\* sum prunes the window whether or not the call is then allowed.
CheckRolling(w) ==
    /\ pc[w] = "check_rolling"
    /\ rolling' = Pruned
    /\ Goto(w, IF Affordable(notional[w]) THEN "begin_in_flight" ELSE "idle")
    /\ UNCHANGED <<paused, open, reason, consecutive_failures, in_flight,
                   now, notional, operator, barred>>

-----------------------------------------------------------------------------
(* begin, and the end_success or end_failure that every begin reaches      *)

BeginInFlight(w) ==
    /\ pc[w] = "begin_in_flight"
    /\ in_flight' = in_flight + 1
    /\ Goto(w, "begin_rolling")
    /\ UNCHANGED <<paused, open, reason, consecutive_failures, rolling,
                   now, notional, operator, barred>>

BeginRolling(w) ==
    /\ pc[w] = "begin_rolling"
    /\ rolling' = [Pruned EXCEPT ![now] = @ + notional[w]]
    /\ Goto(w, "end_in_flight")
    /\ UNCHANGED <<paused, open, reason, consecutive_failures, in_flight,
                   now, notional, operator, barred>>

\* Mutant: only end_success gives its place back.
EndInFlight_SuccessOnly(w) ==
    /\ pc[w] = "end_in_flight"
    /\ in_flight' = IF w \in DryWorkers /\ in_flight > 0 THEN in_flight - 1 ELSE in_flight
    /\ Goto(w, "end_failures")
    /\ UNCHANGED <<paused, open, reason, consecutive_failures, rolling,
                   now, notional, operator, barred>>

\* saturating_sub(1), the first half of end_success and of end_failure.
EndInFlight(w) ==
    /\ pc[w] = "end_in_flight"
    /\ in_flight' = IF in_flight > 0 THEN in_flight - 1 ELSE 0
    /\ Goto(w, "end_failures")
    /\ UNCHANGED <<paused, open, reason, consecutive_failures, rolling,
                   now, notional, operator, barred>>

\* A dry run ends in success and clears the failures.
EndSuccess(w) ==
    /\ pc[w] = "end_failures"
    /\ w \in DryWorkers
    /\ consecutive_failures' = 0
    /\ Goto(w, "idle")
    /\ UNCHANGED <<paused, open, reason, in_flight, rolling,
                   now, notional, operator, barred>>

\* Mutant: > for >=.
ShouldTrip_OneLate(failures) == failures > MaxConsecutiveFailures /\ PauseOnBreaker

ShouldTrip(failures) == failures >= MaxConsecutiveFailures /\ PauseOnBreaker

\* A live call ends in failure; it trips the breaker after it let go of the lock.
EndFailure(w) ==
    /\ pc[w] = "end_failures"
    /\ w \notin DryWorkers
    /\ consecutive_failures' = consecutive_failures + 1
    /\ Goto(w, IF ShouldTrip(consecutive_failures + 1) THEN "trip_open" ELSE "idle")
    /\ UNCHANGED <<paused, open, reason, in_flight, rolling,
                   now, notional, operator, barred>>

TripOpen(w) ==
    /\ pc[w] = "trip_open"
    /\ open' = TRUE
    /\ Goto(w, "trip_reason")
    /\ UNCHANGED <<paused, reason, consecutive_failures, in_flight, rolling,
                   now, notional, operator, barred>>

TripReason(w) ==
    /\ pc[w] = "trip_reason"
    /\ reason' = "max_consecutive_failures"
    /\ Goto(w, "idle")
    /\ UNCHANGED <<paused, open, consecutive_failures, in_flight, rolling,
                   now, notional, operator, barred>>

Worker(w) ==
    \/ CheckPaused(w) \/ CheckOpen(w) \/ CheckInFlight(w) \/ CheckRolling(w)
    \/ BeginInFlight(w) \/ BeginRolling(w)
    \/ EndInFlight(w) \/ EndSuccess(w) \/ EndFailure(w)
    \/ TripOpen(w) \/ TripReason(w)

-----------------------------------------------------------------------------
(* The operator, who trips, resets or pauses the breaker, and time         *)

\* A call made while paused is turned away at once and is nobody's business.
SetPaused(p) ==
    /\ operator = "idle"
    /\ paused' = p
    /\ UNCHANGED <<open, reason, consecutive_failures, in_flight, rolling,
                   now, pc, notional, operator, barred>>

ManualTripOpen ==
    /\ operator = "idle"
    /\ open' = TRUE
    /\ operator' = "trip_reason"
    /\ UNCHANGED <<paused, reason, consecutive_failures, in_flight, rolling,
                   now, pc, notional, barred>>

ManualTripReason ==
    /\ operator = "trip_reason"
    /\ reason' = "manual"
    /\ operator' = "idle"
    /\ UNCHANGED <<paused, open, consecutive_failures, in_flight, rolling,
                   now, pc, notional, barred>>

ResetOpen ==
    /\ operator = "idle"
    /\ open' = FALSE
    /\ operator' = "reset_reason"
    /\ barred' = {}
    /\ UNCHANGED <<paused, reason, consecutive_failures, in_flight, rolling,
                   now, pc, notional>>

ResetReason ==
    /\ operator = "reset_reason"
    /\ reason' = "none"
    /\ operator' = "reset_failures"
    /\ UNCHANGED <<paused, open, consecutive_failures, in_flight, rolling,
                   now, pc, notional, barred>>

ResetFailures ==
    /\ operator = "reset_failures"
    /\ consecutive_failures' = 0
    /\ operator' = "idle"
    /\ UNCHANGED <<paused, open, reason, in_flight, rolling,
                   now, pc, notional, barred>>

Operator ==
    \/ \E p \in BOOLEAN : SetPaused(p)
    \/ ManualTripOpen \/ ManualTripReason
    \/ ResetOpen \/ ResetReason \/ ResetFailures

Tick ==
    /\ now < MaxTime
    /\ now' = now + 1
    /\ UNCHANGED <<breakerVars, pc, notional, operator, barred>>

Next == (\E w \in Workers : Worker(w)) \/ Operator \/ Tick

Spec == Init /\ [][Next]_vars

-----------------------------------------------------------------------------
(* Properties                                                              *)

\* Workers between begin's increment of in_flight and the decrement.
Flying == {w \in Workers : pc[w] \in {"begin_rolling", "end_in_flight"}}

\* in_flight counts exactly the liquidations under way: however calls
\* interleave, each begin is undone by one end, nothing leaks a place and
\* saturating_sub never has to saturate (begin, end_success, end_failure).
InFlightConserved == in_flight = Cardinality(Flying)

\* A call that found the budget large enough but is not in the window yet.
Admitted == {w \in Workers : pc[w] \in {"begin_in_flight", "begin_rolling"}}

\* check_allow and begin take the window's lock separately, so concurrent calls
\* can overspend the per-minute budget, but never by more than one maximal
\* liquidation for each worker beyond the first; one worker never overspends.
OverspendBounded ==
    Spent + SumFunctionOnSet(notional, Admitted)
        <= MaxNotionalPerWindow + (Cardinality(Workers) - 1) * MaxNotionalPerLiq

\* A run of failures that reaches the limit is never lost: the breaker is open,
\* or the worker that reached the limit is about to open it, or a reset that
\* will clear the count is under way (end_failure trips after it has dropped the
\* lock on the count, and reset clears three fields one after the other).
TripNotLost ==
    PauseOnBreaker /\ consecutive_failures >= MaxConsecutiveFailures
        => \/ open
           \/ \E w \in Workers : pc[w] = "trip_open"
           \/ operator \in {"reset_reason", "reset_failures"}

\* A call that starts while the breaker is open, and during which nobody starts
\* a reset, never begins a liquidation (check_allow).
OpenBarsNewCalls ==
    \A w \in barred :
        pc[w] \notin {"check_in_flight", "check_rolling", "begin_in_flight",
                      "begin_rolling", "end_in_flight"}
=============================================================================
