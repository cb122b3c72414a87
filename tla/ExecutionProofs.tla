--------------------------- MODULE ExecutionProofs ---------------------------
(***************************************************************************)
(* The circuit breaker under any number of workers, with every lock taken  *)
(* separately: places in flight are conserved, a run of failures is never  *)
(* forgotten, and an open breaker stays closed to new calls.               *)
(***************************************************************************)
EXTENDS Execution, DataProofs

\* A call that was barred still is: the breaker is open, so the call cannot get
\* past check_allow's reading of it.
BarredInv == \A w \in barred : open /\ pc[w] \in {"idle", "check_open"}

-----------------------------------------------------------------------------
(* The places in flight                                                    *)

\* The steps of w that neither begin nor end a liquidation leave Flying alone.
LEMMA FlyingUnchanged ==
    ASSUME TypeOK, NEW w \in Workers, NEW label \in WorkerPC,
           Goto(w, label),
           w \in Flying <=> label \in {"begin_rolling", "end_in_flight"}
    PROVE  Flying' = Flying
BY DEF TypeOK, Goto, Flying

\* There are finitely many liquidations under way.
LEMMA FlyingFinite == IsFiniteSet(Flying) /\ Cardinality(Flying) \in Nat
<1>1. Flying \subseteq Workers /\ IsFiniteSet(Workers)
  BY ExecutionAssumption DEF Flying
<1> QED BY <1>1, FS_Subset, FS_CardinalityType

\* begin counts the worker that takes off.
LEMMA BeginCounts ==
    ASSUME TypeOK, InFlightConserved, NEW w \in Workers, BeginInFlight(w)
    PROVE  InFlightConserved'
<1>1. Flying' = Flying \cup {w} /\ w \notin Flying
  BY DEF TypeOK, BeginInFlight, Goto, Flying, WorkerPC
<1>2. Cardinality(Flying \cup {w}) = Cardinality(Flying) + 1
  BY <1>1, FlyingFinite, FS_AddElement
<1> QED BY <1>1, <1>2 DEF InFlightConserved, BeginInFlight

\* end gives its place back, and saturating_sub does not saturate.
LEMMA EndCounts ==
    ASSUME TypeOK, InFlightConserved, NEW w \in Workers, EndInFlight(w)
    PROVE  InFlightConserved'
<1>1. Flying' = Flying \ {w} /\ w \in Flying
  BY DEF TypeOK, EndInFlight, Goto, Flying, WorkerPC
<1>2. Cardinality(Flying \ {w}) = Cardinality(Flying) - 1
  BY <1>1, FlyingFinite, FS_RemoveElement
<1>3. Cardinality(Flying) > 0
  BY <1>1, FlyingFinite, FS_EmptySet
<1> QED BY <1>1, <1>2, <1>3, FlyingFinite DEF InFlightConserved, EndInFlight

-----------------------------------------------------------------------------
(* What each step keeps                                                    *)

\* What is kept of the window is an amount per instant, of at most the amount.
LEMMA PrunedType ==
    ASSUME TypeOK
    PROVE  /\ Pruned \in [Instants -> Nat]
           /\ \A t \in Instants : Pruned[t] <= rolling[t]
BY DEF TypeOK, Pruned, Instants

\* A notional is a number.
LEMMA NotionalType ==
    ASSUME TypeOK
    PROVE  now \in Instants /\ \A w \in Workers : notional[w] \in Nat
<1>1. Notionals \cup {0} \subseteq Nat
  BY ExecutionAssumption
<1> QED BY <1>1 DEF TypeOK

\* An engine and its breaker start well-formed.
LEMMA InitType == Init => TypeOK
<1> SUFFICES ASSUME Init PROVE TypeOK
  OBVIOUS
<1>1. 0 \in Instants
  BY ExecutionAssumption DEF Instants
<1> QED BY <1>1 DEF Init, TypeOK, WorkerPC, OperatorPC

\* Every step keeps the types.
LEMMA TypeStep == TypeOK /\ [Next]_vars => TypeOK'
<1> SUFFICES ASSUME TypeOK, [Next]_vars PROVE TypeOK'
  OBVIOUS
<1> USE DEF TypeOK, Goto, WorkerPC, OperatorPC
<1>1. ASSUME NEW w \in Workers, CheckPaused(w) PROVE TypeOK'
  BY <1>1 DEF CheckPaused, breakerVars
<1>2. ASSUME NEW w \in Workers, CheckOpen(w) PROVE TypeOK'
  BY <1>2 DEF CheckOpen, breakerVars
<1>3. ASSUME NEW w \in Workers, CheckInFlight(w) PROVE TypeOK'
  BY <1>3 DEF CheckInFlight, breakerVars
<1>4. ASSUME NEW w \in Workers, CheckRolling(w) PROVE TypeOK'
  BY <1>4, PrunedType DEF CheckRolling
<1>5. ASSUME NEW w \in Workers, BeginInFlight(w) PROVE TypeOK'
  BY <1>5 DEF BeginInFlight, breakerVars
<1>6. ASSUME NEW w \in Workers, BeginRolling(w) PROVE TypeOK'
  <2>1. notional[w] \in Nat /\ now \in Instants
    BY NotionalType
  <2>2. Pruned \in [Instants -> Nat] /\ Pruned[now] + notional[w] \in Nat
    BY <2>1, PrunedType
  <2>3. rolling' \in [Instants -> Nat]
    BY <1>6, <2>2 DEF BeginRolling
  <2> QED BY <1>6, <2>3 DEF BeginRolling
<1>7. ASSUME NEW w \in Workers, EndInFlight(w) PROVE TypeOK'
  BY <1>7 DEF EndInFlight, breakerVars
<1>8. ASSUME NEW w \in Workers, EndSuccess(w) PROVE TypeOK'
  BY <1>8 DEF EndSuccess, breakerVars
<1>9. ASSUME NEW w \in Workers, EndFailure(w) PROVE TypeOK'
  BY <1>9 DEF EndFailure, breakerVars
<1>10. ASSUME NEW w \in Workers, TripOpen(w) PROVE TypeOK'
  BY <1>10 DEF TripOpen, breakerVars
<1>11. ASSUME NEW w \in Workers, TripReason(w) PROVE TypeOK'
  BY <1>11 DEF TripReason, breakerVars
<1>12. ASSUME NEW p \in BOOLEAN, SetPaused(p) PROVE TypeOK'
  BY <1>12 DEF SetPaused
<1>13. CASE ManualTripOpen
  BY <1>13 DEF ManualTripOpen
<1>14. CASE ManualTripReason
  BY <1>14 DEF ManualTripReason
<1>15. CASE ResetOpen
  BY <1>15 DEF ResetOpen
<1>16. CASE ResetReason
  BY <1>16 DEF ResetReason
<1>17. CASE ResetFailures
  BY <1>17 DEF ResetFailures
<1>18. CASE Tick
  BY <1>18, ExecutionAssumption DEF Tick, breakerVars, Instants
<1>19. CASE UNCHANGED vars
  BY <1>19 DEF vars, breakerVars
<1> QED
  BY <1>1, <1>2, <1>3, <1>4, <1>5, <1>6, <1>7, <1>8, <1>9, <1>10,
     <1>11, <1>12, <1>13, <1>14, <1>15, <1>16, <1>17, <1>18, <1>19
  DEF Next, Worker, Operator

\* Only begin and end change in_flight, each together with Flying.
LEMMA ConservedStep == TypeOK /\ InFlightConserved /\ [Next]_vars => InFlightConserved'
<1> SUFFICES ASSUME TypeOK, InFlightConserved, [Next]_vars PROVE InFlightConserved'
  OBVIOUS
<1> USE DEF TypeOK, InFlightConserved, Flying
<1>1. ASSUME NEW w \in Workers, CheckPaused(w) PROVE InFlightConserved'
  BY <1>1 DEF CheckPaused, breakerVars, Goto
<1>2. ASSUME NEW w \in Workers, CheckOpen(w) PROVE InFlightConserved'
  BY <1>2 DEF CheckOpen, breakerVars, Goto
<1>3. ASSUME NEW w \in Workers, CheckInFlight(w) PROVE InFlightConserved'
  BY <1>3 DEF CheckInFlight, breakerVars, Goto
<1>4. ASSUME NEW w \in Workers, CheckRolling(w) PROVE InFlightConserved'
  BY <1>4 DEF CheckRolling, breakerVars, Goto
<1>5. ASSUME NEW w \in Workers, BeginInFlight(w) PROVE InFlightConserved'
  BY <1>5, BeginCounts
<1>6. ASSUME NEW w \in Workers, BeginRolling(w) PROVE InFlightConserved'
  BY <1>6 DEF BeginRolling, breakerVars, Goto
<1>7. ASSUME NEW w \in Workers, EndInFlight(w) PROVE InFlightConserved'
  BY <1>7, EndCounts
<1>8. ASSUME NEW w \in Workers, EndSuccess(w) PROVE InFlightConserved'
  BY <1>8 DEF EndSuccess, breakerVars, Goto
<1>9. ASSUME NEW w \in Workers, EndFailure(w) PROVE InFlightConserved'
  BY <1>9 DEF EndFailure, breakerVars, Goto
<1>10. ASSUME NEW w \in Workers, TripOpen(w) PROVE InFlightConserved'
  BY <1>10 DEF TripOpen, breakerVars, Goto
<1>11. ASSUME NEW w \in Workers, TripReason(w) PROVE InFlightConserved'
  BY <1>11 DEF TripReason, breakerVars, Goto
<1>12. ASSUME NEW p \in BOOLEAN, SetPaused(p) PROVE InFlightConserved'
  BY <1>12 DEF SetPaused, Goto
<1>13. CASE ManualTripOpen
  BY <1>13 DEF ManualTripOpen, Goto
<1>14. CASE ManualTripReason
  BY <1>14 DEF ManualTripReason, Goto
<1>15. CASE ResetOpen
  BY <1>15 DEF ResetOpen, Goto
<1>16. CASE ResetReason
  BY <1>16 DEF ResetReason, Goto
<1>17. CASE ResetFailures
  BY <1>17 DEF ResetFailures, Goto
<1>18. CASE Tick \/ UNCHANGED vars
  BY <1>18 DEF Tick, vars, breakerVars, Goto
<1> QED
  BY <1>1, <1>2, <1>3, <1>4, <1>5, <1>6, <1>7, <1>8, <1>9, <1>10,
     <1>11, <1>12, <1>13, <1>14, <1>15, <1>16, <1>17, <1>18
  DEF Next, Worker, Operator

\* A count at the limit always has an open breaker, a worker on its way to open
\* it, or a reset on its way to clear it.
LEMMA TripStep == TypeOK /\ TripNotLost /\ [Next]_vars => TripNotLost'
<1> SUFFICES ASSUME TypeOK, TripNotLost, [Next]_vars PROVE TripNotLost'
  OBVIOUS
<1> USE DEF TypeOK, TripNotLost
<1>1. ASSUME NEW w \in Workers, CheckPaused(w) PROVE TripNotLost'
  BY <1>1 DEF CheckPaused, breakerVars, Goto
<1>2. ASSUME NEW w \in Workers, CheckOpen(w) PROVE TripNotLost'
  BY <1>2 DEF CheckOpen, breakerVars, Goto
<1>3. ASSUME NEW w \in Workers, CheckInFlight(w) PROVE TripNotLost'
  BY <1>3 DEF CheckInFlight, breakerVars, Goto
<1>4. ASSUME NEW w \in Workers, CheckRolling(w) PROVE TripNotLost'
  BY <1>4 DEF CheckRolling, breakerVars, Goto
<1>5. ASSUME NEW w \in Workers, BeginInFlight(w) PROVE TripNotLost'
  BY <1>5 DEF BeginInFlight, breakerVars, Goto
<1>6. ASSUME NEW w \in Workers, BeginRolling(w) PROVE TripNotLost'
  BY <1>6 DEF BeginRolling, breakerVars, Goto
<1>7. ASSUME NEW w \in Workers, EndInFlight(w) PROVE TripNotLost'
  BY <1>7 DEF EndInFlight, breakerVars, Goto
<1>8. ASSUME NEW w \in Workers, EndSuccess(w) PROVE TripNotLost'
  BY <1>8, ExecutionAssumption DEF EndSuccess, Goto
<1>9. ASSUME NEW w \in Workers, EndFailure(w) PROVE TripNotLost'
  BY <1>9 DEF EndFailure, Goto, ShouldTrip
<1>10. ASSUME NEW w \in Workers, TripOpen(w) PROVE TripNotLost'
  BY <1>10 DEF TripOpen, breakerVars, Goto
<1>11. ASSUME NEW w \in Workers, TripReason(w) PROVE TripNotLost'
  BY <1>11 DEF TripReason, breakerVars, Goto
<1>12. ASSUME NEW p \in BOOLEAN, SetPaused(p) PROVE TripNotLost'
  BY <1>12 DEF SetPaused, Goto
<1>13. CASE ManualTripOpen
  BY <1>13 DEF ManualTripOpen, Goto
<1>14. CASE ManualTripReason
  BY <1>14 DEF ManualTripReason, Goto
<1>15. CASE ResetOpen
  BY <1>15 DEF ResetOpen, Goto
<1>16. CASE ResetReason
  BY <1>16 DEF ResetReason, Goto
<1>17. CASE ResetFailures
  BY <1>17, ExecutionAssumption DEF ResetFailures
<1>18. CASE Tick \/ UNCHANGED vars
  BY <1>18 DEF Tick, vars, breakerVars, Goto
<1> QED
  BY <1>1, <1>2, <1>3, <1>4, <1>5, <1>6, <1>7, <1>8, <1>9, <1>10,
     <1>11, <1>12, <1>13, <1>14, <1>15, <1>16, <1>17, <1>18
  DEF Next, Worker, Operator

\* A barred call stays barred until it ends or a reset begins.
LEMMA BarredStep == TypeOK /\ BarredInv /\ [Next]_vars => BarredInv'
<1> SUFFICES ASSUME TypeOK, BarredInv, [Next]_vars PROVE BarredInv'
  OBVIOUS
<1> USE DEF TypeOK, BarredInv
<1>1. ASSUME NEW w \in Workers, CheckPaused(w) PROVE BarredInv'
  BY <1>1 DEF CheckPaused, breakerVars, Goto
<1>2. ASSUME NEW w \in Workers, CheckOpen(w) PROVE BarredInv'
  BY <1>2 DEF CheckOpen, breakerVars, Goto
<1>3. ASSUME NEW w \in Workers, CheckInFlight(w) PROVE BarredInv'
  BY <1>3 DEF CheckInFlight, breakerVars, Goto
<1>4. ASSUME NEW w \in Workers, CheckRolling(w) PROVE BarredInv'
  BY <1>4 DEF CheckRolling, breakerVars, Goto
<1>5. ASSUME NEW w \in Workers, BeginInFlight(w) PROVE BarredInv'
  BY <1>5 DEF BeginInFlight, breakerVars, Goto
<1>6. ASSUME NEW w \in Workers, BeginRolling(w) PROVE BarredInv'
  BY <1>6 DEF BeginRolling, breakerVars, Goto
<1>7. ASSUME NEW w \in Workers, EndInFlight(w) PROVE BarredInv'
  BY <1>7 DEF EndInFlight, breakerVars, Goto
<1>8. ASSUME NEW w \in Workers, EndSuccess(w) PROVE BarredInv'
  BY <1>8 DEF EndSuccess, breakerVars, Goto
<1>9. ASSUME NEW w \in Workers, EndFailure(w) PROVE BarredInv'
  BY <1>9 DEF EndFailure, breakerVars, Goto
<1>10. ASSUME NEW w \in Workers, TripOpen(w) PROVE BarredInv'
  BY <1>10 DEF TripOpen, breakerVars, Goto
<1>11. ASSUME NEW w \in Workers, TripReason(w) PROVE BarredInv'
  BY <1>11 DEF TripReason, breakerVars, Goto
<1>12. ASSUME NEW p \in BOOLEAN, SetPaused(p) PROVE BarredInv'
  BY <1>12 DEF SetPaused, Goto
<1>13. CASE ManualTripOpen
  BY <1>13 DEF ManualTripOpen, Goto
<1>14. CASE ManualTripReason
  BY <1>14 DEF ManualTripReason, Goto
<1>15. CASE ResetOpen
  BY <1>15 DEF ResetOpen, Goto
<1>16. CASE ResetReason
  BY <1>16 DEF ResetReason, Goto
<1>17. CASE ResetFailures
  BY <1>17 DEF ResetFailures, Goto
<1>18. CASE Tick \/ UNCHANGED vars
  BY <1>18 DEF Tick, vars, breakerVars, Goto
<1> QED
  BY <1>1, <1>2, <1>3, <1>4, <1>5, <1>6, <1>7, <1>8, <1>9, <1>10,
     <1>11, <1>12, <1>13, <1>14, <1>15, <1>16, <1>17, <1>18
  DEF Next, Worker, Operator

-----------------------------------------------------------------------------
(* Theorems                                                                *)

\* The breaker's fields, its window and the workers' places stay well-formed.
THEOREM ExecutionTypeCorrect == Spec => []TypeOK
BY InitType, TypeStep, PTL DEF Spec

\* in_flight counts the liquidations under way, however calls interleave.
THEOREM PlacesConserved == Spec => []InFlightConserved
<1>1. Init => InFlightConserved
  BY FS_EmptySet DEF Init, InFlightConserved, Flying
<1> QED BY <1>1, ConservedStep, ExecutionTypeCorrect, PTL DEF Spec

\* A run of failures that reaches the limit opens the breaker or is cleared.
THEOREM NoTripLost == Spec => []TripNotLost
<1>1. Init => TripNotLost
  BY ExecutionAssumption DEF Init, TripNotLost
<1> QED BY <1>1, TripStep, ExecutionTypeCorrect, PTL DEF Spec

\* A call that starts while the breaker is open does not begin a liquidation
\* unless a reset comes first.
THEOREM OpenBreakerBars == Spec => []OpenBarsNewCalls
<1>1. Init => BarredInv
  BY DEF Init, BarredInv
<1>2. BarredInv => OpenBarsNewCalls
  BY DEF BarredInv, OpenBarsNewCalls
<1> QED BY <1>1, <1>2, BarredStep, ExecutionTypeCorrect, PTL DEF Spec

-----------------------------------------------------------------------------
(* The budget of the rolling window                                        *)

\* Past the test of its size, a liquidation is not larger than one may be.
SizeChecked ==
    \A w \in Workers :
        pc[w] \in {"check_in_flight", "check_rolling", "begin_in_flight", "begin_rolling"}
            => notional[w] <= MaxNotionalPerLiq

BudgetInv == SizeChecked /\ OverspendBounded

\* The terms of both sums are numbers, and there are finitely many.
LEMMA BudgetSums ==
    ASSUME TypeOK
    PROVE  /\ IsFiniteSet(Instants) /\ Counts(Pruned, Instants) /\ Spent \in Nat
           /\ \A S \in SUBSET Workers :
                 /\ IsFiniteSet(S) /\ Counts(notional, S)
                 /\ SumFunctionOnSet(notional, S) \in Nat
<1>1. IsFiniteSet(Instants)
  BY ExecutionAssumption, FS_Interval DEF Instants
<1>2. Counts(Pruned, Instants)
  BY PrunedType DEF Counts
<1>3. Spent \in Nat
  BY <1>1, <1>2, SumType DEF Spent
<1>4. ASSUME NEW S \in SUBSET Workers
      PROVE  /\ IsFiniteSet(S) /\ Counts(notional, S)
             /\ SumFunctionOnSet(notional, S) \in Nat
  <2>1. IsFiniteSet(S)
    BY ExecutionAssumption, FS_Subset
  <2>2. Counts(notional, S)
    BY NotionalType DEF Counts
  <2> QED BY <2>1, <2>2, SumType
<1> QED BY <1>1, <1>2, <1>3, <1>4

\* Two windows with the same amounts have the same sum.
LEMMA SpentSame ==
    ASSUME TypeOK, \A t \in Instants : Pruned'[t] = Pruned[t]
    PROVE  Spent' = Spent
<1>1. SumFunctionOnSet(Pruned', Instants) = SumFunctionOnSet(Pruned, Instants)
  BY BudgetSums, SumAgrees
<1> QED BY <1>1 DEF Spent, Instants

\* A step that leaves the window, the calls admitted and their notionals alone.
LEMMA BudgetSame ==
    ASSUME TypeOK, OverspendBounded, UNCHANGED <<now, rolling>>,
           Admitted' = Admitted, \A w \in Admitted : notional'[w] = notional[w]
    PROVE  OverspendBounded'
<1>1. Spent' = Spent
  BY DEF Spent, Pruned, Instants
<1>2. Admitted \in SUBSET Workers
  BY DEF Admitted
<1>3. SumFunctionOnSet(notional', Admitted) = SumFunctionOnSet(notional, Admitted)
  BY <1>2, BudgetSums, SumAgrees
<1> QED BY <1>1, <1>3 DEF OverspendBounded

\* Pruning twice at one instant is pruning once.
LEMMA PrunedTwice ==
    ASSUME TypeOK, now' = now, rolling' = Pruned
    PROVE  Spent' = Spent
<1>1. \A t \in Instants : Pruned'[t] = Pruned[t]
  BY DEF Pruned, Instants
<1> QED BY <1>1, SpentSame

\* A call let past the budget fits in it with what has been begun, and the other
\* workers have admitted at most one liquidation each.
LEMMA AdmitFits ==
    ASSUME TypeOK, BudgetInv, NEW w \in Workers, CheckRolling(w), Affordable(notional[w])
    PROVE  OverspendBounded'
<1> DEFINE M == MaxNotionalPerLiq
           others == SumFunctionOnSet(notional, Admitted)
<1>1. /\ pc[w] = "check_rolling" /\ pc'[w] = "begin_in_flight"
      /\ rolling' = Pruned /\ now' = now /\ notional' = notional
      /\ Admitted' = Admitted \cup {w} /\ w \notin Admitted
  BY DEF CheckRolling, Goto, TypeOK, Admitted
<1>2. Spent' = Spent
  BY <1>1, PrunedTwice
<1>3. /\ Admitted \in SUBSET Workers /\ Admitted \cup {w} \in SUBSET Workers
      /\ Admitted \in SUBSET (Workers \ {w})
  BY <1>1 DEF Admitted
<1>4. SumFunctionOnSet(notional, Admitted \cup {w}) = others + notional[w]
  BY <1>1, <1>3, BudgetSums, SumAdd
<1>5. others <= Cardinality(Admitted) * M
  <2>1. \A v \in Admitted : notional[v] <= M
    BY DEF BudgetInv, SizeChecked, Admitted
  <2>2. M \in Nat
    BY ExecutionAssumption
  <2> QED BY <1>3, <2>1, <2>2, BudgetSums, SumBounded
<1>6. /\ Cardinality(Admitted) \in Nat /\ Cardinality(Workers) \in Nat
      /\ Cardinality(Admitted) <= Cardinality(Workers) - 1
  <2>1. IsFiniteSet(Workers)
    BY ExecutionAssumption
  <2>2. /\ IsFiniteSet(Workers \ {w}) /\ Cardinality(Workers) \in Nat
        /\ Cardinality(Workers \ {w}) = Cardinality(Workers) - 1
    BY <2>1, FS_RemoveElement, FS_CardinalityType
  <2>3. Cardinality(Admitted) <= Cardinality(Workers \ {w})
    BY <1>3, <2>2, FS_Subset
  <2>4. Cardinality(Admitted) \in Nat
    BY <1>3, BudgetSums, FS_CardinalityType
  <2> QED BY <2>2, <2>3, <2>4
<1>7. Spent + notional[w] <= MaxNotionalPerWindow
  BY DEF Affordable
<1>8. /\ Spent \in Nat /\ others \in Nat /\ notional[w] \in Nat
      /\ M \in Nat /\ MaxNotionalPerWindow \in Nat
  BY <1>3, BudgetSums, NotionalType, ExecutionAssumption
<1>9. Cardinality(Admitted) * M <= (Cardinality(Workers) - 1) * M
  <2>1. \A a, b, m \in Nat : a <= b => a * m <= b * m
    OBVIOUS
  <2>2. Cardinality(Workers) - 1 \in Nat
    BY <1>6
  <2> QED BY <1>6, <1>8, <2>1, <2>2
<1>10. Spent + (others + notional[w])
          <= MaxNotionalPerWindow + (Cardinality(Workers) - 1) * M
  <2> DEFINE X == Cardinality(Admitted) * M
             Y == (Cardinality(Workers) - 1) * M
  <2>1. X \in Int /\ Y \in Int
    BY <1>6, <1>8
  <2>2. others <= X /\ X <= Y
    BY <1>5, <1>9
  <2> HIDE DEF X, Y, others
  <2>3. Spent + (others + notional[w]) <= MaxNotionalPerWindow + Y
    BY <1>7, <1>8, <2>1, <2>2
  <2> QED BY <2>3 DEF Y
<1> HIDE DEF others
<1>11. SumFunctionOnSet(notional, Admitted)' = others + notional[w]
  BY <1>1, <1>4
<1> QED BY <1>2, <1>10, <1>11 DEF OverspendBounded

\* What is begun is taken from the calls admitted to the window.
LEMMA BeginMoves ==
    ASSUME TypeOK, OverspendBounded, NEW w \in Workers, BeginRolling(w)
    PROVE  OverspendBounded'
<1> DEFINE rest == SumFunctionOnSet(notional, Admitted \ {w})
           n == notional[w]
           empty == [Pruned EXCEPT ![now] = 0]
<1>1. /\ rolling' = [Pruned EXCEPT ![now] = @ + n] /\ now' = now /\ notional' = notional
      /\ Admitted' = Admitted \ {w} /\ w \in Admitted /\ Admitted \in SUBSET Workers
  BY DEF BeginRolling, Goto, TypeOK, Admitted
<1>2. now \in Instants /\ n \in Nat /\ Pruned \in [Instants -> Nat]
  BY NotionalType, PrunedType
<1>3. \A t \in Instants : Pruned'[t] = IF t = now THEN Pruned[now] + n ELSE Pruned[t]
  <2>1. TypeOK'
    BY TypeStep DEF Next, Worker
  <2>2. ASSUME NEW t \in Instants
        PROVE  Pruned'[t] = IF now - t <= Window THEN rolling'[t] ELSE 0
    BY <1>1 DEF Pruned, Instants
  <2>3. now - now <= Window
    BY <1>2, ExecutionAssumption DEF Instants
  <2> QED BY <1>1, <1>2, <2>2, <2>3 DEF Pruned
<1>4. SumFunctionOnSet(notional, Admitted) = n + rest /\ rest \in Nat
  <2>1. Admitted \ {w} \in SUBSET Workers
    BY <1>1
  <2> QED BY <1>1, <2>1, BudgetSums, SumAnyOrder
<1>5. Spent' = Spent + n
  <2> DEFINE others == Instants \ {now}
  <2>1. /\ IsFiniteSet(Instants) /\ IsFiniteSet(others)
        /\ Counts(Pruned, Instants) /\ Counts(Pruned, others)
        /\ Counts(Pruned', Instants)
    BY <1>2, <1>3, BudgetSums, FS_RemoveElement DEF Counts
  <2>2. Spent = Pruned[now] + SumFunctionOnSet(Pruned, others)
    BY <1>2, <2>1, SumAnyOrder DEF Spent
  <2>3. SumFunctionOnSet(Pruned', Instants)
            = Pruned'[now] + SumFunctionOnSet(Pruned', others)
    BY <1>2, <2>1, SumAnyOrder
  <2>4. SumFunctionOnSet(Pruned', others) = SumFunctionOnSet(Pruned, others)
    BY <1>3, <2>1, SumAgrees
  <2>5. Pruned'[now] = Pruned[now] + n /\ Pruned[now] \in Nat
    BY <1>2, <1>3
  <2>6. SumFunctionOnSet(Pruned, others) \in Nat
    BY <2>1, SumType
  <2>7. Spent' = SumFunctionOnSet(Pruned', Instants)
    BY DEF Spent, Instants
  <2> HIDE DEF others, n
  <2> QED BY <1>2, <2>2, <2>3, <2>4, <2>5, <2>6, <2>7
<1>6. SumFunctionOnSet(notional, Admitted)' = rest
  BY <1>1
<1>7. Spent \in Nat /\ (Spent + n) + rest = Spent + (n + rest)
  BY <1>2, <1>4, BudgetSums
<1> HIDE DEF rest, n
<1>8. Spent' + SumFunctionOnSet(notional, Admitted)'
        = Spent + SumFunctionOnSet(notional, Admitted)
  BY <1>4, <1>5, <1>6, <1>7
<1> QED BY <1>8 DEF OverspendBounded

\* As time passes the window only loses events.
LEMMA TimeFrees ==
    ASSUME TypeOK, OverspendBounded, Tick
    PROVE  OverspendBounded'
<1>1. /\ now' = now + 1 /\ rolling' = rolling /\ pc' = pc /\ notional' = notional
  BY DEF Tick, breakerVars
<1>2. \A t \in Instants : Pruned'[t] \in Nat /\ Pruned'[t] <= Pruned[t]
  <2>1. ASSUME NEW t \in Instants
        PROVE  /\ Pruned'[t] = IF now + 1 - t <= Window THEN rolling[t] ELSE 0
               /\ Pruned[t] = IF now - t <= Window THEN rolling[t] ELSE 0
               /\ rolling[t] \in Nat
    BY <1>1 DEF Pruned, Instants, TypeOK
  <2>2. \A t \in Instants : t \in Nat /\ now \in Nat /\ Window \in Nat
    BY NotionalType, ExecutionAssumption DEF Instants
  <2> QED BY <2>1, <2>2
<1>3. SumFunctionOnSet(Pruned', Instants) <= Spent /\ SumFunctionOnSet(Pruned', Instants) \in Nat
  <2>1. Counts(Pruned', Instants)
    BY <1>2 DEF Counts
  <2> QED BY <1>2, <2>1, BudgetSums, SumMonotone, SumType DEF Spent
<1>4. Spent' <= Spent /\ Spent' \in Nat
  BY <1>3 DEF Spent, Instants
<1>5. SumFunctionOnSet(notional, Admitted)' = SumFunctionOnSet(notional, Admitted)
  BY <1>1 DEF Admitted
<1>6. SumFunctionOnSet(notional, Admitted) \in Nat /\ Spent \in Nat
  BY BudgetSums DEF Admitted
<1> DEFINE limit == MaxNotionalPerWindow + (Cardinality(Workers) - 1) * MaxNotionalPerLiq
<1>7. limit \in Int
  BY ExecutionAssumption, FS_CardinalityType
<1> HIDE DEF limit
<1>8. Spent + SumFunctionOnSet(notional, Admitted) <= limit
  BY DEF OverspendBounded, limit
<1>9. Spent' + SumFunctionOnSet(notional, Admitted)' <= limit
  BY <1>4, <1>5, <1>6, <1>7, <1>8
<1> QED BY <1>9 DEF OverspendBounded, limit

\* A call's notional is fixed when it starts and tested before anything else.
LEMMA SizeStep == TypeOK /\ SizeChecked /\ [Next]_vars => SizeChecked'
<1> SUFFICES ASSUME TypeOK, SizeChecked, [Next]_vars PROVE SizeChecked'
  OBVIOUS
<1> USE DEF TypeOK, SizeChecked, Goto
<1>1. ASSUME NEW w \in Workers, CheckPaused(w) PROVE SizeChecked'
  BY <1>1 DEF CheckPaused
<1>2. ASSUME NEW w \in Workers, CheckOpen(w) PROVE SizeChecked'
  BY <1>2 DEF CheckOpen, WithinOwnLimits
<1>3. ASSUME NEW w \in Workers, CheckInFlight(w) PROVE SizeChecked'
  BY <1>3 DEF CheckInFlight
<1>4. ASSUME NEW w \in Workers, CheckRolling(w) PROVE SizeChecked'
  BY <1>4 DEF CheckRolling
<1>5. ASSUME NEW w \in Workers, BeginInFlight(w) PROVE SizeChecked'
  BY <1>5 DEF BeginInFlight
<1>6. ASSUME NEW w \in Workers, BeginRolling(w) PROVE SizeChecked'
  BY <1>6 DEF BeginRolling
<1>7. ASSUME NEW w \in Workers, EndInFlight(w) PROVE SizeChecked'
  BY <1>7 DEF EndInFlight
<1>8. ASSUME NEW w \in Workers, EndSuccess(w) PROVE SizeChecked'
  BY <1>8 DEF EndSuccess
<1>9. ASSUME NEW w \in Workers, EndFailure(w) PROVE SizeChecked'
  BY <1>9 DEF EndFailure
<1>10. ASSUME NEW w \in Workers, TripOpen(w) PROVE SizeChecked'
  BY <1>10 DEF TripOpen
<1>11. ASSUME NEW w \in Workers, TripReason(w) PROVE SizeChecked'
  BY <1>11 DEF TripReason
<1>12. CASE Operator \/ Tick \/ UNCHANGED vars
  <2>1. UNCHANGED <<pc, notional>>
    BY <1>12 DEF Operator, SetPaused, ManualTripOpen, ManualTripReason, ResetOpen,
                 ResetReason, ResetFailures, Tick, vars
  <2> QED BY <2>1
<1> QED
  BY <1>1, <1>2, <1>3, <1>4, <1>5, <1>6, <1>7, <1>8, <1>9, <1>10, <1>11, <1>12
  DEF Next, Worker

\* Only CheckRolling adds to what may be spent, and only what the budget has left.
LEMMA BudgetStep == TypeOK /\ BudgetInv /\ [Next]_vars => BudgetInv'
<1> SUFFICES ASSUME TypeOK, BudgetInv, [Next]_vars PROVE OverspendBounded'
  BY SizeStep DEF BudgetInv
<1>0. OverspendBounded /\ TypeOK'
  BY TypeStep DEF BudgetInv
<1>1. ASSUME NEW w \in Workers, CheckPaused(w) PROVE OverspendBounded'
  <2>1. UNCHANGED <<now, rolling>> /\ Admitted' = Admitted
    BY <1>1 DEF CheckPaused, breakerVars, Goto, TypeOK, Admitted
  <2>2. \A v \in Admitted : notional'[v] = notional[v]
    BY <1>1 DEF CheckPaused, TypeOK, Admitted
  <2> QED BY <1>0, <2>1, <2>2, BudgetSame
<1>2. ASSUME NEW w \in Workers, CheckOpen(w) PROVE OverspendBounded'
  <2>1. UNCHANGED <<now, rolling>> /\ Admitted' = Admitted
    BY <1>2 DEF CheckOpen, breakerVars, Goto, TypeOK, Admitted
  <2>2. \A v \in Admitted : notional'[v] = notional[v]
    BY <1>2 DEF CheckOpen, TypeOK, Admitted
  <2> QED BY <1>0, <2>1, <2>2, BudgetSame
<1>3. ASSUME NEW w \in Workers, CheckInFlight(w) PROVE OverspendBounded'
  <2>1. UNCHANGED <<now, rolling>> /\ Admitted' = Admitted
    BY <1>3 DEF CheckInFlight, breakerVars, Goto, TypeOK, Admitted
  <2>2. \A v \in Admitted : notional'[v] = notional[v]
    BY <1>3 DEF CheckInFlight, TypeOK, Admitted
  <2> QED BY <1>0, <2>1, <2>2, BudgetSame
<1>4. ASSUME NEW w \in Workers, CheckRolling(w) PROVE OverspendBounded'
  <2>1. CASE Affordable(notional[w])
    BY <1>4, <2>1, AdmitFits
  <2>2. CASE ~Affordable(notional[w])
    <3>1. /\ rolling' = Pruned /\ now' = now /\ notional' = notional
          /\ Admitted' = Admitted
      BY <1>4, <2>2 DEF CheckRolling, Goto, TypeOK, Admitted
    <3>2. Spent' = Spent
      BY <3>1, PrunedTwice
    <3> QED BY <1>0, <3>1, <3>2 DEF OverspendBounded
  <2> QED BY <2>1, <2>2
<1>5. ASSUME NEW w \in Workers, BeginInFlight(w) PROVE OverspendBounded'
  <2>1. UNCHANGED <<now, rolling>> /\ Admitted' = Admitted
    BY <1>5 DEF BeginInFlight, breakerVars, Goto, TypeOK, Admitted
  <2>2. \A v \in Admitted : notional'[v] = notional[v]
    BY <1>5 DEF BeginInFlight, TypeOK, Admitted
  <2> QED BY <1>0, <2>1, <2>2, BudgetSame
<1>6. ASSUME NEW w \in Workers, BeginRolling(w) PROVE OverspendBounded'
  BY <1>0, <1>6, BeginMoves
<1>7. ASSUME NEW w \in Workers, EndInFlight(w) PROVE OverspendBounded'
  <2>1. UNCHANGED <<now, rolling>> /\ Admitted' = Admitted
    BY <1>7 DEF EndInFlight, breakerVars, Goto, TypeOK, Admitted
  <2>2. \A v \in Admitted : notional'[v] = notional[v]
    BY <1>7 DEF EndInFlight, TypeOK, Admitted
  <2> QED BY <1>0, <2>1, <2>2, BudgetSame
<1>8. ASSUME NEW w \in Workers, EndSuccess(w) PROVE OverspendBounded'
  <2>1. UNCHANGED <<now, rolling>> /\ Admitted' = Admitted
    BY <1>8 DEF EndSuccess, breakerVars, Goto, TypeOK, Admitted
  <2>2. \A v \in Admitted : notional'[v] = notional[v]
    BY <1>8 DEF EndSuccess, TypeOK, Admitted
  <2> QED BY <1>0, <2>1, <2>2, BudgetSame
<1>9. ASSUME NEW w \in Workers, EndFailure(w) PROVE OverspendBounded'
  <2>1. UNCHANGED <<now, rolling>> /\ Admitted' = Admitted
    BY <1>9 DEF EndFailure, breakerVars, Goto, TypeOK, Admitted
  <2>2. \A v \in Admitted : notional'[v] = notional[v]
    BY <1>9 DEF EndFailure, TypeOK, Admitted
  <2> QED BY <1>0, <2>1, <2>2, BudgetSame
<1>10. ASSUME NEW w \in Workers, TripOpen(w) PROVE OverspendBounded'
  <2>1. UNCHANGED <<now, rolling>> /\ Admitted' = Admitted
    BY <1>10 DEF TripOpen, breakerVars, Goto, TypeOK, Admitted
  <2>2. \A v \in Admitted : notional'[v] = notional[v]
    BY <1>10 DEF TripOpen, TypeOK, Admitted
  <2> QED BY <1>0, <2>1, <2>2, BudgetSame
<1>11. ASSUME NEW w \in Workers, TripReason(w) PROVE OverspendBounded'
  <2>1. UNCHANGED <<now, rolling>> /\ Admitted' = Admitted
    BY <1>11 DEF TripReason, breakerVars, Goto, TypeOK, Admitted
  <2>2. \A v \in Admitted : notional'[v] = notional[v]
    BY <1>11 DEF TripReason, TypeOK, Admitted
  <2> QED BY <1>0, <2>1, <2>2, BudgetSame
<1>12. CASE Operator \/ UNCHANGED vars
  <2>1. UNCHANGED <<now, rolling, pc, notional>>
    BY <1>12 DEF Operator, SetPaused, ManualTripOpen, ManualTripReason, ResetOpen,
                 ResetReason, ResetFailures, vars, breakerVars
  <2> QED BY <1>0, <2>1, BudgetSame DEF Admitted
<1>13. CASE Tick
  BY <1>0, <1>13, TimeFrees
<1> QED
  BY <1>1, <1>2, <1>3, <1>4, <1>5, <1>6, <1>7, <1>8, <1>9, <1>10, <1>11, <1>12, <1>13
  DEF Next, Worker

\* Concurrent calls overspend the budget of the window by at most one liquidation
\* of the largest size for each worker beyond the first.
THEOREM OverspendIsBounded == Spec => []OverspendBounded
<1>1. Init => BudgetInv
  <2> SUFFICES ASSUME Init PROVE BudgetInv
    OBVIOUS
  <2>1. SizeChecked /\ Admitted = {}
    BY DEF Init, SizeChecked, Admitted
  <2>2. SumFunctionOnSet(notional, {}) = 0
    BY SumPick, FS_EmptySet
  <2>3. Spent = 0
    <3>1. TypeOK /\ \A t \in Instants : Pruned[t] = 0
      BY InitType DEF Init, Pruned
    <3>2. /\ IsFiniteSet(Instants) /\ Counts(Pruned, Instants)
          /\ Spent \in Nat /\ Cardinality(Instants) \in Nat
      BY <3>1, BudgetSums, FS_CardinalityType
    <3>3. Spent <= Cardinality(Instants) * 0
      BY <3>1, <3>2, SumBounded DEF Spent
    <3> QED BY <3>2, <3>3
  <2>4. 0 <= MaxNotionalPerWindow + (Cardinality(Workers) - 1) * MaxNotionalPerLiq
    <3>1. Cardinality(Workers) \in Nat /\ Cardinality(Workers) # 0
      BY ExecutionAssumption, FS_CardinalityType, FS_EmptySet
    <3>2. Cardinality(Workers) - 1 \in Nat
      BY <3>1
    <3>3. \A a, b, c \in Nat : 0 <= a + b * c
      OBVIOUS
    <3> QED BY <3>2, <3>3, ExecutionAssumption
  <2> QED BY <2>1, <2>2, <2>3, <2>4 DEF BudgetInv, OverspendBounded
<1>2. BudgetInv => OverspendBounded
  BY DEF BudgetInv
<1> QED BY <1>1, <1>2, BudgetStep, ExecutionTypeCorrect, PTL DEF Spec
=============================================================================
