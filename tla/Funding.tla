------------------------------- MODULE Funding -------------------------------
(***************************************************************************)
(* The choice of a funding path for a liquidation: FundingPathEnumerator   *)
(* (crates/liq-core/src/funding.rs) over the gates of                      *)
(* ProfitabilityCalculator (crates/liq-core/src/profitability.rs), pure    *)
(* functions that evaluate_funding (crates/liq-execution/src/funding.rs)   *)
(* applies to a woken candidate.                                           *)
(*                                                                         *)
(* Amounts are integers in one unit, the divisions are the code's.  Their  *)
(* widths are not modelled: fees and costs are far below the saturation of *)
(* u64 at the magnitudes the callers pass.                                 *)
(***************************************************************************)
EXTENDS Integers, Sequences, SequencesExt

CONSTANTS MinProfit,     \* ProfitConfig.min_profit_usd_micro
          MinRoiBps,     \* ProfitConfig.min_roi_bps
          MaxCost,       \* ProfitConfig.max_cost_usd_micro
          MinNotional,   \* ProfitConfig.min_notional_usd_micro
          NoPath         \* OpportunityPlan.best = None

ASSUME FundingAssumption ==
    /\ MinProfit \in Nat
    /\ MinRoiBps \in Nat
    /\ MaxCost \in Nat
    /\ MinNotional \in Nat

Protocols == {"Kamino", "Save", "Project0"}

Bps == 10000

\* The strategies that apply to a protocol, in the order they are scored.
ApplicableFor(protocol) ==
    CASE protocol = "Kamino"   -> <<"Inventory", "KaminoFlashBorrow">>
      [] protocol = "Save"     -> <<"Inventory", "SaveFlashLoan">>
      [] protocol = "Project0" -> <<"Inventory", "Project0Receivership">>

MinOf(a, b) == IF a < b THEN a ELSE b
MaxOf(a, b) == IF a > b THEN a ELSE b

\* One path of default_paths_for.  An opportunity o has the caller's arguments.
PathFor(o, strategy) ==
    LET flash == (o.notional * o.flash_fee_bps) \div Bps
    IN  CASE strategy = "Inventory" ->
               [strategy |-> strategy, capital |-> MaxOf(MinOf(o.inventory, o.notional), 1),
                fee |-> 0, latency |-> 10, landing |-> 8500,
                feasible |-> o.inventory >= o.notional \div 2]
          [] strategy = "SaveFlashLoan" ->
               [strategy |-> strategy, capital |-> 1, fee |-> flash, latency |-> 14,
                landing |-> 7500, feasible |-> o.protocol = "Save"]
          [] strategy = "KaminoFlashBorrow" ->
               [strategy |-> strategy, capital |-> 1, fee |-> flash, latency |-> 14,
                landing |-> 7500, feasible |-> o.protocol = "Kamino"]
          [] strategy = "Project0Receivership" ->
               [strategy |-> strategy, capital |-> o.notional \div 20 + 1, fee |-> 0,
                latency |-> 18, landing |-> 7000, feasible |-> o.protocol = "Project0"]

DefaultPathsFor(o) ==
    [i \in DOMAIN ApplicableFor(o.protocol) |-> PathFor(o, ApplicableFor(o.protocol)[i])]

\* evaluate: the first gate that fails names the rejection.
Evaluate(gross, total_cost, capital, notional) ==
    LET net == gross - total_cost
        roi_bps == (net * Bps) \div capital
        Reject(why) == [accept |-> FALSE, reason |-> why, net |-> net]
    IN  IF total_cost > MaxCost THEN Reject("CostTooHigh")
        ELSE IF notional < MinNotional THEN Reject("NotionalTooSmall")
        ELSE IF net <= 0 THEN Reject("NegativeNet")
        ELSE IF net < MinProfit THEN Reject("BelowMinProfit")
        ELSE IF capital > 0 /\ roi_bps < MinRoiBps THEN Reject("BelowMinRoi")
        ELSE [accept |-> TRUE, reason |-> "none", net |-> net]

\* Mutant: the flash fee is left out of the costs.
TotalCost_NoFlashFee(o, path) == o.swap_cost + o.chain_cost + o.tip

TotalCost(o, path) == o.swap_cost + o.chain_cost + path.fee + o.tip

\* score_one, for a feasible path.
ScoreOne(o, path) ==
    LET decision == Evaluate(o.gross, TotalCost(o, path), MaxOf(path.capital, 1), o.notional)
        net == decision.net
    IN  [strategy |-> path.strategy, decision |-> decision, capital |-> path.capital,
         fee |-> path.fee,
         score |-> IF net <= 0 THEN net
                   ELSE (net * path.landing) \div MaxOf(path.latency, 1)]

\* The feasible paths, scored, by their places in the list.
Candidates(o) ==
    LET paths == DefaultPathsFor(o)
    IN  [i \in {j \in DOMAIN paths : paths[j].feasible} |-> ScoreOne(o, paths[i])]

\* i comes before j when the list is sorted by score, highest first; the sort is stable.
SortedBefore(candidates, i, j) ==
    \/ candidates[i].score > candidates[j].score
    \/ candidates[i].score = candidates[j].score /\ i < j

\* The candidate that comes first, of those at the places I.
FirstSorted(candidates, I) ==
    candidates[CHOOSE i \in I : \A j \in I \ {i} : SortedBefore(candidates, i, j)]

\* Mutant: the first candidate by score is taken, accepted or not.
PickBest_TopScore(o) ==
    LET candidates == Candidates(o)
    IN  IF DOMAIN candidates = {} THEN NoPath ELSE FirstSorted(candidates, DOMAIN candidates)

\* pick_best: the first accepted candidate of the sorted list, else the first one.
PickBest(o) ==
    LET candidates == Candidates(o)
        accepted == {i \in DOMAIN candidates : candidates[i].decision.accept}
    IN  IF accepted # {} THEN FirstSorted(candidates, accepted)
        ELSE IF DOMAIN candidates # {} THEN FirstSorted(candidates, DOMAIN candidates)
        ELSE NoPath
=============================================================================
