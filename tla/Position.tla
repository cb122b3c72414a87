------------------------------ MODULE Position ------------------------------
(***************************************************************************)
(* A borrower's position under a client of the protocol adapters: prices   *)
(* move, the client arms a trigger price for the position, and while the   *)
(* adapter calls it liquidatable the client liquidates part of it, again   *)
(* and again, with the amounts that module Sizing computes.  The binaries  *)
(* of the repository plan with amounts from their fixtures; these          *)
(* operations are the adapters' library interface.                         *)
(*                                                                         *)
(* One collateral (Coll) is seized, another one (Other) stays, one asset   *)
(* (Debt) is owed.  The lending program, which is not part of the          *)
(* repository, takes what the client asks for as far as it is there.       *)
(***************************************************************************)
EXTENDS Sizing

CONSTANTS Protocols,        \* a subset of {"Kamino", "Save", "Project0"}
          Coll, Other, Debt,
          Unit,             \* asset -> 10^decimals
          LiqThreshold,     \* asset -> liq_threshold_bps
          AssetWeight,      \* asset -> maint_asset_weight_fx
          LiabWeight,       \* asset -> maint_liab_weight_fx
          CloseFactor, Bonus,
          Holdings,         \* [coll, other, debt] a position may start with
          Quotes,           \* asset -> prices it may have, None for no price
          Confidences,      \* confidences of the prices, None for not listed
          Wanted,           \* amounts the client may want to repay, or to seize
          Fills,            \* fill_bps of a classic liquidation
          FeeAccounts,      \* fee state accounts, None for not loaded
          Unarmed

Assets == {Coll, Other, Debt}

\* Prices and amounts are unsigned.  Thresholds and close factors are fractions of what
\* they are taken of, and a million is a multiple of ten thousand.
ASSUME PositionAssumption ==
    /\ Coll \notin {Other, Debt}
    /\ Protocols \subseteq {"Kamino", "Save", "Project0"}
    /\ \A a \in Assets : /\ Unit[a] \in Nat \ {0}
                        /\ LiqThreshold[a] \in 0..Bps
                        /\ {AssetWeight[a], LiabWeight[a]} \subseteq Nat
                        /\ Quotes[a] \subseteq Nat \cup {None}
    /\ CloseFactor \in 0..Bps /\ Bonus \in Nat
    /\ Confidences \subseteq Nat \cup {None} /\ ConfidenceCap \in 0..Micro
    /\ LiquidatorPremium + InsurancePremium \in 0..Bps
    /\ \A h \in Holdings : {h.coll, h.other, h.debt} \subseteq Nat
    /\ Wanted \subseteq Nat /\ Fills \subseteq Nat
    /\ \A f \in FeeAccounts : f = None \/ f.max_fee \in Int
    /\ Micro % Bps = 0
    /\ None \notin Nat \cup [hf : Nat, allowed : Nat, borrowed : Nat]

VARIABLES protocol,
          deposits, borrows,  \* amounts
          prices, conf,       \* the client's books
          fee_account,
          trigger,            \* collateral_trigger_price's answer; Unarmed when out of date
          repaid, seized      \* history: in the liquidations since a price moved

vars == <<protocol, deposits, borrows, prices, conf, fee_account, trigger, repaid, seized>>

-----------------------------------------------------------------------------
Usd(amount, a) == AmountToUsdMicro(amount, Unit[a], prices[a])

Health ==
    IF protocol = "Save"
    THEN SaveObligationHealth(deposits, borrows, prices, Unit, LiqThreshold)
    ELSE ObligationHealth(deposits, borrows, prices, Unit, LiqThreshold)

Maintenance(d, b) == MaintenanceHealth(d, b, prices, conf, Unit, AssetWeight, LiabWeight)

Liquidatable ==
    IF protocol = "Project0"
    THEN Maintenance(deposits, borrows) # None /\ Maintenance(deposits, borrows) < 0
    ELSE IsLiquidatable(Health)

Init ==
    /\ protocol \in Protocols
    /\ \E h \in Holdings :
         /\ deposits = [a \in {Coll, Other} |-> IF a = Coll THEN h.coll ELSE h.other]
         /\ borrows = [a \in {Debt} |-> h.debt]
    /\ prices = [a \in Assets |-> None]
    /\ IF protocol = "Project0"
       THEN (\E c \in Confidences : conf = [a \in Assets |-> c]) /\ fee_account \in FeeAccounts
       ELSE conf = [a \in Assets |-> None] /\ fee_account = None
    /\ trigger = Unarmed /\ repaid = 0 /\ seized = 0

-----------------------------------------------------------------------------
(* Actions                                                                 *)

\* A price comes in.
Quote ==
    /\ \E a \in Assets : \E p \in Quotes[a] :
         /\ p # prices[a] /\ prices' = [prices EXCEPT ![a] = p]
         /\ trigger' = IF a = Coll THEN trigger ELSE Unarmed
    /\ repaid' = 0 /\ seized' = 0
    /\ UNCHANGED <<protocol, deposits, borrows, conf, fee_account>>

\* The client solves for Coll's trigger price, everything else as it stands.
Arm ==
    /\ protocol # "Project0" /\ trigger = Unarmed
    /\ Health # None
    /\ LET power == ObligationHealth([deposits EXCEPT ![Coll] = 0], borrows, prices, Unit,
                                     LiqThreshold).allowed
       IN trigger' = CollateralTriggerPrice(deposits[Coll], Unit[Coll],
                         (LiqThreshold[Coll] * Micro) \div Bps, power, Health.borrowed)
    /\ UNCHANGED <<protocol, deposits, borrows, prices, conf, fee_account, repaid, seized>>

\* The program carries out a liquidation: `paid` and `out` are what the client's
\* sums count, micro-USD for Project 0 and tokens for the others.
Settle(repay, seize, paid, out) ==
    /\ deposits' = [deposits EXCEPT ![Coll] = Max({0, @ - seize})]
    /\ borrows' = [borrows EXCEPT ![Debt] = @ - repay]
    /\ repaid' = repaid + paid /\ seized' = seized + out
    /\ trigger' = Unarmed
    /\ UNCHANGED <<protocol, prices, conf, fee_account>>

KaminoOut(repay) ==
    CollateralOutAmount(repay, Unit[Debt], prices[Debt], Unit[Coll], prices[Coll], Bonus)

LiquidateKamino ==
    /\ protocol = "Kamino" /\ Liquidatable /\ prices[Coll] # None
    /\ LET cap == MaxRepayAmount(borrows[Debt], CloseFactor) IN
       \E repay \in {cap} \cup {w \in Wanted : w <= cap} :
         /\ repay > 0
         /\ Settle(repay, KaminoOut(repay), repay, KaminoOut(repay))

\* The price of one token, in micro-USD.
SaveOut(repay) ==
    SeizeCollateralAmount(Usd(repay, Debt), Usd(Unit[Coll], Coll), Unit[Coll], Bonus)

LiquidateSave ==
    /\ protocol = "Save" /\ Liquidatable /\ prices[Coll] # None
    /\ \E desired \in Wanted :
         LET repay == SizeRepay(borrows[Debt], desired, CloseFactor) IN
         /\ repay # None
         /\ Settle(repay, SaveOut(repay), repay, SaveOut(repay))

\* Whole base units of an asset worth at most `usd`.
UnitsOf(usd, a) ==
    IF prices[a] = 0 THEN 0 ELSE (usd * Unit[a] * PriceScale) \div (prices[a] * Micro)

LiquidateClassic ==
    /\ protocol = "Project0" /\ Liquidatable /\ prices[Coll] # None
    /\ \E fill \in Fills :
         LET A == SizeClassicSeize(Usd(deposits[Coll], Coll), fill)
             relief == UnitsOf(ClassicBorrowerDebtRelief(A), Debt)
         IN /\ relief \in 1..borrows[Debt]
            /\ Settle(relief, UnitsOf(A, Coll), 0, 0)

\* start_liquidation, withdraw and repay, end_liquidation: the client goes ahead
\* only if it expects the program's two conditions to hold at the end.
LiquidateReceivership ==
    /\ protocol = "Project0" /\ Liquidatable /\ prices[Coll] # None
    /\ LET fees == FeeStateView(fee_account) IN
       /\ fees # None /\ ~fees.paused
       /\ \E repay \in Wanted \cap 1..borrows[Debt] :
            LET cap == MaxSeizeForRepay(Usd(repay, Debt), fees.max_fee_bps) IN
            \E seize \in {UnitsOf(cap, Coll), UnitsOf(cap, Coll) + 1} \cup Wanted :
              /\ seize \in 1..deposits[Coll]
              /\ ReceivershipProfitOk(Usd(seize, Coll), Usd(repay, Debt), fees.max_fee_bps)
              /\ HealthImproved(Maintenance(deposits, borrows),
                                Maintenance([deposits EXCEPT ![Coll] = @ - seize],
                                            [borrows EXCEPT ![Debt] = @ - repay]))
              /\ Settle(repay, seize, Usd(repay, Debt), Usd(seize, Coll))

Next ==
    \/ Quote \/ Arm
    \/ LiquidateKamino \/ LiquidateSave \/ LiquidateClassic \/ LiquidateReceivership

Spec == Init /\ [][Next]_vars

-----------------------------------------------------------------------------
(* Properties                                                              *)

\* The trigger price and the health computation, which round differently, agree: below
\* the trigger the position is liquidatable, above it it is not, unless by one
\* micro-USD; and without a trigger no price of a collateral that is there, and that
\* counts, makes it so (collateral_trigger_price against obligation_health).
TriggerAgrees ==
    (trigger # Unarmed /\ prices[Coll] # None) =>
        IF trigger = None THEN deposits[Coll] * LiqThreshold[Coll] > 0 => ~Liquidatable
        ELSE /\ prices[Coll] < trigger => Liquidatable
             /\ Liquidatable => \/ prices[Coll] <= trigger
                                \/ Health.borrowed - Health.allowed <= 1

\* What a repayment is worth in collateral, whatever fits a u64.
Worth(repay) ==
    CASE protocol = "Kamino" ->
             CollateralWorth(repay, Unit[Debt], prices[Debt], Unit[Coll], prices[Coll], Bonus)
      [] protocol = "Save" ->
             SeizeCollateralWorth(Usd(repay, Debt), Usd(Unit[Coll], Coll), Unit[Coll], Bonus)
      [] protocol = "Project0" ->
             MaxSeizeForRepay(repay, FeeStateView(fee_account).max_fee_bps)

\* Liquidating in any number of parts seizes no more than their sum is worth at once:
\* no rounding in the chain of divisions favours the liquidator
\* (collateral_out_amount, seize_collateral_amount, max_seize_for_repay).
SplittingGainsNothing == seized > 0 => seized <= Worth(repaid)

\* How far the position is from being liquidated, in micro-USD.
Margin == IF protocol = "Project0" THEN Maintenance(deposits, borrows)
          ELSE Health.allowed - Health.borrowed

\* The bonus leaves room: what is seized counts for no more than what is repaid.
RoomForBonus ==
    /\ LiqThreshold[Coll] * (Bps + Bonus) <= Bps * Bps
    /\ AssetWeight[Coll] * Bps <= Micro * (Bps - (LiquidatorPremium + InsurancePremium))
    /\ Micro <= LiabWeight[Debt]

\* What the roundings of one liquidation may cost, in micro-USD: nothing in Kamino; in
\* Save, whose price of a token is truncated, one for each token begun; in Project 0,
\* whose credit is rounded to units, one unit of debt and two more.
RoundingLoss ==
    CASE protocol = "Kamino" -> 0
      [] protocol = "Save" -> 1 + (deposits[Coll] - deposits'[Coll]) \div Unit[Coll]
      [] protocol = "Project0" -> 2 + Usd(1, Debt)

\* Where the bonus leaves room for it, a liquidation does not take the position further
\* from health, but for its roundings (collateral_out_amount, seize_collateral_amount,
\* size_classic_seize, receivership_profit_ok).
MarginNotWorse ==
    [][(borrows' # borrows /\ prices' = prices) => Margin' + RoundingLoss >= Margin]_vars

\* What the client lets through stays within the fee on chain plus half a basis
\* point (i80f48_le_to_bps, receivership_profit_ok).
FeeWithinHalfBp ==
    (protocol = "Project0" /\ fee_account # None) =>
        2 * Bps * FeeOne * seized
            <= repaid * (2 * Bps * FeeOne + 2 * Bps * fee_account.max_fee + FeeOne)
=============================================================================
