------------------------------- MODULE Sizing -------------------------------
(***************************************************************************)
(* The fixed-point arithmetic that the protocol adapters size liquidations *)
(* with: values and trigger prices (liq-core, health.rs), health and close *)
(* amounts of Kamino, Save and Project 0 (lib.rs, close_factor.rs,         *)
(* classic.rs, receivership.rs, fee_state.rs).  Pure operators, used by    *)
(* module Position.  Every division truncates, as in the code, and the     *)
(* scales are constants, so that an instance can be small and its          *)
(* truncations large.  The u128 products that saturate in the code stay    *)
(* below that here.                                                        *)
(***************************************************************************)
EXTENDS Integers, FiniteSetsExt, Functions

CONSTANTS Micro,        \* 10^6: micro-USD, health factors, weights and confidences
          PriceScale,   \* 10^9: PriceFx::SCALE
          Bps,          \* 10^4
          FeeOne,       \* 2^48: one, as an I80F48
          U16, U64,     \* 2^16 - 1, 2^64
          None          \* no price, no trigger, or an error

ASSUME ScaleAssumption ==
    {Micro, PriceScale, Bps, FeeOne, U16, U64} \subseteq Nat \ {0}

-----------------------------------------------------------------------------
(* liq-core                                                                *)

\* A unit is 10^decimals.
AmountToUsdMicro(amount, unit, price) == (amount * price * Micro) \div (unit * PriceScale)

HealthFactorRatio(collateral, borrow) ==
    IF borrow = 0 THEN 1000 * Micro ELSE (collateral * Micro) \div borrow

\* HealthFx::is_liquidatable
Below1(hf) == hf < Micro

\* Mutant: the power of the other collateral is left out.
CollateralTriggerPrice_Alone(amount, unit, threshold, other_power, borrow) ==
    IF amount = 0 \/ borrow <= other_power \/ threshold = 0 THEN None
    ELSE (borrow * unit * PriceScale) \div (amount * threshold)

\* The price of one collateral at which the health factor is 1, the rest fixed.
CollateralTriggerPrice(amount, unit, threshold, other_power, borrow) ==
    IF amount = 0 \/ borrow <= other_power \/ threshold = 0 THEN None
    ELSE ((borrow - other_power) * unit * PriceScale) \div (amount * threshold)

-----------------------------------------------------------------------------
(* Kamino and Save                                                         *)

\* The assets of a position whose price is asked: `prices` has None where the map
\* has no entry.
MissingPrice(amounts, prices) == \E a \in DOMAIN amounts : amounts[a] > 0 /\ prices[a] = None

ValueOf(amounts, prices, unit, a) ==
    IF amounts[a] = 0 THEN 0 ELSE AmountToUsdMicro(amounts[a], unit[a], prices[a])

\* obligation_health: the collateral power and the debt, or None for MissingPrice.
ObligationHealth(deposits, borrows, prices, unit, liq_threshold_bps) ==
    IF MissingPrice(deposits, prices) \/ MissingPrice(borrows, prices) THEN None
    ELSE LET allowed == SumFunction([a \in DOMAIN deposits |->
                 (ValueOf(deposits, prices, unit, a) * liq_threshold_bps[a]) \div Bps])
             borrowed == SumFunction([a \in DOMAIN borrows |->
                 ValueOf(borrows, prices, unit, a)])
         IN [hf |-> HealthFactorRatio(allowed, borrowed), allowed |-> allowed, borrowed |-> borrowed]

\* Save's obligation_health is the same computation over its own records.
SaveObligationHealth(deposits, borrows, prices, unit, liq_threshold_bps) ==
    ObligationHealth(deposits, borrows, prices, unit, liq_threshold_bps)

IsLiquidatable(health) == health # None /\ health.borrowed > 0 /\ Below1(health.hf)

MaxRepayAmount(borrowed, close_factor_bps) == (borrowed * close_factor_bps) \div Bps

\* Mutant: rounded up in the liquidator's favour.
CollateralOutAmount_RoundsUp(repay, repay_unit, repay_price, unit, price, bonus_bps) ==
    LET usd == AmountToUsdMicro(repay, repay_unit, repay_price)
        with_bonus == (usd * (Bps + bonus_bps)) \div Bps
    IN IF price = 0 THEN 0
       ELSE ((with_bonus * unit * PriceScale + price * Micro - 1) \div (price * Micro)) % U64

\* Mutant: the bonus counted twice.
CollateralOutAmount_TwoBonuses(repay, repay_unit, repay_price, unit, price, bonus_bps) ==
    LET usd == AmountToUsdMicro(repay, repay_unit, repay_price)
        with_bonus == (usd * (Bps + 2 * bonus_bps)) \div Bps
    IN IF price = 0 THEN 0
       ELSE ((with_bonus * unit * PriceScale) \div (price * Micro)) % U64

\* What a repayment is worth in collateral, before the cast to u64.
CollateralWorth(repay, repay_unit, repay_price, unit, price, bonus_bps) ==
    LET usd == AmountToUsdMicro(repay, repay_unit, repay_price)
        with_bonus == (usd * (Bps + bonus_bps)) \div Bps
    IN IF price = 0 THEN 0 ELSE (with_bonus * unit * PriceScale) \div (price * Micro)

CollateralOutAmount(repay, repay_unit, repay_price, unit, price, bonus_bps) ==
    CollateralWorth(repay, repay_unit, repay_price, unit, price, bonus_bps) % U64

\* Save: the least of what is wanted, the close factor's cap and the debt; None is
\* the error EmptyRepay.
SizeRepay(borrowed, desired, close_factor_bps) ==
    LET amt == Min({desired, MaxRepayAmount(borrowed, close_factor_bps), borrowed})
    IN IF amt = 0 THEN None ELSE amt

\* Save: the price is in micro-USD per token.
SeizeCollateralWorth(repay_usd, token_usd, unit, bonus_bps) ==
    IF token_usd = 0 THEN 0
    ELSE (((repay_usd * (Bps + bonus_bps)) \div Bps) * unit) \div token_usd

SeizeCollateralAmount(repay_usd, token_usd, unit, bonus_bps) ==
    SeizeCollateralWorth(repay_usd, token_usd, unit, bonus_bps) % U64

-----------------------------------------------------------------------------
(* Project 0                                                               *)

CONSTANTS ConfidenceCap,       \* 5 %
          LiquidatorPremium,   \* CLASSIC_LIQUIDATOR_PREMIUM_BPS
          InsurancePremium,    \* CLASSIC_INSURANCE_BPS
          DefaultMaxFee        \* DEFAULT_RECEIVERSHIP_MAX_FEE_BPS

ASSUME FeeAssumption == DefaultMaxFee \in Nat

\* BankBook::conf: none for a mint that is not listed, and never above the cap.
Conf(c) == IF c = None THEN 0 ELSE Min({c, ConfidenceCap})

\* Assets count at the lower end of the price's confidence interval, liabilities at
\* its upper end.
AdjustedPrice(price, c, is_asset) ==
    (price * (IF is_asset THEN Micro - Conf(c) ELSE Micro + Conf(c))) \div Micro

\* maintenance_health: weighted assets less weighted liabilities, None for
\* MissingPrice (an unknown bank or a mint without a price).
MaintenanceHealth(assets, liabs, prices, conf, unit, asset_weight, liab_weight) ==
    LET adjusted(is_asset) ==
            [a \in DOMAIN prices |->
                IF prices[a] = None THEN None ELSE AdjustedPrice(prices[a], conf[a], is_asset)]
        weighted(amounts, is_asset, weight, a) ==
            (ValueOf(amounts, adjusted(is_asset), unit, a) * weight[a]) \div Micro
    IN IF MissingPrice(assets, prices) \/ MissingPrice(liabs, prices) THEN None
       ELSE SumFunction([a \in DOMAIN assets |-> weighted(assets, TRUE, asset_weight, a)])
            - SumFunction([a \in DOMAIN liabs |-> weighted(liabs, FALSE, liab_weight, a)])

\* Classic liquidation of seized equity A: what the borrower is credited.  (What the
\* liquidator assumes, InsurancePremium more, is no part of the position.)
ClassicBorrowerDebtRelief(A) == (A * (Bps - (LiquidatorPremium + InsurancePremium))) \div Bps

SizeClassicSeize(max_seize, fill_bps) == (max_seize * Min({fill_bps, Bps})) \div Bps

MaxSeizeForRepay(repaid, max_fee_bps) == (repaid * (Bps + max_fee_bps)) \div Bps

ReceivershipProfitOk(seized, repaid, max_fee_bps) ==
    seized <= MaxSeizeForRepay(repaid, max_fee_bps)

HealthImproved(pre, post) == post > pre

BpsOrError(raw, bps) == IF raw < 0 \/ bps > U16 THEN None ELSE bps

\* Mutant: always up to the next basis point.
I80f48ToBps_RoundsUp(raw) == BpsOrError(raw, (raw * Bps + FeeOne - 1) \div FeeOne)

\* i80f48_le_to_bps: to the nearest basis point, half up; None for a negative fee and
\* one that does not fit a u16.
I80f48ToBps(raw) == BpsOrError(raw, (raw * Bps + FeeOne \div 2) \div FeeOne)

\* parse_fee_state: an account long enough (with or without its discriminator) whose
\* fee is in range, or None for FeeStateError.
ParseFeeState(account) ==
    IF account.short \/ I80f48ToBps(account.max_fee) = None THEN None
    ELSE [max_fee_bps |-> I80f48ToBps(account.max_fee), paused |-> account.paused]

\* FeeStateView::default, as long as the account has not been loaded.
FeeStateView(account) ==
    IF account = None THEN [max_fee_bps |-> DefaultMaxFee, paused |-> FALSE]
    ELSE ParseFeeState(account)
=============================================================================
