----------------------------- MODULE LiveHealth -----------------------------
(***************************************************************************)
(* liq-kamino's recomputation of a klend obligation's health from its live *)
(* positions and the reserves' cached prices                               *)
(* (crates/liq-kamino/src/live_health.rs) and the decoding it starts from  *)
(* (decode.rs).  Pure operators, used by module Discovery.                 *)
(*                                                                         *)
(* An account is a record of the fields the code reads out of its bytes,   *)
(* with its length; a fixed-point number is an integer.  Prices are per    *)
(* base unit (the decimals of a mint only rescale them), and what the code *)
(* divides by 100 is kept as hundredths.                                   *)
(*                                                                         *)
(* An f64 is an integer as well, of a unit so small that it is exact below *)
(* Precision.  A sum, whatever was rounded on the way to it, may come out  *)
(* as any number within 1/Precision of the real one, and a quotient as its *)
(* next smaller multiple of 1/Precision: for f64 that is 2^53 less the few *)
(* bits that a sum over a handful of positions may lose.  (One difference  *)
(* occurs, the fees off a reserve's liquidity, which they are small beside.)*)
(***************************************************************************)
EXTENDS Integers, Sequences, FiniteSets, SequencesExt

CONSTANTS DefaultKey,    \* the all-zero pubkey
          Undecoded,     \* a decoder returned an error
          MinNotional,   \* MIN_LIQUIDATION_NOTIONAL_USD, in value units
          Precision      \* of an f64

ReserveMinLen == 5256     \* what decode_reserve_live_risk and _vaults need
HeaderMinLen == 2288
PositionsMinLen == 2208   \* the end of borrows[5]: the header needs more
GroupsMinLen == 2504      \* 200 + 32 * 72

\* Mutant: an account of another layout passes for a market without groups.
DecodeElevationGroups_ShortIsEmpty(market) ==
    IF market.len < GroupsMinLen THEN [id \in {} |-> id]
    ELSE [id \in {g.id : g \in Range(market.groups)} |->
            CHOOSE g \in Range(market.groups) : g.id = id]

\* decode_lending_market_elevation_groups: an all-zero entry is not a group, and
\* the last entry with an id is the one the map keeps.
DecodeElevationGroups(market) ==
    IF market.len < GroupsMinLen THEN Undecoded
    ELSE LET entries == market.groups
             used == {i \in DOMAIN entries :
                        \/ entries[i].id # 0
                        \/ entries[i].ltv_pct # 0
                        \/ entries[i].liquidation_threshold_pct # 0}
         IN [id \in {entries[i].id : i \in used} |->
               entries[Max({i \in used : entries[i].id = id})]]

\* Mutant: a borrow factor of 0 is taken as it stands.
DecodeReserveLiveRisk_KeepsZero(a) == IF a.len < ReserveMinLen THEN Undecoded ELSE a

\* decode_reserve_live_risk: a borrow factor of 0 means 100.
DecodeReserveLiveRisk(a) ==
    IF a.len < ReserveMinLen THEN Undecoded
    ELSE [a EXCEPT !.borrow_factor_pct = IF @ = 0 THEN 100 ELSE @]

\* decode_obligation_live_positions: the slots in use, by their places, deposits
\* and borrows alike.
ActiveSlots(slots) ==
    LET used(s) == /\ ~(s.amount = 0 /\ s.reserve = DefaultKey)
                   /\ s.amount > 0 \/ s.market_value_sf > 0
    IN [i \in {j \in DOMAIN slots : used(slots[j])} |-> slots[i]]

LiveHeader(a) == [has_debt |-> a.has_debt, elevation_group |-> a.elevation_group]

DecodeObligationLiveHeader(a) == IF a.len < HeaderMinLen THEN Undecoded ELSE LiveHeader(a)

LivePositions(a) ==
    [header |-> LiveHeader(a),
     deposits |-> ActiveSlots(a.deposits), borrows |-> ActiveSlots(a.borrows)]

DecodeObligationLivePositions(a) ==
    IF DecodeObligationLiveHeader(a) = Undecoded \/ a.len < PositionsMinLen THEN Undecoded
    ELSE LivePositions(a)

-----------------------------------------------------------------------------
\* total_liquidity_tokens_f64
TotalLiquidityTokens(r) ==
    LET t == r.total_available_amount + r.borrowed_amount_sf - r.fees_sf
    IN IF t > 0 THEN t ELSE 0

\* collateral_to_liquidity is shares * total / supply, which need not be a whole number
\* of tokens: it is at least the whole tokens (up = 0) and at most the next ones (up = 1).
CollateralToLiquidity(r, shares, up) ==
    LET supply == r.collateral_mint_total_supply
    IN IF supply = 0 THEN shares
       ELSE (shares * TotalLiquidityTokens(r) + up * (supply - 1)) \div supply

\* tokens_to_usd_f64
TokensToUsd(tokens, price_sf) ==
    IF tokens <= 0 \/ price_sf = 0 THEN 0 ELSE tokens * price_sf

\* The f64 that a sum may come out as when the real one is at least lo and at most hi.
Slack(x) == x \div Precision
Rounded(lo, hi) == (lo - Slack(lo)) .. (hi + Slack(hi))

\* The values of the slots at the places I, added up.
Total(slots, I, Value(_)) == SumFunctionOnSet([i \in I |-> Value(slots[i])], I)

Counted(reserves, s) ==
    s.reserve \in DOMAIN reserves /\ reserves[s.reserve].market_price_sf # 0

\* KlendComputedHealth, of the four sums.  A health factor is in units of 1/Precision.
KlendComputedHealth(sums, missing) ==
    LET meaningful == sums.bf_debt >= 100 * MinNotional /\ sums.deposited >= MinNotional
    IN [deposited |-> sums.deposited, bf_debt |-> sums.bf_debt,
        health_factor |-> IF sums.bf_debt <= 0 \/ sums.unhealthy <= 0 THEN 1000 * Precision
                          ELSE (sums.unhealthy * Precision) \div sums.bf_debt,
        is_liquidatable |-> meaningful /\ sums.bf_debt > sums.unhealthy,
        below_maintenance |-> meaningful /\ sums.bf_debt > sums.allowed,
        missing_reserves |-> missing]

\* compute_obligation_health_live_with_elevation: what it may return.  `groups` is a
\* function on group ids, empty where the code passes None or has no such group.
ComputeObligationHealthLive(pos, reserves, groups) ==
    LET id == pos.header.elevation_group
        elevated == id # 0 /\ id \in DOMAIN groups
        active(slots) == {i \in DOMAIN slots : slots[i].amount # 0}
        counted(slots) == {i \in active(slots) : Counted(reserves, slots[i])}
        res(s) == reserves[s.reserve]
        usd(s, tokens) == TokensToUsd(tokens, res(s).market_price_sf)
        thr(s) == IF elevated THEN groups[id].liquidation_threshold_pct
                  ELSE res(s).liquidation_threshold_pct
        ltv(s) == IF elevated THEN groups[id].ltv_pct ELSE res(s).loan_to_value_pct
        bf(s) == IF elevated THEN 100 ELSE res(s).borrow_factor_pct
        deposits(Weight(_), up) ==
            Total(pos.deposits, counted(pos.deposits),
                  LAMBDA s : usd(s, CollateralToLiquidity(res(s), s.amount, up)) * Weight(s))
        near(Weight(_)) == Rounded(deposits(Weight, 0), deposits(Weight, 1))
        debt == Total(pos.borrows, counted(pos.borrows), LAMBDA s : usd(s, s.amount) * bf(s))
        missing(slots) == Cardinality(active(slots) \ counted(slots))
    IN {KlendComputedHealth(sums, missing(pos.deposits) + missing(pos.borrows)) :
            sums \in [deposited : near(LAMBDA s : 1), unhealthy : near(thr),
                      allowed : near(ltv), bf_debt : Rounded(debt, debt)]}

BandFromKlendHealth(h) ==
    CASE h.is_liquidatable -> "CRITICAL"
      [] ~h.is_liquidatable /\ 100 * h.health_factor < 105 * Precision -> "HOT"
      [] ~h.is_liquidatable /\ 100 * h.health_factor >= 105 * Precision
            /\ 100 * h.health_factor < 120 * Precision -> "WARM"
      [] OTHER -> "COLD"

-----------------------------------------------------------------------------
(* The rule of the lending program that the computation stands for         *)
(* (live_health.rs:3-4), on the account as it is on chain and in real      *)
(* numbers, of which these are the bounds in whole tokens.                 *)

OnChainValue(r, tokens) == tokens * r.market_price_sf

OnChainDebt(a, res) ==
    Total(a.borrows, DOMAIN a.borrows, LAMBDA s :
        IF s.amount = 0 THEN 0
        ELSE LET r == res[s.reserve] IN
             OnChainValue(r, s.amount) *
               (IF a.elevation_group # 0 \/ r.borrow_factor_pct = 0 THEN 100
                ELSE r.borrow_factor_pct))

OnChainDeposits(a, res, Weight(_), up) ==
    Total(a.deposits, DOMAIN a.deposits, LAMBDA s :
        IF s.amount = 0 THEN 0
        ELSE LET r == res[s.reserve] IN
             OnChainValue(r, CollateralToLiquidity(r, s.amount, up)) * Weight(r))

\* The debt at which the program liquidates.
OnChainLimit(a, res, groups, up) ==
    LET group == CHOOSE g \in Range(groups) : g.id = a.elevation_group
    IN OnChainDeposits(a, res,
           LAMBDA r : IF a.elevation_group = 0 THEN r.liquidation_threshold_pct
                      ELSE group.liquidation_threshold_pct, up)

OnChainWorth(a, res, up) == OnChainDeposits(a, res, LAMBDA r : 1, up)

\* Debt above the limit and neither side dust, by more than an f64 can get wrong ...
SurelyLiquidatable(a, res, groups) ==
    LET debt == OnChainDebt(a, res)
        limit == OnChainLimit(a, res, groups, 1)
        worth == OnChainWorth(a, res, 0)
    IN /\ debt - Slack(debt) > limit + Slack(limit)
       /\ debt - Slack(debt) >= 100 * MinNotional
       /\ worth - Slack(worth) >= MinNotional

\* ... or by so little that it can.
PossiblyLiquidatable(a, res, groups) ==
    LET debt == OnChainDebt(a, res)
        limit == OnChainLimit(a, res, groups, 0)
        worth == OnChainWorth(a, res, 1)
    IN /\ debt + Slack(debt) > limit - Slack(limit)
       /\ debt + Slack(debt) >= 100 * MinNotional
       /\ worth + Slack(worth) >= MinNotional

\* Limit over debt, at least and at most, in units of 1/Precision.
HealthLeast(a, res, groups) ==
    LET debt == OnChainDebt(a, res)
        limit == OnChainLimit(a, res, groups, 0)
    IN ((limit - Slack(limit)) * Precision) \div (debt + Slack(debt))

HealthMost(a, res, groups) ==
    LET debt == OnChainDebt(a, res)
        limit == OnChainLimit(a, res, groups, 1)
    IN ((limit + Slack(limit)) * Precision) \div (debt - Slack(debt))

\* Some deposit counts towards the limit: its reserve or group has a threshold.
CountsCollateral(a, res, groups) == OnChainLimit(a, res, groups, 0) > 0
=============================================================================
