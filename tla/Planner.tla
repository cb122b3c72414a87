------------------------------- MODULE Planner -------------------------------
(***************************************************************************)
(* The instruction list of a liquidation: build_strategy_ixs               *)
(* (crates/liq-execution/src/plan.rs) and the builders of the adapters it  *)
(* calls.  Pure functions from an account set to a sequence of             *)
(* instructions.                                                           *)
(*                                                                         *)
(* An instruction keeps what its success depends on: which reserve, which  *)
(* token accounts, which list of reserves, the index a repayment carries.  *)
(* Amounts, fees, markets and farm placeholders are left out.  The owner   *)
(* is always the liquidator, so an associated token account is named by    *)
(* its mint.                                                               *)
(***************************************************************************)
EXTENDS Lists

CONSTANTS Reserves,      \* reserves that exist on chain
          SeedRepay,     \* placeholder reserves of PlanAccountSet::from_seed
          SeedWithdraw

ASSUME PlannerAssumption ==
    /\ SeedRepay \notin Reserves
    /\ SeedWithdraw \notin Reserves
    /\ SeedRepay # SeedWithdraw

\* ---------------------------------------------------------- account sets --

\* A token account; real when its mint was read from the chain.
LiquidityAta(r, real)  == [kind |-> "liquidity", reserve |-> r, real |-> real]
CollateralAta(r, real) == [kind |-> "collateral", reserve |-> r, real |-> real]

RealAtas == {LiquidityAta(r, TRUE) : r \in Reserves}
                \cup {CollateralAta(r, TRUE) : r \in Reserves}

\* missing_ata_filter = None: nothing is known to exist, so nothing is left out.
NoFilter == RealAtas \cup {LiquidityAta(r, FALSE) : r \in Reserves \cup {SeedRepay, SeedWithdraw}}
                     \cup {CollateralAta(r, FALSE) : r \in Reserves \cup {SeedRepay, SeedWithdraw}}

\* from_seed, with the reserves that callers overwrite afterwards.
FromSeed(repay, withdraw) ==
    [live |-> FALSE, repay |-> repay, withdraw |-> withdraw,
     source |-> [kind |-> "user_liquidity", reserve |-> SeedRepay, real |-> FALSE],
     collateral |-> [kind |-> "user_collateral", reserve |-> SeedWithdraw, real |-> FALSE],
     destination |-> [kind |-> "user_liquidity", reserve |-> SeedRepay, real |-> FALSE],
     deposits |-> << >>, borrows |-> << >>, metas |-> << >>, referrers |-> << >>,
     missing |-> NoFilter]

\* One ReferrerTokenState for each borrow of an obligation that has a referrer.
ReferrerStates(positions) == IF positions.referrer THEN positions.borrows ELSE << >>

\* from_kamino_live: the reserves of the positions, and both sides' metas.
FromKaminoLive(positions, repay, withdraw) ==
    [live |-> TRUE, repay |-> repay, withdraw |-> withdraw,
     source |-> LiquidityAta(repay, TRUE),
     collateral |-> CollateralAta(withdraw, TRUE),
     destination |-> LiquidityAta(withdraw, TRUE),
     deposits |-> positions.deposits, borrows |-> positions.borrows,
     metas |-> Dedup(<<withdraw, repay>>), referrers |-> ReferrerStates(positions),
     missing |-> NoFilter]

\* Mutant: the filter is read as the accounts that exist.
EnsureAtas_Inverted(a) ==
    LET atas == <<LiquidityAta(a.repay, a.live), CollateralAta(a.withdraw, a.live),
                  LiquidityAta(a.withdraw, a.live)>>
    IN  KeptOnce(atas, ToSet(atas) \ a.missing)

\* liquidator_ensure_atas, repeated addresses collapsed.
EnsureAtas(a) ==
    KeptOnce(<<LiquidityAta(a.repay, a.live), CollateralAta(a.withdraw, a.live),
               LiquidityAta(a.withdraw, a.live)>>, a.missing)

\* ---------------------------------------------------------- instructions --

ComputeBudget == << [op |-> "compute_unit_limit"], [op |-> "compute_unit_price"] >>

\* The metas of a reserve carry its oracles; the fallback without them does not.
RefreshReserve(a, r) ==
    [op |-> "refresh_reserve", reserve |-> r, oracles |-> Contains(a.metas, r)]

RefreshObligation(reserves, referrers) ==
    [op |-> "refresh_obligation", reserves |-> reserves, referrers |-> referrers]

CreateAta(t) == [op |-> "create_idempotent", account |-> t]

FlashBorrow(a) == [op |-> "flash_borrow", reserve |-> a.repay, destination |-> a.source]

Liquidate(a) ==
    [op |-> "liquidate", repay |-> a.repay, withdraw |-> a.withdraw,
     uses |-> {a.source, a.collateral, a.destination}]

\* The index is a u8 counted from zero.
FlashRepay(a, index) ==
    [op |-> "flash_repay", reserve |-> a.repay, index |-> index % 256]

\* ---------------------------------------------------------------- Kamino --

\* The list a fixture obligation is padded to; a live one is taken as it is.
Listed(a, extra, needed, pad) ==
    IF a.live THEN extra
    ELSE IF extra = << >> THEN <<needed>>
    ELSE IF pad /\ ~Contains(extra, needed) THEN Append(extra, needed)
    ELSE extra

\* KaminoTxBuildParams, as far as the refreshes read it.
DepositReserves(a, flash) == Listed(a, a.deposits, a.withdraw, flash)
BorrowReserves(a, flash)  == Listed(a, a.borrows, a.repay, flash)

\* refresh_reserve for each of the keys, then refresh_obligation with all deposits
\* and all borrows, or with the keys when there are none.
RefreshAll(a, flash, keys) ==
    LET listed == DepositReserves(a, flash) \o BorrowReserves(a, flash)
    IN  [i \in DOMAIN keys |-> RefreshReserve(a, keys[i])]
            \o <<RefreshObligation(IF listed # << >> THEN listed ELSE keys, a.referrers)>>

\* refresh_ixs: every reserve once, then the obligation.
RefreshIxs(a, flash) ==
    RefreshAll(a, flash, Dedup(IF a.metas # << >> THEN a.metas
                               ELSE DepositReserves(a, flash) \o BorrowReserves(a, flash)))

EnsureAtaIxs(a) == LET atas == EnsureAtas(a) IN [i \in DOMAIN atas |-> CreateAta(atas[i])]

\* Mutant: the reserve that was lent from is taken to be fresh still.
PostFlashRefreshIxs_WithdrawOnly(a) == RefreshAll(a, TRUE, <<a.withdraw>>)

\* post_flash_refresh_ixs: the borrow made its reserve stale.
PostFlashRefreshIxs(a) == RefreshAll(a, TRUE, Dedup(<<a.repay, a.withdraw>>))

BuildInventoryTx(a, swaps) ==
    ComputeBudget \o RefreshIxs(a, FALSE) \o EnsureAtaIxs(a) \o <<Liquidate(a)>> \o swaps

\* Mutant: the index of the borrow is taken before the accounts are created.
BuildFlashTx_EarlyIndex(a, swaps) ==
    LET refreshed == ComputeBudget \o RefreshIxs(a, TRUE)
        before == refreshed \o EnsureAtaIxs(a)
    IN  before \o <<FlashBorrow(a)>> \o PostFlashRefreshIxs(a) \o <<Liquidate(a)>>
            \o swaps \o <<FlashRepay(a, Len(refreshed))>>

BuildFlashTx(a, swaps) ==
    LET before == ComputeBudget \o RefreshIxs(a, TRUE) \o EnsureAtaIxs(a)
    IN  before \o <<FlashBorrow(a)>> \o PostFlashRefreshIxs(a) \o <<Liquidate(a)>>
            \o swaps \o <<FlashRepay(a, Len(before))>>

\* ----------------------------------------------------- Save and Project 0 --

\* build_flash_atomic_plan over save_flash_accounts; its refresh_obligation
\* carries no reserves.
BuildFlashAtomicPlan(a, swaps) ==
    LET before == ComputeBudget
                    \o <<RefreshReserve(a, a.repay), RefreshReserve(a, a.withdraw),
                         RefreshObligation(<< >>, << >>)>>
    IN  before \o <<FlashBorrow(a), Liquidate(a)>> \o swaps
            \o <<FlashRepay(a, Len(before))>>

BuildReceivershipTx(a, swaps) ==
    ComputeBudget
        \o <<[op |-> "start_liquidation"], [op |-> "withdraw", bank |-> a.withdraw]>>
        \o swaps
        \o <<[op |-> "repay", bank |-> a.repay], [op |-> "end_liquidation"]>>

\* build_strategy_ixs.
BuildStrategyIxs(protocol, strategy, a, swaps) ==
    CASE protocol = "Kamino" /\ strategy = "KaminoFlashBorrow"     -> BuildFlashTx(a, swaps)
      [] protocol = "Kamino" /\ strategy = "Inventory"             -> BuildInventoryTx(a, swaps)
      [] protocol = "Save" /\ strategy = "SaveFlashLoan"           -> BuildFlashAtomicPlan(a, swaps)
      [] protocol = "Project0" /\ strategy = "Project0Receivership" -> BuildReceivershipTx(a, swaps)
      [] OTHER -> <<[op |-> "compute_unit_limit"]>>
=============================================================================
