------------------------------- MODULE Planning -------------------------------
(***************************************************************************)
(* From a candidate to a transaction.  The liquidator                      *)
(* (bins/liquidator/src/main.rs) chooses a funding path for a hit and      *)
(* builds its instructions over placeholder accounts.  The shadow          *)
(* (bins/shadow/src/main.rs, --mainnet) reads the borrower's accounts in   *)
(* three requests, any of which may fail, builds the flash liquidation     *)
(* over what it read and simulates it.  The chain may change between its   *)
(* requests.                                                               *)
(*                                                                         *)
(* The chain is external: its programs are modelled by the conditions      *)
(* that the comments of the builders and PROTOCOL_RESEARCH.md give for     *)
(* each error.  A simulation is one step, as it runs at one slot.          *)
(***************************************************************************)
EXTENDS Funding, Planner

CONSTANTS Opportunities,   \* arguments of evaluate_funding
          Chains,          \* [deposits, borrows, referrer] of an obligation
          MaxChanges,      \* bound: changes of the chain between the requests
          NoPositions, NoAccounts

\* None is not a path; an obligation has room for eight deposits and five borrows
\* (decode.rs).
ASSUME PlanningAssumption ==
    /\ \A o \in Opportunities :
          /\ o.protocol \in Protocols
          /\ o.gross \in Int
          /\ {o.swap_cost, o.chain_cost, o.tip, o.notional, o.inventory, o.flash_fee_bps}
                 \subseteq Nat
          /\ NoPath \notin ToSet(Candidates(o))
    /\ \A c \in Chains : /\ c.deposits \in Seq(Reserves) /\ Len(c.deposits) <= 8
                         /\ c.borrows \in Seq(Reserves) /\ Len(c.borrows) <= 5

VARIABLES
    bin,        \* the program: "liquidator" or "shadow"
    pc,         \* "hit", "obligation", "reserves", "atas", "build", "simulate", "done"
    protocol,
    opportunity,\* what the liquidator evaluates
    path,       \* OpportunityPlan.best
    chain,      \* the obligation on chain
    atas,       \* the liquidator's token accounts on chain
    changes,    \* history: changes of chain and atas
    positions,  \* the obligation as read
    picked,     \* reserves picked to repay and to withdraw
    vaults,     \* reserves read and decoded
    accounts,   \* PlanAccountSet
    ixs,        \* PlannedIxs.labeled
    sim         \* result of the simulation

readVars == <<positions, picked, vaults, accounts>>
envVars == <<chain, atas, changes>>
inputVars == <<bin, protocol, opportunity>>
vars == <<inputVars, pc, path, envVars, readVars, ixs, sim>>

ReservesOf(p) == ToSet(p.deposits) \cup ToSet(p.borrows)

\* ------------------------------------------------------------- the chain --

NotRun == [fresh |-> {}, obligation |-> FALSE, atas |-> {}, at |-> 0, loan |-> -1,
           liquidated |-> FALSE, errors |-> {}]

\* Why instruction ix fails in vm over obligation c; it succeeds if for no reason.
Errors(vm, ix, c) ==
    CASE ix.op = "refresh_reserve" ->
             {e \in {"AccountNotFound"} : ix.reserve \notin Reserves}
             \cup {e \in {"AccountNotEnoughKeys"} : ~ix.oracles}
      [] ix.op = "refresh_obligation" ->
             {e \in {"InvalidAccountInput"} :
                  \/ ix.reserves # c.deposits \o c.borrows
                  \/ ix.referrers # ReferrerStates(c)}
             \cup {e \in {"ReserveStale"} : ~(ReservesOf(c) \subseteq vm.fresh)}
      [] ix.op = "create_idempotent" -> {e \in {"AccountNotFound"} : ~ix.account.real}
      [] ix.op = "flash_borrow" ->
             {e \in {"AccountNotInitialized"} : ix.destination \notin vm.atas}
      [] ix.op = "liquidate" ->
             {e \in {"AccountNotInitialized"} : ~(ix.uses \subseteq vm.atas)}
             \cup {e \in {"ReserveStale"} : ~({ix.repay, ix.withdraw} \subseteq vm.fresh)}
             \cup {e \in {"ObligationStale"} : ~vm.obligation}
      [] ix.op = "flash_repay" -> {e \in {"InvalidFlashRepay"} : ix.index # vm.loan}
      [] OTHER -> {}

\* What it does when it succeeds; vm.at is its index.
Effect(vm, ix) ==
    CASE ix.op = "refresh_reserve"    -> [vm EXCEPT !.fresh = @ \cup {ix.reserve}]
      [] ix.op = "refresh_obligation" -> [vm EXCEPT !.obligation = TRUE]
      [] ix.op = "create_idempotent"  -> [vm EXCEPT !.atas = @ \cup {ix.account}]
      [] ix.op = "flash_borrow" ->
             [vm EXCEPT !.fresh = @ \ {ix.reserve}, !.loan = vm.at]
      [] ix.op = "liquidate"          -> [vm EXCEPT !.liquidated = TRUE]
      [] ix.op = "flash_repay"        -> [vm EXCEPT !.loan = -1]
      [] OTHER -> vm

\* Nothing happens after an error.
Stepped(vm, ix, c) ==
    IF vm.errors # {} THEN vm
    ELSE IF Errors(vm, ix, c) # {} THEN [vm EXCEPT !.errors = Errors(vm, ix, c)]
    ELSE [Effect(vm, ix) EXCEPT !.at = @ + 1]

\* One instruction after another; a loan left open or an error undoes the liquidation.
Run(code, c, existing) ==
    LET vm[n \in 0..Len(code)] ==
            IF n = 0 THEN [NotRun EXCEPT !.atas = existing]
            ELSE Stepped(vm[n - 1], code[n], c)
        end == vm[Len(code)]
    IN  [end EXCEPT !.liquidated = @ /\ end.errors = {} /\ end.loan = -1]

\* ---------------------------------------------------------- the programs --

NoOpportunity == [protocol |-> "none"]

\* What JUPITER_SWAP_IX_JSON names: a file that can be read (or not, or no file), with a
\* "swapInstruction", a list of "instructions", or itself an instruction; each of them
\* absent, malformed (or without data), or an instruction.
Item == {"absent", "malformed", "instruction"}

QuoteFiles ==
    [readable : BOOLEAN, swapInstruction : Item, itself : Item,
     instructions : {<< >>, <<"malformed", "instruction">>}]

\* parse_one_ix of every item.
Parsed(items) ==
    [i \in 1..Cardinality({j \in DOMAIN items : items[j] = "instruction"}) |->
        [op |-> "jupiter_swap"]]

FromJsonValue(v) ==
    LET listed == Parsed(<<v.swapInstruction>> \o v.instructions)
    IN IF listed = << >> THEN Parsed(<<v.itself>>) ELSE listed

\* from_env and attach_or_omit: what cannot be read or parsed leaves the swap out.
SwapsFromEnv(file) == IF file.readable THEN FromJsonValue(file) ELSE << >>

SwapLists == {SwapsFromEnv(file) : file \in QuoteFiles}

Init ==
    /\ \/ /\ bin = "liquidator" /\ pc = "hit"
          /\ opportunity \in Opportunities
          /\ protocol = opportunity.protocol
          /\ chain = [deposits |-> << >>, borrows |-> << >>, referrer |-> FALSE]
          /\ atas = {}
       \/ /\ bin = "shadow" /\ pc = "obligation"
          /\ opportunity = NoOpportunity
          /\ protocol \in Protocols
          /\ chain \in Chains
          /\ atas \in SUBSET RealAtas
    /\ path = NoPath
    /\ changes = 0
    /\ positions = NoPositions /\ picked = << >> /\ vaults = {} /\ accounts = NoAccounts
    /\ ixs = << >>
    /\ sim = NotRun

\* The liquidator's planning of a hit, up to the prepared transaction.
PlanHit ==
    /\ pc = "hit"
    /\ path' = PickBest(opportunity)
    /\ IF path' = NoPath
       THEN UNCHANGED <<accounts, ixs>>
       ELSE /\ accounts' = FromSeed(SeedRepay, SeedWithdraw)
            /\ \E swaps \in SwapLists :
                  ixs' = BuildStrategyIxs(protocol, path'.strategy, accounts', swaps)
    /\ pc' = "done"
    /\ UNCHANGED <<inputVars, envVars, positions, picked, vaults, sim>>

\* Every way out of build_plan_accounts_for_candidate but the last one.
FallBack(repay, withdraw) ==
    /\ accounts' = FromSeed(repay, withdraw)
    /\ pc' = "build"

\* get_account_info and the decoding of the obligation.
ReadObligation ==
    /\ pc = "obligation"
    /\ \/ /\ FallBack(SeedRepay, SeedWithdraw)   \* not Kamino, missing, error, undecodable
          /\ UNCHANGED <<positions, picked>>
       \/ /\ protocol = "Kamino"
          /\ positions' = chain
          /\ IF chain.deposits = << >> \/ chain.borrows = << >>
             THEN FallBack(SeedRepay, SeedWithdraw) /\ UNCHANGED picked
             ELSE /\ \E repay \in ToSet(chain.borrows), withdraw \in ToSet(chain.deposits) :
                        picked' = <<repay, withdraw>>
                  /\ pc' = "reserves"
                  /\ UNCHANGED accounts
    /\ UNCHANGED <<inputVars, path, envVars, vaults, ixs, sim>>

\* The refresh metas: deposits, then borrows, those that were read.
OverlayMetas(read) ==
    KeptOnce(positions.deposits \o positions.borrows, read)

\* get_multiple_accounts of the reserves: it fails, or each is read or not.
ReadReserves ==
    /\ pc = "reserves"
    /\ LET repay == picked[1]
           withdraw == picked[2]
       IN  \/ FallBack(repay, withdraw) /\ UNCHANGED vaults
           \/ \E read \in SUBSET ReservesOf(positions) :
                 /\ vaults' = read
                 /\ IF {repay, withdraw} \subseteq read
                    THEN /\ accounts' = [FromKaminoLive(positions, repay, withdraw)
                                            EXCEPT !.metas = OverlayMetas(read)]
                         /\ pc' = "atas"
                    ELSE FallBack(repay, withdraw)
    /\ UNCHANGED <<inputVars, path, envVars, positions, picked, ixs, sim>>

\* The liquidator's accounts that the prefetch did not find, or no filter.
PrefetchAtas ==
    /\ pc = "atas"
    /\ \/ UNCHANGED accounts
       \/ accounts' = [accounts EXCEPT !.missing =
                          {accounts.source, accounts.collateral, accounts.destination} \ atas]
    /\ pc' = "build"
    /\ UNCHANGED <<inputVars, path, envVars, positions, picked, vaults, ixs, sim>>

\* The strategy of the shadow.
FlashStrategy ==
    CASE protocol = "Kamino"   -> "KaminoFlashBorrow"
      [] protocol = "Save"     -> "SaveFlashLoan"
      [] protocol = "Project0" -> "Project0Receivership"

Build ==
    /\ pc = "build"
    /\ \E swaps \in SwapLists :
          ixs' = BuildStrategyIxs(protocol, FlashStrategy, accounts, swaps)
    /\ pc' = "simulate"
    /\ UNCHANGED <<inputVars, path, envVars, readVars, sim>>

\* simulate_transaction: the result, or an error of the request.
Simulate ==
    /\ pc = "simulate"
    /\ \/ sim' = Run(ixs, chain, atas)
       \/ UNCHANGED sim
    /\ pc' = "done"
    /\ UNCHANGED <<inputVars, path, envVars, readVars, ixs>>

\* Other people's transactions between the requests: before the first read a
\* change is another initial state, and after the simulation nothing is read; only
\* Kamino plans are made over what was read.
Change ==
    /\ protocol = "Kamino" /\ pc \in {"reserves", "atas", "build", "simulate"}
    /\ changes < MaxChanges
    /\ changes' = changes + 1
    /\ \/ chain' \in Chains /\ UNCHANGED atas
       \/ \E t \in RealAtas :
             /\ atas' = IF t \in atas THEN atas \ {t} ELSE atas \cup {t}
             /\ UNCHANGED chain
    /\ UNCHANGED <<inputVars, pc, path, readVars, ixs, sim>>

Next ==
    \/ PlanHit
    \/ ReadObligation \/ ReadReserves \/ PrefetchAtas \/ Build \/ Simulate
    \/ Change

Spec == Init /\ [][Next]_vars

\* ------------------------------------------------------------ properties --

\* pick_best takes the highest expected value among the accepted paths, and a
\* rejected one only if there is none, the best of them; it is empty-handed only
\* if no path is feasible ("pick max expected_value_score among Accept decisions,
\* else best Reject").
BestIsMaxAccepted ==
    (bin = "liquidator" /\ pc = "done") =>
        LET feasible == ToSet(Candidates(opportunity))
            accepted == {c \in feasible : c.decision.accept}
            pool == IF accepted # {} THEN accepted ELSE feasible
        IN  IF path = NoPath THEN feasible = {}
            ELSE path \in pool /\ \A c \in pool : c.score <= path.score

\* An accepted path really earns what the gates ask for once every cost is paid,
\* the flash fee and the tip included, with no help from the rounding of the
\* divisions (score_one, evaluate).
AcceptedPaysItsCosts ==
    (path # NoPath /\ path.decision.accept) =>
        LET o == opportunity
            cost == o.swap_cost + o.chain_cost + o.tip + path.fee
        IN  /\ cost <= MaxCost
            /\ o.gross - cost >= MaxOf(MinProfit, 1)
            /\ (o.gross - cost) * Bps >= MinRoiBps * path.capital
            /\ o.notional >= MinNotional

\* What the shadow read is still what the programs check, and it read it all: the
\* lists refresh_obligation compares, the oracles of every position, and the token
\* accounts that are there or will be created.
GoodReads ==
    /\ accounts.live
    /\ positions.deposits \o positions.borrows = chain.deposits \o chain.borrows
    /\ ReferrerStates(positions) = ReferrerStates(chain)
    /\ ReservesOf(positions) \subseteq vaults
    /\ {accounts.source, accounts.collateral, accounts.destination}
           \subseteq atas \cup accounts.missing

\* The transaction the shadow simulates liquidates if and only if its reads were
\* good: it never fails by the order or the lists of its own instructions (errors
\* 3012, 6006, 6009, 6017), and a failed or outdated read never lets it through
\* (build_plan_accounts_for_candidate, build_flash_tx).
LiquidatesIffGoodReads ==
    (bin = "shadow" /\ sim # NotRun) => (sim.liquidated <=> GoodReads)

\* In every plan a loan is repaid by a repayment that points at it, with the
\* liquidation in between and the swaps after it, and a receivership that starts
\* is the last thing to end, with withdrawal, swaps and repayment inside
\* (build_flash_tx, build_flash_atomic_plan, build_receivership_tx).
OpenedIsClosed ==
    LET At(op) == {i \in DOMAIN ixs : ixs[i].op = op}
        InOrder(ops) == \A k \in 1..Len(ops) - 1 :
                            \E i \in At(ops[k]), j \in At(ops[k + 1]) : i < j
        SwapsBetween(from, to) == \A i \in At(from), s \in At("jupiter_swap"), j \in At(to) :
                                      i < s /\ s < j
    IN  /\ \A i \in At("flash_borrow") :
               /\ InOrder(<<"flash_borrow", "liquidate", "flash_repay">>)
               /\ SwapsBetween("liquidate", "flash_repay")
               /\ \A j \in At("flash_repay") :
                      ixs[j].index + 1 = i /\ ixs[j].reserve = ixs[i].reserve
        /\ \A i \in At("start_liquidation") :
               /\ InOrder(<<"start_liquidation", "withdraw", "repay", "end_liquidation">>)
               /\ SwapsBetween("withdraw", "repay")
               /\ At("end_liquidation") = {Len(ixs)}

\* In every plan, over live, placeholder or mixed accounts, a liquidation follows
\* a refresh of the obligation, which follows a refresh of both reserves that no
\* Kamino flash borrow comes after (refresh_ixs, post_flash_refresh_ixs).
RefreshedForLiquidation ==
    \A k \in DOMAIN ixs : ixs[k].op = "liquidate" =>
        \E m \in 1..k - 1 :
            /\ ixs[m].op = "refresh_obligation"
            /\ \A r \in {ixs[k].repay, ixs[k].withdraw} :
                   \E j \in 1..m - 1 :
                       /\ ixs[j].op = "refresh_reserve" /\ ixs[j].reserve = r
                       /\ protocol = "Kamino" => \A b \in j..k :
                              ~(ixs[b].op = "flash_borrow" /\ ixs[b].reserve = r)
=============================================================================
