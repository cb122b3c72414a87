----------------------------- MODULE Discovery -----------------------------
(***************************************************************************)
(* liq-streaming's read-only discovery of liquidatable borrowers on the    *)
(* chain (crates/liq-streaming/src/discovery.rs, discover_mainnet).  One   *)
(* action is one JSON-RPC request and what is done with its answer; any    *)
(* request may fail (MaxFaults in a behaviour), and the chain may move     *)
(* between the requests whose answers are combined (MaxChanges).           *)
(*                                                                         *)
(* A chain is a record: `market` the klend main market's account, `res`    *)
(* and `obl` the reserve and obligation accounts by address, `known` which *)
(* of the three known accounts exist, `others` how many accounts of the    *)
(* other protocols a request finds, `funded` the fee payers with lamports. *)
(* A gap is the kind of an entry of the report's list of gaps; the texts,  *)
(* notes, the list of scanned rows (which nothing reads) and the samples   *)
(* and percentiles of the statistics are left out.                         *)
(***************************************************************************)
EXTENDS LiveHealth

CONSTANTS Chains,       \* the states the chain may be in
          CandidateCap, \* 32: the report's candidates
          MaxFaults,    \* bound: requests that fail
          MaxChanges    \* bound: moves of the chain during the discovery

MainMarket == "main"
ObligationDataSize == 3344
ReserveDataSize == 8624
SaveSizes == 1..3   \* SAVE_OBLIGATION_DATASIZES: 1300, 916, 1192

NoMap == [x \in {} |-> x]

\* getProgramAccounts with a dataSize and a market filter.
Filtered(accounts, size) ==
    {k \in DOMAIN accounts : accounts[k].len = size /\ accounts[k].market = MainMarket}

ReserveAccounts ==
    [len : Nat, market : STRING, market_price_sf : Nat, loan_to_value_pct : Nat,
     liquidation_threshold_pct : Nat, borrow_factor_pct : Nat, total_available_amount : Nat,
     borrowed_amount_sf : Nat, fees_sf : Nat, collateral_mint_total_supply : Nat]

\* What the lending program keeps up: a slot with an amount names a reserve of the
\* market, an elevated obligation a group of it, and a group's id is its own.
SlotsSound(c, slots) ==
    /\ IsFiniteSet(DOMAIN slots)
    /\ \A i \in DOMAIN slots :
         /\ slots[i].amount \in Nat
         /\ slots[i].amount # 0 => slots[i].reserve \in Filtered(c.res, ReserveDataSize)

ChainSound(c) ==
    /\ \A k \in DOMAIN c.res : c.res[k] \in ReserveAccounts
    /\ IsFiniteSet(DOMAIN c.obl)
    /\ \A o \in Filtered(c.obl, ObligationDataSize) : LET a == c.obl[o] IN
         /\ SlotsSound(c, a.deposits) /\ SlotsSound(c, a.borrows)
         /\ a.elevation_group # 0 => \E g \in Range(c.market.groups) : g.id = a.elevation_group
    /\ c.market.groups \in Seq(Range(c.market.groups))
    /\ \A i, j \in DOMAIN c.market.groups : LET g == c.market.groups IN
         /\ g[i].liquidation_threshold_pct \in Nat
         /\ g[i].id # 0 /\ g[i].id = g[j].id => i = j

\* A decoder's error is not one of its results.
ErrorsTold ==
    /\ Undecoded \notin ReserveAccounts /\ Undecoded # NoMap
    /\ \A c \in Chains : \A o \in DOMAIN c.obl :
         Undecoded # LiveHeader(c.obl[o]) /\ Undecoded # LivePositions(c.obl[o])

ASSUME DiscoveryAssumption ==
    /\ \A c \in Chains : ChainSound(c)
    /\ ErrorsTold
    /\ MinNotional \in Nat \ {0} /\ Precision \in Nat \ {0, 1}
    /\ CandidateCap \in Nat

VARIABLES pc,             \* the request discover_mainnet is at
          chain,
          faults, changes,
          gaps,
          elevation_map, reserve_map,
          counts,         \* accounts returned, by kind
          save,           \* Save sizes asked so far
          liquidatable,   \* liquidatable_candidates
          stats,          \* klend_health_stats
          truth,          \* history: what the program would liquidate, at the scan:
                          \* surely, and within the rounding of an f64
          current         \* history: the maps were the chain's own, at the scan

envVars == <<chain, faults, changes>>
scanVars == <<liquidatable, stats, truth, current>>
mapVars == <<elevation_map, reserve_map>>
discoveryVars == <<pc, envVars, gaps, mapVars, counts, save, scanVars>>

NoStats == [decoded |-> 0, with_debt |-> 0, liquidatable |-> 0, below_maintenance |-> 0,
            missing_reserve_price |-> 0]
KnownLabels == {"klend_main_market", "marginfi_main_group", "save_main_market"}
CountedKinds == {"kamino_obligations", "kamino_reserves", "marginfi_accounts",
                 "marginfi_banks", "save_accounts", "known"}

DiscoveryInit ==
    /\ pc = "getSlot" /\ chain \in Chains /\ faults = 0 /\ changes = 0
    /\ gaps = {} /\ elevation_map = NoMap /\ reserve_map = NoMap
    /\ counts = [k \in CountedKinds |-> 0] /\ save = 0
    /\ liquidatable = << >> /\ stats = NoStats /\ current = FALSE
    /\ truth = [surely |-> {}, possibly |-> {}]

-----------------------------------------------------------------------------
(* Classification                                                          *)

Row(o, decode, has_debt) ==
    [account |-> o, decode |-> decode, has_debt |-> has_debt, health |-> {},
     band |-> "none", status |-> "none", missing |-> 0]

\* The row of an obligation whose health was computed as ch.
HealthRow(o, a, ch) ==
    LET row == [Row(o, "live_health", a.has_debt) EXCEPT !.missing = ch.missing_reserves]
    IN IF ch.bf_debt > 0 \/ ch.deposited > 0
       THEN [row EXCEPT !.health = {ch.health_factor}, !.band = BandFromKlendHealth(ch),
               !.status = IF ch.is_liquidatable THEN "liquidatable"
                          ELSE IF ch.below_maintenance THEN "below_maintenance"
                          ELSE "healthy"]
       ELSE row

\* classify_klend_obligation_full: the row it may return, as the health is rounded; no
\* reserve map (an empty one) means no claim.
ClassifyObligation(o, a, reserves, groups) ==
    LET pos == DecodeObligationLivePositions(a)
    IN CASE a.len < 2260 -> {Row(o, "incomplete", FALSE)}
         [] a.len >= 2260 /\ pos = Undecoded -> {Row(o, "unknown", FALSE)}
         [] pos # Undecoded /\ reserves = NoMap -> {Row(o, "live_positions", a.has_debt)}
         [] OTHER ->
              {HealthRow(o, a, ch) : ch \in ComputeObligationHealthLive(pos, reserves, groups)}

IsLiq(d) == d.band = "CRITICAL" \/ d.status = "liquidatable"

\* The sort's key is smaller: unwrap_or(f64::MAX) makes a row without health the last.
KeyLess(d, e) == \E h \in d.health : \A g \in e.health : h < g

\* Mutant: the order in which the node listed them.
RankedLists_Unsorted(rows) == SetToSeqs(rows)

\* sort_by key, ascending; rows that compare equal stay in the order in which
\* the node listed them, which is any order.
RankedLists(rows) ==
    {s \in SetToSeqs(rows) : \A i, j \in DOMAIN s : i < j => ~KeyLess(s[j], s[i])}

-----------------------------------------------------------------------------
(* Requests                                                                *)

\* A request fails after the pool has tried its endpoints (module RpcPool).
Fail == faults < MaxFaults /\ faults' = faults + 1 /\ UNCHANGED <<chain, changes>>
Answer == UNCHANGED envVars

GetSlot ==
    /\ pc = "getSlot"
    /\ \/ Answer /\ pc' = "getHealth"
       \/ Fail /\ pc' = "failed"
    /\ UNCHANGED <<gaps, mapVars, counts, save, scanVars>>

GetHealth ==
    /\ pc = "getHealth"
    /\ \/ Answer /\ UNCHANGED gaps
       \/ Fail /\ gaps' = gaps \cup {"getHealth"}
    /\ pc' = "known"
    /\ UNCHANGED <<mapVars, counts, save, scanVars>>

\* The three known accounts, and the elevation groups of the first of them.
GetKnownAccounts ==
    LET groups == DecodeElevationGroups(chain.market)
        there == "klend_main_market" \in chain.known
    IN
    /\ pc = "known"
    /\ \/ /\ Answer
          /\ elevation_map' = IF there /\ groups # Undecoded THEN groups ELSE NoMap
          /\ gaps' = gaps \cup (KnownLabels \ chain.known)
                          \cup (IF there /\ groups = Undecoded THEN {"elevation groups"} ELSE {})
          /\ counts' = [counts EXCEPT !["known"] = Cardinality(chain.known)]
          /\ pc' = "reserves"
       \/ Fail /\ pc' = "failed" /\ UNCHANGED <<elevation_map, gaps, counts>>
    /\ UNCHANGED <<reserve_map, save, scanVars>>

DecodedReserves(keys) ==
    [k \in {r \in keys : DecodeReserveLiveRisk(chain.res[r]) # Undecoded} |->
        DecodeReserveLiveRisk(chain.res[k])]

ScanReserves ==
    LET keys == Filtered(chain.res, ReserveDataSize)
        map == DecodedReserves(keys)
    IN
    /\ pc = "reserves"
    /\ \/ /\ Answer
          /\ reserve_map' = map
          /\ counts' = [counts EXCEPT !["kamino_reserves"] = Cardinality(keys)]
          /\ gaps' = IF \E k \in DOMAIN map : map[k].market_price_sf > 0 THEN gaps
                     ELSE gaps \cup {"no reserve priced"}
       \/ Fail /\ gaps' = gaps \cup {"reserve GPA"} /\ UNCHANGED <<reserve_map, counts>>
    /\ pc' = "obligations"
    /\ UNCHANGED <<elevation_map, save, scanVars>>

\* The rows of all the accounts that the request returned: one of each.
RowSets ==
    LET keys == Filtered(chain.obl, ObligationDataSize)
        of == [o \in keys |-> ClassifyObligation(o, chain.obl[o], reserve_map, elevation_map)]
        choices == {f \in [keys -> UNION Range(of)] : \A o \in keys : f[o] \in of[o]}
    IN {Range(f) : f \in choices}

\* The obligations of the market for which the program's rule P holds.
OnChain(P(_, _, _)) ==
    {o \in Filtered(chain.obl, ObligationDataSize) :
        P(chain.obl[o], chain.res, chain.market.groups)}

StatsOf(rows) ==
    LET number(P(_)) == Cardinality({d \in rows : P(d)}) IN
    [decoded |-> Cardinality(rows), with_debt |-> number(LAMBDA d : d.has_debt),
     liquidatable |-> number(IsLiq),
     below_maintenance |-> number(LAMBDA d : ~IsLiq(d) /\ d.status = "below_maintenance"),
     missing_reserve_price |-> number(LAMBDA d : d.missing > 0)]

ScanObligations ==
    /\ pc = "obligations"
    /\ \/ \E rows \in RowSets : \E liq \in {{d \in rows : IsLiq(d)}} :
          /\ Answer
          /\ \E ranked \in RankedLists(liq) : liquidatable' = ranked
          /\ stats' = StatsOf(rows)
          /\ counts' = [counts EXCEPT !["kamino_obligations"] = Cardinality(rows)]
          /\ gaps' = IF liq = {} THEN gaps \cup {"zero liquidatable"} ELSE gaps
          /\ truth' = [surely |-> OnChain(SurelyLiquidatable),
                       possibly |-> OnChain(PossiblyLiquidatable)]
          /\ current' = /\ reserve_map = DecodedReserves(Filtered(chain.res, ReserveDataSize))
                        /\ elevation_map = DecodeElevationGroups(chain.market)
       \/ Fail /\ gaps' = gaps \cup {"obligation GPA"} /\ UNCHANGED <<scanVars, counts>>
    /\ pc' = "marginfi"
    /\ UNCHANGED <<mapVars, save>>

ScanMarginfi ==
    /\ pc = "marginfi"
    /\ \/ /\ Answer /\ pc' = "save"
          /\ counts' = [counts EXCEPT !["marginfi_accounts"] = chain.others.marginfi]
          /\ UNCHANGED gaps
       \/ Fail /\ pc' = "banks" /\ gaps' = gaps \cup {"marginfi account GPA"} /\ UNCHANGED counts
    /\ UNCHANGED <<mapVars, save, scanVars>>

ScanBanks ==
    /\ pc = "banks" /\ pc' = "save"
    /\ \/ Answer /\ counts' = [counts EXCEPT !["marginfi_banks"] = chain.others.banks] /\ UNCHANGED gaps
       \/ Fail /\ gaps' = gaps \cup {"marginfi bank GPA"} /\ UNCHANGED counts
    /\ UNCHANGED <<mapVars, save, scanVars>>

\* The Save sizes in turn until one finds an account; a failed request goes on too.
ScanSave ==
    LET found == chain.others.save[save + 1]
        last == save + 1 = Cardinality(SaveSizes)
        onward == IF last THEN pc' = "report" ELSE UNCHANGED pc
        unfound == IF last THEN {"no Save obligation"} ELSE {}
    IN
    /\ pc = "save"
    /\ save' = save + 1
    /\ \/ /\ Answer /\ found > 0 /\ pc' = "report"
          /\ counts' = [counts EXCEPT !["save_accounts"] = found]
          /\ gaps' = gaps \cup {"Save size pinned"}
       \/ Answer /\ found = 0 /\ onward /\ gaps' = gaps \cup unfound /\ UNCHANGED counts
       \/ Fail /\ onward /\ gaps' = gaps \cup {"Save GPA"} \cup unfound /\ UNCHANGED counts
    /\ UNCHANGED <<mapVars, scanVars>>

\* The candidates of the report: a capped copy.  What is left of the maps is dropped.
Candidates == SubSeq(liquidatable, 1, IF Len(liquidatable) < CandidateCap
                                      THEN Len(liquidatable) ELSE CandidateCap)

Report ==
    /\ pc = "report" /\ pc' = "reported"
    /\ gaps' = gaps \cup {"decoders incomplete"}
                    \cup (IF Candidates = << >> THEN {"no candidate"} ELSE {})
    /\ elevation_map' = NoMap /\ reserve_map' = NoMap
    /\ UNCHANGED <<envVars, counts, save, scanVars>>

\* Other transactions, while the discovery holds answers to be combined with later
\* ones.  Reserves and markets are not closed.
Change ==
    /\ pc \in {"reserves", "obligations"}
    /\ changes < MaxChanges /\ changes' = changes + 1
    /\ \E c \in Chains :
         /\ c # chain /\ DOMAIN chain.res \subseteq DOMAIN c.res
         /\ c.market = chain.market /\ c.known = chain.known
         /\ c.others = chain.others /\ c.funded = chain.funded
         /\ chain' = c
    /\ UNCHANGED <<pc, faults, gaps, mapVars, counts, save, scanVars>>

Discover ==
    \/ GetSlot \/ GetHealth \/ GetKnownAccounts \/ ScanReserves \/ ScanObligations
    \/ ScanMarginfi \/ ScanBanks \/ ScanSave \/ Report

-----------------------------------------------------------------------------
(* Properties                                                              *)

FoundAccounts == {liquidatable[i].account : i \in DOMAIN liquidatable}

\* If the reserves and elevation groups in hand were the chain's when the
\* obligations were read, the scan finds every obligation that the program's rule makes
\* liquidatable and that is no dust, and no other but those so close to the rule's
\* bounds that f64 arithmetic may decide either way: recomputing health from decoded
\* positions, shares, borrow factors and group overrides loses none and invents none
\* (classify_klend_obligation_full, compute_obligation_health_live_with_elevation).
ScanExact ==
    current => truth.surely \subseteq FoundAccounts /\ FoundAccounts \subseteq truth.possibly

\* A discovery that finds nobody either found that there is nobody or says in its
\* gaps which read failed: no failure and no empty or short account passes for an
\* empty market (discover_mainnet's gaps).
HonestZero ==
    (/\ pc = "reported" /\ liquidatable = << >> /\ changes = 0
     /\ gaps \cap {"klend_main_market", "elevation groups", "reserve GPA",
                   "no reserve priced", "obligation GPA"} = {})
        => truth.surely = {}

\* Expected to fail.  Every candidate is one that the program would liquidate
\* (discovery.rs:182: "Only CRITICAL when truly liquidatable.").
OnlyTrulyLiquidatable == FoundAccounts \subseteq truth.possibly
=============================================================================
