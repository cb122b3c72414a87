----------------------------- MODULE OraclePath -----------------------------
(***************************************************************************)
(* The oracle update -> trigger crossing -> candidate wake path            *)
(* (crates/liq-core/src/oracle_path.rs), composed of the price book, the   *)
(* oracle StateStore and the CandidateIndex.  One call of                  *)
(* apply_oracle_update is one action, as the binaries make these calls     *)
(* from a single task; its result is the variable hits.  Seeding happens   *)
(* before the first update of an asset, as in the replay and shadow        *)
(* binaries (the liquidator binary does not seed).  Metrics are left out.  *)
(***************************************************************************)
EXTENDS CandidateIndex

CONSTANTS Slots,          \* slots of oracle updates
          WriteVersions,  \* write versions of oracle updates
          NoEntry,        \* the oracle store has no entry for the asset
          NoPrice         \* the book has no price for the asset

ASSUME PathAssumption == NoPrice \notin Prices

VARIABLES oracle_store,  \* StateStore<PriceFx>
          prices,        \* OraclePriceBook
          hits,          \* what the last apply_oracle_update returned
          dropped,       \* history: assets whose last update is not the entry stored
          armed,         \* history: installed triggers seen on their healthy side
          awake          \* history: triggers hit, and not healthy again since

pathVars == <<oracle_store, prices, hits>>
wakeVars == <<armed, awake>>
vars == <<indexVars, pathVars, dropped, wakeVars>>

\* The history variable of the store is checked in StateStore's own run.
Store == INSTANCE StateStore
             WITH Keys <- Assets, Values <- Prices, None <- NoEntry,
                  inner <- oracle_store, seen <- [a \in Assets |-> {}]

PathTypeOK ==
    /\ IndexTypeOK
    /\ oracle_store \in [Assets -> Store!Entry \cup {NoEntry}]
    /\ prices \in [Assets -> Prices \cup {NoPrice}]
    /\ hits \in SUBSET IndexEntry
    /\ dropped \in SUBSET Assets
    /\ armed \in SUBSET IndexEntry
    /\ awake \in SUBSET IndexEntry

PathInit ==
    /\ IndexInit
    /\ oracle_store = [a \in Assets |-> NoEntry]
    /\ prices = [a \in Assets |-> NoPrice]
    /\ hits = {}
    /\ dropped = {}
    /\ armed = {}
    /\ awake = {}

-----------------------------------------------------------------------------
(* What the triggers mean, independently of the index                      *)

\* TriggerSide: "Unhealthy when collateral price falls to <= trigger",
\* "Unhealthy when debt price rises to >= trigger".
Unhealthy(t, p) ==
    CASE t.side = "CollateralDown" -> p <= t.trigger_price
      [] t.side = "DebtUp"         -> p >= t.trigger_price

Installed(e) == e.account \in Accounts /\ e.trigger \in account_triggers[e.account]

HealthyAt(a, p) ==
    {e \in IndexEntry : Installed(e) /\ e.trigger.asset = a /\ ~Unhealthy(e.trigger, p)}

\* History of a price move of asset a to p in which woken fired.
Observe(a, p, woken) ==
    /\ armed' = armed \cup HealthyAt(a, p)
    /\ awake' = {e \in awake : e.trigger.asset = a => Unhealthy(e.trigger, p)} \cup woken

\* History of account acc's triggers becoming ts: what was known of the old ones
\* is forgotten, the new ones are armed if the known price is healthy for them.
Forget(acc, ts) ==
    /\ armed' = {e \in armed : e.account # acc}
                \cup {e \in EntriesOf(acc, ts) :
                         LET p == prices[e.trigger.asset]
                         IN  p # NoPrice /\ ~Unhealthy(e.trigger, p)}
    /\ awake' = {e \in awake : e.account # acc}

-----------------------------------------------------------------------------
(* Actions                                                                 *)

\* prices.set before the asset's first update.
SeedPrice(a, p) ==
    /\ prices[a] = NoPrice
    /\ prices' = [prices EXCEPT ![a] = p]
    /\ hits' = {}
    /\ Observe(a, p, {})
    /\ UNCHANGED <<indexVars, oracle_store, dropped>>

\* Mutant: prev is read from the oracle store instead of the book.
PrevPrice_FromStore(a, new_price) ==
    IF oracle_store[a] = NoEntry THEN new_price ELSE oracle_store[a].decoded

\* prices.get(&asset).unwrap_or(new_price): no crossing on the first price.
PrevPrice(a, new_price) == IF prices[a] = NoPrice THEN new_price ELSE prices[a]

\* Mutant: the update is ignored whenever it does not lower the price.
Ignored_UnlessLower(a, e) == prices[a] # NoPrice /\ prices[a] <= e.decoded

\* The early return: the store dropped the update and the book has this price.
Ignored(a, e) == ~Store!Accepts(a, e) /\ prices[a] = e.decoded

ApplyOracleUpdate(a, e) ==
    LET found == OnPriceUpdate(a, PrevPrice(a, e.decoded), e.decoded)
    IN  /\ oracle_store' = Store!Upserted(a, e)
        /\ dropped' = IF oracle_store'[a] = e THEN dropped \ {a} ELSE dropped \cup {a}
        /\ IF Ignored(a, e)
           THEN hits' = {} /\ UNCHANGED <<prices, wakeVars>>
           ELSE /\ prices' = [prices EXCEPT ![a] = e.decoded]
                /\ hits' = found
                /\ Observe(a, e.decoded, found)
        /\ UNCHANGED indexVars

\* The stream delivers any update: a newer one, the stored one again, an older one out
\* of order (a reconnect, a second provider, the liquidator's re-armed mock stream), or
\* the stored version with another price (a tick file, ticks_to_events).
Update == \E a \in Assets, e \in Store!Entry : ApplyOracleUpdate(a, e)

Seed == \E a \in Assets, p \in Prices : SeedPrice(a, p)

\* The owners of the index change it between updates.
Reindex ==
    /\ \E acc \in Accounts :
          \/ /\ \E band \in Bands : UpsertCandidate(acc, band)
             /\ UNCHANGED wakeVars
          \/ \E ts \in TriggerLists : SetTriggers(acc, ts) /\ Forget(acc, ts)
          \/ ClearTriggers(acc) /\ Forget(acc, {})
          \/ RemoveCandidate(acc) /\ Forget(acc, {})
    /\ hits' = {}
    /\ UNCHANGED <<oracle_store, prices, dropped>>

PathNext == Update \/ Seed \/ Reindex

PathSpec == PathInit /\ [][PathNext]_vars

-----------------------------------------------------------------------------
(* Properties                                                              *)

\* An account is awake exactly when one of its triggers has been on the healthy
\* side since it was installed and the book's price is now at or past it: over
\* any sequence of seeds, updates (in order or not, repeated or not) and index
\* changes, no crossing is missed and nothing else is woken
\* (apply_oracle_update, on_price_update).
AwakeIffUnhealthySinceArmed ==
    awake = {e \in armed : Unhealthy(e.trigger, prices[e.trigger.asset])}

\* A trigger that has fired does not fire again until the price has been back
\* on its healthy side: hits are "newly crossed" triggers (on_price_update).
NoSecondWake == [][hits' \cap awake = {}]_vars

\* The price that crossings are measured from is that of the entry in the oracle store,
\* except from an update that the store drops although it is not its entry again - a
\* late one, or the stored version with another price - to the next update that it
\* accepts or that repeats its entry: the unversioned book takes every price, the
\* versioned store does not (apply_oracle_update).
BookFollowsStore ==
    \A a \in Assets \ dropped :
        oracle_store[a] # NoEntry => prices[a] = oracle_store[a].decoded
=============================================================================
