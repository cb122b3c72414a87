-------------------------- MODULE LiquidatorProofs --------------------------
(***************************************************************************)
(* The liquidator's components, from the inside out, for any accounts,     *)
(* assets, prices, trigger lists and limits.  The two halves of the        *)
(* candidate index agree after any sequence of its methods.  The oracle    *)
(* path over it wakes exactly the accounts whose triggers the book's price *)
(* has crossed, in any order of delivery.  The loop over both begins a     *)
(* bounded number of liquidations and a dry run ends where it should.      *)
(***************************************************************************)
EXTENDS Liquidator, TLAPS

(* The candidate index                                                     *)

IndexInv == IndexTypeOK /\ TriggersIndexed /\ BandsPartitionCandidates

\* The entries of an account name that account, and different accounts share none.
LEMMA EntriesNameAccount ==
    ASSUME NEW acc, NEW ts, NEW e \in EntriesOf(acc, ts)
    PROVE  e.account = acc /\ e.trigger \in ts /\ e = [account |-> acc, trigger |-> e.trigger]
BY DEF EntriesOf

\* Replacing the triggers of one account in both halves keeps them in agreement:
\* the common shape of set_triggers, clear_triggers and remove_candidate.
LEMMA ReplaceTriggers ==
    ASSUME IndexTypeOK, TriggersIndexed, NEW acc \in Accounts, NEW ts \in SUBSET Trigger,
           by_asset' = Cleared(acc) \cup EntriesOf(acc, ts),
           account_triggers' = [account_triggers EXCEPT ![acc] = ts]
    PROVE  TriggersIndexed' /\ by_asset' \subseteq IndexEntry
           /\ account_triggers' \in [Accounts -> SUBSET Trigger]
<1>1. \A b \in Accounts : account_triggers'[b] = IF b = acc THEN ts ELSE account_triggers[b]
  BY DEF IndexTypeOK
<1>2. ASSUME NEW e \in by_asset'
      PROVE  \E b \in Accounts : e \in EntriesOf(b, account_triggers'[b])
  <2>1. CASE e \in EntriesOf(acc, ts)
    BY <1>1, <2>1
  <2>2. CASE e \in Cleared(acc)
    <3>1. e \in by_asset /\ e \notin EntriesOf(acc, account_triggers[acc])
      BY <2>2 DEF Cleared
    <3>2. PICK b \in Accounts : e \in EntriesOf(b, account_triggers[b])
      BY <3>1 DEF TriggersIndexed
    <3> QED BY <1>1, <3>1, <3>2
  <2> QED BY <2>1, <2>2
<1>3. ASSUME NEW b \in Accounts, NEW e \in EntriesOf(b, account_triggers'[b])
      PROVE  e \in by_asset'
  <2>1. CASE b = acc
    BY <1>1, <2>1
  <2>2. CASE b # acc
    <3>1. e \in EntriesOf(b, account_triggers[b])
      BY <1>1, <2>2
    <3>2. e \in by_asset
      BY <3>1 DEF TriggersIndexed
    <3>3. e \notin EntriesOf(acc, account_triggers[acc])
      BY <2>2, <3>1, EntriesNameAccount
    <3> QED BY <3>2, <3>3 DEF Cleared
  <2> QED BY <2>1, <2>2
<1>4. TriggersIndexed'
  <2>1. by_asset' = UNION {EntriesOf(b, account_triggers'[b]) : b \in Accounts}
    BY <1>2, <1>3
  <2> QED BY <2>1 DEF TriggersIndexed, EntriesOf
<1>5. EntriesOf(acc, ts) \subseteq IndexEntry
  BY DEF EntriesOf, IndexEntry
<1> QED BY <1>4, <1>5 DEF IndexTypeOK, Cleared

\* Moving one account to a band, or out of all of them, keeps by_band the inverse
\* of by_account.
LEMMA MoveBand ==
    ASSUME IndexTypeOK, BandsPartitionCandidates, NEW acc \in Accounts,
           NEW to \in Bands \cup {NoBand},
           by_account' = [by_account EXCEPT ![acc] = to],
           by_band' = [b \in Bands |-> IF b = to THEN WithoutPrev(acc)[b] \cup {acc}
                                       ELSE WithoutPrev(acc)[b]]
    PROVE  BandsPartitionCandidates' /\ by_account' \in [Accounts -> Bands \cup {NoBand}]
           /\ by_band' \in [Bands -> SUBSET Accounts]
<1>1. \A b \in Bands : WithoutPrev(acc)[b] = by_band[b] \ {acc}
  BY DEF WithoutPrev, BandsPartitionCandidates, IndexTypeOK
<1>2. \A b \in Bands : by_band'[b] = IF b = to THEN by_band[b] \cup {acc}
                                     ELSE by_band[b] \ {acc}
  BY <1>1
<1>3. \A a \in Accounts : by_account'[a] = IF a = acc THEN to ELSE by_account[a]
  BY DEF IndexTypeOK
<1>4. by_account' \in [Accounts -> Bands \cup {NoBand}] /\ by_band' \in [Bands -> SUBSET Accounts]
  BY <1>1 DEF IndexTypeOK
<1>5. ASSUME NEW b \in Bands
      PROVE  by_band'[b] = {a \in Accounts : by_account'[a] = b}
  <2>1. by_band[b] = {a \in Accounts : by_account[a] = b}
    BY DEF BandsPartitionCandidates
  <2>2. by_band'[b] = IF b = to THEN by_band[b] \cup {acc} ELSE by_band[b] \ {acc}
    BY <1>2
  <2>3. \A a \in Accounts : a \in by_band'[b] <=> by_account'[a] = b
    BY <1>3, <2>1, <2>2
  <2>4. by_band'[b] \subseteq Accounts
    BY <1>4
  <2> QED BY <2>3, <2>4
<1> QED BY <1>4, <1>5 DEF BandsPartitionCandidates

\* Every method of the index keeps the inductive invariant.
LEMMA IndexInvStep == IndexInv /\ [IndexNext]_indexVars => IndexInv'
<1> SUFFICES ASSUME IndexInv, [IndexNext]_indexVars PROVE IndexInv'
  OBVIOUS
<1> USE DEF IndexInv
<1>1. ASSUME NEW acc \in Accounts, NEW band \in Bands, UpsertCandidate(acc, band)
      PROVE  IndexInv'
  <2>1. by_band' = [b \in Bands |-> IF b = band THEN WithoutPrev(acc)[b] \cup {acc}
                                    ELSE WithoutPrev(acc)[b]]
    BY <1>1 DEF UpsertCandidate, WithoutPrev
  <2>2. BandsPartitionCandidates' /\ by_account' \in [Accounts -> Bands \cup {NoBand}]
        /\ by_band' \in [Bands -> SUBSET Accounts]
    BY <1>1, <2>1, MoveBand, ZenonT(30) DEF UpsertCandidate
  <2> QED BY <1>1, <2>2 DEF UpsertCandidate, triggerVars, TriggersIndexed, IndexTypeOK, EntriesOf
<1>2. ASSUME NEW acc \in Accounts, RemoveCandidate(acc) PROVE IndexInv'
  <2>1. by_band' = [b \in Bands |-> IF b = NoBand THEN WithoutPrev(acc)[b] \cup {acc}
                                    ELSE WithoutPrev(acc)[b]]
    BY <1>2, IndexAssumption DEF RemoveCandidate, WithoutPrev
  <2>2. BandsPartitionCandidates' /\ by_account' \in [Accounts -> Bands \cup {NoBand}]
        /\ by_band' \in [Bands -> SUBSET Accounts]
    BY <1>2, <2>1, MoveBand DEF RemoveCandidate
  <2>3. EntriesOf(acc, {}) = {}
    BY DEF EntriesOf
  <2>4. TriggersIndexed' /\ by_asset' \subseteq IndexEntry
        /\ account_triggers' \in [Accounts -> SUBSET Trigger]
    BY <1>2, <2>3, ReplaceTriggers DEF RemoveCandidate
  <2> QED BY <2>2, <2>4 DEF IndexTypeOK
<1>3. ASSUME NEW acc \in Accounts, ClearTriggers(acc) PROVE IndexInv'
  <2>1. EntriesOf(acc, {}) = {}
    BY DEF EntriesOf
  <2>2. TriggersIndexed' /\ by_asset' \subseteq IndexEntry
        /\ account_triggers' \in [Accounts -> SUBSET Trigger]
    BY <1>3, <2>1, ReplaceTriggers DEF ClearTriggers
  <2> QED BY <1>3, <2>2 DEF ClearTriggers, bandVars, BandsPartitionCandidates, IndexTypeOK
<1>4. ASSUME NEW acc \in Accounts, NEW ts \in TriggerLists, SetTriggers(acc, ts)
      PROVE  IndexInv'
  <2>1. ts \in SUBSET Trigger
    BY IndexAssumption
  <2>2. TriggersIndexed' /\ by_asset' \subseteq IndexEntry
        /\ account_triggers' \in [Accounts -> SUBSET Trigger]
    BY <1>4, <2>1, ReplaceTriggers DEF SetTriggers
  <2> QED BY <1>4, <2>2 DEF SetTriggers, bandVars, BandsPartitionCandidates, IndexTypeOK
<1>5. CASE UNCHANGED indexVars
  BY <1>5 DEF indexVars, IndexTypeOK, TriggersIndexed, BandsPartitionCandidates, EntriesOf
<1> QED BY <1>1, <1>2, <1>3, <1>4, <1>5 DEF IndexNext

\* The empty index satisfies it.
LEMMA IndexInvInit == IndexInit => IndexInv
<1> SUFFICES ASSUME IndexInit PROVE IndexInv
  OBVIOUS
<1>1. IndexTypeOK
  BY DEF IndexInit, IndexTypeOK
<1>2. TriggersIndexed
  BY DEF IndexInit, TriggersIndexed, EntriesOf
<1>3. BandsPartitionCandidates
  BY IndexAssumption DEF IndexInit, BandsPartitionCandidates
<1> QED BY <1>1, <1>2, <1>3 DEF IndexInv

\* The inverted trigger index holds the accounts' triggers and nothing else.
THEOREM TriggersAlwaysIndexed == IndexSpec => []TriggersIndexed
<1>1. IndexInv => TriggersIndexed
  BY DEF IndexInv
<1> QED BY <1>1, IndexInvInit, IndexInvStep, PTL DEF IndexSpec

\* Each band lists the candidates recorded under it and nobody else.
THEOREM BandsAlwaysPartition == IndexSpec => []BandsPartitionCandidates
<1>1. IndexInv => BandsPartitionCandidates
  BY DEF IndexInv
<1> QED BY <1>1, IndexInvInit, IndexInvStep, PTL DEF IndexSpec

\* An account that is removed leaves no trigger behind.
THEOREM RemovedLeavesNoTrigger == IndexSpec => RemovedNeverWakes
<1> DEFINE Gone == \A acc \in Accounts :
                      by_account[acc] # NoBand /\ by_account'[acc] = NoBand
                          => \A e \in by_asset' : e.account # acc
<1>1. IndexInv /\ [IndexNext]_indexVars => [Gone]_indexVars
  <2> SUFFICES ASSUME IndexInv, IndexNext, NEW acc \in Accounts,
                      by_account[acc] # NoBand, by_account'[acc] = NoBand,
                      NEW e \in by_asset'
               PROVE  e.account # acc
    BY DEF Gone
  <2>1. RemoveCandidate(acc)
    BY IndexAssumption
    DEF IndexNext, IndexInv, IndexTypeOK, UpsertCandidate, RemoveCandidate, ClearTriggers,
        SetTriggers, bandVars
  <2>2. e \in by_asset /\ e \notin EntriesOf(acc, account_triggers[acc])
    BY <2>1 DEF RemoveCandidate, Cleared
  <2>3. PICK b \in Accounts : e \in EntriesOf(b, account_triggers[b])
    BY <2>2 DEF IndexInv, TriggersIndexed
  <2> QED BY <2>2, <2>3, EntriesNameAccount
<1> QED BY <1>1, IndexInvInit, IndexInvStep, PTL DEF IndexSpec, RemovedNeverWakes

-----------------------------------------------------------------------------
(* The oracle path                                                         *)

\* What has been seen healthy is installed and has a known price, and whatever is
\* installed and healthy now has been seen so: this makes awake predictable.
ArmedInv ==
    /\ armed \subseteq by_asset
    /\ \A e \in armed : prices[e.trigger.asset] # NoPrice
    /\ \A e \in by_asset :
          LET p == prices[e.trigger.asset]
          IN  p # NoPrice /\ ~Unhealthy(e.trigger, p) => e \in armed

PathInv ==
    /\ IndexInv
    /\ PathTypeOK
    /\ ArmedInv
    /\ AwakeIffUnhealthySinceArmed

-----------------------------------------------------------------------------
(* Facts about the operators                                               *)

\* The installed entries are those of the inverted index.
LEMMA InstalledIsIndexed ==
    ASSUME IndexInv, NEW e
    PROVE  e \in by_asset <=> e \in IndexEntry /\ Installed(e)
<1>1. ASSUME e \in by_asset PROVE e \in IndexEntry /\ Installed(e)
  <2>1. e \in IndexEntry
    BY <1>1 DEF IndexInv, IndexTypeOK
  <2>2. PICK acc \in Accounts : e \in EntriesOf(acc, account_triggers[acc])
    BY <1>1 DEF IndexInv, TriggersIndexed
  <2>3. e.account = acc /\ e.trigger \in account_triggers[acc]
    BY <2>2, EntriesNameAccount
  <2> QED BY <2>1, <2>3 DEF Installed
<1>2. ASSUME e \in IndexEntry, Installed(e) PROVE e \in by_asset
  <2>1. e = [account |-> e.account, trigger |-> e.trigger]
    BY <1>2 DEF IndexEntry
  <2>2. e \in EntriesOf(e.account, account_triggers[e.account])
    BY <1>2, <2>1 DEF Installed, EntriesOf
  <2> QED BY <1>2, <2>2 DEF Installed, IndexInv, TriggersIndexed
<1> QED BY <1>1, <1>2

\* on_price_update finds the installed triggers of the asset that were healthy at
\* the old price and are not at the new one.
LEMMA FoundAreCrossed ==
    ASSUME IndexInv, NEW a \in Assets, NEW p \in Prices, NEW q \in Prices, NEW e
    PROVE  e \in OnPriceUpdate(a, p, q)
             <=> /\ e \in by_asset
                 /\ e.trigger.asset = a
                 /\ ~Unhealthy(e.trigger, p)
                 /\ Unhealthy(e.trigger, q)
<1>1. SUFFICES ASSUME e \in by_asset
      PROVE  e \in OnPriceUpdate(a, p, q)
               <=> /\ e.trigger.asset = a
                   /\ ~Unhealthy(e.trigger, p)
                   /\ Unhealthy(e.trigger, q)
  BY DEF OnPriceUpdate
<1>2. e.trigger \in Trigger
  BY <1>1 DEF IndexInv, IndexTypeOK, IndexEntry
<1>3. /\ p \in Nat /\ q \in Nat
      /\ e.trigger.trigger_price \in Nat
      /\ e.trigger.side \in {"CollateralDown", "DebtUp"}
  <2>1. Prices \subseteq Nat
    BY IndexAssumption
  <2>2. e.trigger.trigger_price \in Prices /\ e.trigger.side \in Sides
    BY <1>2 DEF Trigger
  <2>3. p \in Nat /\ q \in Nat /\ e.trigger.trigger_price \in Nat
    BY <2>1, <2>2
  <2>4. e.trigger.side \in {"CollateralDown", "DebtUp"}
    BY <2>2 DEF Sides
  <2> QED BY <2>3, <2>4
<1>4. e \in OnPriceUpdate(a, p, q)
        <=> /\ e.trigger.asset = a
            /\ \/ /\ q < p /\ e.trigger.side = "CollateralDown"
                  /\ q <= e.trigger.trigger_price /\ e.trigger.trigger_price <= p
               \/ /\ q > p /\ e.trigger.side = "DebtUp"
                  /\ p <= e.trigger.trigger_price /\ e.trigger.trigger_price <= q
            /\ Crosses(e.trigger, p, q)
  BY <1>1, <1>3 DEF OnPriceUpdate
<1>5. CASE e.trigger.side = "CollateralDown"
  <2>1. /\ Unhealthy(e.trigger, p) <=> p <= e.trigger.trigger_price
        /\ Unhealthy(e.trigger, q) <=> q <= e.trigger.trigger_price
        /\ Crosses(e.trigger, p, q)
             <=> p > e.trigger.trigger_price /\ e.trigger.trigger_price >= q
    BY <1>5 DEF Unhealthy, Crosses
  <2> QED BY <1>3, <1>4, <1>5, <2>1
<1>6. CASE e.trigger.side = "DebtUp"
  <2>1. /\ Unhealthy(e.trigger, p) <=> p >= e.trigger.trigger_price
        /\ Unhealthy(e.trigger, q) <=> q >= e.trigger.trigger_price
        /\ Crosses(e.trigger, p, q)
             <=> p < e.trigger.trigger_price /\ e.trigger.trigger_price <= q
    BY <1>6 DEF Unhealthy, Crosses
  <2> QED BY <1>3, <1>4, <1>6, <2>1
<1> QED BY <1>3, <1>5, <1>6

\* When the book goes to q and the entries found by a price move from what the
\* book had are woken, the history stays exact.
LEMMA ObserveExact ==
    ASSUME PathInv, NEW a \in Assets, NEW q \in Prices, NEW woken,
           UNCHANGED indexVars,
           prices' = [prices EXCEPT ![a] = q],
           Observe(a, q, woken),
           woken = {e \in by_asset : /\ e.trigger.asset = a
                                     /\ prices[a] # NoPrice
                                     /\ ~Unhealthy(e.trigger, prices[a])
                                     /\ Unhealthy(e.trigger, q)}
    PROVE  /\ ArmedInv'
           /\ AwakeIffUnhealthySinceArmed'
           /\ armed' \in SUBSET IndexEntry
           /\ awake' \in SUBSET IndexEntry
           /\ prices' \in [Assets -> Prices \cup {NoPrice}]
<1>1. by_asset' = by_asset /\ by_asset \subseteq IndexEntry
  BY DEF indexVars, PathInv, IndexInv, IndexTypeOK
<1>2. \A e \in by_asset : e.trigger.asset \in Assets
  BY <1>1 DEF IndexEntry, Trigger
<1>3. \A b \in Assets : prices'[b] = IF b = a THEN q ELSE prices[b]
  BY DEF PathInv, PathTypeOK
<1>4. q # NoPrice
  BY PathAssumption
<1>5. \A e : e \in armed' <=> \/ e \in armed
                              \/ e \in by_asset /\ e.trigger.asset = a /\ ~Unhealthy(e.trigger, q)
  BY InstalledIsIndexed DEF Observe, HealthyAt, PathInv
<1>6. armed \subseteq by_asset /\ armed' \subseteq by_asset
  BY <1>5 DEF PathInv, ArmedInv
<1>7. ArmedInv'
  <2>1. \A e \in armed' : prices'[e.trigger.asset] # NoPrice
    BY <1>2, <1>3, <1>4, <1>5, <1>6 DEF PathInv, ArmedInv
  <2>2. ASSUME NEW e \in by_asset, prices'[e.trigger.asset] # NoPrice,
               ~Unhealthy(e.trigger, prices'[e.trigger.asset])
        PROVE  e \in armed'
    BY <1>2, <1>3, <1>5, <2>2 DEF PathInv, ArmedInv
  <2>3. \A e \in by_asset' : prices'[e.trigger.asset] # NoPrice
                             /\ ~Unhealthy(e.trigger, prices'[e.trigger.asset])
                                 => e \in armed'
    BY <1>1, <2>2
  <2> QED BY <1>1, <1>6, <2>1, <2>3 DEF ArmedInv, Unhealthy
<1>8. ASSUME NEW e
      PROVE  e \in awake' <=> e \in armed' /\ Unhealthy(e.trigger, prices'[e.trigger.asset])
  <2>1. e \in awake <=> e \in armed /\ Unhealthy(e.trigger, prices[e.trigger.asset])
    BY DEF PathInv, AwakeIffUnhealthySinceArmed
  <2>2. e \in awake' <=> \/ e \in awake /\ (e.trigger.asset = a => Unhealthy(e.trigger, q))
                         \/ e \in woken
    BY DEF Observe
  <2>3. CASE e \notin by_asset
    BY <1>6, <2>1, <2>2, <2>3
  <2>4. CASE e \in by_asset /\ e.trigger.asset # a
    BY <1>2, <1>3, <1>5, <2>1, <2>2, <2>4
  <2>5. CASE e \in by_asset /\ e.trigger.asset = a
    <3>1. prices'[e.trigger.asset] = q
      BY <1>3, <2>5
    <3>2. e \in armed' /\ Unhealthy(e.trigger, q) <=> e \in armed /\ Unhealthy(e.trigger, q)
      BY <1>5
    <3>3. e \in armed => prices[a] # NoPrice
      BY <2>5 DEF PathInv, ArmedInv
    <3>4. prices[a] # NoPrice /\ ~Unhealthy(e.trigger, prices[a]) => e \in armed
      BY <2>5 DEF PathInv, ArmedInv
    <3> QED BY <2>1, <2>2, <2>5, <3>1, <3>2, <3>3, <3>4
  <2> QED BY <2>3, <2>4, <2>5
<1>9. AwakeIffUnhealthySinceArmed'
  <2>1. awake' = {e \in armed' : Unhealthy(e.trigger, prices'[e.trigger.asset])}
    BY <1>8
  <2> QED BY <2>1 DEF AwakeIffUnhealthySinceArmed, Unhealthy
<1>10. awake' \subseteq armed'
  BY <1>8
<1> QED BY <1>1, <1>6, <1>7, <1>9, <1>10 DEF PathInv, PathTypeOK

\* When the triggers of one account are replaced and what was known of them is
\* forgotten, the history stays exact.
LEMMA ForgetExact ==
    ASSUME PathInv, NEW acc \in Accounts, NEW ts \in SUBSET Trigger,
           by_asset' = Cleared(acc) \cup EntriesOf(acc, ts),
           UNCHANGED prices,
           Forget(acc, ts)
    PROVE  /\ ArmedInv'
           /\ AwakeIffUnhealthySinceArmed'
           /\ armed' \in SUBSET IndexEntry
           /\ awake' \in SUBSET IndexEntry
<1>1. EntriesOf(acc, ts) \subseteq IndexEntry /\ \A e \in EntriesOf(acc, ts) : e.account = acc
  BY DEF EntriesOf, IndexEntry
<1>2. \A e \in by_asset : e.account # acc => e \in by_asset'
  BY EntriesNameAccount DEF Cleared
<1>3. \A e \in by_asset' : e.account = acc => e \in EntriesOf(acc, ts)
  <2> SUFFICES ASSUME NEW e \in Cleared(acc), e.account = acc PROVE FALSE
    OBVIOUS
  <2>1. e \in by_asset /\ e \notin EntriesOf(acc, account_triggers[acc])
    BY DEF Cleared
  <2>2. PICK b \in Accounts : e \in EntriesOf(b, account_triggers[b])
    BY <2>1 DEF PathInv, IndexInv, TriggersIndexed
  <2> QED BY <2>1, <2>2, EntriesNameAccount
<1>4. \A e \in by_asset' : e.account # acc => e \in by_asset
  BY <1>1 DEF Cleared
<1>5. \A e : e \in armed' <=> \/ e \in armed /\ e.account # acc
                              \/ /\ e \in EntriesOf(acc, ts)
                                 /\ prices[e.trigger.asset] # NoPrice
                                 /\ ~Unhealthy(e.trigger, prices[e.trigger.asset])
  BY DEF Forget
<1>6. armed' \subseteq by_asset'
  BY <1>2, <1>5 DEF PathInv, ArmedInv
<1>7. ArmedInv'
  <2>1. \A e \in armed' : prices[e.trigger.asset] # NoPrice
    BY <1>5 DEF PathInv, ArmedInv
  <2>2. \A e \in by_asset' : prices[e.trigger.asset] # NoPrice
                             /\ ~Unhealthy(e.trigger, prices[e.trigger.asset])
                                 => e \in armed'
    BY <1>3, <1>4, <1>5 DEF PathInv, ArmedInv
  <2> QED BY <1>6, <2>1, <2>2 DEF ArmedInv, Unhealthy
<1>8. \A e : e \in awake' <=> e \in armed' /\ Unhealthy(e.trigger, prices[e.trigger.asset])
  BY <1>1, <1>5 DEF Forget, PathInv, AwakeIffUnhealthySinceArmed
<1>9. AwakeIffUnhealthySinceArmed'
  <2>1. awake' = {e \in armed' : Unhealthy(e.trigger, prices'[e.trigger.asset])}
    BY <1>8
  <2> QED BY <2>1 DEF AwakeIffUnhealthySinceArmed, Unhealthy
<1>10. awake' \subseteq armed' /\ armed' \subseteq IndexEntry
  BY <1>1, <1>5, <1>8 DEF PathInv, PathTypeOK
<1> QED BY <1>7, <1>9, <1>10

-----------------------------------------------------------------------------
(* The actions                                                             *)

\* What does not touch the triggers, the book or the history keeps them exact.
LEMMA HistoryUnchanged ==
    ASSUME PathInv, UNCHANGED <<by_asset, prices, armed, awake>>
    PROVE  ArmedInv' /\ AwakeIffUnhealthySinceArmed'
BY DEF PathInv, ArmedInv, AwakeIffUnhealthySinceArmed, Unhealthy

\* prices.set before the first update keeps the invariant.
LEMMA SeedStep ==
    ASSUME PathInv, NEW a \in Assets, NEW p \in Prices, SeedPrice(a, p)
    PROVE  PathInv'
<1>1. IndexInv'
  BY IndexInvStep DEF SeedPrice, PathInv
<1>2. /\ ArmedInv'
      /\ AwakeIffUnhealthySinceArmed'
      /\ armed' \in SUBSET IndexEntry
      /\ awake' \in SUBSET IndexEntry
      /\ prices' \in [Assets -> Prices \cup {NoPrice}]
  <2> DEFINE woken == {e \in by_asset : /\ e.trigger.asset = a
                                        /\ prices[a] # NoPrice
                                        /\ ~Unhealthy(e.trigger, prices[a])
                                        /\ Unhealthy(e.trigger, p)}
  <2>1. woken = {}
    BY DEF SeedPrice
  <2>2. Observe(a, p, woken)
    BY <2>1 DEF SeedPrice
  <2>3. UNCHANGED indexVars /\ prices' = [prices EXCEPT ![a] = p]
    BY DEF SeedPrice
  <2> HIDE DEF woken
  <2> QED BY <2>2, <2>3, ObserveExact DEF woken
<1>3. PathTypeOK'
  BY <1>1, <1>2 DEF SeedPrice, PathInv, PathTypeOK, IndexInv
<1> QED BY <1>1, <1>2, <1>3 DEF PathInv

\* apply_oracle_update measures from a price, and wakes what its move crosses.
LEMMA FoundFromBook ==
    ASSUME PathInv, NEW a \in Assets, NEW q \in Prices
    PROVE  OnPriceUpdate(a, PrevPrice(a, q), q)
             = {e \in by_asset : /\ e.trigger.asset = a
                                 /\ prices[a] # NoPrice
                                 /\ ~Unhealthy(e.trigger, prices[a])
                                 /\ Unhealthy(e.trigger, q)}
<1>1. PrevPrice(a, q) \in Prices
  BY DEF PrevPrice, PathInv, PathTypeOK
<1>2. \A e : e \in OnPriceUpdate(a, PrevPrice(a, q), q)
               <=> /\ e \in by_asset
                   /\ e.trigger.asset = a
                   /\ ~Unhealthy(e.trigger, PrevPrice(a, q))
                   /\ Unhealthy(e.trigger, q)
  BY <1>1, FoundAreCrossed DEF PathInv
<1>3. CASE prices[a] = NoPrice
  BY <1>2, <1>3 DEF PrevPrice
<1>4. CASE prices[a] # NoPrice
  BY <1>2, <1>4 DEF PrevPrice
<1> QED BY <1>3, <1>4

\* An update keeps the invariant, whether it is ignored or measured.
LEMMA UpdateStep ==
    ASSUME PathInv, NEW a \in Assets, NEW e \in Store!Entry, ApplyOracleUpdate(a, e)
    PROVE  PathInv'
<1>1. IndexInv' /\ UNCHANGED indexVars
  BY IndexInvStep DEF ApplyOracleUpdate, PathInv
<1>2. e.decoded \in Prices
  BY DEF Store!Entry
<1>3. oracle_store' \in [Assets -> Store!Entry \cup {NoEntry}] /\ dropped' \in SUBSET Assets
  BY DEF ApplyOracleUpdate, Store!Upserted, PathInv, PathTypeOK
<1>4. CASE Ignored(a, e)
  <2>1. hits' = {} /\ UNCHANGED <<by_asset, prices, armed, awake>>
    BY <1>1, <1>4 DEF ApplyOracleUpdate, wakeVars, indexVars
  <2>2. ArmedInv' /\ AwakeIffUnhealthySinceArmed'
    BY <2>1, HistoryUnchanged
  <2>3. PathTypeOK'
    BY <1>1, <1>3, <2>1 DEF PathInv, PathTypeOK, IndexInv
  <2> QED BY <1>1, <2>2, <2>3 DEF PathInv
<1>5. CASE ~Ignored(a, e)
  <2> DEFINE woken == {x \in by_asset : /\ x.trigger.asset = a
                                        /\ prices[a] # NoPrice
                                        /\ ~Unhealthy(x.trigger, prices[a])
                                        /\ Unhealthy(x.trigger, e.decoded)}
  <2>1. woken = OnPriceUpdate(a, PrevPrice(a, e.decoded), e.decoded)
    BY <1>2, FoundFromBook
  <2>2. /\ prices' = [prices EXCEPT ![a] = e.decoded]
        /\ hits' = woken
        /\ Observe(a, e.decoded, woken)
    BY <1>5, <2>1 DEF ApplyOracleUpdate
  <2>3. woken \subseteq IndexEntry
    BY DEF PathInv, IndexInv, IndexTypeOK
  <2> HIDE DEF woken
  <2>4. /\ ArmedInv'
        /\ AwakeIffUnhealthySinceArmed'
        /\ armed' \in SUBSET IndexEntry
        /\ awake' \in SUBSET IndexEntry
        /\ prices' \in [Assets -> Prices \cup {NoPrice}]
    BY <1>1, <1>2, <2>2, ObserveExact DEF woken
  <2>5. PathTypeOK'
    BY <1>1, <1>3, <2>2, <2>3, <2>4 DEF PathTypeOK, IndexInv
  <2> QED BY <1>1, <2>4, <2>5 DEF PathInv
<1> QED BY <1>4, <1>5

\* So does a change of the index between two updates.
LEMMA ReindexStep ==
    ASSUME PathInv, Reindex
    PROVE  PathInv'
<1> DEFINE Exact == /\ ArmedInv'
                    /\ AwakeIffUnhealthySinceArmed'
                    /\ armed' \in SUBSET IndexEntry
                    /\ awake' \in SUBSET IndexEntry
<1>1. hits' = {} /\ UNCHANGED <<oracle_store, prices, dropped>>
  BY DEF Reindex
<1>2. IndexInv'
  BY IndexInvStep DEF Reindex, IndexNext, PathInv
<1>3. ASSUME NEW acc \in Accounts, NEW band \in Bands, UpsertCandidate(acc, band),
             UNCHANGED wakeVars
      PROVE  Exact
  <2>1. UNCHANGED <<by_asset, prices, armed, awake>>
    BY <1>1, <1>3 DEF UpsertCandidate, triggerVars, wakeVars
  <2>2. ArmedInv' /\ AwakeIffUnhealthySinceArmed'
    BY <2>1, HistoryUnchanged
  <2> QED BY <2>1, <2>2 DEF PathInv, PathTypeOK
<1>4. ASSUME NEW acc \in Accounts, NEW ts \in TriggerLists, SetTriggers(acc, ts), Forget(acc, ts)
      PROVE  Exact
  <2>1. ts \in SUBSET Trigger
    BY IndexAssumption
  <2>2. by_asset' = Cleared(acc) \cup EntriesOf(acc, ts)
    BY <1>4 DEF SetTriggers
  <2> QED BY <1>1, <1>4, <2>1, <2>2, ForgetExact
<1>5. ASSUME NEW acc \in Accounts, RemoveCandidate(acc) \/ ClearTriggers(acc), Forget(acc, {})
      PROVE  Exact
  <2>1. by_asset' = Cleared(acc) \cup EntriesOf(acc, {})
    BY <1>5 DEF RemoveCandidate, ClearTriggers, EntriesOf
  <2> QED BY <1>1, <1>5, <2>1, ForgetExact
<1>6. Exact
  <2> HIDE DEF Exact
  <2> QED BY <1>3, <1>4, <1>5 DEF Reindex
<1>7. PathTypeOK'
  BY <1>1, <1>2, <1>6 DEF PathInv, PathTypeOK, IndexInv
<1> QED BY <1>2, <1>6, <1>7 DEF PathInv

\* PathInv is inductive.
LEMMA PathInvStep == PathInv /\ [PathNext]_vars => PathInv'
<1> SUFFICES ASSUME PathInv, [PathNext]_vars PROVE PathInv'
  OBVIOUS
<1>1. CASE Update
  BY <1>1, UpdateStep DEF Update
<1>2. CASE Seed
  BY <1>2, SeedStep DEF Seed
<1>3. CASE Reindex
  BY <1>3, ReindexStep
<1>4. CASE UNCHANGED vars
  <2>1. IndexInv' /\ UNCHANGED <<by_asset, prices, armed, awake>>
    BY <1>4, IndexInvStep DEF vars, indexVars, pathVars, wakeVars, PathInv
  <2>2. ArmedInv' /\ AwakeIffUnhealthySinceArmed'
    BY <2>1, HistoryUnchanged
  <2>3. PathTypeOK'
    BY <1>4, <2>1 DEF vars, pathVars, PathInv, PathTypeOK, IndexInv
  <2> QED BY <2>1, <2>2, <2>3 DEF PathInv
<1> QED BY <1>1, <1>2, <1>3, <1>4 DEF PathNext

\* It holds before the first update.
LEMMA PathInvInit == PathInit => PathInv
<1> SUFFICES ASSUME PathInit PROVE PathInv
  OBVIOUS
<1>1. IndexInv
  BY IndexInvInit DEF PathInit
<1>2. PathTypeOK
  BY <1>1 DEF PathInit, PathTypeOK, IndexInv
<1>3. by_asset = {} /\ armed = {} /\ awake = {}
  BY DEF PathInit, IndexInit
<1>4. ArmedInv
  BY <1>3 DEF ArmedInv
<1>5. AwakeIffUnhealthySinceArmed
  BY <1>3 DEF AwakeIffUnhealthySinceArmed
<1> QED BY <1>1, <1>2, <1>4, <1>5 DEF PathInv

-----------------------------------------------------------------------------
(* Theorems                                                                *)

\* Over any sequence of seeds, updates and index changes, the awake triggers are
\* those the book's price is at or past that have been healthy since installed.
THEOREM AwakeExactly == PathSpec => []AwakeIffUnhealthySinceArmed
<1>1. PathInv => AwakeIffUnhealthySinceArmed
  BY DEF PathInv
<1> QED BY <1>1, PathInvInit, PathInvStep, PTL DEF PathSpec

\* No update wakes a trigger that is still awake.
THEOREM NeverWokenTwice == PathSpec => NoSecondWake
<1>1. PathInv /\ [PathNext]_vars => [hits' \cap awake = {}]_vars
  <2> SUFFICES ASSUME PathInv, PathNext PROVE hits' \cap awake = {}
    OBVIOUS
  <2>1. ASSUME NEW a \in Assets, NEW e \in Store!Entry, ApplyOracleUpdate(a, e)
        PROVE  hits' \cap awake = {}
    <3>1. e.decoded \in Prices
      BY DEF Store!Entry
    <3>2. hits' = {} \/ hits' = OnPriceUpdate(a, PrevPrice(a, e.decoded), e.decoded)
      BY <2>1 DEF ApplyOracleUpdate
    <3>3. \A x \in awake : Unhealthy(x.trigger, prices[x.trigger.asset])
      BY DEF PathInv, AwakeIffUnhealthySinceArmed
    <3> QED BY <3>1, <3>2, <3>3, FoundFromBook
  <2>2. CASE Seed \/ Reindex
    BY <2>2 DEF Seed, SeedPrice, Reindex
  <2> QED BY <2>1, <2>2 DEF PathNext, Update
<1> QED BY <1>1, PathInvInit, PathInvStep, PTL DEF PathSpec, NoSecondWake

\* Unless the store dropped an asset's last update, late or a repeated version of another
\* price, crossings are measured from the price of its entry.
THEOREM BookAlwaysFollows == PathSpec => []BookFollowsStore
<1>1. PathInit => BookFollowsStore
  BY DEF PathInit, BookFollowsStore
<1>2. PathInv /\ BookFollowsStore /\ [PathNext]_vars => BookFollowsStore'
  <2> SUFFICES ASSUME PathInv, BookFollowsStore, [PathNext]_vars,
                      NEW b \in Assets, b \notin dropped', oracle_store'[b] # NoEntry
               PROVE  prices'[b] = oracle_store'[b].decoded
    BY DEF BookFollowsStore
  <2>1. /\ oracle_store \in [Assets -> Store!Entry \cup {NoEntry}]
        /\ prices \in [Assets -> Prices \cup {NoPrice}]
    BY DEF PathInv, PathTypeOK
  <2>2. ASSUME NEW a \in Assets, NEW e \in Store!Entry,
               ApplyOracleUpdate(a, e)
        PROVE  prices'[b] = oracle_store'[b].decoded
    <3>1. dropped' = IF oracle_store'[a] = e THEN dropped \ {a} ELSE dropped \cup {a}
      BY <2>2 DEF ApplyOracleUpdate
    <3>2. prices' = [prices EXCEPT ![a] = e.decoded]
      BY <2>1, <2>2 DEF ApplyOracleUpdate, Ignored
    <3>3. oracle_store' = Store!Upserted(a, e)
      BY <2>2 DEF ApplyOracleUpdate
    <3>4. CASE b = a
      <4>1. oracle_store'[a] = e
        BY <3>1, <3>4
      <4> QED BY <2>1, <3>2, <3>4, <4>1
    <3>5. CASE b # a
      <4>1. b \notin dropped /\ oracle_store'[b] = oracle_store[b]
        BY <2>1, <3>1, <3>3, <3>5 DEF Store!Upserted
      <4> QED BY <2>1, <3>2, <3>5, <4>1 DEF BookFollowsStore
    <3> QED BY <3>4, <3>5
  <2>3. ASSUME NEW a \in Assets, NEW p \in Prices, SeedPrice(a, p), b = a
        PROVE  FALSE
    <3>1. prices[a] = oracle_store[a].decoded
      BY <2>3 DEF BookFollowsStore, SeedPrice
    <3>2. oracle_store[a].decoded \in Prices
      BY <2>1, <2>3 DEF Store!Entry, SeedPrice
    <3> QED BY <2>3, <3>1, <3>2, PathAssumption DEF SeedPrice
  <2>4. ASSUME NEW a \in Assets, NEW p \in Prices, SeedPrice(a, p)
        PROVE  prices'[b] = oracle_store'[b].decoded
    BY <2>1, <2>3, <2>4 DEF SeedPrice, BookFollowsStore
  <2>5. CASE Reindex \/ UNCHANGED vars
    BY <2>5 DEF Reindex, vars, pathVars, BookFollowsStore
  <2> QED BY <2>2, <2>4, <2>5 DEF PathNext, Update, Seed
<1> QED BY <1>1, <1>2, PathInvInit, PathInvStep, PTL DEF PathSpec

-----------------------------------------------------------------------------
(* The loop                                                                *)

\* A live bot's attempts are its consecutive failures, as nothing clears the count
\* and every submission fails; the breaker opens with the last one allowed.
AttemptsInv ==
    /\ dry \in BOOLEAN
    /\ attempts \in Nat
    /\ consecutive_failures = attempts
    /\ attempts <= MaxConsecutiveFailures
    /\ attempts = MaxConsecutiveFailures => open
    /\ dry => attempts = 0

\* A tick is only received below the cap, so it is counted at most up to the cap;
\* and a dry loop only stops when it would not subscribe again.
CapInv ==
    /\ ticks_done \in Nat
    /\ ticks_done <= MaxTicks
    /\ phase = "hits" => ticks_done < MaxTicks
    /\ phase = "done" /\ dry => ticks_done + 1 >= MaxTicks

-----------------------------------------------------------------------------
(* Attempts                                                                *)

\* An attempt is made while the breaker is closed, hence below the limit.
LEMMA AttemptCounts ==
    ASSUME AttemptsInv, NEW acc, ~dry, Execute(acc), dry' = dry
    PROVE  AttemptsInv'
<1>1. MaxConsecutiveFailures \in Nat \ {0}
  BY LiquidatorAssumption
<1>2. CASE Allowed
  <2>1. /\ ~open /\ attempts' = attempts + 1
        /\ consecutive_failures' = consecutive_failures + 1
        /\ open' = (open \/ consecutive_failures + 1 >= MaxConsecutiveFailures)
    BY <1>2 DEF Execute, Allowed
  <2>2. attempts < MaxConsecutiveFailures
    BY <1>1, <2>1 DEF AttemptsInv
  <2>3. attempts + 1 = MaxConsecutiveFailures => open'
    <3>1. attempts + 1 = MaxConsecutiveFailures
            => consecutive_failures + 1 >= MaxConsecutiveFailures
      BY <1>1 DEF AttemptsInv
    <3> QED BY <2>1, <3>1, Zenon
  <2>4. /\ attempts + 1 \in Nat /\ attempts + 1 <= MaxConsecutiveFailures
        /\ consecutive_failures' = attempts' /\ attempts' = attempts + 1
    BY <1>1, <2>1, <2>2 DEF AttemptsInv
  <2> QED BY <2>3, <2>4 DEF AttemptsInv
<1>3. CASE ~Allowed
  BY <1>3 DEF Execute, riskVars, AttemptsInv
<1> QED BY <1>2, <1>3

\* Every step of the loop keeps the count.
LEMMA AttemptsStep == AttemptsInv /\ [LiqNext]_liqVars => AttemptsInv'
<1> SUFFICES ASSUME AttemptsInv, [LiqNext]_liqVars PROVE AttemptsInv'
  OBVIOUS
<1>1. ASSUME UNCHANGED <<dry, open, consecutive_failures, attempts>> PROVE AttemptsInv'
  BY <1>1 DEF AttemptsInv
<1>2. CASE ProcessHit
  <2>1. PICK h \in pending :
           IF Plannable(h.account) /\ ~dry THEN Execute(h.account) ELSE UNCHANGED riskVars
    BY <1>2 DEF ProcessHit
  <2>2. dry' = dry
    BY <1>2 DEF ProcessHit
  <2>3. CASE Plannable(h.account) /\ ~dry
    BY <2>1, <2>2, <2>3, AttemptCounts
  <2>4. CASE ~(Plannable(h.account) /\ ~dry)
    BY <1>1, <2>1, <2>2, <2>4 DEF riskVars
  <2> QED BY <2>3, <2>4
<1>3. CASE Recv \/ EndTick \/ Rearm \/ Stop
  BY <1>1, <1>3 DEF Recv, EndTick, Rearm, Stop, riskVars
<1>4. CASE Age \/ UNCHANGED liqVars
  BY <1>1, <1>4 DEF Age, liqVars, loopVars, riskVars
<1> QED BY <1>2, <1>3, <1>4 DEF LiqNext, Loop

\* A live bot begins at most max_consecutive_failures liquidations, a dry one none.
THEOREM AttemptsAreBounded == LiqSpec => []AttemptsBounded
<1>1. LiqInit => AttemptsInv
  BY LiquidatorAssumption DEF LiqInit, AttemptsInv
<1>2. AttemptsInv => AttemptsBounded
  BY DEF AttemptsInv, AttemptsBounded
<1> QED BY <1>1, <1>2, AttemptsStep, PTL DEF LiqSpec

-----------------------------------------------------------------------------
(* The cap on ticks                                                        *)

\* Every step of the loop keeps to the cap.
LEMMA CapStep == CapInv /\ [LiqNext]_liqVars => CapInv'
<1> SUFFICES ASSUME CapInv, [LiqNext]_liqVars PROVE CapInv'
  OBVIOUS
<1> USE LiquidatorAssumption DEF CapInv
<1>1. CASE Recv
  BY <1>1 DEF Recv
<1>2. CASE ProcessHit
  BY <1>2 DEF ProcessHit
<1>3. CASE EndTick
  BY <1>3 DEF EndTick
<1>4. CASE Rearm
  BY <1>4 DEF Rearm
<1>5. CASE Stop
  BY <1>5 DEF Stop, WantsMore
<1>6. CASE Age \/ UNCHANGED liqVars
  BY <1>6 DEF Age, liqVars, loopVars
<1> QED BY <1>1, <1>2, <1>3, <1>4, <1>5, <1>6 DEF LiqNext, Loop

\* A dry loop ends at its cap or one tick before it.
THEOREM DryLoopEndsAtCap == LiqSpec => []EndsAtCap
<1>1. LiqInit => CapInv
  BY LiquidatorAssumption DEF LiqInit, CapInv
<1>2. CapInv => EndsAtCap
  BY DEF CapInv, EndsAtCap
<1> QED BY <1>1, <1>2, CapStep, PTL DEF LiqSpec
=============================================================================
