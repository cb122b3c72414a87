--------------------------- MODULE CandidateIndex ---------------------------
(***************************************************************************)
(* liq-core's index of liquidation candidates                              *)
(* (crates/liq-core/src/candidate_index.rs): candidates by account and by  *)
(* band, and the price triggers by account and, inverted, by asset.        *)
(*                                                                         *)
(* The binaries drive the index from one task, so a method is one atomic   *)
(* action although it takes several locks in turn.  CandidateMeta is kept  *)
(* as its band, the only field the index reads.  A Vec of triggers is kept *)
(* as the set of its elements: a repeated element is inserted and removed  *)
(* twice, to the same effect.  An account with an empty Vec and one        *)
(* without a Vec are both {}: every method treats them alike.              *)
(***************************************************************************)
EXTENDS Integers

CONSTANTS Accounts,      \* borrower accounts
          Assets,        \* oracle assets
          Prices,        \* PriceFx values
          TriggerLists,  \* what a caller may pass to set_triggers
          NoBand         \* the account is not a candidate

Bands == {"Cold", "Warm", "Hot", "Critical"}

Sides == {"CollateralDown", "DebtUp"}

Trigger == [asset : Assets, side : Sides, trigger_price : Prices]

\* One account in the HashSet at by_asset[asset].side[trigger_price].
IndexEntry == [account : Accounts, trigger : Trigger]

ASSUME IndexAssumption ==
    /\ Prices \subseteq Nat
    /\ TriggerLists \subseteq SUBSET Trigger
    /\ NoBand \notin Bands

VARIABLES by_account,        \* account -> band of its CandidateMeta
          by_band,           \* band -> set of accounts
          by_asset,          \* the inverted trigger index, as a set of entries
          account_triggers   \* account -> its triggers

bandVars == <<by_account, by_band>>
triggerVars == <<by_asset, account_triggers>>
indexVars == <<by_account, by_band, by_asset, account_triggers>>

IndexTypeOK ==
    /\ by_account \in [Accounts -> Bands \cup {NoBand}]
    /\ by_band \in [Bands -> SUBSET Accounts]
    /\ by_asset \in SUBSET IndexEntry
    /\ account_triggers \in [Accounts -> SUBSET Trigger]

IndexInit ==
    /\ by_account = [acc \in Accounts |-> NoBand]
    /\ by_band = [b \in Bands |-> {}]
    /\ by_asset = {}
    /\ account_triggers = [acc \in Accounts |-> {}]

\* The index entries an account's triggers stand for.
EntriesOf(acc, ts) == {[account |-> acc, trigger |-> t] : t \in ts}

\* by_band without acc in the band it is recorded under (`prev`), if it has one.
WithoutPrev(acc) ==
    [b \in Bands |-> IF b = by_account[acc] THEN by_band[b] \ {acc} ELSE by_band[b]]

\* Mutant: the account stays in the band it had before.
UpsertCandidate_KeepsPrev(acc, band) ==
    /\ by_account' = [by_account EXCEPT ![acc] = band]
    /\ by_band' = [by_band EXCEPT ![band] = @ \cup {acc}]
    /\ UNCHANGED triggerVars

UpsertCandidate(acc, band) ==
    /\ by_account' = [by_account EXCEPT ![acc] = band]
    /\ by_band' = [WithoutPrev(acc) EXCEPT ![band] = @ \cup {acc}]
    /\ UNCHANGED triggerVars

\* Both halves of clear_triggers.
Cleared(acc) == by_asset \ EntriesOf(acc, account_triggers[acc])

ClearTriggers(acc) ==
    /\ by_asset' = Cleared(acc)
    /\ account_triggers' = [account_triggers EXCEPT ![acc] = {}]
    /\ UNCHANGED bandVars

\* Mutant: the triggers are left in place when the candidate goes.
RemoveCandidate_KeepsTriggers(acc) ==
    /\ by_account' = [by_account EXCEPT ![acc] = NoBand]
    /\ by_band' = WithoutPrev(acc)
    /\ UNCHANGED triggerVars

RemoveCandidate(acc) ==
    /\ by_asset' = Cleared(acc)
    /\ account_triggers' = [account_triggers EXCEPT ![acc] = {}]
    /\ by_account' = [by_account EXCEPT ![acc] = NoBand]
    /\ by_band' = WithoutPrev(acc)

\* Mutant: the clear_triggers call at the head of set_triggers is missing.
SetTriggers_NoClear(acc, ts) ==
    /\ by_asset' = by_asset \cup EntriesOf(acc, ts)
    /\ account_triggers' = [account_triggers EXCEPT ![acc] = ts]
    /\ UNCHANGED bandVars

SetTriggers(acc, ts) ==
    /\ by_asset' = Cleared(acc) \cup EntriesOf(acc, ts)
    /\ account_triggers' = [account_triggers EXCEPT ![acc] = ts]
    /\ UNCHANGED bandVars

\* A trigger is crossed when the price moves from its healthy side onto it or
\* past it: strictly beyond it before, at or past it now.
Crosses(t, prev_price, new_price) ==
    CASE t.side = "CollateralDown" -> prev_price > t.trigger_price /\ t.trigger_price >= new_price
      [] t.side = "DebtUp"         -> prev_price < t.trigger_price /\ t.trigger_price <= new_price

\* Mutant: a range that leaves out the new price, so that a move that lands
\* exactly on a trigger does not fire it.
OnPriceUpdate_OpenRange(asset, prev_price, new_price) ==
    {e \in by_asset : /\ e.trigger.asset = asset
                      /\ e.trigger.trigger_price # new_price
                      /\ Crosses(e.trigger, prev_price, new_price)}

\* on_price_update: a fall scans collateral_down over new..=prev, a rise scans
\* debt_up over prev..=new, and a price that did not move scans nothing.
OnPriceUpdate(asset, prev_price, new_price) ==
    {e \in by_asset :
        /\ e.trigger.asset = asset
        /\ \/ /\ new_price < prev_price
              /\ e.trigger.side = "CollateralDown"
              /\ e.trigger.trigger_price \in new_price .. prev_price
           \/ /\ new_price > prev_price
              /\ e.trigger.side = "DebtUp"
              /\ e.trigger.trigger_price \in prev_price .. new_price
        /\ Crosses(e.trigger, prev_price, new_price)}

IndexNext ==
    \E acc \in Accounts :
        \/ \E band \in Bands : UpsertCandidate(acc, band)
        \/ RemoveCandidate(acc)
        \/ ClearTriggers(acc)
        \/ \E ts \in TriggerLists : SetTriggers(acc, ts)

IndexSpec == IndexInit /\ [][IndexNext]_indexVars

-----------------------------------------------------------------------------
(* Properties                                                              *)

\* The inverted trigger index holds exactly the triggers the accounts hold now:
\* set_triggers and clear_triggers leave no orphan behind that would wake an
\* account at a price it no longer has, and lose none that should.
TriggersIndexed ==
    by_asset = UNION {EntriesOf(acc, account_triggers[acc]) : acc \in Accounts}

\* accounts_in_band answers with exactly the accounts whose CandidateMeta has
\* that band: a candidate that changes band leaves the old one, and one that is
\* removed leaves them all (upsert_candidate, remove_candidate).
BandsPartitionCandidates ==
    \A b \in Bands : by_band[b] = {acc \in Accounts : by_account[acc] = b}

\* An account that stops being a candidate in a step has no trigger left in the
\* inverted index after it, so no later price can wake it (remove_candidate).
RemovedNeverWakes ==
    [][\A acc \in Accounts :
          by_account[acc] # NoBand /\ by_account'[acc] = NoBand
              => \A e \in by_asset' : e.account # acc]_indexVars
=============================================================================
