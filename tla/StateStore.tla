----------------------------- MODULE StateStore -----------------------------
(***************************************************************************)
(* liq-core's in-memory store of account / oracle entries, one per pubkey, *)
(* with (slot, write_version) as its concurrency control                   *)
(* (crates/liq-core/src/state_store.rs).  Every method takes the single    *)
(* RwLock `inner` for its whole body, so one method is one atomic action.  *)
(*                                                                         *)
(* Updates reach the store from a stream and from RPC snapshots, so they   *)
(* may be duplicated, delayed and reordered: Next offers every entry of    *)
(* Entry at every step.  The payload is a member of Values; `source` and   *)
(* `recv_ts_us` are recorded by the code but never read by it and are left *)
(* out.                                                                    *)
(***************************************************************************)
EXTENDS Integers

CONSTANTS Keys,           \* pubkeys
          Values,         \* decoded payloads
          Slots,          \* slots an update may carry (u64)
          WriteVersions,  \* write versions an update may carry (u64)
          None            \* the key is not in the map

Entry == [slot : Slots, write_version : WriteVersions, decoded : Values]

ASSUME StoreAssumption ==
    /\ Slots \subseteq Nat
    /\ WriteVersions \subseteq Nat
    /\ None \notin Entry

VARIABLES inner,  \* the HashMap: a key without an entry maps to None
          seen    \* history: what was offered for a key since it was last absent

storeVars == <<inner, seen>>

StoreTypeOK ==
    /\ inner \in [Keys -> Entry \cup {None}]
    /\ seen \in [Keys -> SUBSET Entry]

StoreInit ==
    /\ inner = [k \in Keys |-> None]
    /\ seen = [k \in Keys |-> {}]

\* is_stale_vs: the tuple comparison (other_slot, other_wv) > (slot, write_version)
IsStaleVs(e, other_slot, other_wv) ==
    \/ other_slot > e.slot
    \/ other_slot = e.slot /\ other_wv > e.write_version

\* Mutant: write_version forgotten in the comparison.
Accepts_SlotOnly(k, e) ==
    IF inner[k] = None THEN TRUE ELSE e.slot > inner[k].slot

\* Mutant: last come, last served.
Accepts_Always(k, e) == e \in Entry

\* What upsert answers: FALSE exactly when an existing entry is not stale.
Accepts(k, e) ==
    IF inner[k] = None THEN TRUE ELSE IsStaleVs(inner[k], e.slot, e.write_version)

Upserted(k, e) == IF Accepts(k, e) THEN [inner EXCEPT ![k] = e] ELSE inner

Upsert(k, e) ==
    /\ inner' = Upserted(k, e)
    /\ seen' = [seen EXCEPT ![k] = @ \cup {e}]

Remove(k) ==
    /\ inner' = [inner EXCEPT ![k] = None]
    /\ seen' = [seen EXCEPT ![k] = {}]

\* retain(f): the entries whose key and value satisfy f stay.  f is any predicate.
Retain(keep) ==
    /\ inner' = [k \in Keys |-> IF k \in keep THEN inner[k] ELSE None]
    /\ seen' = [k \in Keys |-> IF k \in keep THEN seen[k] ELSE {}]

StoreNext ==
    \/ \E k \in Keys, e \in Entry : Upsert(k, e)
    \/ \E k \in Keys : Remove(k)
    \/ \E keep \in SUBSET Keys : Retain(keep)

StoreSpec == StoreInit /\ [][StoreNext]_storeVars

-----------------------------------------------------------------------------
(* Properties                                                              *)

\* e is the newest of the entries in S: nothing in S is strictly newer.
IsNewestOf(e, S) ==
    e \in S /\ \A f \in S : ~IsStaleVs(e, f.slot, f.write_version)

\* Whatever the order in which updates arrive, the store holds the newest one
\* offered since the key was last absent, and it forgets a key only by remove
\* or retain (state_store.rs, upsert: "Insert if missing or if incoming (slot,
\* write_version) is newer").
NewestWins ==
    \A k \in Keys :
        IF inner[k] = None THEN seen[k] = {} ELSE IsNewestOf(inner[k], seen[k])
=============================================================================
