-------------------------- MODULE StreamingProofs --------------------------
(***************************************************************************)
(* What crate liq-streaming keeps.  The store keeps the newest entry it    *)
(* was offered, for any keys, payloads and versions and any order of       *)
(* delivery.  The bootstrap, snapshots and the stream that fill it use it  *)
(* as module StateStore says; the bootstrap never mixes demo and live      *)
(* accounts; and an entry is as new as its slot says, for any number of accounts and *)
(* any bounds on the chain.  However many tasks share the RPC pool, a call *)
(* that fails with a retriable error has asked every endpoint, and the     *)
(* statistics of the endpoints balance at every access.  For any number of *)
(* providers and of forwarding tasks inside record at once, no recorded    *)
(* slot passes the tip, and only providers that were chosen are written    *)
(* off.                                                                    *)
(***************************************************************************)
EXTENDS Bootstrap, RpcPool, Failover, FiniteSetTheorems, SequenceTheorems,
        WellFoundedInduction, TLAPS

(* The store                                                               *)

\* Every method keeps the store well-formed.
LEMMA StoreTypeStep ==
    ASSUME StoreTypeOK, [StoreNext]_storeVars
    PROVE  StoreTypeOK'
<1>1. ASSUME NEW k \in Keys, NEW e \in Entry, Upsert(k, e) PROVE StoreTypeOK'
  BY <1>1 DEF StoreTypeOK, Upsert, Upserted
<1>2. ASSUME NEW k \in Keys, Remove(k) PROVE StoreTypeOK'
  BY <1>2 DEF StoreTypeOK, Remove
<1>3. ASSUME NEW keep \in SUBSET Keys, Retain(keep) PROVE StoreTypeOK'
  BY <1>3 DEF StoreTypeOK, Retain
<1>4. CASE UNCHANGED storeVars
  BY <1>4 DEF StoreTypeOK, storeVars
<1> QED BY <1>1, <1>2, <1>3, <1>4 DEF StoreNext

\* The state of the store stays well-formed under every method.
THEOREM StoreTypeCorrect == StoreSpec => []StoreTypeOK
<1>1. StoreInit => StoreTypeOK
  BY DEF StoreInit, StoreTypeOK
<1> QED BY <1>1, StoreTypeStep, PTL DEF StoreSpec

\* Of two entries one is strictly newer or they have the same version: what is
\* not newer than a newer one is not newer than it either.
LEMMA NotNewerTrans ==
    ASSUME NEW d \in Entry, NEW e \in Entry, NEW f \in Entry,
           ~IsStaleVs(d, f.slot, f.write_version),
           IsStaleVs(d, e.slot, e.write_version)
    PROVE  ~IsStaleVs(e, f.slot, f.write_version)
<1>1. /\ d.slot \in Nat /\ e.slot \in Nat /\ f.slot \in Nat
      /\ d.write_version \in Nat /\ e.write_version \in Nat /\ f.write_version \in Nat
  BY StoreAssumption DEF Entry
<1> QED BY <1>1 DEF IsStaleVs

\* An entry is not newer than itself.
LEMMA NotNewerThanSelf ==
    ASSUME NEW e \in Entry
    PROVE  ~IsStaleVs(e, e.slot, e.write_version)
<1>1. e.slot \in Nat /\ e.write_version \in Nat
  BY StoreAssumption DEF Entry
<1> QED BY <1>1 DEF IsStaleVs

\* NewestWins is preserved by the acceptance or the refusal of one more entry.
LEMMA UpsertNewest ==
    ASSUME StoreTypeOK, NewestWins, NEW k \in Keys, NEW e \in Entry, Upsert(k, e)
    PROVE  NewestWins'
<1> SUFFICES ASSUME NEW j \in Keys
             PROVE  IF inner'[j] = None THEN seen'[j] = {}
                    ELSE IsNewestOf(inner'[j], seen'[j])
  BY DEF NewestWins, IsNewestOf, IsStaleVs
<1>1. e # None
  BY StoreAssumption
<1>2. CASE j # k
  BY <1>2 DEF Upsert, Upserted, StoreTypeOK, NewestWins
<1>3. CASE j = k /\ inner[k] = None
  <2>1. inner'[j] = e /\ seen'[j] = {e}
    BY <1>3 DEF Upsert, Upserted, Accepts, StoreTypeOK, NewestWins
  <2> QED BY <1>1, <2>1, NotNewerThanSelf DEF IsNewestOf
<1>4. CASE j = k /\ inner[k] # None /\ Accepts(k, e)
  <2>1. inner'[j] = e /\ seen'[j] = seen[k] \cup {e}
    BY <1>4 DEF Upsert, Upserted, StoreTypeOK
  <2>2. IsStaleVs(inner[k], e.slot, e.write_version)
    BY <1>4 DEF Accepts
  <2>3. /\ inner[k] \in Entry
        /\ seen[k] \subseteq Entry
        /\ \A f \in seen[k] : ~IsStaleVs(inner[k], f.slot, f.write_version)
    BY <1>4 DEF StoreTypeOK, NewestWins, IsNewestOf
  <2>4. \A f \in seen[k] : ~IsStaleVs(e, f.slot, f.write_version)
    BY <2>2, <2>3, NotNewerTrans
  <2> QED BY <1>1, <2>1, <2>4, NotNewerThanSelf DEF IsNewestOf
<1>5. CASE j = k /\ inner[k] # None /\ ~Accepts(k, e)
  <2>1. inner'[j] = inner[k] /\ seen'[j] = seen[k] \cup {e}
    BY <1>5 DEF Upsert, Upserted, StoreTypeOK
  <2>2. ~IsStaleVs(inner[k], e.slot, e.write_version)
    BY <1>5 DEF Accepts
  <2> QED BY <1>5, <2>1, <2>2 DEF NewestWins, IsNewestOf
<1> QED BY <1>2, <1>3, <1>4, <1>5

\* Whatever the order of delivery, the entry held is the newest one offered.
THEOREM NewestWinsAlways == StoreSpec => []NewestWins
<1>1. StoreInit => NewestWins
  BY DEF StoreInit, NewestWins
<1>2. StoreTypeOK /\ NewestWins /\ [StoreNext]_storeVars => NewestWins'
  <2> SUFFICES ASSUME StoreTypeOK, NewestWins, [StoreNext]_storeVars PROVE NewestWins'
    OBVIOUS
  <2>1. ASSUME NEW k \in Keys, NEW e \in Entry, Upsert(k, e) PROVE NewestWins'
    BY <2>1, UpsertNewest
  <2>2. ASSUME NEW k \in Keys, Remove(k) PROVE NewestWins'
    BY <2>2 DEF StoreTypeOK, NewestWins, IsNewestOf, IsStaleVs, Remove
  <2>3. ASSUME NEW keep \in SUBSET Keys, Retain(keep) PROVE NewestWins'
    BY <2>3 DEF StoreTypeOK, NewestWins, IsNewestOf, IsStaleVs, Retain
  <2>4. CASE UNCHANGED storeVars
    BY <2>4 DEF NewestWins, IsNewestOf, IsStaleVs, storeVars
  <2> QED BY <2>1, <2>2, <2>3, <2>4 DEF StoreNext
<1> QED BY <1>1, <1>2, StoreTypeCorrect, PTL DEF StoreSpec

-----------------------------------------------------------------------------
(* The store and its writers                                               *)

Rows == [key : Keys, entry : Entry]

BootTypeOK ==
    /\ StoreTypeOK
    /\ writes \in Seq([key : LiveKeys, slot : 1..MaxSlot])
    /\ Len(writes) <= MaxWrites
    /\ now \in 1..MaxSlot
    /\ boot \in {"start", "discover", "fetch", "load", "ready"}
    /\ pending \in SUBSET Rows

\* A set of naturals with an upper bound has a greatest element.
LEMMA GreatestExists ==
    ASSUME NEW n \in Nat, NEW S \in SUBSET (1..n), S # {}
    PROVE  \E i \in S : \A j \in S : j <= i
<1> DEFINE T == {m \in Nat : n - m \in S}
           R == OpToRel(<, Nat)
<1>1. T # {}
  <2>1. PICK i \in S : TRUE
    OBVIOUS
  <2>2. n - i \in Nat /\ n - (n - i) = i
    OBVIOUS
  <2> QED BY <2>1, <2>2
<1>2. PICK m \in T : \A k \in T : ~(<<k, m>> \in R)
  <2> HIDE DEF T
  <2>1. T \subseteq Nat
    BY DEF T
  <2> HIDE DEF R
  <2>2. IsWellFoundedOn(R, Nat)
    BY NatLessThanWellFounded DEF R
  <2> QED BY <1>1, <2>1, <2>2, WFMin
<1>3. \A k \in T : m <= k
  <2>1. ASSUME NEW k \in Nat, NEW j \in Nat, k < j PROVE <<k, j>> \in R
    BY <2>1 DEF OpToRel
  <2> HIDE DEF R
  <2> TAKE k \in T
  <2>2. k \in Nat /\ m \in Nat
    OBVIOUS
  <2>3. ~(k < m)
    BY <1>2, <2>1, <2>2
  <2> QED BY <2>2, <2>3
<1>4. \A j \in S : j <= n - m
  <2> TAKE j \in S
  <2>1. n - j \in Nat /\ n - (n - j) = j
    OBVIOUS
  <2>2. m <= n - j
    BY <1>3, <2>1
  <2> QED BY <2>2
<1> QED BY <1>4

\* The write that VersionAt names is one to k by slot s, and none is later.
LEMMA VersionAtFact ==
    ASSUME BootTypeOK, NEW k, NEW s \in Int
    PROVE  LET v == VersionAt(k, s)
               mine == {i \in 1..Len(writes) : writes[i].key = k /\ writes[i].slot <= s}
           IN /\ v \in 0..Len(writes)
              /\ v = 0 => mine = {}
              /\ v # 0 => v \in mine
              /\ \A j \in mine : j <= v
<1> DEFINE mine == {i \in 1..Len(writes) : writes[i].key = k /\ writes[i].slot <= s}
<1>0. Len(writes) \in Nat
  BY DEF BootTypeOK
<1>1. CASE mine = {}
  <2>1. VersionAt(k, s) = 0
    BY <1>1 DEF VersionAt
  <2> QED BY <1>0, <1>1, <2>1
<1>2. CASE mine # {}
  <2>1. \E i \in mine : \A j \in mine : j <= i
    <3>1. mine \in SUBSET (1..Len(writes))
      OBVIOUS
    <3> HIDE DEF mine
    <3> QED BY <1>0, <1>2, <3>1, GreatestExists
  <2>2. VersionAt(k, s) \in mine /\ \A j \in mine : j <= VersionAt(k, s)
    BY <1>2, <2>1 DEF VersionAt
  <2>3. VersionAt(k, s) \in 1..Len(writes)
    BY <2>2
  <2> QED BY <1>0, <2>2, <2>3
<1> QED BY <1>1, <1>2

-----------------------------------------------------------------------------
(* Types                                                                   *)

\* The rows of a reply: of accounts on chain, as of now, without a write version.
LEMMA ReplyRows ==
    ASSUME BootTypeOK, NEW method, NEW r \in Reply(method)
    PROVE  /\ r \in Rows /\ r.key \in LiveKeys
           /\ r.entry.slot \in {0, now} /\ r.entry.write_version = 0
           /\ r.entry.decoded = VersionAt(r.key, now) /\ r.entry.decoded # 0
<1>1. PICK k \in LiveKeys : r \in ParseAccountValue(k, ResultSlot(method), VersionAt(k, now))
  BY DEF Reply
<1>2. /\ r = [key |-> k, entry |-> [slot |-> ResultSlot(method), write_version |-> 0,
                                    decoded |-> VersionAt(k, now)]]
      /\ VersionAt(k, now) # 0
  BY <1>1 DEF ParseAccountValue
<1>3. ResultSlot(method) \in {0, now} /\ now \in 1..MaxSlot
  BY DEF ResultSlot, BootTypeOK
<1>4. VersionAt(k, now) \in 0..Len(writes) /\ Len(writes) \in 0..MaxWrites
  BY <1>3, VersionAtFact, BoundsAssumption DEF BootTypeOK
<1>5. [slot |-> ResultSlot(method), write_version |-> 0, decoded |-> VersionAt(k, now)] \in Entry
  <2>1. ResultSlot(method) \in Slots
    BY <1>3, BoundsAssumption
  <2>2. 0 \in WriteVersions /\ VersionAt(k, now) \in Values
    BY <1>4, BoundsAssumption
  <2> QED BY <2>1, <2>2 DEF Entry
<1>6. k \in Keys
  BY KeysAssumption
<1> QED BY <1>2, <1>3, <1>5, <1>6 DEF Rows

LEMMA DemoRowsAreRows == DemoRows \subseteq Rows
<1>1. 1 \in Slots /\ 0 \in WriteVersions /\ 0 \in Values
  BY BoundsAssumption
<1> QED BY <1>1, KeysAssumption DEF DemoRows, Rows, Entry

\* What a stream delivers is an entry.
LEMMA StreamEntry ==
    ASSUME BootTypeOK, NEW i \in DOMAIN writes
    PROVE  /\ writes[i].key \in LiveKeys /\ writes[i].key \in Keys
           /\ writes[i].slot \in 1..MaxSlot
           /\ i \in 1..Len(writes)
           /\ [slot |-> writes[i].slot, write_version |-> i, decoded |-> i] \in Entry
<1>1. i \in 1..Len(writes) /\ Len(writes) \in 0..MaxWrites
  BY BoundsAssumption DEF BootTypeOK
<1>2. writes[i] \in [key : LiveKeys, slot : 1..MaxSlot]
  BY <1>1, ElementOfSeq DEF BootTypeOK
<1>3. writes[i].slot \in Slots /\ i \in WriteVersions /\ i \in Values
  BY <1>1, <1>2, BoundsAssumption
<1> QED BY <1>1, <1>2, <1>3, KeysAssumption DEF Entry

\* Each action leaves the store alone or is one of the store's methods.
LEMMA StoreStep ==
    ASSUME BootTypeOK, [Next]_vars
    PROVE  [StoreNext]_storeVars
<1>1. CASE \/ Start \/ Discover \/ Fetch \/ Loaded \/ Snapshot \/ Write \/ NextSlot
           \/ UNCHANGED vars
  BY <1>1 DEF Start, Discover, Fetch, Loaded, Snapshot, Write, NextSlot, vars
<1>2. CASE LoadRow
  BY <1>2 DEF LoadRow, StoreNext, BootTypeOK, Rows
<1>3. CASE ApplyAccountUpdate
  BY <1>3, StreamEntry DEF ApplyAccountUpdate, StoreNext
<1>4. CASE Forget
  BY <1>4, KeysAssumption DEF Forget, StoreNext
<1> QED BY <1>1, <1>2, <1>3, <1>4 DEF Next

LEMMA BootTypeStep ==
    ASSUME BootTypeOK, [Next]_vars
    PROVE  BootTypeOK'
<1>1. StoreTypeOK'
  BY StoreStep, StoreTypeStep DEF BootTypeOK
<1>2. CASE Start \/ Discover
  BY <1>1, <1>2, DemoRowsAreRows DEF Start, Discover, Discovered, BootTypeOK, chainVars
<1>3. CASE Fetch
  BY <1>1, <1>3, ReplyRows DEF Fetch, BootTypeOK, chainVars
<1>4. CASE Snapshot
  BY <1>1, <1>4, ReplyRows DEF Snapshot, BootTypeOK, chainVars
<1>5. CASE LoadRow \/ Loaded
  BY <1>1, <1>5 DEF LoadRow, Loaded, BootTypeOK, chainVars
<1>9. CASE ApplyAccountUpdate \/ Forget
  BY <1>1, <1>9 DEF ApplyAccountUpdate, Forget, BootTypeOK, chainVars, bootVars
<1>6. CASE Write
  <2>1. PICK k \in LiveKeys : writes' = Append(writes, [key |-> k, slot |-> now])
    BY <1>6 DEF Write
  <2>2. [key |-> k, slot |-> now] \in [key : LiveKeys, slot : 1..MaxSlot]
    BY DEF BootTypeOK
  <2>3. writes' \in Seq([key : LiveKeys, slot : 1..MaxSlot]) /\ Len(writes') = Len(writes) + 1
    BY <2>1, <2>2 DEF BootTypeOK
  <2> QED BY <1>1, <1>6, <2>3, BoundsAssumption DEF Write, BootTypeOK, bootVars
<1>7. CASE NextSlot
  BY <1>1, <1>7, BoundsAssumption DEF NextSlot, BootTypeOK, bootVars
<1>8. CASE UNCHANGED vars
  BY <1>1, <1>8 DEF vars, chainVars, bootVars, BootTypeOK
<1> QED BY <1>2, <1>3, <1>4, <1>5, <1>6, <1>7, <1>8, <1>9 DEF Next

LEMMA BootTypeInit == Init => BootTypeOK
<1> SUFFICES ASSUME Init PROVE BootTypeOK
  OBVIOUS
<1>1. StoreTypeOK
  BY DEF Init, StoreInit, StoreTypeOK
<1> QED BY <1>1, BoundsAssumption DEF Init, BootTypeOK

\* The store, the chain and the bootstrap keep their types (module Bootstrap).
THEOREM BootTypeCorrect == Spec => []BootTypeOK
BY BootTypeInit, BootTypeStep, PTL DEF Spec

\* The store under its two writers is the abstract store: rows of snapshots, late
\* and repeated stream updates and demo accounts are entries it is offered.
THEOREM BootstrapImplementsStore == Spec => StoreSpec
<1>1. Init => StoreInit
  BY DEF Init
<1> QED BY <1>1, StoreStep, BootTypeCorrect, PTL DEF Spec, StoreSpec

\* Hence it holds the newest entry that either writer offered.
THEOREM NewestOfBothWriters == Spec => []NewestWins
BY BootstrapImplementsStore, NewestWinsAlways

-----------------------------------------------------------------------------
(* Demo or live                                                            *)

\* What is stored or waits to be stored.
StoredOrWaiting(k) == inner[k] # None \/ \E r \in pending : r.key = k

\* Until the stream is opened it is all of one kind, and before the first reply is
\* there it is nothing.
FillInv ==
    /\ boot \in {"start", "discover", "fetch"} => \A k \in Keys : ~StoredOrWaiting(k)
    /\ boot # "ready" => \/ \A k \in LiveKeys : ~StoredOrWaiting(k)
                        \/ \A k \in DemoKeys : ~StoredOrWaiting(k)

LEMMA FillStep ==
    ASSUME BootTypeOK, FillInv, [Next]_vars
    PROVE  FillInv'
<1> USE DEF FillInv
<1>1. CASE Start \/ Discover
  <2>1. /\ boot \in {"start", "discover"} /\ inner' = inner
        /\ \/ boot' = "load" /\ pending' = DemoRows
           \/ boot' \in {"discover", "fetch"} /\ pending' = pending
    BY <1>1 DEF Start, Discover, Discovered, storeVars
  <2>2. \A k \in Keys : inner[k] = None /\ ~ \E r \in pending : r.key = k
    BY <2>1 DEF StoredOrWaiting
  <2>3. \A r \in DemoRows : r.key \in DemoKeys
    BY DEF DemoRows
  <2> QED BY <2>1, <2>2, <2>3, KeysAssumption DEF StoredOrWaiting
<1>2. CASE Fetch
  <2>1. /\ boot = "fetch" /\ boot' = "load" /\ inner' = inner
        /\ pending' \in {{}, Reply("getMultipleAccounts")}
    BY <1>2 DEF Fetch, storeVars
  <2>2. \A r \in pending' : r.key \in LiveKeys
    BY <2>1, ReplyRows
  <2> QED BY <2>1, <2>2, KeysAssumption DEF StoredOrWaiting
<1>3. CASE LoadRow
  <2>1. PICK row \in pending : Upsert(row.key, row.entry) /\ pending' = pending \ {row}
    BY <1>3 DEF LoadRow
  <2>2. \A k \in Keys : inner'[k] # None => inner[k] # None \/ k = row.key
    BY <2>1 DEF Upsert, Upserted, BootTypeOK, StoreTypeOK
  <2>3. \A k \in Keys : StoredOrWaiting(k)' => StoredOrWaiting(k)
    BY <2>1, <2>2 DEF StoredOrWaiting
  <2> QED BY <1>3, <2>3, KeysAssumption DEF LoadRow
<1>4. CASE Loaded \/ Snapshot \/ ApplyAccountUpdate \/ Forget
  BY <1>4 DEF Loaded, Snapshot, ApplyAccountUpdate, Forget, bootVars
<1>5. CASE Write \/ NextSlot \/ UNCHANGED vars
  BY <1>5 DEF Write, NextSlot, vars, storeVars, bootVars, StoredOrWaiting
<1> QED BY <1>1, <1>2, <1>3, <1>4, <1>5 DEF Next

\* The bootstrap never puts demo accounts beside accounts of the chain, whichever of
\* its requests fails (main).
THEOREM DemoOrLiveAlways == Spec => []DemoOrLive
<1>1. Init => FillInv
  BY KeysAssumption DEF Init, StoreInit, FillInv, StoredOrWaiting
<1>2. FillInv => DemoOrLive
  BY DEF FillInv, StoredOrWaiting, DemoOrLive
<1> QED BY <1>1, <1>2, FillStep, BootTypeCorrect, PTL DEF Spec

-----------------------------------------------------------------------------
(* The data behind a slot                                                  *)

\* Writes lie in time as they are numbered.
ChainInv ==
    /\ \A i \in 1..Len(writes) : writes[i].slot <= now
    /\ \A i, j \in 1..Len(writes) : i <= j => writes[i].slot <= writes[j].slot

\* An entry of k that a writer made honestly: its data is k's after some write, at
\* the latest of its slot (a row without a slot has slot 0), and after all the
\* writes of the slots before.
Honest(k, e) ==
    /\ e.slot <= now
    /\ e.decoded \in 1..Len(writes) /\ writes[e.decoded].key = k
    /\ e.slot = 0 \/ writes[e.decoded].slot <= e.slot
    /\ e.decoded >= VersionAt(k, e.slot - 1)

HonestInv ==
    /\ \A k \in LiveKeys : \A e \in Entry : inner[k] = e => Honest(k, e)
    /\ \A r \in pending : r.key \in LiveKeys =>
           Honest(r.key, r.entry) /\ r.entry.write_version = 0

\* What happened up to slot s is settled when s is past.
LEMMA PastIsSettled ==
    ASSUME BootTypeOK, Write \/ NextSlot \/ UNCHANGED writes, NEW k, NEW s \in Int, s < now
    PROVE  VersionAt(k, s)' = VersionAt(k, s)
<1> DEFINE mine == {i \in 1..Len(writes) : writes[i].key = k /\ writes[i].slot <= s}
<1>1. mine' = mine
  <2>1. CASE Write
    <3>1. PICK key \in LiveKeys : writes' = Append(writes, [key |-> key, slot |-> now])
      BY <2>1 DEF Write
    <3>2. /\ Len(writes) \in Nat /\ Len(writes') = Len(writes) + 1
          /\ \A i \in 1..Len(writes) : writes'[i] = writes[i]
          /\ writes'[Len(writes) + 1] = [key |-> key, slot |-> now]
      BY <3>1 DEF BootTypeOK
    <3>3. now \in Int
      BY DEF BootTypeOK
    <3> QED BY <3>2, <3>3
  <2>2. CASE NextSlot \/ UNCHANGED writes
    BY <2>2 DEF NextSlot
  <2> QED BY <2>1, <2>2
<1>2. VersionAt(k, s) = IF mine = {} THEN 0 ELSE CHOOSE i \in mine : \A j \in mine : j <= i
  BY DEF VersionAt
<1>3. VersionAt(k, s)' = IF mine' = {} THEN 0 ELSE CHOOSE i \in mine' : \A j \in mine' : j <= i
  BY DEF VersionAt
<1> HIDE DEF mine
<1> QED BY <1>1, <1>2, <1>3

LEMMA ChainStep ==
    ASSUME BootTypeOK, ChainInv, [Next]_vars
    PROVE  ChainInv' /\ (Write \/ NextSlot \/ UNCHANGED writes) /\ now <= now'
<1>0. now \in Int /\ Len(writes) \in Nat
  BY DEF BootTypeOK
<1>1. CASE Write
  <2>1. PICK key \in LiveKeys : writes' = Append(writes, [key |-> key, slot |-> now])
    BY <1>1 DEF Write
  <2>2. /\ Len(writes') = Len(writes) + 1
        /\ \A i \in 1..Len(writes) : writes'[i] = writes[i]
        /\ writes'[Len(writes) + 1] = [key |-> key, slot |-> now]
        /\ now' = now
    BY <1>1, <2>1 DEF BootTypeOK, Write
  <2> QED BY <1>0, <1>1, <2>2 DEF ChainInv
<1>2. CASE NextSlot
  <2>1. \A i \in 1..Len(writes) : writes[i].slot \in Int
    <3> TAKE i \in 1..Len(writes)
    <3>1. writes[i] \in [key : LiveKeys, slot : 1..MaxSlot]
      BY ElementOfSeq DEF BootTypeOK
    <3> QED BY <3>1
  <2> QED BY <1>0, <1>2, <2>1 DEF NextSlot, ChainInv
<1>3. CASE UNCHANGED chainVars
  BY <1>0, <1>3 DEF chainVars, ChainInv
<1> QED
  BY <1>1, <1>2, <1>3
     DEF Next, Start, Discover, Fetch, LoadRow, Loaded, Snapshot, ApplyAccountUpdate, Forget, vars

\* An honest entry stays one while the chain goes on.
LEMMA HonestKept ==
    ASSUME BootTypeOK, Write \/ NextSlot \/ UNCHANGED writes, now <= now', now' \in Int,
           NEW k, NEW e \in Entry, Honest(k, e)
    PROVE  Honest(k, e)'
<1>1. e.slot \in Nat /\ now \in Int /\ Len(writes) \in Nat
  <2>1. e.slot \in Nat
    BY StoreAssumption DEF Entry
  <2> QED BY <2>1 DEF BootTypeOK
<1>2. VersionAt(k, e.slot - 1)' = VersionAt(k, e.slot - 1)
  <2>1. e.slot - 1 \in Int /\ e.slot - 1 < now
    BY <1>1 DEF Honest
  <2> QED BY <2>1, PastIsSettled
<1>3. Len(writes') \in Nat /\ Len(writes) <= Len(writes')
      /\ \A i \in 1..Len(writes) : writes'[i] = writes[i]
  <2>1. CASE Write
    <3>1. PICK key \in LiveKeys : writes' = Append(writes, [key |-> key, slot |-> now])
      BY <2>1 DEF Write
    <3> QED BY <1>1, <3>1 DEF BootTypeOK
  <2>2. CASE NextSlot \/ UNCHANGED writes
    BY <1>1, <2>2 DEF NextSlot
  <2> QED BY <2>1, <2>2
<1> QED BY <1>1, <1>2, <1>3 DEF Honest

\* The version at a slot does not come before the version at an earlier one.
LEMMA VersionGrows ==
    ASSUME BootTypeOK, NEW k, NEW s \in Int, NEW t \in Int, s <= t
    PROVE  VersionAt(k, s) <= VersionAt(k, t)
<1> DEFINE mine(u) == {i \in 1..Len(writes) : writes[i].key = k /\ writes[i].slot <= u}
<1>1. VersionAt(k, s) = 0 \/ VersionAt(k, s) \in mine(s)
  BY VersionAtFact
<1>2. /\ VersionAt(k, t) \in 0..Len(writes)
      /\ \A j \in mine(t) : j <= VersionAt(k, t)
  BY VersionAtFact
<1>3. mine(s) \subseteq mine(t)
  <2> SUFFICES ASSUME NEW i \in mine(s) PROVE i \in mine(t)
    OBVIOUS
  <2>1. writes[i].slot \in Int
    <3>1. writes[i] \in [key : LiveKeys, slot : 1..MaxSlot]
      BY ElementOfSeq DEF BootTypeOK
    <3> QED BY <3>1
  <2> QED BY <2>1
<1>4. Len(writes) \in Nat
  BY DEF BootTypeOK
<1> HIDE DEF mine
<1> QED BY <1>1, <1>2, <1>3, <1>4

\* A reply is honest: its slot is that of the moment it was taken, or none.
LEMMA ReplyHonest ==
    ASSUME BootTypeOK, ChainInv, NEW method, NEW r \in Reply(method)
    PROVE  Honest(r.key, r.entry) /\ r.entry.write_version = 0
<1>1. /\ r.entry.slot \in {0, now} /\ r.entry.write_version = 0
      /\ r.entry.decoded = VersionAt(r.key, now) /\ r.entry.decoded # 0
  BY ReplyRows
<1>2. now \in 1..MaxSlot /\ MaxSlot \in Nat
  BY BoundsAssumption DEF BootTypeOK
<1>3. /\ r.entry.decoded \in 1..Len(writes)
      /\ writes[r.entry.decoded].key = r.key
      /\ writes[r.entry.decoded].slot <= now
  BY <1>1, <1>2, VersionAtFact
<1>4. VersionAt(r.key, r.entry.slot - 1) <= VersionAt(r.key, now)
  <2>1. r.entry.slot - 1 \in Int /\ now \in Int /\ r.entry.slot - 1 <= now
    BY <1>1, <1>2
  <2> QED BY <2>1, VersionGrows
<1>5. VersionAt(r.key, now) \in Int /\ VersionAt(r.key, r.entry.slot - 1) \in Int
  BY <1>1, <1>2, VersionAtFact
<1> QED BY <1>1, <1>2, <1>3, <1>4, <1>5 DEF Honest

\* A streamed write is honest, late or not: the writes of earlier slots have
\* smaller numbers.
LEMMA StreamHonest ==
    ASSUME BootTypeOK, ChainInv, NEW i \in DOMAIN writes
    PROVE  Honest(writes[i].key, [slot |-> writes[i].slot, write_version |-> i, decoded |-> i])
<1> DEFINE v == VersionAt(writes[i].key, writes[i].slot - 1)
<1>1. i \in 1..Len(writes) /\ writes[i].slot \in 1..MaxSlot /\ Len(writes) \in Nat
      /\ MaxSlot \in Nat
  <2>1. i \in 1..Len(writes) /\ writes[i].slot \in 1..MaxSlot
    BY StreamEntry
  <2> QED BY <2>1, BoundsAssumption DEF BootTypeOK
<1>2. v \in 0..Len(writes) /\ (v # 0 => writes[v].slot <= writes[i].slot - 1)
  <2>1. writes[i].slot - 1 \in Int
    BY <1>1
  <2> QED BY <2>1, VersionAtFact
<1>3. v <= i
  <2>1. CASE v = 0
    BY <1>1, <2>1
  <2>2. CASE v # 0
    <3> HIDE DEF v
    <3>1. v \in 1..Len(writes) /\ writes[v].slot <= writes[i].slot - 1
      BY <1>1, <1>2, <2>2
    <3>2. i <= v => writes[i].slot <= writes[v].slot
      BY <1>1, <3>1 DEF ChainInv
    <3>3. writes[v].slot \in Int
      <4>1. writes[v] \in [key : LiveKeys, slot : 1..MaxSlot]
        BY <3>1, ElementOfSeq DEF BootTypeOK
      <4> QED BY <4>1
    <3> QED BY <1>1, <3>1, <3>2, <3>3
  <2> QED BY <2>1, <2>2
<1>4. writes[i].slot <= now
  BY <1>1 DEF ChainInv
<1> QED BY <1>1, <1>2, <1>3, <1>4 DEF Honest

LEMMA HonestStep ==
    ASSUME BootTypeOK, ChainInv, HonestInv, [Next]_vars
    PROVE  HonestInv'
<1>1. \A k, e : e \in Entry /\ Honest(k, e) => Honest(k, e)'
  <2>1. (Write \/ NextSlot \/ UNCHANGED writes) /\ now <= now'
    BY ChainStep
  <2>2. now' \in Int
    BY BootTypeStep DEF BootTypeOK
  <2> QED BY <2>1, <2>2, HonestKept
<1>2. \A k \in LiveKeys : k \in Keys /\ k \notin DemoKeys
  BY KeysAssumption
<1>3. /\ \A k \in Keys : inner[k] \in Entry \cup {None}
      /\ \A r \in pending : r.entry \in Entry
  BY DEF BootTypeOK, StoreTypeOK, Rows
<1>4. \A method : \A r \in Reply(method) :
         r.entry \in Entry /\ Honest(r.key, r.entry) /\ r.entry.write_version = 0
  <2> SUFFICES ASSUME NEW method, NEW r \in Reply(method)
               PROVE  r.entry \in Entry /\ Honest(r.key, r.entry) /\ r.entry.write_version = 0
    OBVIOUS
  <2>1. r \in Rows
    BY ReplyRows
  <2> QED BY <2>1, ReplyHonest DEF Rows
<1> DEFINE StoreHonest == \A k \in LiveKeys : \A e \in Entry : inner'[k] = e => Honest(k, e)'
           PendingHonest == \A r \in pending' : r.key \in LiveKeys =>
                                Honest(r.key, r.entry)' /\ r.entry.write_version = 0
<1>5. StoreHonest
  <2>1. ASSUME NEW j \in Keys, NEW e \in Entry, Upsert(j, e), j \in LiveKeys => Honest(j, e)
        PROVE  StoreHonest
    <3> SUFFICES ASSUME NEW k \in LiveKeys, NEW f \in Entry, inner'[k] = f PROVE Honest(k, f)'
      OBVIOUS
    <3>1. f = inner[k] \/ (k = j /\ f = e)
      BY <1>2, <2>1 DEF Upsert, Upserted, BootTypeOK, StoreTypeOK
    <3>2. Honest(k, f)
      BY <2>1, <3>1 DEF HonestInv
    <3> QED BY <1>1, <3>2
  <2>2. CASE LoadRow
    <3>1. PICK row \in pending : Upsert(row.key, row.entry)
      BY <2>2 DEF LoadRow
    <3>2. row.key \in Keys /\ row.entry \in Entry
      BY DEF BootTypeOK, Rows
    <3> QED BY <2>1, <3>1, <3>2 DEF HonestInv
  <2>3. CASE ApplyAccountUpdate
    <3>1. PICK i \in DOMAIN writes :
             Upsert(writes[i].key, [slot |-> writes[i].slot, write_version |-> i, decoded |-> i])
      BY <2>3 DEF ApplyAccountUpdate
    <3> QED BY <2>1, <3>1, StreamEntry, StreamHonest
  <2>4. ASSUME \A k \in LiveKeys : inner'[k] \in {None, inner[k]} PROVE StoreHonest
    <3> SUFFICES ASSUME NEW k \in LiveKeys, NEW f \in Entry, inner'[k] = f PROVE Honest(k, f)'
      OBVIOUS
    <3>1. inner[k] = f
      BY <2>4, StoreAssumption
    <3>2. Honest(k, f)
      BY <3>1 DEF HonestInv
    <3> QED BY <1>1, <3>2
  <2>5. CASE Forget
    BY <1>2, <2>4, <2>5 DEF Forget, Remove, Retain, BootTypeOK, StoreTypeOK
  <2>6. CASE UNCHANGED storeVars
    BY <2>4, <2>6 DEF storeVars
  <2> QED
    BY <2>2, <2>3, <2>5, <2>6
       DEF Next, Start, Discover, Fetch, Loaded, Snapshot, Write, NextSlot, vars
<1>6. PendingHonest
  <2>1. ASSUME pending' \subseteq pending PROVE PendingHonest
    BY <1>1, <1>3, <2>1 DEF HonestInv
  <2>2. CASE Start \/ Discover
    <3>1. pending' = pending \/ pending' = DemoRows
      BY <2>2 DEF Start, Discover, Discovered
    <3>2. \A r \in DemoRows : r.key \notin LiveKeys
      BY <1>2 DEF DemoRows
    <3> QED BY <2>1, <3>1, <3>2
  <2>3. CASE Fetch \/ Snapshot
    <3>1. \A r \in pending' : \E method : r \in Reply(method)
      BY <2>3 DEF Fetch, Snapshot
    <3> QED BY <1>1, <1>4, <3>1
  <2>4. CASE LoadRow
    BY <2>1, <2>4 DEF LoadRow
  <2>5. CASE Loaded \/ ApplyAccountUpdate \/ Forget \/ Write \/ NextSlot \/ UNCHANGED vars
    BY <2>1, <2>5 DEF Loaded, ApplyAccountUpdate, Forget, Write, NextSlot, bootVars, vars
  <2> QED BY <2>2, <2>3, <2>4, <2>5 DEF Next
<1> QED BY <1>5, <1>6 DEF HonestInv

\* What is stored and what is on its way is honest in every state.
LEMMA HonestAlways == Spec => [](BootTypeOK /\ ChainInv /\ HonestInv)
<1>1. Init => ChainInv /\ HonestInv
  BY KeysAssumption, StoreAssumption DEF Init, StoreInit, ChainInv, HonestInv
<1>2. BootTypeOK /\ ChainInv /\ HonestInv /\ [Next]_vars => ChainInv' /\ HonestInv'
  BY ChainStep, HonestStep
<1> QED BY <1>1, <1>2, BootTypeCorrect, PTL DEF Spec

\* The slot of an entry never claims more than its data has, in any mixture of
\* snapshots and late or repeated stream updates (apply_raw_to_store,
\* apply_account_update).
THEOREM AlwaysAsNewAsItsSlot == Spec => []AsNewAsItsSlot
<1>1. BootTypeOK /\ HonestInv => AsNewAsItsSlot
  <2> SUFFICES ASSUME BootTypeOK, HonestInv, NEW k \in Keys, LiveEntry(k)
               PROVE  inner[k].decoded >= VersionAt(k, inner[k].slot - 1)
    BY DEF AsNewAsItsSlot
  <2>1. inner[k] \in Entry /\ k \in LiveKeys
    BY DEF LiveEntry, BootTypeOK, StoreTypeOK
  <2> QED BY <2>1 DEF HonestInv, Honest
<1> QED BY <1>1, HonestAlways, PTL

\* An account goes back in time only within one slot, or past a row without one.
THEOREM NeverFarBack == Spec => NeverBackPastASlot
<1> DEFINE Near ==
       \A k \in Keys :
          LiveEntry(k) /\ inner'[k] # None /\ inner'[k].decoded < inner[k].decoded
              => inner[k].slot \in {0, writes[inner'[k].decoded].slot}
<1>1. ASSUME BootTypeOK, ChainInv, HonestInv, NEW k \in LiveKeys, NEW e \in Entry, inner[k] # None,
             IsStaleVs(inner[k], e.slot, e.write_version), Honest(k, e),
             e.write_version = 0 \/ e.slot = writes[e.decoded].slot,
             e.decoded < inner[k].decoded
      PROVE  inner[k].slot \in {0, writes[e.decoded].slot}
  <2> DEFINE s == inner[k].slot
             v == inner[k].decoded
  <2>1. inner[k] \in Entry /\ Honest(k, inner[k])
    BY <1>1, KeysAssumption DEF BootTypeOK, StoreTypeOK, HonestInv
  <2>2. s \in Nat /\ inner[k].write_version \in Nat /\ e.slot \in Nat /\ e.write_version \in Nat
    BY <2>1, StoreAssumption DEF Entry
  <2>3. CASE s = 0
    BY <2>3
  <2>4. CASE s # 0 /\ s < e.slot
    <3>1. v \in 1..Len(writes) /\ writes[v].key = k /\ writes[v].slot <= s
      BY <2>1, <2>4 DEF Honest
    <3>2. writes[v].slot \in Int
      <4>1. writes[v] \in [key : LiveKeys, slot : 1..MaxSlot]
        BY <1>1, <3>1, ElementOfSeq DEF BootTypeOK
      <4> QED BY <4>1
    <3>3. writes[v].slot <= e.slot - 1 /\ e.slot - 1 \in Int
      BY <2>2, <2>4, <3>1, <3>2
    <3>4. v <= VersionAt(k, e.slot - 1) /\ VersionAt(k, e.slot - 1) \in Int
      BY <1>1, <3>1, <3>3, VersionAtFact
    <3>5. VersionAt(k, e.slot - 1) <= e.decoded /\ e.decoded \in Int /\ v \in Int
      BY <1>1, <3>1 DEF Honest
    <3> QED BY <1>1, <3>4, <3>5
  <2>5. CASE s # 0 /\ s = e.slot /\ e.write_version > inner[k].write_version
    BY <1>1, <2>2, <2>5
  <2> QED BY <1>1, <2>2, <2>3, <2>4, <2>5 DEF IsStaleVs
<1>2. BootTypeOK /\ ChainInv /\ HonestInv /\ [Next]_vars => [Near]_vars
  <2> SUFFICES ASSUME BootTypeOK, ChainInv, HonestInv, Next,
                      NEW k \in Keys, LiveEntry(k), inner'[k] # None,
                      inner'[k].decoded < inner[k].decoded
               PROVE  inner[k].slot \in {0, writes[inner'[k].decoded].slot}
    OBVIOUS
  <2>1. k \in LiveKeys /\ inner[k] # None
    BY DEF LiveEntry
  <2>2. inner'[k] # inner[k]
    <3>1. inner[k].decoded \in Int
      BY <2>1 DEF HonestInv, Honest, BootTypeOK, StoreTypeOK
    <3> QED BY <3>1
  <2>3. ASSUME NEW j \in Keys, NEW e \in Entry, Upsert(j, e)
        PROVE  inner'[k] = e /\ j = k /\ IsStaleVs(inner[k], e.slot, e.write_version)
    BY <2>1, <2>2, <2>3 DEF Upsert, Upserted, Accepts, BootTypeOK, StoreTypeOK
  <2>4. CASE LoadRow
    <3>1. PICK row \in pending : Upsert(row.key, row.entry)
      BY <2>4 DEF LoadRow
    <3>2. row.key \in Keys /\ row.entry \in Entry
      BY DEF BootTypeOK, Rows
    <3>3. inner'[k] = row.entry /\ row.key = k
          /\ IsStaleVs(inner[k], row.entry.slot, row.entry.write_version)
      BY <2>3, <3>1, <3>2
    <3>4. Honest(k, row.entry) /\ row.entry.write_version = 0
      BY <2>1, <3>3 DEF HonestInv
    <3> QED BY <1>1, <2>1, <3>2, <3>3, <3>4
  <2>5. CASE ApplyAccountUpdate
    <3>1. PICK i \in DOMAIN writes :
             Upsert(writes[i].key, [slot |-> writes[i].slot, write_version |-> i, decoded |-> i])
      BY <2>5 DEF ApplyAccountUpdate
    <3> DEFINE e == [slot |-> writes[i].slot, write_version |-> i, decoded |-> i]
    <3>2. writes[i].key \in Keys /\ e \in Entry /\ Honest(writes[i].key, e)
      BY StreamEntry, StreamHonest
    <3>3. inner'[k] = e /\ writes[i].key = k /\ IsStaleVs(inner[k], e.slot, e.write_version)
      BY <2>3, <3>1, <3>2
    <3>4. e.slot = writes[e.decoded].slot
      OBVIOUS
    <3> HIDE DEF e
    <3> QED BY <1>1, <2>1, <3>2, <3>3, <3>4
  <2>6. CASE Forget
    BY <2>2, <2>6 DEF Forget, Remove, Retain, BootTypeOK, StoreTypeOK
  <2>7. CASE UNCHANGED storeVars
    BY <2>2, <2>7 DEF storeVars
  <2> QED
    BY <2>4, <2>5, <2>6, <2>7 DEF Next, Start, Discover, Fetch, Loaded, Snapshot, Write, NextSlot
<1> QED BY <1>2, HonestAlways, PTL DEF Spec, NeverBackPastASlot

-----------------------------------------------------------------------------
(* The RPC pool                                                            *)

\* Cyclic indices: an index below N is itself, and one below 2N wraps once.
LEMMA ModWraps ==
    ASSUME NEW n \in Nat \ {0}, NEW k \in Nat, k < n
    PROVE  k % n = k /\ (k + n) % n = k
OBVIOUS

\* N consecutive indices from any start are all the endpoints.
LEMMA WalkCoversAll ==
    ASSUME NEW s \in Endpoints
    PROVE  {(s + i) % N : i \in 0 .. N - 1} = Endpoints
<1>1. N \in Nat \ {0} /\ s \in Nat /\ s < N
  BY PoolAssumption DEF Endpoints
<1>2. ASSUME NEW i \in 0 .. N - 1 PROVE (s + i) % N \in Endpoints
  BY <1>1 DEF Endpoints
<1>3. ASSUME NEW e \in Endpoints PROVE \E i \in 0 .. N - 1 : e = (s + i) % N
  <2>1. e \in Nat /\ e < N
    BY <1>1 DEF Endpoints
  <2>2. CASE e >= s
    <3>1. e - s \in 0 .. N - 1 /\ s + (e - s) = e
      BY <1>1, <2>1, <2>2
    <3>2. (s + (e - s)) % N = e
      BY <1>1, <2>1, <3>1, ModWraps
    <3> QED BY <3>1, <3>2
  <2>3. CASE e < s
    <3>1. e + N - s \in 0 .. N - 1 /\ s + (e + N - s) = e + N
      BY <1>1, <2>1, <2>3
    <3>2. (s + (e + N - s)) % N = e
      BY <1>1, <2>1, <3>1, ModWraps
    <3> QED BY <3>1, <3>2
  <2> QED BY <1>1, <2>1, <2>2, <2>3
<1> QED BY <1>2, <1>3

-----------------------------------------------------------------------------
(* Types                                                                   *)

\* advance is only called when there is another attempt.
MoreToTry == \A c \in Callers : pc[c] = "rotated" => attempt[c] + 1 \in Endpoints

\* The endpoint of an attempt, and the next one, are endpoints.
LEMMA IdxIsEndpoint ==
    ASSUME TypeOK, NEW c \in Callers
    PROVE  Idx(c) \in Endpoints /\ (Idx(c) + 1) % N \in Endpoints
<1>1. N \in Nat \ {0} /\ start[c] \in 0 .. N - 1 /\ attempt[c] \in 0 .. N - 1
  BY PoolAssumption DEF TypeOK, Endpoints
<1>2. (start[c] + attempt[c]) % N \in 0 .. N - 1
  BY <1>1
<1>3. (((start[c] + attempt[c]) % N) + 1) % N \in 0 .. N - 1
  BY <1>1, <1>2
<1> QED BY <1>2, <1>3 DEF Idx, Endpoints

\* Every access of a call keeps the types; an attempt is started only below N.
LEMMA TypeStep == TypeOK /\ MoreToTry /\ [PoolNext]_poolVars => TypeOK'
<1> SUFFICES ASSUME TypeOK, MoreToTry, [PoolNext]_poolVars PROVE TypeOK'
  OBVIOUS
<1> USE DEF TypeOK, Goto, PoolPC
<1>1. ASSUME NEW c \in Callers, StartCall(c) PROVE TypeOK'
  <2>1. 0 \in Endpoints
    BY PoolAssumption DEF Endpoints
  <2> QED BY <1>1, <2>1 DEF StartCall, statVars
<1>2. ASSUME NEW c \in Callers, Send(c) PROVE TypeOK'
  BY <1>2, IdxIsEndpoint DEF Send
<1>3. ASSUME NEW c \in Callers, NEW r \in Replies, Answer(c, r) PROVE TypeOK'
  <2>1. r \in AllReplies
    BY PoolAssumption
  <2>2. CASE r = "ok"
    BY <1>3, <2>1, <2>2, IdxIsEndpoint DEF Answer
  <2>3. CASE r # "ok"
    BY <1>3, <2>1, <2>3, IdxIsEndpoint DEF Answer
  <2> QED BY <2>2, <2>3
<1>4. ASSUME NEW c \in Callers, Stick(c) PROVE TypeOK'
  BY <1>4, IdxIsEndpoint DEF Stick, statVars
<1>5. ASSUME NEW c \in Callers, AdvanceIndex(c) PROVE TypeOK'
  BY <1>5, IdxIsEndpoint DEF AdvanceIndex, statVars
<1>6. ASSUME NEW c \in Callers, AdvanceStats(c) PROVE TypeOK'
  BY <1>6, IdxIsEndpoint DEF AdvanceStats, MoreToTry
<1>7. ASSUME NEW c \in Callers, GiveUp(c) PROVE TypeOK'
  BY <1>7 DEF GiveUp, statVars
<1>8. CASE UNCHANGED poolVars
  BY <1>8 DEF poolVars, statVars, callVars
<1> QED BY <1>1, <1>2, <1>3, <1>4, <1>5, <1>6, <1>7, <1>8 DEF PoolNext, Proceed

\* Only AdvanceIndex leads to the place where the attempt is raised.
LEMMA MoreToTryStep == TypeOK /\ MoreToTry /\ [PoolNext]_poolVars => MoreToTry'
<1> SUFFICES ASSUME TypeOK, MoreToTry, [PoolNext]_poolVars PROVE MoreToTry'
  OBVIOUS
<1> USE DEF TypeOK, MoreToTry, Goto, PoolPC
<1>1. ASSUME NEW c \in Callers, StartCall(c) PROVE MoreToTry'
  BY <1>1 DEF StartCall
<1>2. ASSUME NEW c \in Callers, Send(c) PROVE MoreToTry'
  BY <1>2 DEF Send
<1>3. ASSUME NEW c \in Callers, NEW r \in Replies, Answer(c, r) PROVE MoreToTry'
  BY <1>3 DEF Answer
<1>4. ASSUME NEW c \in Callers, Stick(c) PROVE MoreToTry'
  BY <1>4 DEF Stick
<1>5. ASSUME NEW c \in Callers, AdvanceIndex(c) PROVE MoreToTry'
  <2>1. attempt[c] + 1 \in Endpoints
    <3>1. attempt[c] + 1 < N
      BY <1>5 DEF AdvanceIndex, MayRetry, Attempts
    <3>2. attempt[c] \in 0 .. N - 1 /\ N \in Nat
      BY PoolAssumption DEF Endpoints
    <3>3. \A k \in 0 .. N - 1 : k + 1 < N => k + 1 \in 0 .. N - 1
      BY <3>2
    <3> QED BY <3>1, <3>2, <3>3 DEF Endpoints
  <2> QED BY <1>5, <2>1 DEF AdvanceIndex
<1>6. ASSUME NEW c \in Callers, AdvanceStats(c) PROVE MoreToTry'
  BY <1>6 DEF AdvanceStats
<1>7. ASSUME NEW c \in Callers, GiveUp(c) PROVE MoreToTry'
  BY <1>7 DEF GiveUp
<1>8. CASE UNCHANGED poolVars
  BY <1>8 DEF poolVars, callVars
<1> QED BY <1>1, <1>2, <1>3, <1>4, <1>5, <1>6, <1>7, <1>8 DEF PoolNext, Proceed

\* The index, the statistics and the calls stay well-formed: no call uses an
\* endpoint or an attempt that does not exist.
THEOREM PoolTypeCorrect == PoolSpec => [](TypeOK /\ MoreToTry)
<1>1. PoolInit => TypeOK /\ MoreToTry
  <2>1. PoolInit => 0 \in Endpoints
    BY PoolAssumption DEF Endpoints
  <2> QED BY <2>1 DEF PoolInit, TypeOK, MoreToTry, PoolPC
<1> QED BY <1>1, TypeStep, MoreToTryStep, PTL DEF PoolSpec

-----------------------------------------------------------------------------
(* The walk over the endpoints                                             *)

\* The endpoints of the first k attempts of a call.
Walked(c, k) == {(start[c] + i) % N : i \in 0 .. k - 1}

\* A call has asked exactly the endpoints its attempts stand for.
WalkInv ==
    \A c \in Callers :
        /\ pc[c] = "send" => tried[c] = Walked(c, attempt[c])
        /\ pc[c] \in {"wait", "stick", "failed", "rotated"}
              => tried[c] = Walked(c, attempt[c] + 1)
        /\ pc[c] = "stick" => reply[c] = "ok"

\* One more attempt asks one more endpoint.
LEMMA WalkedOneMore ==
    ASSUME TypeOK, NEW c \in Callers
    PROVE  Walked(c, attempt[c] + 1) = Walked(c, attempt[c]) \cup {Idx(c)}
<1>1. attempt[c] \in Nat
  BY PoolAssumption DEF TypeOK, Endpoints
<1>2. 0 .. (attempt[c] + 1) - 1 = (0 .. attempt[c] - 1) \cup {attempt[c]}
  BY <1>1
<1> QED BY <1>2 DEF Walked, Idx

\* Each access of the pool by a call keeps track of the walk.
LEMMA WalkStep ==
    TypeOK /\ MoreToTry /\ WalkInv /\ GivesUpOnlyAfterAll /\ [PoolNext]_poolVars
        => (WalkInv /\ GivesUpOnlyAfterAll)'
<1> SUFFICES ASSUME TypeOK, MoreToTry, WalkInv, GivesUpOnlyAfterAll, [PoolNext]_poolVars
             PROVE  (WalkInv /\ GivesUpOnlyAfterAll)'
  OBVIOUS
<1> DEFINE Tracked(c) ==
       /\ pc[c] = "send" => tried[c] = Walked(c, attempt[c])
       /\ pc[c] \in {"wait", "stick", "failed", "rotated"}
             => tried[c] = Walked(c, attempt[c] + 1)
       /\ pc[c] = "stick" => reply[c] = "ok"
       /\ pc[c] = "idle" /\ Retriable(reply[c]) => tried[c] = Endpoints
<1>1. \A c \in Callers : Tracked(c)
  BY DEF WalkInv, GivesUpOnlyAfterAll
<1>2. ASSUME NEW c \in Callers,
             UNCHANGED <<pc[c], start[c], attempt[c], reply[c], tried[c]>>
      PROVE  Tracked(c)'
  BY <1>1, <1>2 DEF Walked, Retriable
<1>3. ASSUME NEW c \in Callers, StartCall(c) PROVE Tracked(c)'
  <2>1. Walked(c, 0)' = {}
    BY DEF Walked
  <2>2. pc'[c] = "send" /\ tried'[c] = {} /\ attempt'[c] = 0
    BY <1>3 DEF StartCall, Goto, TypeOK
  <2> QED BY <2>1, <2>2 DEF Walked
<1>4. ASSUME NEW c \in Callers, Send(c) PROVE Tracked(c)'
  <2>1. /\ pc[c] = "send" /\ pc'[c] = "wait"
        /\ tried'[c] = tried[c] \cup {Idx(c)}
        /\ start' = start /\ attempt' = attempt
    BY <1>4 DEF Send, Goto, TypeOK
  <2>2. tried'[c] = Walked(c, attempt[c] + 1)
    BY <1>1, <2>1, WalkedOneMore
  <2> QED BY <2>1, <2>2 DEF Walked
<1>5. ASSUME NEW c \in Callers, NEW r \in Replies, Answer(c, r) PROVE Tracked(c)'
  <2>1. /\ pc[c] = "wait" /\ reply'[c] = r
        /\ pc'[c] = IF r = "ok" THEN "stick" ELSE "failed"
        /\ UNCHANGED <<start, attempt, tried>>
    BY <1>5 DEF Answer, Goto, TypeOK
  <2>2. tried'[c] = Walked(c, attempt[c] + 1)
    BY <1>1, <2>1
  <2> QED BY <2>1, <2>2 DEF Walked
<1>6. ASSUME NEW c \in Callers, Stick(c) PROVE Tracked(c)'
  BY <1>1, <1>6 DEF Stick, Goto, TypeOK, Retriable
<1>7. ASSUME NEW c \in Callers, AdvanceIndex(c) PROVE Tracked(c)'
  BY <1>1, <1>7 DEF AdvanceIndex, Goto, TypeOK, Walked
<1>8. ASSUME NEW c \in Callers, AdvanceStats(c) PROVE Tracked(c)'
  <2>1. /\ pc[c] = "rotated" /\ pc'[c] = "send"
        /\ attempt'[c] = attempt[c] + 1
        /\ UNCHANGED <<start, tried>>
    BY <1>8 DEF AdvanceStats, Goto, TypeOK
  <2>2. tried'[c] = Walked(c, attempt[c] + 1)
    BY <1>1, <2>1
  <2> QED BY <2>1, <2>2 DEF Walked
<1>9. ASSUME NEW c \in Callers, GiveUp(c) PROVE Tracked(c)'
  <2>1. /\ pc[c] = "failed" /\ pc'[c] = "idle"
        /\ UNCHANGED <<start, attempt, reply, tried>>
    BY <1>9 DEF GiveUp, Goto, TypeOK
  <2>2. ASSUME Retriable(reply[c]) PROVE tried[c] = Endpoints
    <3>1. attempt[c] + 1 = N
      <4>1. ~(attempt[c] + 1 < N)
        BY <1>9, <2>2 DEF GiveUp, MayRetry, Attempts
      <4>2. attempt[c] \in 0 .. N - 1 /\ N \in Nat
        BY PoolAssumption DEF TypeOK, Endpoints
      <4> QED BY <4>1, <4>2
    <3>2. tried[c] = Walked(c, N)
      BY <1>1, <2>1, <3>1
    <3>3. start[c] \in Endpoints
      BY DEF TypeOK
    <3> QED BY <3>2, <3>3, WalkCoversAll DEF Walked
  <2> QED BY <2>1, <2>2 DEF Retriable
<1>10. ASSUME NEW c \in Callers PROVE Tracked(c)'
  <2>1. CASE UNCHANGED poolVars
    BY <1>2, <2>1 DEF poolVars, callVars
  <2>2. ASSUME NEW d \in Callers, StartCall(d) \/ Proceed(d), d # c PROVE Tracked(c)'
    BY <1>2, <2>2
    DEF Proceed, StartCall, Send, Answer, Stick, AdvanceIndex, AdvanceStats, GiveUp, Goto, TypeOK
  <2>3. ASSUME StartCall(c) \/ Proceed(c) PROVE Tracked(c)'
    BY <1>3, <1>4, <1>5, <1>6, <1>7, <1>8, <1>9, <2>3 DEF Proceed
  <2> QED BY <2>1, <2>2, <2>3 DEF PoolNext
<1> QED BY <1>10 DEF WalkInv, GivesUpOnlyAfterAll

\* A retriable error reaches a caller only after every endpoint was asked.
THEOREM AllEndpointsAsked == PoolSpec => []GivesUpOnlyAfterAll
<1>1. PoolInit => WalkInv /\ GivesUpOnlyAfterAll
  BY DEF PoolInit, WalkInv, GivesUpOnlyAfterAll, Retriable
<1> QED BY <1>1, WalkStep, PoolTypeCorrect, PTL DEF PoolSpec

-----------------------------------------------------------------------------
(* The statistics                                                          *)

\* The calls at one of the places S with endpoint i.
At(S, i) == {c \in Callers : pc[c] \in S /\ Idx(c) = i}

\* A failed answer that is not yet a rotation is an error nobody rotated for.
StatsInv ==
    \A i \in Endpoints :
        /\ requests[i] = successes[i] + errors[i] + Cardinality(At({"wait"}, i))
        /\ rotations_away[i] + Cardinality(At({"failed", "rotated"}, i)) <= errors[i]

\* The places of a call other than c are left alone.
OnlyMoves(c) ==
    \A d \in Callers \ {c} : UNCHANGED <<pc[d], start[d], attempt[d]>>

\* There are finitely many calls.
LEMMA AtFinite ==
    ASSUME NEW S, NEW i
    PROVE  IsFiniteSet(At(S, i)) /\ Cardinality(At(S, i)) \in Nat
<1>1. At(S, i) \subseteq Callers /\ IsFiniteSet(Callers)
  BY PoolAssumption DEF At
<1> QED BY <1>1, FS_Subset, FS_CardinalityType

\* A call that comes to a place is counted there.
LEMMA AtEnter ==
    ASSUME NEW S, NEW i, NEW c \in Callers, OnlyMoves(c),
           pc[c] \notin S, pc'[c] \in S, Idx(c)' = i
    PROVE  Cardinality(At(S, i)') = Cardinality(At(S, i)) + 1
<1>1. At(S, i)' = At(S, i) \cup {c} /\ c \notin At(S, i)
  BY DEF At, OnlyMoves, Idx
<1> QED BY <1>1, AtFinite, FS_AddElement

\* A call that leaves a place is not counted there any more.
LEMMA AtLeave ==
    ASSUME NEW S, NEW i, NEW c \in Callers, OnlyMoves(c),
           pc[c] \in S, Idx(c) = i, pc'[c] \notin S
    PROVE  /\ Cardinality(At(S, i)') = Cardinality(At(S, i)) - 1
           /\ Cardinality(At(S, i)) > 0
<1>1. At(S, i)' = At(S, i) \ {c} /\ c \in At(S, i)
  BY DEF At, OnlyMoves, Idx
<1>2. Cardinality(At(S, i)) # 0
  BY <1>1, AtFinite, FS_EmptySet
<1>3. Cardinality(At(S, i) \ {c}) = Cardinality(At(S, i)) - 1
  BY <1>1, AtFinite, FS_RemoveElement
<1> QED BY <1>1, <1>2, <1>3, AtFinite

\* A step that neither enters nor leaves a place leaves its count alone.
LEMMA AtSame ==
    ASSUME NEW S, NEW i, NEW c \in Callers, OnlyMoves(c),
           (pc[c] \in S /\ Idx(c) = i) <=> (pc'[c] \in S /\ Idx(c)' = i)
    PROVE  At(S, i)' = At(S, i)
<1>1. ASSUME NEW d \in Callers \ {c} PROVE d \in At(S, i)' <=> d \in At(S, i)
  BY <1>1 DEF At, OnlyMoves, Idx
<1>2. c \in At(S, i)' <=> c \in At(S, i)
  BY DEF At
<1>3. At(S, i)' \subseteq Callers /\ At(S, i) \subseteq Callers
  BY DEF At
<1> QED BY <1>1, <1>2, <1>3

\* Each access of the pool by a call keeps the books.
LEMMA StatsStep == TypeOK /\ StatsInv /\ [PoolNext]_poolVars => StatsInv'
<1> SUFFICES ASSUME TypeOK, StatsInv, [PoolNext]_poolVars, NEW i \in Endpoints
             PROVE  /\ requests'[i] = successes'[i] + errors'[i]
                                        + Cardinality(At({"wait"}, i)')
                    /\ rotations_away'[i] + Cardinality(At({"failed", "rotated"}, i)')
                          <= errors'[i]
  BY DEF StatsInv
<1> DEFINE Waiting == At({"wait"}, i)
           Failed == At({"failed", "rotated"}, i)
<1>1. /\ requests[i] = successes[i] + errors[i] + Cardinality(Waiting)
      /\ rotations_away[i] + Cardinality(Failed) <= errors[i]
      /\ requests[i] \in Nat /\ successes[i] \in Nat
      /\ errors[i] \in Nat /\ rotations_away[i] \in Nat
      /\ Cardinality(Waiting) \in Nat /\ Cardinality(Failed) \in Nat
  BY AtFinite DEF StatsInv, TypeOK
<1> DEFINE Kept == /\ requests'[i] = successes'[i] + errors'[i] + Cardinality(Waiting')
                   /\ rotations_away'[i] + Cardinality(Failed') <= errors'[i]
<1> SUFFICES Kept
  OBVIOUS
<1>2. ASSUME UNCHANGED statVars, Waiting' = Waiting, Failed' = Failed PROVE Kept
  BY <1>1, <1>2 DEF statVars
<1>3. ASSUME NEW c \in Callers, StartCall(c) PROVE Kept
  <2>1. /\ pc[c] = "idle" /\ pc'[c] = "send" /\ UNCHANGED statVars
        /\ OnlyMoves(c)
    BY <1>3 DEF StartCall, Goto, TypeOK, OnlyMoves
  <2>2. Waiting' = Waiting
    BY <2>1, AtSame
  <2>3. Failed' = Failed
    BY <2>1, AtSame
  <2> QED BY <1>2, <2>1, <2>2, <2>3
<1>4. ASSUME NEW c \in Callers, Send(c) PROVE Kept
  <2>1. /\ pc[c] = "send" /\ pc'[c] = "wait" /\ OnlyMoves(c)
        /\ Idx(c)' = Idx(c)
        /\ requests' = [requests EXCEPT ![Idx(c)] = @ + 1]
        /\ UNCHANGED <<successes, errors, rotations_away>>
    BY <1>4 DEF Send, Goto, TypeOK, OnlyMoves, Idx
  <2>2. Failed' = Failed
    BY <2>1, AtSame
  <2>3. CASE Idx(c) = i
    <3>1. Cardinality(Waiting') = Cardinality(Waiting) + 1
      BY <2>1, <2>3, AtEnter
    <3>2. requests'[i] = requests[i] + 1
      BY <2>1, <2>3 DEF TypeOK
    <3> HIDE DEF Waiting, Failed
    <3> QED BY <1>1, <2>1, <2>2, <3>1, <3>2
  <2>4. CASE Idx(c) # i
    <3>1. Waiting' = Waiting
      BY <2>1, <2>4, AtSame
    <3>2. requests'[i] = requests[i]
      BY <2>1, <2>4 DEF TypeOK
    <3> HIDE DEF Waiting, Failed
    <3> QED BY <1>1, <2>1, <2>2, <3>1, <3>2
  <2> QED BY <2>3, <2>4
<1>5. ASSUME NEW c \in Callers, NEW r \in Replies, Answer(c, r) PROVE Kept
  <2>1. /\ pc[c] = "wait" /\ OnlyMoves(c) /\ Idx(c)' = Idx(c)
        /\ UNCHANGED <<requests, rotations_away>>
    BY <1>5 DEF Answer, Goto, TypeOK, OnlyMoves, Idx
  <2>2. CASE r = "ok"
    <3>1. /\ pc'[c] = "stick" /\ errors' = errors
          /\ successes' = [successes EXCEPT ![Idx(c)] = @ + 1]
      BY <1>5, <2>2 DEF Answer, Goto, TypeOK
    <3>2. Failed' = Failed
      BY <2>1, <3>1, AtSame
    <3>3. CASE Idx(c) = i
      <4>1. Cardinality(Waiting') = Cardinality(Waiting) - 1 /\ Cardinality(Waiting) > 0
        BY <2>1, <3>1, <3>3, AtLeave
      <4>2. successes'[i] = successes[i] + 1
        BY <3>1, <3>3 DEF TypeOK
      <4> HIDE DEF Waiting, Failed
      <4> QED BY <1>1, <2>1, <3>1, <3>2, <4>1, <4>2
    <3>4. CASE Idx(c) # i
      <4>1. Waiting' = Waiting
        BY <2>1, <3>1, <3>4, AtSame
      <4>2. successes'[i] = successes[i]
        BY <3>1, <3>4 DEF TypeOK
      <4> HIDE DEF Waiting, Failed
      <4> QED BY <1>1, <2>1, <3>1, <3>2, <4>1, <4>2
    <3> QED BY <3>3, <3>4
  <2>3. CASE r # "ok"
    <3>1. /\ pc'[c] = "failed" /\ successes' = successes
          /\ errors' = [errors EXCEPT ![Idx(c)] = @ + 1]
      BY <1>5, <2>3 DEF Answer, Goto, TypeOK
    <3>2. CASE Idx(c) = i
      <4>1. Cardinality(Waiting') = Cardinality(Waiting) - 1 /\ Cardinality(Waiting) > 0
        BY <2>1, <3>1, <3>2, AtLeave
      <4>2. Cardinality(Failed') = Cardinality(Failed) + 1
        BY <2>1, <3>1, <3>2, AtEnter
      <4>3. errors'[i] = errors[i] + 1
        BY <3>1, <3>2 DEF TypeOK
      <4> HIDE DEF Waiting, Failed
      <4> QED BY <1>1, <2>1, <3>1, <4>1, <4>2, <4>3
    <3>3. CASE Idx(c) # i
      <4>1. Waiting' = Waiting
        BY <2>1, <3>1, <3>3, AtSame
      <4>2. Failed' = Failed
        BY <2>1, <3>1, <3>3, AtSame
      <4>3. errors'[i] = errors[i]
        BY <3>1, <3>3 DEF TypeOK
      <4> HIDE DEF Waiting, Failed
      <4> QED BY <1>1, <2>1, <3>1, <4>1, <4>2, <4>3
    <3> QED BY <3>2, <3>3
  <2> QED BY <2>2, <2>3
<1>6. ASSUME NEW c \in Callers, Stick(c) \/ AdvanceIndex(c) \/ GiveUp(c) PROVE Kept
  <2>1. UNCHANGED statVars /\ OnlyMoves(c) /\ Idx(c)' = Idx(c) /\ pc'[c] # "wait"
    BY <1>6 DEF Stick, AdvanceIndex, GiveUp, Goto, TypeOK, OnlyMoves, Idx
  <2>2. Waiting' = Waiting
    <3>1. pc[c] # "wait"
      BY <1>6 DEF Stick, AdvanceIndex, GiveUp
    <3> QED BY <2>1, <3>1, AtSame
  <2>3. CASE Stick(c)
    <3>1. pc[c] = "stick" /\ pc'[c] = "idle"
      BY <2>3 DEF Stick, Goto, TypeOK
    <3>2. Failed' = Failed
      BY <2>1, <3>1, AtSame
    <3> QED BY <1>2, <2>1, <2>2, <3>2
  <2>4. CASE AdvanceIndex(c)
    <3>1. pc[c] = "failed" /\ pc'[c] = "rotated"
      BY <2>4 DEF AdvanceIndex, Goto, TypeOK
    <3>2. Failed' = Failed
      BY <2>1, <3>1, AtSame
    <3> QED BY <1>2, <2>1, <2>2, <3>2
  <2>5. CASE GiveUp(c)
    <3>1. pc[c] = "failed" /\ pc'[c] = "idle"
      BY <2>5 DEF GiveUp, Goto, TypeOK
    <3>2. Cardinality(Failed') <= Cardinality(Failed) /\ Cardinality(Failed') \in Nat
      <4>1. CASE Idx(c) = i
        <5>1. Cardinality(Failed') = Cardinality(Failed) - 1 /\ Cardinality(Failed) > 0
          BY <2>1, <3>1, <4>1, AtLeave
        <5> HIDE DEF Failed
        <5> QED BY <1>1, <5>1
      <4>2. CASE Idx(c) # i
        <5>1. Failed' = Failed
          BY <2>1, <3>1, <4>2, AtSame
        <5> HIDE DEF Failed
        <5> QED BY <1>1, <5>1
      <4> QED BY <4>1, <4>2
    <3> HIDE DEF Waiting, Failed
    <3> QED BY <1>1, <2>1, <2>2, <3>2 DEF statVars
  <2> QED BY <1>6, <2>3, <2>4, <2>5
<1>7. ASSUME NEW c \in Callers, AdvanceStats(c) PROVE Kept
  <2>1. /\ pc[c] = "rotated" /\ pc'[c] = "send" /\ OnlyMoves(c)
        /\ rotations_away' = [rotations_away EXCEPT ![Idx(c)] = @ + 1]
        /\ UNCHANGED <<requests, successes, errors>>
    BY <1>7 DEF AdvanceStats, Goto, TypeOK, OnlyMoves
  <2>2. Waiting' = Waiting
    BY <2>1, AtSame
  <2>3. CASE Idx(c) = i
    <3>1. Cardinality(Failed') = Cardinality(Failed) - 1 /\ Cardinality(Failed) > 0
      BY <2>1, <2>3, AtLeave
    <3>2. rotations_away'[i] = rotations_away[i] + 1
      BY <2>1, <2>3 DEF TypeOK
    <3> HIDE DEF Waiting, Failed
    <3> QED BY <1>1, <2>1, <2>2, <3>1, <3>2
  <2>4. CASE Idx(c) # i
    <3>1. Failed' = Failed
      BY <2>1, <2>4, AtSame
    <3>2. rotations_away'[i] = rotations_away[i]
      BY <2>1, <2>4 DEF TypeOK
    <3> HIDE DEF Waiting, Failed
    <3> QED BY <1>1, <2>1, <2>2, <3>1, <3>2
  <2> QED BY <2>3, <2>4
<1>8. CASE UNCHANGED poolVars
  <2>1. Waiting' = Waiting /\ Failed' = Failed
    BY <1>8 DEF poolVars, callVars, At, Idx
  <2> QED BY <1>2, <1>8, <2>1 DEF poolVars
<1> HIDE DEF Kept
<1> QED BY <1>3, <1>4, <1>5, <1>6, <1>7, <1>8 DEF PoolNext, Proceed

\* Requests balance with answers at every endpoint, whoever else is calling, and
\* the pool never rotates away from an endpoint more often than it failed.
THEOREM StatisticsBalance == PoolSpec => []StatsBalance
<1>1. PoolInit => StatsInv
  <2> SUFFICES ASSUME PoolInit PROVE StatsInv
    OBVIOUS
  <2>1. \A i : At({"wait"}, i) = {} /\ At({"failed", "rotated"}, i) = {}
    BY DEF PoolInit, At
  <2> QED BY <2>1, FS_EmptySet DEF PoolInit, StatsInv
<1>2. TypeOK /\ StatsInv => StatsBalance
  <2> SUFFICES ASSUME TypeOK, StatsInv, NEW i \in Endpoints
               PROVE  /\ requests[i] = successes[i] + errors[i]
                             + Cardinality({c \in Callers : pc[c] = "wait" /\ Idx(c) = i})
                      /\ rotations_away[i] <= errors[i]
    BY DEF StatsBalance
  <2>1. At({"wait"}, i) = {c \in Callers : pc[c] = "wait" /\ Idx(c) = i}
    BY DEF At
  <2>2. /\ rotations_away[i] \in Nat /\ errors[i] \in Nat
        /\ Cardinality(At({"failed", "rotated"}, i)) \in Nat
    BY AtFinite DEF TypeOK
  <2>3. /\ requests[i] = successes[i] + errors[i] + Cardinality(At({"wait"}, i))
        /\ rotations_away[i] + Cardinality(At({"failed", "rotated"}, i)) <= errors[i]
    BY DEF StatsInv
  <2>4. rotations_away[i] <= errors[i]
    BY <2>2, <2>3
  <2> QED BY <2>1, <2>3, <2>4
<1> QED BY <1>1, <1>2, StatsStep, PoolTypeCorrect, PTL DEF PoolSpec

-----------------------------------------------------------------------------
(* Providers: the failover multiplexer                                     *)

\* A slot that a task is about to record is already covered by the tip.
SlotInv ==
    /\ SlotWithinTip
    /\ \A t \in Tasks : task_pc[t] \in {"read_tip", "write"} => slot[t] <= tip_slot

\* Everything that can mark a provider unhealthy presupposes that it was chosen.
TriedInv ==
    /\ UntriedStaysHealthy
    /\ \A p \in Providers : last_event_ms[p] # 0 => p \in picked
    /\ \A t \in Tasks : task_pc[t] # "none" => provider[t] \in picked
    /\ sub_pc \in {"is_stale", "connect"} => chosen \in picked

\* Every step of subscribe, of a forwarding task and of the clock keeps the types.
LEMMA MuxTypeStep == MuxTypeOK /\ [MuxNext]_muxVars => MuxTypeOK'
<1> SUFFICES ASSUME MuxTypeOK, [MuxNext]_muxVars PROVE MuxTypeOK'
  OBVIOUS
<1> USE DEF MuxTypeOK
<1>1. RefreshedSilence \in [Providers -> BOOLEAN]
  BY DEF RefreshedSilence
<1>2. ASSUME NEW p \in Providers PROVE Disconnected(p) \in [Providers -> BOOLEAN]
  BY DEF Disconnected
<1>3. CASE SelectRefresh
  BY <1>1, <1>3 DEF SelectRefresh, taskVars
<1>4. CASE SelectChoose
  BY <1>4 DEF SelectChoose, trackerVars, taskVars
<1>5. CASE IsStale
  BY <1>1, <1>5 DEF IsStale, taskVars
<1>6. CASE ConnectOk
  BY <1>6 DEF ConnectOk, trackerVars
<1>7. CASE ConnectErr
  BY <1>2, <1>7 DEF ConnectErr, taskVars
<1>8. CASE AskActive
  BY <1>1, <1>8 DEF AskActive, subVars, taskVars
<1>9. CASE Drop
  BY <1>9 DEF Drop, trackerVars, taskVars
<1>10. ASSUME NEW t \in Tasks, Recv(t) PROVE MuxTypeOK'
  <2>1. PICK s \in EventSlots : slot' = [slot EXCEPT ![t] = s] /\ tip_slot' = RaisedTip(s)
    BY <1>10 DEF Recv
  <2>2. s \in Nat /\ tip_slot' \in Nat
    BY <2>1, FailoverAssumption DEF RaisedTip
  <2> QED BY <1>10, <2>1, <2>2 DEF Recv, subVars
<1>11. ASSUME NEW t \in Tasks, ReadTip(t) PROVE MuxTypeOK'
  BY <1>11 DEF ReadTip, trackerVars, subVars
<1>12. ASSUME NEW t \in Tasks, WriteProvider(t) PROVE MuxTypeOK'
  BY <1>12 DEF WriteProvider, subVars
<1>13. ASSUME NEW t \in Tasks, Deliver(t) PROVE MuxTypeOK'
  BY <1>13 DEF Deliver, trackerVars, subVars
<1>14. ASSUME NEW t \in Tasks, StreamEnd(t) PROVE MuxTypeOK'
  BY <1>14 DEF StreamEnd, trackerVars, subVars
<1>15. ASSUME NEW t \in Tasks, Close(t) PROVE MuxTypeOK'
  BY <1>2, <1>15 DEF Close
<1>16. CASE Tick
  BY <1>16 DEF Tick, trackerVars, subVars, taskVars
<1>17. CASE UNCHANGED muxVars
  BY <1>17 DEF muxVars, trackerVars, subVars, taskVars
<1> QED
  BY <1>3, <1>4, <1>5, <1>6, <1>7, <1>8, <1>9, <1>10, <1>11, <1>12, <1>13, <1>14,
     <1>15, <1>16, <1>17 DEF MuxNext, Subscribe, Forward

\* The state of the tracker, of subscribe and of the tasks stays well-formed.
THEOREM FailoverTypeCorrect == MuxSpec => []MuxTypeOK
<1>1. MuxInit => MuxTypeOK
  BY FailoverAssumption DEF MuxInit, MuxTypeOK, Providers
<1> QED BY <1>1, MuxTypeStep, PTL DEF MuxSpec

-----------------------------------------------------------------------------
(* Slots and the tip                                                       *)

\* record raises the tip before it writes the provider, so the tip covers the
\* slots in flight between its locks.
LEMMA SlotInvStep == MuxTypeOK /\ SlotInv /\ [MuxNext]_muxVars => SlotInv'
<1> SUFFICES ASSUME MuxTypeOK, SlotInv, [MuxNext]_muxVars PROVE SlotInv'
  OBVIOUS
<1> USE DEF MuxTypeOK, SlotInv, SlotWithinTip
<1>1. CASE UNCHANGED <<last_slot, tip_slot, slot, task_pc>>
  BY <1>1
<1>2. CASE ConnectOk
  BY <1>2 DEF ConnectOk, trackerVars
<1>3. ASSUME NEW t \in Tasks, Recv(t) PROVE SlotInv'
  <2>1. PICK s \in EventSlots : slot' = [slot EXCEPT ![t] = s] /\ tip_slot' = RaisedTip(s)
    BY <1>3 DEF Recv
  <2>2. s \in Nat /\ tip_slot' \in Nat /\ s <= tip_slot' /\ tip_slot <= tip_slot'
    BY <2>1, FailoverAssumption DEF RaisedTip
  <2>3. last_slot' = last_slot /\ task_pc' = [task_pc EXCEPT ![t] = "read_tip"]
    BY <1>3 DEF Recv
  <2>4. \A p \in Providers : last_slot'[p] <= tip_slot'
    BY <2>2, <2>3
  <2>5. ASSUME NEW u \in Tasks, task_pc'[u] \in {"read_tip", "write"}
        PROVE  slot'[u] <= tip_slot'
    <3>1. CASE u = t
      BY <2>1, <2>2, <3>1
    <3>2. CASE u # t
      BY <2>1, <2>2, <2>3, <2>5, <3>2
    <3> QED BY <3>1, <3>2
  <2> QED BY <2>4, <2>5
<1>4. ASSUME NEW t \in Tasks, ReadTip(t) PROVE SlotInv'
  BY <1>4 DEF ReadTip, trackerVars
<1>5. ASSUME NEW t \in Tasks, WriteProvider(t) PROVE SlotInv'
  BY <1>5 DEF WriteProvider
<1>6. ASSUME NEW t \in Tasks, Deliver(t) PROVE SlotInv'
  BY <1>6 DEF Deliver, trackerVars
<1>7. ASSUME NEW t \in Tasks, StreamEnd(t) PROVE SlotInv'
  BY <1>7 DEF StreamEnd, trackerVars
<1>8. ASSUME NEW t \in Tasks, Close(t) PROVE SlotInv'
  BY <1>8 DEF Close
<1> QED
  BY <1>1, <1>2, <1>3, <1>4, <1>5, <1>6, <1>7, <1>8
  DEF MuxNext, Subscribe, Forward, SelectRefresh, SelectChoose, IsStale, ConnectErr, AskActive,
      Drop, Tick, muxVars, trackerVars, taskVars

\* However many tasks are inside record, no provider's slot passes the tip.
THEOREM SlotsNeverPassTip == MuxSpec => []SlotWithinTip
<1>1. MuxInit => SlotInv
  BY DEF MuxInit, SlotInv, SlotWithinTip
<1>2. SlotInv => SlotWithinTip
  BY DEF SlotInv
<1> QED BY <1>1, <1>2, SlotInvStep, FailoverTypeCorrect, PTL DEF MuxSpec

-----------------------------------------------------------------------------
(* Providers not tried yet                                                 *)

\* Silence, refusal, lag and disconnection only strike providers that were tried.
LEMMA TriedInvStep == MuxTypeOK /\ TriedInv /\ [MuxNext]_muxVars => TriedInv'
<1> SUFFICES ASSUME MuxTypeOK, TriedInv, [MuxNext]_muxVars PROVE TriedInv'
  OBVIOUS
<1> USE DEF MuxTypeOK, TriedInv, UntriedStaysHealthy
<1>1. \A p \in Providers : ~RefreshedSilence[p] => p \in picked
  BY DEF RefreshedSilence, Silent
<1>2. ASSUME NEW q \in Providers, q \in picked
      PROVE  \A p \in Providers : ~Disconnected(q)[p] => p \in picked
  BY <1>2 DEF Disconnected
<1>3. CASE SelectRefresh
  BY <1>1, <1>3 DEF SelectRefresh, taskVars
<1>4. CASE SelectChoose
  BY <1>4 DEF SelectChoose, trackerVars, taskVars
<1>5. CASE IsStale
  BY <1>1, <1>5 DEF IsStale, taskVars
<1>6. CASE ConnectOk
  BY <1>6 DEF ConnectOk, trackerVars
<1>7. CASE ConnectErr
  BY <1>2, <1>7 DEF ConnectErr, taskVars
<1>8. CASE AskActive
  BY <1>1, <1>8 DEF AskActive, subVars, taskVars
<1>9. CASE Drop \/ Tick \/ UNCHANGED muxVars
  BY <1>9 DEF Drop, Tick, muxVars, trackerVars, subVars, taskVars
<1>10. ASSUME NEW t \in Tasks, Recv(t) PROVE TriedInv'
  BY <1>10 DEF Recv, subVars
<1>11. ASSUME NEW t \in Tasks, ReadTip(t) PROVE TriedInv'
  BY <1>11 DEF ReadTip, trackerVars, subVars
<1>12. ASSUME NEW t \in Tasks, WriteProvider(t) PROVE TriedInv'
  BY <1>12 DEF WriteProvider, subVars
<1>13. ASSUME NEW t \in Tasks, Deliver(t) PROVE TriedInv'
  BY <1>13 DEF Deliver, trackerVars, subVars
<1>14. ASSUME NEW t \in Tasks, StreamEnd(t) PROVE TriedInv'
  BY <1>14 DEF StreamEnd, trackerVars, subVars
<1>15. ASSUME NEW t \in Tasks, Close(t) PROVE TriedInv'
  <2>1. provider[t] \in Providers /\ provider[t] \in picked
    BY <1>15 DEF Close
  <2> QED BY <1>2, <1>15, <2>1 DEF Close
<1> QED
  BY <1>3, <1>4, <1>5, <1>6, <1>7, <1>8, <1>9, <1>10, <1>11, <1>12, <1>13, <1>14, <1>15
  DEF MuxNext, Subscribe, Forward

\* Failover never loses a provider it has not tried yet.
THEOREM UntriedStayCandidates == MuxSpec => []UntriedStaysHealthy
<1>1. MuxInit => TriedInv
  BY DEF MuxInit, TriedInv, UntriedStaysHealthy
<1>2. TriedInv => UntriedStaysHealthy
  BY DEF TriedInv
<1> QED BY <1>1, <1>2, TriedInvStep, FailoverTypeCorrect, PTL DEF MuxSpec
=============================================================================
