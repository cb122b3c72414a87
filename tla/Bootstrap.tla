------------------------------ MODULE Bootstrap ------------------------------
(***************************************************************************)
(* How accounts get into the liquidator's StateStore: the bootstrap of     *)
(* bins/liquidator/src/main.rs (demo fixtures, or the known accounts after *)
(* a discovery), and the two feeds of crates/liq-streaming/src/bootstrap.rs *)
(* that library clients combine, JSON-RPC snapshots (apply_raw_to_store)   *)
(* and streamed updates (apply_account_update).                            *)
(*                                                                         *)
(* The chain is the sequence of its writes; the payload of an account is   *)
(* the number of the write it stems from, so that two states of an account *)
(* can be compared in time.  A stream delivers any write, late, again or   *)
(* never.  A snapshot is taken at one moment and its rows are upserted one *)
(* by one, each under the store's lock, between other steps.  The rows of  *)
(* the bootstrap itself are all there before the liquidator opens its      *)
(* stream; the stream is then applied whatever they were.  Owners,         *)
(* lamports and the base64 of the data are left out, except that a row     *)
(* lacking one of them fails its whole reply.                              *)
(***************************************************************************)
EXTENDS StateStore, Sequences, FiniteSets

CONSTANTS LiveKeys,   \* accounts on chain: the known market and group accounts
          DemoKeys,   \* FixtureBootstrap::demo_for_protocols
          MaxWrites,  \* bound: writes on chain
          MaxSlot     \* bound: slots

ASSUME KeysAssumption == LiveKeys \cap DemoKeys = {} /\ Keys = LiveKeys \cup DemoKeys

\* A slot and a write version are u64, of which the bounds leave these.
ASSUME BoundsAssumption ==
    /\ MaxWrites \in Nat /\ MaxSlot \in Nat \ {0}
    /\ 0..MaxSlot \subseteq Slots
    /\ 0..MaxWrites \subseteq Values \cap WriteVersions

VARIABLES writes,   \* what happened on chain: [key, slot], in order
          now,      \* the node's slot
          boot,     \* start, discover, fetch, load, ready
          pending   \* rows [key, entry] of a reply still to be upserted

chainVars == <<writes, now>>
bootVars == <<boot, pending>>
vars == <<storeVars, chainVars, bootVars>>

Init ==
    /\ StoreInit
    /\ writes = << >> /\ now = 1
    /\ boot = "start" /\ pending = {}

-----------------------------------------------------------------------------
(* JSON-RPC replies                                                        *)

\* The number of the last write to k by slot s; 0 before the first: k is not there.
VersionAt(k, s) ==
    LET mine == {i \in 1..Len(writes) : writes[i].key = k /\ writes[i].slot <= s}
    IN IF mine = {} THEN 0 ELSE CHOOSE i \in mine : \A j \in mine : j <= i

\* Mutant: stamped with the slot of a request made afterwards.
ResultSlot_Later(method) == IF method = "getProgramAccounts" THEN 0 ELSE now + 1

\* result_slot: the context's slot; a plain getProgramAccounts reply has no context.
ResultSlot(method) == IF method = "getProgramAccounts" THEN 0 ELSE now

\* parse_account_value: null is no row.  A value without lamports, owner or data that can
\* be decoded fails the whole reply, which its callers treat as a failed request.
ParseAccountValue(k, slot, val) ==
    IF val = 0 THEN {}
    ELSE {[key |-> k, entry |-> [slot |-> slot, write_version |-> 0, decoded |-> val]]}

\* get_multiple_accounts and get_program_accounts; apply_raw_to_store gives every row
\* write version 0.
Reply(method) ==
    UNION {ParseAccountValue(k, ResultSlot(method), VersionAt(k, now)) : k \in LiveKeys}

DemoRows ==
    {[key |-> k, entry |-> [slot |-> 1, write_version |-> 0, decoded |-> 0]] : k \in DemoKeys}

-----------------------------------------------------------------------------
(* Actions                                                                 *)

\* main: LIQ_FIXTURES, no configured URL, or no pool: the demo accounts; otherwise
\* the discovery.
Start ==
    /\ boot = "start"
    /\ \/ boot' = "load" /\ pending' = DemoRows
       \/ boot' = "discover" /\ UNCHANGED pending
    /\ UNCHANGED <<storeVars, chainVars>>

\* Mutant: the fallback is loaded and the known accounts are fetched all the same.
Discovered_FallsThrough ==
    /\ boot' = "fetch"
    /\ pending' \in {{}, DemoRows}

\* main: discover_mainnet returned (module Discovery); an error means the demo accounts.
Discovered ==
    \/ boot' = "fetch" /\ UNCHANGED pending
    \/ boot' = "load" /\ pending' = DemoRows

Discover == boot = "discover" /\ Discovered /\ UNCHANGED <<storeVars, chainVars>>

\* main: the known accounts.  A failed request, an error reply or a row that cannot
\* be parsed is ignored, and the store stays empty.
Fetch ==
    /\ boot = "fetch" /\ pending = {}
    /\ boot' = "load"
    /\ pending' \in {{}, Reply("getMultipleAccounts")}
    /\ UNCHANGED <<storeVars, chainVars>>

\* apply_raw_to_store, one upsert.
LoadRow ==
    \E row \in pending :
        /\ Upsert(row.key, row.entry)
        /\ pending' = pending \ {row}
        /\ UNCHANGED <<chainVars, boot>>

\* main: the store is filled and the stream is opened.
Loaded ==
    /\ boot = "load" /\ pending = {} /\ boot' = "ready"
    /\ UNCHANGED <<storeVars, chainVars, pending>>

\* A client's later snapshot; one that fails changes nothing.
Snapshot ==
    /\ boot = "ready" /\ pending = {}
    /\ \/ \E method \in {"getMultipleAccounts", "getProgramAccounts"} : pending' = Reply(method)
       \/ \E row \in Reply("getAccountInfo") : pending' = {row}
    /\ UNCHANGED <<storeVars, chainVars, boot>>

\* apply_account_update: the stream's slot and write version, which grows with every
\* write on the node.
ApplyAccountUpdate ==
    /\ boot = "ready"
    /\ \E i \in DOMAIN writes :
         Upsert(writes[i].key, [slot |-> writes[i].slot, write_version |-> i, decoded |-> i])
    /\ UNCHANGED <<chainVars, bootVars>>

\* StateStore::remove and retain, by a client.
Forget ==
    /\ boot = "ready"
    /\ \/ \E k \in Keys : inner[k] # None /\ Remove(k)
       \/ \E keep \in SUBSET Keys : Retain(keep)
    /\ UNCHANGED <<chainVars, bootVars>>

\* The chain: a transaction writes an account, a new slot begins.
Write ==
    /\ Len(writes) < MaxWrites
    /\ \E k \in LiveKeys : writes' = Append(writes, [key |-> k, slot |-> now])
    /\ UNCHANGED <<storeVars, now, bootVars>>

NextSlot ==
    /\ now < MaxSlot /\ now' = now + 1
    /\ UNCHANGED <<storeVars, writes, bootVars>>

Next ==
    \/ Start \/ Discover \/ Fetch \/ LoadRow \/ Loaded
    \/ Snapshot \/ ApplyAccountUpdate \/ Forget
    \/ Write \/ NextSlot

Spec == Init /\ [][Next]_vars

-----------------------------------------------------------------------------
(* Properties                                                              *)

LiveEntry(k) == k \in LiveKeys /\ inner[k] # None

\* An entry under slot s has every write of the slots before s, whether a snapshot
\* or the stream brought it and whatever was delivered late: its slot never claims
\* more than its data has (result_slot, apply_raw_to_store, apply_account_update).
AsNewAsItsSlot ==
    \A k \in Keys : LiveEntry(k) => inner[k].decoded >= VersionAt(k, inner[k].slot - 1)

\* A replacement takes an account back in time only to an earlier state of the very
\* slot its entry has, or from a row of getProgramAccounts, which has slot 0.
NeverBackPastASlot ==
    [][\A k \in Keys :
          LiveEntry(k) /\ inner'[k] # None /\ inner'[k].decoded < inner[k].decoded
              => inner[k].slot \in {0, writes[inner'[k].decoded].slot}]_vars

\* The bootstrap hands over a store of demo accounts or one of accounts of the chain,
\* whichever of its requests fails, never some of each (main, lines 142-202).  What the
\* stream adds afterwards is applied to either.
DemoOrLive ==
    boot # "ready" /\ (\E k \in DemoKeys : inner[k] # None)
        => \A k \in LiveKeys : inner[k] = None
=============================================================================
