------------------------------ MODULE Failover ------------------------------
(***************************************************************************)
(* FreshnessTracker and FailoverMux                                        *)
(* (crates/liq-streaming/src/failover.rs).                                 *)
(*                                                                         *)
(* A consumer without a stream calls subscribe until it gets one.  Every   *)
(* successful subscribe spawns a task that forwards the provider's events  *)
(* and records their slots.  A task outlives the consumer's interest: it   *)
(* notices at its next send that the receiver is gone, so a task of an     *)
(* earlier subscription may still run beside the current one.  A step is   *)
(* one lock acquisition of the tracker.                                    *)
(*                                                                         *)
(* Providers are their registration order.  Any of them may refuse every   *)
(* subscription; the streams of the others deliver any slot, stay silent,  *)
(* or, if StreamsEnd, end.  Events are kept as their slot; the bounded     *)
(* channel to the consumer is a send that may be delayed.                  *)
(***************************************************************************)
EXTENDS Integers, FiniteSets

CONSTANTS P,            \* number of registered providers, 1 .. P
          EventSlots,   \* slots of events
          Tasks,        \* bound of the model: identities of running forwarding tasks
          MaxSlotLag,   \* policy.max_slot_lag
          MaxSilence,   \* policy.max_silence_ms, in clock ticks
          MaxTime,      \* bound of the model: the last clock tick
          StreamsEnd,   \* may a provider end a stream it has opened?
          NoTask        \* the consumer has no stream

Providers == 1 .. P

ASSUME FailoverAssumption ==
    /\ P \in Nat \ {0}
    /\ EventSlots \subseteq Nat
    /\ MaxSlotLag \in Nat
    /\ MaxSilence \in Nat
    /\ MaxTime \in Nat
    /\ StreamsEnd \in BOOLEAN
    /\ NoTask \notin Tasks

VARIABLES last_slot, last_event_ms, healthy,  \* Vec<ProviderFreshness>
          tip_slot,    \* RwLock<u64>
          now_ms,      \* wall clock, at least 1 (0 is "no event yet")
          sub_pc,      \* where the consumer's subscribe call is
          chosen,      \* the provider it has chosen
          stream,      \* the task the consumer receives from, or NoTask
          task_pc,     \* per task: what it does next, "none" if not running
          provider,    \* per task: its provider
          slot, ts, tip,  \* per task: locals of record
          picked,      \* history: providers subscribe has chosen so far
          dead         \* the providers that refuse every subscription

trackerVars == <<last_slot, last_event_ms, healthy, tip_slot>>
subVars == <<sub_pc, chosen, stream, picked, dead>>
taskVars == <<task_pc, provider, slot, ts, tip>>
muxVars == <<trackerVars, now_ms, subVars, taskVars>>

MuxTypeOK ==
    /\ last_slot \in [Providers -> Nat]
    /\ last_event_ms \in [Providers -> Nat]
    /\ healthy \in [Providers -> BOOLEAN]
    /\ tip_slot \in Nat
    /\ now_ms \in Nat \ {0}
    /\ sub_pc \in {"idle", "choose", "is_stale", "connect"}
    /\ chosen \in Providers
    /\ stream \in Tasks \cup {NoTask}
    /\ task_pc \in [Tasks -> {"none", "recv", "read_tip", "write", "send", "close"}]
    /\ provider \in [Tasks -> Providers]
    /\ slot \in [Tasks -> Nat]
    /\ ts \in [Tasks -> Nat]
    /\ tip \in [Tasks -> Nat]
    /\ picked \in SUBSET Providers
    /\ dead \in SUBSET Providers

MuxInit ==
    /\ last_slot = [p \in Providers |-> 0]
    /\ last_event_ms = [p \in Providers |-> 0]
    /\ healthy = [p \in Providers |-> TRUE]
    /\ tip_slot = 0
    /\ now_ms = 1
    /\ sub_pc = "idle"
    /\ chosen = 1
    /\ stream = NoTask
    /\ task_pc = [t \in Tasks |-> "none"]
    /\ provider = [t \in Tasks |-> 1]
    /\ slot = [t \in Tasks |-> 0]
    /\ ts = [t \in Tasks |-> 0]
    /\ tip = [t \in Tasks |-> 0]
    /\ picked = {}
    /\ dead \in SUBSET Providers

-----------------------------------------------------------------------------
(* The tracker's methods, as what they do to healthy                       *)

\* Mutant: a provider nobody has heard from is treated as silent since time 0.
Silent_UnheardToo(p) == now_ms - last_event_ms[p] > MaxSilence

\* refresh_silence skips a provider without an event.
Silent(p) == last_event_ms[p] # 0 /\ now_ms - last_event_ms[p] > MaxSilence

RefreshedSilence == [p \in Providers |-> healthy[p] /\ ~Silent(p)]

Disconnected(p) == [healthy EXCEPT ![p] = FALSE]

\* "First healthy provider in registration order; otherwise the freshest by
\* slot", where max_by_key takes the last of several equally fresh ones.
IsPrimary(p) ==
    IF \E q \in Providers : healthy[q]
    THEN healthy[p] /\ \A q \in Providers : healthy[q] => p <= q
    ELSE \A q \in Providers :
            \/ last_slot[q] < last_slot[p]
            \/ last_slot[q] = last_slot[p] /\ q <= p

-----------------------------------------------------------------------------
(* subscribe                                                               *)

\* select_primary refreshes the silence ...
SelectRefresh ==
    /\ sub_pc = "idle"
    /\ stream = NoTask
    /\ \E t \in Tasks : task_pc[t] = "none"
    /\ healthy' = RefreshedSilence
    /\ sub_pc' = "choose"
    /\ UNCHANGED <<last_slot, last_event_ms, tip_slot, now_ms, chosen, stream, picked, dead,
                   taskVars>>

\* ... and then reads the providers under a new lock.
SelectChoose ==
    /\ sub_pc = "choose"
    /\ \E p \in Providers :
          /\ IsPrimary(p)
          /\ chosen' = p
          /\ picked' = picked \cup {p}
    /\ sub_pc' = "is_stale"
    /\ UNCHANGED <<trackerVars, now_ms, stream, dead, taskVars>>

\* is_stale only decides whether to log a warning, but it refreshes again.
IsStale ==
    /\ sub_pc = "is_stale"
    /\ healthy' = RefreshedSilence
    /\ sub_pc' = "connect"
    /\ UNCHANGED <<last_slot, last_event_ms, tip_slot, now_ms, chosen, stream, picked, dead,
                   taskVars>>

\* The provider accepts: a forwarding task is spawned.
ConnectOk ==
    /\ sub_pc = "connect"
    /\ chosen \notin dead
    /\ \E t \in Tasks :
          /\ task_pc[t] = "none"
          /\ task_pc' = [task_pc EXCEPT ![t] = "recv"]
          /\ provider' = [provider EXCEPT ![t] = chosen]
          /\ stream' = t
    /\ sub_pc' = "idle"
    /\ UNCHANGED <<trackerVars, now_ms, chosen, slot, ts, tip, picked, dead>>

\* Mutant: the error is returned without marking the provider.
ConnectErr_NotMarked ==
    /\ sub_pc = "connect"
    /\ chosen \in dead
    /\ sub_pc' = "idle"
    /\ UNCHANGED <<trackerVars, now_ms, chosen, stream, picked, dead, taskVars>>

\* The provider refuses: it is marked and the error returned to the consumer.
ConnectErr ==
    /\ sub_pc = "connect"
    /\ chosen \in dead
    /\ healthy' = Disconnected(chosen)
    /\ sub_pc' = "idle"
    /\ UNCHANGED <<last_slot, last_event_ms, tip_slot, now_ms, chosen, stream, picked, dead,
                   taskVars>>

\* active_provider, tracker().is_stale: anyone may ask, and asking refreshes.
AskActive ==
    /\ healthy' = RefreshedSilence
    /\ UNCHANGED <<last_slot, last_event_ms, tip_slot, now_ms, subVars, taskVars>>

Subscribe == SelectRefresh \/ SelectChoose \/ IsStale \/ ConnectOk \/ ConnectErr

\* The consumer drops its receiver; the task does not know yet.  A bound of the
\* model: only while a task identity is left for the next subscription.
Drop ==
    /\ \E t \in Tasks : task_pc[t] = "none"
    /\ stream # NoTask
    /\ stream' = NoTask
    /\ UNCHANGED <<trackerVars, now_ms, sub_pc, chosen, picked, dead, taskVars>>

-----------------------------------------------------------------------------
(* The forwarding task, record included                                    *)

\* Mutant: the tip follows the last event instead of the highest slot.
RaisedTip_Last(s) == s

RaisedTip(s) == IF s > tip_slot THEN s ELSE tip_slot

\* An event arrives; record reads the clock and raises the tip.
Recv(t) ==
    /\ task_pc[t] = "recv"
    /\ \E s \in EventSlots :
          /\ slot' = [slot EXCEPT ![t] = s]
          /\ tip_slot' = RaisedTip(s)
    /\ ts' = [ts EXCEPT ![t] = now_ms]
    /\ task_pc' = [task_pc EXCEPT ![t] = "read_tip"]
    /\ UNCHANGED <<last_slot, last_event_ms, healthy, now_ms, subVars, provider, tip>>

ReadTip(t) ==
    /\ task_pc[t] = "read_tip"
    /\ tip' = [tip EXCEPT ![t] = tip_slot]
    /\ task_pc' = [task_pc EXCEPT ![t] = "write"]
    /\ UNCHANGED <<trackerVars, now_ms, subVars, provider, slot, ts>>

\* saturating_sub: a slot ahead of the tip that was read has no lag.  record returns,
\* and its locals are gone.
WriteProvider(t) ==
    /\ task_pc[t] = "write"
    /\ last_slot' = [last_slot EXCEPT ![provider[t]] = slot[t]]
    /\ last_event_ms' = [last_event_ms EXCEPT ![provider[t]] = ts[t]]
    /\ healthy' = [healthy EXCEPT ![provider[t]] = tip[t] - slot[t] <= MaxSlotLag]
    /\ task_pc' = [task_pc EXCEPT ![t] = "send"]
    /\ slot' = [slot EXCEPT ![t] = 0]
    /\ ts' = [ts EXCEPT ![t] = 0]
    /\ tip' = [tip EXCEPT ![t] = 0]
    /\ UNCHANGED <<tip_slot, now_ms, subVars, provider>>

\* tx_out.send fails exactly when the consumer has dropped the receiver.
Deliver(t) ==
    /\ task_pc[t] = "send"
    /\ task_pc' = [task_pc EXCEPT ![t] = IF stream = t THEN "recv" ELSE "close"]
    /\ UNCHANGED <<trackerVars, now_ms, subVars, provider, slot, ts, tip>>

\* The provider ends the stream.
StreamEnd(t) ==
    /\ StreamsEnd
    /\ task_pc[t] = "recv"
    /\ task_pc' = [task_pc EXCEPT ![t] = "close"]
    /\ UNCHANGED <<trackerVars, now_ms, subVars, provider, slot, ts, tip>>

\* mark_disconnected, then the sender is dropped and the consumer sees the end.
Close(t) ==
    /\ task_pc[t] = "close"
    /\ healthy' = Disconnected(provider[t])
    /\ task_pc' = [task_pc EXCEPT ![t] = "none"]
    /\ stream' = IF stream = t THEN NoTask ELSE stream
    /\ UNCHANGED <<last_slot, last_event_ms, tip_slot, now_ms, sub_pc, chosen, picked, dead,
                   provider, slot, ts, tip>>

\* The task's own steps; when events come is the provider's choice.
Forward(t) == ReadTip(t) \/ WriteProvider(t) \/ Deliver(t) \/ Close(t)

Tick ==
    /\ now_ms < MaxTime
    /\ now_ms' = now_ms + 1
    /\ UNCHANGED <<trackerVars, subVars, taskVars>>

MuxNext ==
    \/ Subscribe
    \/ AskActive
    \/ Drop
    \/ \E t \in Tasks : Recv(t) \/ StreamEnd(t) \/ Forward(t)
    \/ Tick

MuxSpec == MuxInit /\ [][MuxNext]_muxVars

\* The consumer tries again as long as it has no stream, and tokio runs a task
\* that has something to do.  Nothing is assumed of providers, drops or time.
MuxFairSpec == MuxSpec /\ WF_muxVars(Subscribe) /\ \A t \in Tasks : WF_muxVars(Forward(t))

-----------------------------------------------------------------------------
(* Properties                                                              *)

\* No provider's recorded slot is ahead of the tip its lag is measured from,
\* although record takes three locks one after the other and the tasks of two
\* subscriptions may be inside it at once.
SlotWithinTip ==
    \A p \in Providers : last_slot[p] <= tip_slot

\* A provider is never written off before subscribe has chosen it once: silence,
\* lag, refusal and disconnection all presuppose a subscription.  What failover
\* relies on is that the providers not tried yet stay candidates.
UntriedStaysHealthy ==
    \A p \in Providers : ~healthy[p] => p \in picked

\* Some provider that accepts subscriptions has not been tried, has delivered an event,
\* or is the last one registered, which is chosen when all are marked and equally old.
CanServe ==
    \E p \in Providers \ dead : p \notin picked \/ last_slot[p] > 0 \/ p = P

\* A consumer without a stream gets one as long as CanServe: refusals, streams that
\* ended and late marks by the tasks of earlier subscriptions are worked through, in
\* whatever position the refusing providers are registered ("picks a live primary").
ConsumerGetsStream == stream = NoTask /\ CanServe ~> stream # NoTask
=============================================================================
