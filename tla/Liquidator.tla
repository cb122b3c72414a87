----------------------------- MODULE Liquidator -----------------------------
(***************************************************************************)
(* The loop of the liquidator binary (bins/liquidator/src/main.rs, lines   *)
(* 214-437): borrower fixtures are loaded into the index, the mock stream  *)
(* delivers the ticks of the feed, each tick goes through the oracle path, *)
(* each hit is planned and, in live mode, executed behind the breaker.     *)
(*                                                                         *)
(* The loop is the only task that uses the breaker, so a call of execute   *)
(* is one action here (module Execution has its steps).  The breaker is    *)
(* never reset by the binary and the clock appears as Age: spending leaves *)
(* the rolling window.  The outcome of evaluate_funding (module Funding)   *)
(* is chosen per account at the start, as the economics of a fixture are   *)
(* fixed.  The stream carries price events only (ticks_to_events).         *)
(* Building, logging and simulating the transaction change no state here.  *)
(***************************************************************************)
EXTENDS OraclePath, Sequences

CONSTANTS MaxTicks,                \* LIQ_LOOP_TICKS
          Feeds,                   \* the oracle_ticks.json files considered
          Borrowers,               \* account -> triggers in borrowers.json
          Notional,                \* notional of a planned liquidation
          MaxNotionalPerWindow,    \* limits.max_notional_per_minute_usd_micro
          MaxConsecutiveFailures   \* limits.max_consecutive_failures

Tick == [asset : Assets, entry : Store!Entry]

ASSUME LiquidatorAssumption ==
    /\ MaxTicks \in Nat
    /\ Feeds \subseteq Seq(Tick)
    /\ Borrowers \in [Accounts -> SUBSET Trigger]
    /\ Notional \in Nat
    /\ MaxNotionalPerWindow \in Nat
    /\ MaxConsecutiveFailures \in Nat \ {0}

VARIABLES dry,         \* DRY_RUN
          feed,        \* events, kept for re-arming
          rx,          \* what is left in the channel
          phase,       \* "recv", "hits" (a tick's hits are processed), "done"
          ticks_done,
          pending,     \* hits of the current tick still to be processed
          decision,    \* account -> what evaluate_funding says of its best path
          open, consecutive_failures, rolling,   \* the CircuitBreaker
          begun,       \* history: accounts whose liquidation was begun
          attempts     \* history: number of liquidations begun

loopVars == <<dry, feed, rx, phase, ticks_done, pending, decision>>
riskVars == <<open, consecutive_failures, rolling, begun, attempts>>
liqVars == <<vars, loopVars, riskVars>>

\* Loading: set_triggers for every borrower, upsert_candidate for those whose
\* protocol and band parse (`if let Ok(meta)`).
LoadIndex ==
    /\ by_account \in [Accounts -> {"Hot", NoBand}]
    /\ by_band = [b \in Bands |-> {acc \in Accounts : by_account[acc] = b}]
    /\ account_triggers = Borrowers
    /\ by_asset = UNION {EntriesOf(acc, Borrowers[acc]) : acc \in Accounts}

LiqInit ==
    /\ LoadIndex
    /\ oracle_store = [a \in Assets |-> NoEntry]
    /\ prices = [a \in Assets |-> NoPrice]
    /\ hits = {}
    /\ dropped = {}
    /\ armed = {}
    /\ awake = {}
    /\ dry \in BOOLEAN
    /\ feed \in Feeds
    /\ rx = feed
    /\ phase = "recv"
    /\ ticks_done = 0
    /\ pending = {}
    /\ decision \in [Accounts -> {"accept", "reject", "infeasible"}]
    /\ open = FALSE
    /\ consecutive_failures = 0
    /\ rolling = 0
    /\ begun = {}
    /\ attempts = 0

Recv ==
    /\ phase = "recv"
    /\ ticks_done < MaxTicks
    /\ rx # << >>
    /\ ApplyOracleUpdate(Head(rx).asset, Head(rx).entry)
    /\ rx' = Tail(rx)
    /\ pending' = hits'
    /\ phase' = "hits"
    /\ UNCHANGED <<dry, feed, ticks_done, decision, riskVars>>

\* `index.get` finds the candidate and evaluate_funding a best path.
Plannable(acc) == by_account[acc] # NoBand /\ decision[acc] # "infeasible"

\* Mutant: the breaker is not asked whether it is open.
Allowed_OpenIgnored == rolling + Notional <= MaxNotionalPerWindow

\* check_allow(notional, 0): the loop passes a staleness of 0, and a notional
\* within the limit for one liquidation.
Allowed == ~open /\ rolling + Notional <= MaxNotionalPerWindow

\* execute in live mode: begin, then end_failure, which trips at the limit.
Execute(acc) ==
    IF Allowed
    THEN /\ rolling' = rolling + Notional
         /\ consecutive_failures' = consecutive_failures + 1
         /\ open' = (open \/ consecutive_failures + 1 >= MaxConsecutiveFailures)
         /\ begun' = begun \cup {acc}
         /\ attempts' = attempts + 1
    ELSE UNCHANGED riskVars

\* One iteration of `for hit in hits`; the order is that of a HashSet.
ProcessHit ==
    /\ phase = "hits"
    /\ \E h \in pending :
          /\ pending' = pending \ {h}
          /\ IF Plannable(h.account) /\ ~dry THEN Execute(h.account) ELSE UNCHANGED riskVars
    /\ UNCHANGED <<vars, dry, feed, rx, phase, ticks_done, decision>>

\* Mutant: the tick is not counted.
EndTick_Uncounted ==
    /\ phase = "hits"
    /\ pending = {}
    /\ phase' = "recv"
    /\ UNCHANGED <<vars, dry, feed, rx, ticks_done, pending, decision, riskVars>>

EndTick ==
    /\ phase = "hits"
    /\ pending = {}
    /\ ticks_done' = ticks_done + 1
    /\ phase' = "recv"
    /\ UNCHANGED <<vars, dry, feed, rx, pending, decision, riskVars>>

\* Mutant: the loop gives up one re-arm early.
WantsMore_Early == dry /\ ticks_done + 2 < MaxTicks

WantsMore == dry /\ ticks_done + 1 < MaxTicks

\* recv returns None: a dry loop subscribes again, ...
Rearm ==
    /\ phase = "recv"
    /\ ticks_done < MaxTicks
    /\ rx = << >>
    /\ WantsMore
    /\ rx' = feed
    /\ UNCHANGED <<vars, dry, feed, phase, ticks_done, pending, decision, riskVars>>

\* ... any other ends, and so does one that has done its ticks.
Stop ==
    /\ phase = "recv"
    /\ ticks_done < MaxTicks => rx = << >> /\ ~WantsMore
    /\ phase' = "done"
    /\ UNCHANGED <<vars, dry, feed, rx, ticks_done, pending, decision, riskVars>>

Loop == Recv \/ ProcessHit \/ EndTick \/ Rearm \/ Stop

\* Events leave the rolling window as time passes.
Age ==
    /\ phase # "done"
    /\ \E r \in 0 .. rolling - 1 : rolling' = r
    /\ UNCHANGED <<vars, loopVars, open, consecutive_failures, begun, attempts>>

LiqNext == Loop \/ Age

\* The mock stream always has an answer ready, so the loop never waits.
LiqSpec == LiqInit /\ [][LiqNext]_liqVars /\ WF_liqVars(Loop)

-----------------------------------------------------------------------------
(* Properties                                                              *)

\* A live bot, whose submissions all fail as long as no submission path is
\* wired, stops after max_consecutive_failures of them, however many hits the
\* feed brings and however the window empties; a dry one never begins any.
AttemptsBounded == attempts <= (IF dry THEN 0 ELSE MaxConsecutiveFailures)

\* The loop ends if its tick file has a tick ("Cap liquidator loop iterations"): a
\* dry loop subscribes again without counting anything, so only what the next
\* replay delivers brings it nearer to the cap.
LoopEnds == feed # << >> => <>(phase = "done")

\* A dry loop over a feed that is not empty stops at its cap, or one tick before
\* it when the feed happens to run out there: whole replays never overrun it.
EndsAtCap ==
    (phase = "done" /\ dry /\ feed # << >>) =>
        ticks_done <= MaxTicks /\ ticks_done + 1 >= MaxTicks

\* "Profit gates before submit": what is begun had an accepted plan.
OnlyAcceptedBegin == \A acc \in begun : decision[acc] = "accept"
=============================================================================
