# Grokbotliq: TLA+ models, model checking and proofs

Grokbotliq watches lending protocols on Solana (Kamino, Save, Project 0), keeps
an index of borrowers by the oracle prices that would make them liquidatable,
wakes a borrower when such a price is crossed, chooses how to fund the
liquidation, and submits it behind a circuit breaker. This directory holds TLA+
modules of the program's own logic, the configurations under which TLC checks
them, and theorems about them checked by TLAPS.

Contents: 1. the system and its parts; 2. plan; 3. modules and the code;
4. runs, bounds and fairness; 5. proofs; 6. where the code and its documents
disagree; 7. what is not modelled.

## 1. Inventory

Paths are relative to `src/`. "Shared" says what several tasks may hold at once.

| Component | State | Operations | Hard behaviour | What makes it correct |
|---|---|---|---|---|
| StateStore `crates/liq-core/src/state_store.rs` | one `RwLock<HashMap>`: key -> (slot, write_version, data) | `upsert`, `remove`, `retain`, `get` | updates duplicated, delayed, reordered between stream and RPC | the newest version wins; an equal one changes nothing |
| CandidateIndex `.../candidate_index.rs` | candidates by account and by band; triggers by account and, inverted, by asset and price | `upsert_candidate`, `remove_candidate`, `set_triggers`, `clear_triggers`, `on_price_update` | four structures kept in step over any sequence of calls; range scans with inclusive ends | the inverted index equals the records; a crossing is found whichever way the price lands |
| Oracle path `.../oracle_path.rs` | price book (unversioned) beside the oracle store (versioned) | `apply_oracle_update` | late and repeated updates; a first price has no predecessor | each crossing wakes its account once, none is missed |
| Circuit breaker `crates/liq-risk/src/lib.rs` | paused, open, reason, failures, in_flight, rolling window: one lock each. Shared | `check_allow`, `begin`, `end_success`, `end_failure`, `trip`, `reset`, `set_paused` | test and use under different locks; trip and reset are several steps | places balance, a trip is not lost, an open breaker bars |
| Execution engine `crates/liq-execution/src/lib.rs` | the breaker | `execute` | every way out must end what it began | one end for each begin |
| Funding and gates `crates/liq-core/src/{funding,profitability}.rs` | none | `default_paths_for`, `score_one`, `pick_best`, `evaluate` | truncating divisions at the gates | the best accepted path is chosen, and it pays |
| RPC pool `crates/liq-streaming/src/rpc_pool.rs` | index, per-endpoint statistics. Shared | `post_json`, `post_once`, `advance` | awaits between reading and moving the shared index | no endpoint skipped, every call returns |
| Failover `.../failover.rs` | per-provider freshness, tip slot. Shared with forwarding tasks | `subscribe`, `record`, `select_primary`, `mark_disconnected` | three locks inside `record`; tasks outlive their consumer | a consumer reaches a live provider |
| Liquidator `bins/liquidator/src/main.rs` | all of the above plus its loop | receive, plan, execute, re-arm | replayed (hence late) ticks, hash-set order of hits, failing submissions | it ends, dry never submits, live stops failing |
| Discovery `crates/liq-streaming/src/discovery.rs` with `crates/liq-kamino/src/live_health.rs` | reserve map, elevation groups, candidates, gaps | nine requests, decoding, classification, ranking | any request may fail; the chain moves between the reserve scan and the obligation scan | nothing liquidatable is missed or invented; "nobody found" is said only when it was looked for |
| Bootstrap `.../bootstrap.rs`, `bins/liquidator/src/main.rs:142` | fills the StateStore | `get_multiple_accounts`, `get_program_accounts`, `apply_raw_to_store`, `apply_account_update` | snapshots race with the stream; fallback to demo accounts half way | data is never older than its slot says; a failed bootstrap hands over demo accounts only |
| Planner `crates/liq-execution/src/plan.rs`, builders of `crates/liq-{kamino,save,project0}` | none | account sets, instruction sequences | order of refresh, borrow, repay; an index that counts what came before; lists that must equal the chain's | a simulated plan fails only by what was not read or has changed |
| Shadow binary, `--mainnet` `bins/shadow/src/main.rs` | the discovery's report; the accounts read for one candidate; results | choose a fee payer, read, plan, encode, simulate, summarize | each request may fail; the chain moves between them | the worst are simulated, each gets one result, the summary tells the furthest one |
| Versioned tx `crates/liq-execution/src/vtx.rs` | none | `build_account_keys`, `encode_versioned_tx_bytes` | privileges follow from an index and three counts; u8 indices; hash-map order | the runtime reads back the instructions that were planned |
| Sizing: `liq-core/src/{health,types}.rs`, `liq-kamino/src/lib.rs`, `liq-save/src/{lib,close_factor}.rs`, `liq-project0/src/{lib,classic,receivership,fee_state}.rs` | none | health, trigger price, amounts to repay and to seize, fee caps | chains of truncating divisions whose roundings must agree | the trigger price agrees with the health; no rounding favours the liquidator |
| Replay binary `bins/replay/src/main.rs`, fixture mode of shadow, fixtures | an oracle path, opportunities | seed, stream, evaluate, execute | two hand-written copies of one loop that seed differently | both report the crossings of the file |
| Execution caches `.../{blockhash,template,alt}.rs` | one lock each | put, get, invalidate | staleness | not modelled yet |
| Routing `crates/liq-routing/src/lib.rs` | route cache | quote, prefetch | staleness | the parsing of quote files is modelled; the cache not yet |
| Rest of the adapters | none | scope chains, save's ordering checks | none that carries state | not modelled |
| Bench binary | drives the above for timing | none of its own | none | not modelled |
| Telemetry, redaction, environment, fixtures, PDA, wire encoding | counters or none | text, hashing, layout | none | not modelled |

Interactions. Streams and RPC snapshots write the StateStore. A price event goes
to `apply_oracle_update`, which writes the oracle store, then the price book,
then asks the CandidateIndex for newly crossed triggers. The liquidator turns
each hit into a path (Funding), a list of instructions (planner) and, live, a
call of `execute`, which asks the breaker. Bootstrap and discovery talk to nodes
through the RPC pool; the stream comes from a provider chosen by the failover
multiplexer. There are no callbacks: components call each other directly or
share a structure behind an `Arc`.

`PROJECT.json` lists under `hazards` every place in this code that is hard to
test, with the property that would notice it going wrong.

## 2. Plan

Done, in this order: StateStore, CandidateIndex, OraclePath (the wake path,
composed of the first two), Execution, RpcPool, Failover, Funding, Liquidator
(composes the wake path with the breaker), Planner and Planning (composes Funding
and Planner with the shadow's reads and the chain), proofs about the first six;
then Bootstrap (composes the StateStore with its two writers) with its proofs, LiveHealth,
Discovery, VersionedTx and Shadow (the `--mainnet` run from the first request to
the report), Sizing and Position (the adapters' arithmetic under a client that
uses it), Replay (two instances of the wake path over one file); then Lists and the
lemmas of DataProofs, and with them the theorems on the RPC pool's statistics, the
breaker's budget, the loop's attempts and cap, the funding choice, the plans, and
the `--mainnet` run; then the theorems on the simulation's verdict, on Position and on
Replay. Every safety property that a run checks is now also a theorem.

Open, in order of importance:

1. `CandidateIndexLocks`: the index with one step per lock for callers on several
   threads, with CandidateIndex as the abstract specification it should
   implement (`clear_triggers` and `set_triggers` take two locks in opposite
   orders). No binary calls the index from two tasks today.
2. The execution and route caches.
3. Saturation in the adapters' arithmetic, which Sizing leaves out.

Abstract specifications worth stating: the wake path as "one wake per excursion
past a trigger" (now the invariant AwakeIffUnhealthySinceArmed; a refinement
when the index has its locks), and the breaker as one atomic gate. Replay uses
the OraclePath module itself, through `INSTANCE ... WITH`, as the definition of
what a path does with an update.

## 3. Modules and the code

One action is one method where the method holds one lock for its whole body or
is only called from one task, and one lock acquisition or one stretch between
awaits where tasks share the structure. Variables keep the names of fields.
History variables, marked so where they are declared, are written and never read
by the actions. Operators named `X_...` after an operator `X`, each introduced by
a comment that begins with "Mutant:", are slips a programmer could make in `X`;
no specification uses them.

- **StateStore**: `inner` is the map; `Upsert`, `Remove`, `Retain`. `retain`'s
  predicate is any set of keys. History `seen`: what was offered for a key since
  it was last absent.
- **CandidateIndex**: `by_asset` is the two BTreeMaps of accounts per price,
  flattened to entries. A band is all of CandidateMeta the index reads. A `Vec` of
  triggers is the set of its elements.
- **OraclePath** extends CandidateIndex and instantiates StateStore for the
  oracle store. `ApplyOracleUpdate` is `apply_oracle_update` from the upsert to
  the returned hits. The stream delivers any
  update: a newer one, an older one, the stored one again, or the stored version with
  another price. Histories: `armed` (installed triggers seen on their
  healthy side), `awake` (triggers hit and not healthy since), `dropped` (assets
  whose last update is not the entry that is stored).
- **Execution**: workers that call `execute` one lock at a time; an operator who
  pauses, trips and resets; a clock that moves the rolling window. A worker is
  live, and then its submission fails as no submission path is wired (line 149),
  or dry, and then it succeeds. `rolling`, the code's queue of (time, notional), is kept
  as the notional per instant: the breaker only prunes by time and adds up.
- **RpcPool**: `post_json` as the steps between its accesses to the shared index,
  to the statistics, and its awaits. An error text is kept as the class of
  substrings `classify_error` looks for.
- **Failover**: the consumer's `subscribe`, and forwarding tasks with `record`'s three
  locks. Its specification is `MuxSpec` (`MuxFairSpec` with fairness), that of RpcPool
  `PoolSpec`, so that one module of proofs can extend both. The providers in `dead`, any set of
  them, refuse every subscription; other streams deliver any slot, stay silent or end.
- **Lists**: selecting from a list and dropping its repetitions (the code's
  `filter`s and `unique_refresh_reserve_keys`), defined by the places that are kept
  rather than recursively, so that they can be reasoned about.
- **Funding**: the path enumerator and the gates as operators. `pick_best` sorts by
  score, stably, and takes the head: `FirstSorted` is that head, `SortedBefore` the
  order, earlier places first among equals.
- **Planner**: `PlanAccountSet` (placeholders, or what was read), the builders of
  the three adapters and `build_strategy_ixs`, as functions from an account set to
  a sequence of instructions. An instruction keeps what its success depends on;
  an associated token account is named by its mint. Lists are deduplicated with
  `KeptOnce`. An obligation has at most 8 deposits and 5 borrows, as its layout has
  room for (`PlanningAssumption`).
- **Planning**: one candidate from start to end. In the liquidator, `PlanHit`:
  the funding choice and the instructions over placeholders. In the shadow, the
  three requests of `build_plan_accounts_for_candidate` (`ReadObligation`,
  `ReadReserves`, `PrefetchAtas`; `FallBack` is each way out with placeholders),
  `Build` and `Simulate`. The chain is external: `Errors` and `Effect` give the
  conditions under which the programs refuse an instruction, taken from the
  comments of the builders (`tx_builder.rs:118`, `:141`, `:200-205`) and
  PROTOCOL_RESEARCH.md:130-134, and `Change` lets it move between requests.
  The swap lists come out of quote files (`Parsed`, `FromJsonValue`), which may be
  missing, unreadable or without the wanted leg.
- **Liquidator** extends OraclePath: fixture load, receive, process hits in any
  order, count the tick, re-arm, stop; dry or live is chosen at the start.
  `execute` is one action, as the loop is the breaker's only user.
- **Bootstrap** extends StateStore. The chain is the sequence of its writes, and
  an account's payload the number of the write it stems from. `Start`, `Discover`,
  `Fetch` and `Loaded` are the liquidator's bootstrap; `Snapshot` and `LoadRow` are a
  JSON-RPC reply and `apply_raw_to_store`, which upserts its rows one by one;
  `ApplyAccountUpdate` is a streamed update, delivered late, again or never, to a
  store that was filled from the chain or with demo accounts;
  `Forget` is `remove` and `retain`.
- **LiveHealth**: decoding of reserves, elevation groups and obligations, and
  `compute_obligation_health_live_with_elevation`. An f64 is an integer of a very small
  unit, exact below `Precision`: each of the four sums may come out as any number within
  one part in `Precision` of the real one (`Rounded`), so the computation is a set of
  results, `KlendComputedHealth` of any four such sums. Shares that are no whole number
  of tokens lie between the whole tokens below and above. The lending program's rule is
  stated on the account itself, without the code's intermediate steps: `SurelyLiquidatable`
  where the rule holds by more than f64 gets wrong, `PossiblyLiquidatable` where it
  holds or fails by less; `HealthLeast` and `HealthMost` enclose limit over debt.
- **Discovery**: one action per JSON-RPC request of `discover_mainnet`, with its
  failure and its gap; `Change` moves the chain between the requests. `ClassifyObligation`
  is the set of rows an account may get, as its health is rounded; `RankedLists` the
  lists that the code's stable sort by health factor may give, as the order of the
  node's answer is open. Histories `truth` (who was surely and who possibly liquidatable
  when the obligations were read) and `current`
  (the maps in hand were the chain's at that moment). `ChainSound` states what the
  lending program keeps up on its accounts: a used slot names a reserve of the market,
  an elevated obligation a group of it, and a group's id is its own.
- **VersionedTx**: `build_account_keys` and `encode_versioned_tx_bytes` as the set
  of encodings that the order of a HashMap allows, and `FaithfulMessage`, the
  reading of such a message by the runtime.
- **Shadow** extends Discovery and VersionedTx: fee payer, blockhash, plan, encode,
  simulate, the proving transaction, `summarize_kamino_sim_progress`. What a plan
  contains and how the chain answers is Planning's subject; here the plan of a candidate
  is one of a few lists of its own account (`Plans`) and a simulation answers anything.
- **Sizing**: the adapters' arithmetic as operators, in integers with the code's
  scales (10^6, 10^9, basis points, 2^48) as constants. `CollateralWorth` and
  `SeizeCollateralWorth` are the amounts to seize before the cast `as u64`, which the
  operators named as the functions apply (`% U64`). The intermediate products are not
  bounded; in the code some of them saturate at 2^128.
- **Position**: a client that arms a trigger price, and liquidates again and again
  while the adapter calls the position liquidatable. The binaries take amounts from
  their fixtures; these operations are library interface. `PositionAssumption` says what
  the types and units give: amounts, prices and weights are not negative, thresholds,
  close factors and the sum of the two premiums are at most one, the confidence cap is a
  fraction, and a millionth divides a basis point.
- **Replay**: both fixture binaries side by side over the same files. `Path(b)` is the
  module OraclePath with binary b's store and book in place of its variables: an update
  means here what it means there. Shadow's dry-run engine can end its run with the
  breaker's refusal.
- **MCOraclePath**, **MCPlanning**, **MCLiquidator**, **MCBootstrap**, **MCShadow**,
  **MCPosition**, **MCReplay** give constants their values.

## 4. Runs

| Run | Shows |
|---|---|
| Bootstrap | with snapshots, streamed updates, repetitions and removals in any order: what is stored is the newest offered (`NewestWins`), an entry has every write of the slots before its own (`AsNewAsItsSlot`), an account goes back in time only within one slot or past a row without a slot (`NeverBackPastASlot`), and whatever fails the bootstrap hands over either demo accounts or accounts of the chain (`DemoOrLive`) |
| OraclePath | over any seeds, updates and index changes: awake is exactly "past a trigger that was seen healthy since it was installed" (`AwakeIffUnhealthySinceArmed`), nothing is woken twice in one excursion (`NoSecondWake`), the book has the price of the stored entry, except between an update that the store dropped and the next it takes (`BookFollowsStore`), the indexes agree (`TriggersIndexed`, `BandsPartitionCandidates`, `RemovedNeverWakes`) |
| Execution | `InFlightConserved`, `TripNotLost`, `OpenBarsNewCalls`, and `OverspendBounded`: two workers overspend the window's budget by at most one liquidation |
| RpcPool | `GivesUpOnlyAfterAll`, `StatsBalance`, `EveryCallReturns` |
| Failover | `SlotWithinTip`, `UntriedStaysHealthy`, and `ConsumerGetsStream`: whichever providers refuse, a consumer that keeps subscribing gets a stream if one that accepts is untried, has delivered something, or is the last registered |
| Planning | liquidator: the path against a reference definition (`BestIsMaxAccepted`), and that what is accepted earns its threshold after all costs (`AcceptedPaysItsCosts`); shadow: the simulated transaction liquidates if and only if the reads were complete and still true (`LiquidatesIffGoodReads`); both: loans are repaid and receiverships ended in order, with the right index (`OpenedIsClosed`), and nothing stale is liquidated (`RefreshedForLiquidation`) |
| Liquidator | `EndsAtCap`, `AttemptsBounded`, `LoopEnds` |
| Shadow | with reserves and groups that are still the chain's, the scan finds whom the program would liquidate and nobody else, up to f64 rounding (`ScanExact`); a report without candidates found nobody or names the read that failed (`HonestZero`); nobody is left unsimulated who is worse on chain than one who was, unless none of their collateral counts (`WorstFirst`); each plan has one result, in order (`OneResultPerPlan`), in a message that the runtime reads back as planned (`WireFaithful`), and the summary tells a success, else an error past 3012 (`SummaryTellsFurthest`) |
| Position | the trigger price and the health computation agree up to one micro-USD (`TriggerAgrees`); liquidating in parts never seizes more than at once (`SplittingGainsNothing`); what the client lets through is within the fee plus half a basis point (`FeeWithinHalfBp`); where the bonus leaves room, a liquidation does not move a position away from health, except for roundings that are given exactly: none for Kamino, a micro-USD per token begun for Save, one unit of debt and two micro-USD for Project 0 (`MarginNotWorse`) |
| Replay | both binaries report the crossings between neighbouring ticks of the file, each once, although they seed the versioned store differently (`ReportsCrossings`) |
| RejectedPlan, FalseCritical | a statement of the repository's documents that the code does not keep (section 6) |

The runs of the last line expect a violation, of `OnlyAcceptedBegin` and
`OnlyTrulyLiquidatable`.

Bounds, and why they are enough:

- *Bootstrap*: two accounts on chain and one demo account, three writes
  (`MaxWrites`) over three slots (`MaxSlot`): two writes to an account share a slot
  or do not, a snapshot falls before, between or after them, and older, equal and
  newer versions meet, with equal versions that carry different data. The accounts
  on chain are symmetric. It has no liveness property.
- *OraclePath*: three prices are one trigger price and a value on either side;
  triggers lie on the middle and on the lowest price, on both sides; two
  accounts show that one account's changes leave the other's alone; two slots
  give late, equal and newer updates, equal ones with the same and with another price.
  One asset, as the code treats assets
  independently.
- *Execution*: two workers, one live and one dry, show a lock taken between any
  two steps of another; notionals at, below and above the limit for one; a
  budget that one and a half calls fill; a trip after two failures; one place in
  flight, which two callers that read the count together both take; a window of
  one tick and a clock of two, so that spending leaves the window (`MaxTime`).
- *RpcPool*: three endpoints (first, middle, last), two callers, two calls each
  (`MaxCalls`), so that a call starts where the other left the index.
- *Failover*: three providers, of which any set refuses (the first, the middle, the
  last, several, all or none); the others may go
  silent, lag by two slots with one allowed, or end. Two task identities
  (`Tasks`) let a dropped subscription's task run beside the current one; the
  consumer drops a stream only while an identity is left for the next one.
  A provider is silent (`MaxSilence` 0) once its last event is of an earlier tick of
  a clock of two (`MaxTime`).
- *Planning*: gains, costs and notionals at, just below and just above each gate,
  in thousandths of a dollar. Two reserves on chain, so that the reserve repaid
  and the one withdrawn are the same or differ; no, one or two positions a side
  (two borrows only with two deposits), in any order, with or without a referrer;
  any subset of the token accounts; any subset of the reserves decoded; one change
  of the chain at any point between the first read and the simulation
  (`MaxChanges`). A second change could only undo the first or add another
  difference, and each difference alone already fails the simulation.
- *Shadow*: about a hundred chains of two or three obligations: sound, over the maximal
  LTV, liquidatable, dust, saved by their elevation group, with a group that counts
  no collateral, in another market, with an emptied deposit; borrow factors with and
  without the 0 that means 100; a market of another layout. Two failed requests
  (`MaxFaults`) and one move of the chain (`MaxChanges`) in a run; caps of two
  candidates and two plans (`CandidateCap` 32 and `PlanCap` 3 in the code) and a
  table of seven accounts (`KeyLimit` 256), so that each is met, just met and
  exceeded. `Precision` is 5000, so small that the values of one obligation (`Edge`)
  exceed it: it lies at its limit to the last bit and may be found or not. Shares of
  the ragged reserve are worth four thirds of a token (`Uneven`), those of the others
  a whole number. The theorems leave `Precision` open.
- *FalseCritical*: the same module without failed requests, on two chains of which the
  second has one reserve more.
- *Position*: scales of 40 for 10^6 and 10^4, 80 for 10^9 and 64 for 2^48. A scale
  changes how much a division truncates, not whether it does: with these, one percent is
  less than a unit, and the roundings, one part in 10^6 in the code, are one in 40 and
  add up within a few steps. In this instance the bonus leaves room (`RoomForBonus`,
  which MCPosition asserts): with a bonus above what the threshold leaves, a liquidation
  makes a position worse in exact arithmetic already. Holdings that lie at their trigger
  between two quotes, a price that is missing, fee accounts that are missing, short,
  negative, too large, paused and fractional.
- *Replay*: every file of up to four ticks out of five (in order, late, a repeated
  version with another price, a second asset), and four borrower files: shared
  triggers, an account twice, an entry that does not parse, a plan above the limit.
- *Liquidator*: feeds without a tick, with one, with a fall, with a recovery and
  a second fall, and with a late old tick; three failures open the breaker; the
  cap of five ticks is above each feed's length, so a live loop ends with the
  feed and a dry one replays it.

Fairness. `RpcPool`: a started call goes on, as tokio polls ready tasks and
`post_once` puts a timeout on each request; callers need not start calls.
`Failover`: a consumer without a stream goes on subscribing (that is how the
interface is meant to be used; `subscribe` itself never blocks) and a forwarding
task that has something to do does it; nothing is assumed of providers, drops or
time. `Liquidator`: the loop proceeds, as the mock stream always has an answer.
The other modules state no fairness, as their properties are of safety.
Deadlock is checked except where the program ends by design (Planning, RpcPool's
callers, the loop, Replay) or the bounds exhaust the environment (Bootstrap).

## 5. Proofs

Eight modules hold theorems; each EXTENDS the modules it is about, and every leaf is
checked by TLAPS. The theorems are of `Spec` (or `StoreSpec`, `PathSpec`, `LiqSpec`,
`PoolSpec`, `MuxSpec` where a module is composed into another one or shares its proofs)
without fairness. The assumptions are the `ASSUME`s on the constants, which TLC
evaluates in each run: prices, slots, versions, notionals, gates and costs are naturals,
gains are integers, a special value is none of those it is told from, there is an
endpoint, a provider, a fee payer, the limits are naturals, the chain's bounds lie
within the store's slots and versions, an obligation fits its layout, an account of the
chain is one the lending program keeps (`ChainSound`), thresholds and close factors are
fractions, and a fixture's file is a list of ticks or of borrowers. One theorem has a
hypothesis besides, `MarginIsKept` (below). Nothing bounds the number of keys, accounts,
assets, providers, workers, callers, reserves, obligations, instructions, results, ticks
or borrowers, nor the size of an amount or a price (workers, callers, and the accounts
of one chain are finite).

- **StreamingProofs**, on StateStore (whose actions the Bootstrap run uses), Bootstrap,
  RpcPool and Failover.
  `NewestWins` is inductive given types, because the version order is total and
  transitive on naturals. Every step of
  Bootstrap is a method of StateStore or a stutter, so `Spec => StoreSpec` and the
  store's theorems carry over (`NewestOfBothWriters`). `DemoOrLive` through `FillInv`:
  until the bootstrap is over, what is stored or waits to be stored is all of the demo
  or none of it; before the fallback is chosen nothing is stored.
  `AsNewAsItsSlot` and `NeverBackPastASlot` rest on `HonestInv`: an entry, stored or
  waiting, has data of its own account, from a write no later than its slot and no
  earlier than any write of the slots before. It is stable because what happened up to a
  past slot is settled (`PastIsSettled`), and writers establish it at different moments.
  Of the pool, `WalkInv` identifies the endpoints a call has asked with the first k
  from its own start; k = N gives them all, by arithmetic modulo N. `StatsInv` counts, for
  each endpoint, the calls that are waiting for it and those that have failed on it and
  not yet rotated; `StatsBalance` alone is lost by the first of these steps.
  Of the providers, `SlotInv` extends `SlotWithinTip` to slots on their way through
  `record`; `TriedInv` extends `UntriedStaysHealthy` to whatever can lead to a mark: an
  event, a running task, a choice.
- **LiquidatorProofs**, on CandidateIndex, OraclePath and Liquidator. `IndexInv` joins
  types, `TriggersIndexed` and `BandsPartitionCandidates`; its core is one lemma on
  replacing one account's triggers in both halves, of which set, clear and remove are
  instances. `PathInv` = `IndexInv`, types, `ArmedInv` and `AwakeIffUnhealthySinceArmed`.
  The last is not inductive alone: a crossing is measured from the previous price, so one
  must know that a trigger is armed if and only if it is installed and, at the book's
  price or at an earlier one, was healthy, which `ArmedInv` says. `NoSecondWake` follows:
  a trigger awake is past the old price and cannot be newly crossed. `BookFollowsStore`
  is by cases of an update: accepted or the stored entry again, after which book and
  store agree, or dropped, which the history records. Of the loop, `AttemptsBounded`
  needs `AttemptsInv` (a live bot's attempts are its consecutive failures, as nothing
  clears the count, and the last one allowed opens the breaker), and `EndsAtCap` needs
  `CapInv` (a tick is only received below the cap).
- **ExecutionProofs**: types, with the amounts in the window; places in flight by one
  lemma for steps that change who is flying; `TripNotLost` directly; `OpenBarsNewCalls`
  through `BarredInv`: a barred call has not passed the test of `open`, and the breaker
  has been open since. `OverspendBounded` is inductive with `SizeChecked` (past the test
  of its size a liquidation is no larger than one may be): the admission that finds
  budget counts what the window holds, so all others admitted on the same reading can add
  at most one maximal liquidation each; `begin` moves an amount from the admitted to the
  window, and the passing of time only takes from it.
- **DataProofs**: facts shared by the following. What the places kept of a list leave of
  it (length, each element's origin, order, no repetition), what an arrangement of a
  finite set into a list contains, and sums over finite sets: a sum is a natural, does not
  depend on the order, adds up over a partition, is monotone, bounded, and skips zeros.
  Quotients of naturals: their bounds, and that
  they are monotone. The library folds in an order left open by CHOOSE, with a recursion whose existence
  must be shown. Induction over a predicate is out of the provers' reach, so it is made
  over a set of numbers: one without a least element is empty (`NatInSet`), and an
  argument by induction takes the least counterexample.
- **PlanningProofs**, on Planning with Funding and Planner. `PlanInv` says who has got
  where with which arguments (`RolesInv`), what was read (`ReadsInv`), that the path is
  `pick_best`'s (`PathInv`), and that the list in hand is well-formed (`ListInv`). Each
  builder's list has a shape: instructions that neither open nor liquidate anything, the
  refreshes, the loan at its place, again refreshes, the liquidation, swaps, the repayment.
  `LoanPlan` and its variants state the shapes, and the properties follow from them by
  position, whatever the account set: the index of a loan is the number of instructions
  before it. The layout's limit of thirteen positions matters, as the index is a u8.
  For the choice, `FirstSorted` exists because a finite set of places has one that is
  first in the stable order, and the gates' truncating divisions are bounded on both
  sides (`QuotientBounds`). `LiquidatesIffGoodReads`: the simulation runs a list as a
  recursive function over its places, so what the run comes to is an induction carried by
  `NatInSet`; along each shape the refreshes done so far are the keys before the place,
  and the first instruction that is refused is the one whose reads were not good
  (`ReadsDecide`).
- **PositionProofs**, on Position with Sizing. An amount in value, `Scaled(x, m, b)`, is
  one step `x * m \div b` of the chains of divisions. Splitting gains nothing in one step
  (`ScaledSplits`), hence in a chain of them; `SumsInv` says that what was seized since
  the last price is at most what the whole repaid amount is worth, and each liquidation
  adds one part. `FeeIsKept` uses the same sums, and the bounds of one division. For
  `TriggerIsExact`, `ArmedInv` says that an armed trigger is still
  `collateral_trigger_price`'s answer to the position; below it the collateral's value
  truncates to less than the debt asks for, above it to at least the debt less one
  (`BelowTrigger`, `AboveTrigger`). `MarginIsKept` bounds, in each protocol, what the
  seized collateral counted for by what the repayment relieves. It is proved under
  `RoomForBonus`, a condition on the market's parameters; the run's instance meets it.
- **ReplayProofs**, on Replay and the instances of OraclePath in it. An induction over the
  file, carried by each binary's own steps: what is still to be streamed is, in order,
  what comes after the last tick and did not seed (`StreamInv`); the book has the price
  of the last tick seen of an asset (`BookInv`), which is thus the last one before the
  next; what was printed and what is about to be are the crossings so far, and the two
  are disjoint (`ReportInv`). The versioned store does not occur in the invariant: an
  update it drops is ignored only if the price stays, and then nothing is crossed. That
  is why binaries that seed it differently agree.
- **ShadowProofs**, on Shadow with Discovery, LiveHealth and VersionedTx.
  `WireFaithful` rests on `BuildsTable`: the encoder's table lists every key once, the
  payer first, in four groups (`GroupFacts`, `FiveParts`) such that the header's three
  counts give each key the privileges asked for it, and on `IndexFinds`; `WireInv` says
  that a message in hand is such a one. `OneResultPerPlan` by
  `ResultsInv`, which follows the plan in progress; `SummaryTellsFurthest` by the three
  sort classes of `LineTellsFurthest`. `ScanExact` is proved row by row: active and
  counted slots are those of the account, so the sums of the computation lie within the
  roundings of those of the rule (`DebtAgrees`, `DepositsAgree`, `RowIsRight`), whatever
  the shares, the prices and the precision. `WorstFirst` goes on from there: `HealthInv`
  says that the health factor in a row, by which the code sorts, lies between the least
  and the most that the account has on chain, unless none of its collateral counts; a
  quotient is bounded by the bounds of its two sums (in DataProofs). With the sort's
  order and the places that `take(3)` leaves, the simulated are no healthier than the rest.
  `HonestZero` needs `MapsInv`: while nothing moves on the chain, what was
  read without a gap is the chain's.

TLC checked the strengthenings before they were proved: `PlanInv` and, on the Shadow
run's instance, `PathInv`, `WireInv`, `HealthInv`, `ResultsInv`, `SummaryInv` and `MapsInv`,
and `ReplayInv` on the Replay run's, held in every reachable state.

Only model-checked: the liveness properties `EveryCallReturns`, `ConsumerGetsStream` and
`LoopEnds`, as TLAPS does not reason about fairness, and the two runs that expect a
violation.

## 6. Where the code and its documents disagree

With a run that exhibits it:

- **RejectedPlan**: the live branch executes the best path although the gates
  rejected it (`main.rs:413`; ARCHITECTURE.md:10, "Profit gates before submit").
- **FalseCritical**: a deposit whose reserve is not in the map counts for nothing,
  while all of the debt may still count (`live_health.rs:311`). A reserve opened
  between the reserve scan and the obligation scan therefore makes a sound
  obligation CRITICAL (`discovery.rs:182`, "Only CRITICAL when truly
  liquidatable."). With current maps this cannot happen, as `ScanExact` shows.

Seen while modelling, without a run of their own. Oracle path and loop:

- An update that the store dropped, as old or as the stored version with another price,
  still moves the price book and fires triggers, unless the price is the same
  (`oracle_path.rs:64`). The dry loop meets
  this in every run longer than its feed, as it replays old ticks (`main.rs:283`).
  `BookFollowsStore` says how far it goes.
- A candidate already past its trigger at the first price is not woken
  (`oracle_path.rs:56`; ARCHITECTURE.md:116, CRITICAL is "Always evaluate").
- The concurrency limit is tested and the place taken under different locks, so callers
  that share a breaker can exceed it (`liq-risk/src/lib.rs:138`, `:151`). Today's
  binaries have one caller. In the Execution run, which has one place for two workers,
  both are under way at once; what is shown is that their places are given back.
- `reset` clears three fields of the breaker one by one (`liq-risk/src/lib.rs:113`), so
  that a trip in between leaves an open breaker without its reason.
- A dry loop over an empty tick file with a cap above one never ends
  (`main.rs:283`; README.md:88). `LoopEnds` therefore asks for a tick.
- The staleness the loop passes to the breaker is always 0 (`main.rs:413`;
  ARCHITECTURE.md:11, "halt on oracle staleness").

Nodes and providers:

- When every provider is marked, the one with the highest slot is chosen, and of equals
  the last registered (`failover.rs:117`). If that one refuses, nothing changes and it is
  chosen for ever, although another would accept (`failover.rs:140`, "On primary
  staleness, fail over to the next healthy provider."). `ConsumerGetsStream` is stated
  for the cases in which the choice reaches a provider that accepts; without its
  hypothesis `CanServe` TLC finds it violated, with the last provider dead.
- A forwarding task notices that its consumer is gone only when it sends, and then marks
  its provider disconnected though a newer subscription may be using it
  (`failover.rs:214`); the next event recorded of the provider heals the mark.
- The stream is applied to the store whatever the bootstrap put there, so after a
  fallback to demo accounts a streamed account stands beside them (`main.rs:293`).
- A provider overtaken by the tip stays healthy until its own next event
  (`failover.rs:81`, against the comment at `:28`); a stream that goes silent is not
  replaced (`failover.rs:202`, against `:140`).
- An application error whose text contains 500 is retried elsewhere
  (`rpc_pool.rs:76`).
- Every row of an RPC snapshot has write version 0, so a late streamed update of
  the same slot replaces it by an earlier state, and rows of
  `getProgramAccounts` have slot 0 and lose against anything (`bootstrap.rs:72`).
  `NeverBackPastASlot` is stated with exactly these two exceptions.

Candidates:

- Where no collateral has a liquidation threshold (an elevation group with 0, or a
  reserve), the limit is 0 and any debt above dust exceeds it, so the band is CRITICAL
  (`live_health.rs:363`). The comment at `:368` says "No counted collateral (missing
  reserves / zero thr) — not CRITICAL."; only the health factor follows it, with 1000.
  The lending program's rule agrees with line 363, so `ScanExact` counts such an
  obligation as liquidatable.
- Because of that 1000 the same obligation, the least healthy of all, sorts behind every
  other candidate (`discovery.rs:444`; `:443`, "Rank liquidatable by health ascending
  (most unhealthy first)."), and may miss the three that are simulated. `WorstFirst`
  excepts it (`CountsCollateral`).

Plans and amounts:

- A Save or Project 0 liquidation funded from inventory is a single compute
  budget instruction (`plan.rs:553`), although the enumerator offers Inventory to
  every protocol, it wins over the fixtures, and `strategy_ix_labels` announces a
  liquidation (`funding.rs:119`, `:124`).
- klend compares one concatenated list of deposits and borrows, so positions read
  before a reserve changed sides pass when the concatenation is the same;
  `GoodReads` is stated on the concatenation for that reason.
- The conversion of the fee on chain to basis points says "rounded toward zero"
  and rounds to the nearest (`fee_state.rs:43`), so a client may let through half a
  basis point more than the program; `FeeWithinHalfBp` is the bound that holds.
- Save's price of a token is a whole number of micro-USD (`close_factor.rs:30`), which
  favours the liquidator by up to a micro-USD for each token, and a token worth less than
  one seizes nothing (`:34`). `MarginNotWorse` allows exactly this.
- `collateral_out_amount` casts with `as u64`, which wraps for collateral prices far
  below those the fixtures and feeds carry.
- The progress summary steps over 3012 and over results without an error value,
  and takes the first other one (`shadow/src/main.rs:609`), so an error of the
  whole transaction can stand where only a 3012 told of an instruction. Among errors past
  3012 the first in the order of the plans is told, not the one that got furthest; the
  model has one such error and says nothing of that order.

Fixtures:

- In fixture mode shadow ends with an error once the accepted notionals of a
  minute pass the breaker's window, as `begin` records a dry run's notional and
  `end_success` leaves it (`shadow/src/main.rs:561`).
- An account listed twice in `borrowers.json` is woken by its last entry and
  evaluated with the plan of its first.

## 7. Not modelled

Left out for good: HTTP and JSON text, PDA hashing and wire encoding of instruction
data (layout, no control); the Yellowstone client (a stub that refuses); Jito, bids
and RPC submission types (nothing sends them); telemetry (nothing reads it);
`.env` parsing and URL masking; the bench binary (timings); vendored `idls/`, by far the
longest file of the tree, which nothing compiles. Of the adapters: Kamino's
scope chains and Save's ordering checks, which the binaries do not call.

Planned (section 2): the lock-by-lock interleavings of CandidateIndex, the execution
caches, the route cache and its providers. Each cache is one map behind one lock, so
its single steps are simple; what could go wrong lies in callers that do not exist yet.

Within modelled components: log and error texts, metrics, latencies, the widths of
integers (the magnitudes callers pass are far from them; Sizing keeps the
saturations and the u16 of a basis-point count), and the start-up checks of the
liquidator. Of a planned transaction: amounts, fees, compute limits, token
programs, farms, and the health test of the programs (error 6016): the properties
are about order, lists and accounts. Of the simulation: why it ends without a
result (encoding, request). Of discovery: samples, percentiles and notes of the report.
