------------------------------- MODULE Replay -------------------------------
(***************************************************************************)
(* The two binaries that play a directory of fixtures through the oracle   *)
(* path: replay (bins/replay/src/main.rs) and the fixture mode of shadow   *)
(* (bins/shadow/src/main.rs, run_fixture_shadow), side by side over the    *)
(* same files.  Both load the borrowers into an index, seed the price book *)
(* with the first tick of every asset and stream the others; they seed the *)
(* versioned store differently, and shadow sends what it accepts through a *)
(* dry-run engine on the way.                                              *)
(*                                                                         *)
(* A fixture's files are read by serde and their floats scaled; here they  *)
(* are a sequence of ticks and a sequence of borrowers.  The transaction   *)
(* that shadow builds and simulates changes nothing it reads later.        *)
(***************************************************************************)
EXTENDS Funding, Lists

CONSTANTS Accounts, Assets, Prices,  \* as in OraclePath
          Slots, WriteVersions,
          TickFiles,                 \* oracle_ticks.json: sequences of ticks, or NoFile
          BorrowerFiles,             \* borrowers.json: sequences of borrowers
          NoFile, NoEntry, NoPrice, NoBand,
          Costs,                     \* swap_cost_usd_micro + chain_cost_usd_micro
          MaxNotionalPerLiq,         \* limits.max_notional_per_liq_usd_micro
          MaxNotionalPerWindow       \* limits.max_notional_per_minute_usd_micro

Bins == {"replay", "shadow"}

Sides == {"CollateralDown", "DebtUp"}

\* What serde and the conversions of the fixtures leave: an asset, a version and a price per
\* tick; an account, its triggers and what the gates look at per borrower.
Tick == [asset : Assets,
         entry : [slot : Slots, write_version : WriteVersions, decoded : Prices]]

Borrower == [account : Accounts, valid : BOOLEAN,
             triggers : SUBSET [asset : Assets, side : Sides, trigger_price : Prices],
             plan : [gross : Int, capital : Nat, notional : Nat]]

ASSUME ReplayAssumption ==
    /\ Prices \subseteq Nat /\ NoPrice \notin Prices
    /\ \A f \in TickFiles \ {NoFile} : f \in Seq(Tick)
    /\ \A f \in BorrowerFiles : f \in Seq(Borrower)

VARIABLES dry_env,           \* DRY_RUN
          ticks, borrowers,  \* the files
          phase,             \* binary -> "start", "recv", "done" or "failed" (an Err out of main)
          store, book,       \* binary -> oracle_store and prices of its OracleTriggerPath
          rx,                \* binary -> positions in ticks still to be streamed
          at,                \* binary -> position of the last one streamed
          pending,           \* binary -> its hits still to be looked at
          opportunities,     \* binary -> the records it printed
          rolling            \* notional that shadow's breaker has in its window

files == <<dry_env, ticks, borrowers>>
vars == <<files, phase, store, book, rx, at, pending, opportunities, rolling>>

\* set_triggers and upsert_candidate replace what an earlier borrower of the file set
\* for the same account.
Loaded(acc) ==
    LET of_acc == {i \in DOMAIN borrowers : borrowers[i].account = acc}
    IN IF of_acc = {} THEN {}
       ELSE borrowers[CHOOSE i \in of_acc : \A j \in of_acc : j <= i].triggers

LoadedEntries ==
    UNION {{[account |-> acc, trigger |-> t] : t \in Loaded(acc)} : acc \in Accounts}

\* The OracleTriggerPath of binary b, whose index stays as loaded.
Path(b) == INSTANCE OraclePath
               WITH oracle_store <- store[b], prices <- book[b], by_asset <- LoadedEntries,
                    account_triggers <- [acc \in Accounts |-> Loaded(acc)],
                    TriggerLists <- {}, by_account <- <<>>, by_band <- <<>>,
                    hits <- {}, dropped <- {}, armed <- {}, awake <- {}

Init ==
    /\ dry_env \in BOOLEAN
    /\ ticks \in TickFiles /\ borrowers \in BorrowerFiles
    /\ phase = [b \in Bins |-> "start"]
    /\ store = [b \in Bins |-> [a \in Assets |-> NoEntry]]
    /\ book = [b \in Bins |-> [a \in Assets |-> NoPrice]]
    /\ rx = [b \in Bins |-> << >>]
    /\ at = [b \in Bins |-> 0]
    /\ pending = [b \in Bins |-> {}]
    /\ opportunities = [b \in Bins |-> << >>]
    /\ rolling = 0

-----------------------------------------------------------------------------
OfAsset(a) == {i \in DOMAIN ticks : ticks[i].asset = a}

IsFirst(i) == \A j \in OfAsset(ticks[i].asset) : i <= j

\* Mutant: every tick seeds, the last one stays.
SeededBook_LastTick ==
    [a \in Assets |-> IF OfAsset(a) = {} THEN NoPrice
                      ELSE LET i == CHOOSE i \in OfAsset(a) : \A j \in OfAsset(a) : j <= i
                           IN ticks[i].entry.decoded]

\* `seeded.insert(asset)`: the first tick of the file, whatever its slot.
SeededBook ==
    [a \in Assets |-> IF OfAsset(a) = {} THEN NoPrice
                      ELSE LET i == CHOOSE i \in OfAsset(a) : IsFirst(i)
                           IN ticks[i].entry.decoded]

\* Replay passes the same tick to apply_oracle_update: no hit, but a stored version.
SeededStore ==
    [a \in Assets |-> IF OfAsset(a) = {} THEN NoEntry
                      ELSE ticks[CHOOSE i \in OfAsset(a) : IsFirst(i)].entry]

\* load_oracle_ticks, load_borrowers, borrower_to_meta and borrower_triggers succeed: the
\* files are there and every protocol, band and side has a known name.
FilesLoad == ticks # NoFile /\ \A i \in DOMAIN borrowers : borrowers[i].valid

\* What drain_all collects from the MockGeyser: the ticks that did not seed, in file order.
Stream == PickedFrom([i \in DOMAIN ticks |-> i], {i \in DOMAIN ticks : ~IsFirst(i)})

\* From the command line to the subscription.  Shadow insists on DRY_RUN first.
Start(b) ==
    /\ phase[b] = "start"
    /\ IF ~FilesLoad \/ (b = "shadow" /\ ~dry_env)
       THEN phase' = [phase EXCEPT ![b] = "failed"] /\ UNCHANGED <<store, book, rx>>
       ELSE /\ phase' = [phase EXCEPT ![b] = "recv"]
            /\ book' = [book EXCEPT ![b] = SeededBook]
            /\ store' = IF b = "replay" THEN [store EXCEPT ![b] = SeededStore] ELSE store
            /\ rx' = [rx EXCEPT ![b] = Stream]
    /\ UNCHANGED <<files, at, pending, opportunities, rolling>>

\* The next event of the drained mock stream goes through apply_oracle_update.
Recv(b) ==
    /\ phase[b] = "recv" /\ pending[b] = {} /\ rx[b] # << >>
    /\ LET i == Head(rx[b])
           a == ticks[i].asset
           e == ticks[i].entry
       IN /\ at' = [at EXCEPT ![b] = i]
          /\ store' = [store EXCEPT ![b] = Path(b)!Store!Upserted(a, e)]
          /\ book' = [book EXCEPT ![b][a] = e.decoded]
          /\ pending' = [pending EXCEPT ![b] =
                 IF Path(b)!Ignored(a, e) THEN {}
                 ELSE Path(b)!OnPriceUpdate(a, Path(b)!PrevPrice(a, e.decoded), e.decoded)]
    /\ rx' = [rx EXCEPT ![b] = Tail(@)]
    /\ UNCHANGED <<files, phase, opportunities, rolling>>

\* find_borrower: the first of the file with the hit's account.
FindBorrower(acc) ==
    borrowers[CHOOSE i \in DOMAIN borrowers :
                 /\ borrowers[i].account = acc
                 /\ \A j \in 1 .. i - 1 : borrowers[j].account # acc]

Opportunity(b, h) ==
    LET plan == FindBorrower(h.account).plan
    IN [at |-> at[b], hit |-> h, notional |-> plan.notional,
        decision |-> Evaluate(plan.gross, Costs, plan.capital, plan.notional)]

\* check_allow on a breaker that only dry runs use: begin pushes the notional to the
\* window and end_success leaves it there.
Allowed(notional, spent) ==
    notional <= MaxNotionalPerLiq /\ spent + notional <= MaxNotionalPerWindow

\* One hit is evaluated and printed.  What shadow accepts it executes, and a refusal by
\* the breaker ends the run (`execute(&tx, 0).await?`).
Report(b) ==
    /\ phase[b] = "recv"
    /\ \E h \in pending[b] :
         LET opp == Opportunity(b, h)
             executes == b = "shadow" /\ opp.decision.accept
         IN /\ opportunities' = [opportunities EXCEPT ![b] = Append(@, opp)]
            /\ pending' = [pending EXCEPT ![b] = @ \ {h}]
            /\ IF executes /\ ~Allowed(opp.notional, rolling)
               THEN phase' = [phase EXCEPT ![b] = "failed"] /\ UNCHANGED rolling
               ELSE /\ rolling' = IF executes THEN rolling + opp.notional ELSE rolling
                    /\ UNCHANGED phase
    /\ UNCHANGED <<files, store, book, rx, at>>

\* The stream is drained.  Replay now executes the first opportunity it accepted, on a
\* breaker of its own.
Finish(b) ==
    /\ phase[b] = "recv" /\ pending[b] = {} /\ rx[b] = << >>
    /\ LET accepted == SelectSeq(opportunities[b], LAMBDA o : o.decision.accept)
           refused == b = "replay" /\ accepted # << >> /\ ~Allowed(accepted[1].notional, 0)
       IN phase' = [phase EXCEPT ![b] = IF refused THEN "failed" ELSE "done"]
    /\ UNCHANGED <<files, store, book, rx, at, pending, opportunities, rolling>>

\* A minute passes between two requests of shadow.
Age ==
    /\ phase["shadow"] = "recv" /\ rolling > 0
    /\ rolling' = 0
    /\ UNCHANGED <<files, phase, store, book, rx, at, pending, opportunities>>

Next == Age \/ \E b \in Bins : Start(b) \/ Recv(b) \/ Report(b) \/ Finish(b)

Spec == Init /\ [][Next]_vars

-----------------------------------------------------------------------------
(* Properties                                                              *)

\* The triggers that lie between two neighbouring ticks of an asset, in file order.
Crossings ==
    {c \in [at : DOMAIN ticks, hit : LoadedEntries] :
        LET a == ticks[c.at].asset
            before == {j \in OfAsset(a) : j < c.at}
        IN /\ c.hit.trigger.asset = a /\ before # {}
           /\ LET prev == CHOOSE j \in before : \A k \in before : k <= j
              IN Path("replay")!Crosses(c.hit.trigger, ticks[prev].entry.decoded,
                                        ticks[c.at].entry.decoded)}

Reported(b) ==
    {[at |-> o.at, hit |-> o.hit] : o \in {opportunities[b][i] : i \in DOMAIN opportunities[b]}}

\* Both binaries report the crossings of the file and nothing else, each once, although
\* only one of them gives the store a version to begin with, whatever the slots of the
\* file: all of them if they get to the end of the stream, a part if shadow's breaker
\* ends it early.
ReportsCrossings ==
    ticks # NoFile => \A b \in Bins :
        /\ Reported(b) \subseteq Crossings
        /\ Cardinality(Reported(b)) = Len(opportunities[b])
        /\ phase[b] = "done" => Reported(b) = Crossings
=============================================================================
