------------------------------- MODULE Shadow -------------------------------
(***************************************************************************)
(* The shadow binary's --mainnet run (bins/shadow/src/main.rs): discover,  *)
(* choose a fee payer, plan and simulate the worst candidates, or prove    *)
(* the transaction path when there are none, and write the report.         *)
(*                                                                         *)
(* What a plan is made of is module Planner's and what its simulation      *)
(* answers module Planning's matter: here a candidate's plan is one of     *)
(* those that Plans gives its account, and a simulation answers anything.  *)
(* Every plan is of one dollar through a fresh dry-run breaker whose       *)
(* limits it cannot reach, so execute returns Ok.                          *)
(***************************************************************************)
EXTENDS Discovery, VersionedTx, Lists

CONSTANTS Plans,      \* instruction lists a plan may have, by the obligation's account
          ProveIxs,   \* the two compute budget instructions
          FeePayers,  \* SIM_FEE_PAYER_CANDIDATES, a sequence
          EnvPayer,   \* SHADOW_FEE_PAYER, when it is set and decodes
          PlanCap,    \* 3
          NoTx

Payers == {EnvPayer} \cup ToSet(FeePayers)

\* No program signs or pays the fee, as there is no key to sign for one with; what
\* proves the path is one program without accounts.
ASSUME ShadowAssumption ==
    /\ KeyLimit \in Nat \ {0, 1} /\ PlanCap \in Nat
    /\ FeePayers \in Seq(ToSet(FeePayers)) /\ FeePayers # << >>
    /\ \A c \in Chains : DOMAIN c.obl \subseteq DOMAIN Plans
    /\ \A plan \in (UNION Range(Plans)) \cup {ProveIxs} : \A p \in Payers : IsPayable(plan, p)
    /\ ProveIxs # << >> /\ MetasOf(ProveIxs) = {}
    /\ \A p, q \in ProgramsOf(ProveIxs) : p = q

VARIABLES payer,      \* fee payer, once resolved
          asked,      \* fee payer candidates asked so far
          planned,    \* plans built
          ixs, wire,  \* the instructions at hand and their encoding
          results,    \* simulate_results
          summary     \* the Kamino progress line of the report

shadowVars == <<payer, asked, planned, ixs, wire, results, summary>>
vars == <<discoveryVars, shadowVars>>

Init ==
    /\ DiscoveryInit
    /\ payer = NoTx /\ asked = 0 /\ planned = 0 /\ ixs = << >> /\ wire = NoTx
    /\ results = << >> /\ summary = "none"

Stay == UNCHANGED <<gaps, mapVars, counts, save, scanVars>>

\* resolve_shadow_fee_payer, from the environment.
PayerFromEnv ==
    /\ pc = "reported" /\ pc' = "blockhash"
    /\ payer' = EnvPayer
    /\ UNCHANGED <<envVars, asked, planned, ixs, wire, results, summary>> /\ Stay

\* resolve_shadow_fee_payer, the candidates in turn: the first one read with
\* lamports, the first of all when none was.
AskPayer ==
    LET cand == FeePayers[asked + 1]
        last == asked + 1 = Len(FeePayers)
    IN
    /\ pc \in {"reported", "payer"}
    /\ asked' = asked + 1
    /\ \/ Answer /\ cand \in chain.funded /\ payer' = cand /\ pc' = "blockhash"
       \/ /\ (Answer /\ cand \notin chain.funded) \/ Fail
          /\ IF last THEN payer' = FeePayers[1] /\ pc' = "blockhash"
             ELSE pc' = "payer" /\ UNCHANGED payer
    /\ UNCHANGED <<planned, ixs, wire, results, summary>> /\ Stay

\* The rows that are simulated: all that were found, the report's capped list only
\* when that is empty.
Hot == IF liquidatable # << >> THEN liquidatable
       ELSE PickedFrom(Candidates, {i \in DOMAIN Candidates :
                                        Candidates[i].status = "liquidatable"})

\* A failed request leaves a zero hash, which the node replaces.
GetLatestBlockhash ==
    /\ pc = "blockhash" /\ pc' = "plan"
    /\ Answer \/ Fail
    /\ gaps' = IF Hot = << >> /\ "obligation GPA" \notin gaps
               THEN gaps \cup {"no liquidatable found"} ELSE gaps
    /\ UNCHANGED <<mapVars, counts, save, scanVars, shadowVars>>

Result(account, protocol, outcome) ==
    [account |-> account, protocol |-> protocol, outcome |-> outcome]

\* Mutant: a plan that cannot be encoded leaves no result.
EncodeFailed_Unrecorded(cand) == UNCHANGED results

\* The encoder's error becomes the result of this candidate.
EncodeFailed(cand) == results' = Append(results, Result(cand.account, "Kamino", "encode"))

\* hot.iter().take(3): plan, dry execution and encoding of the next candidate.
Plan ==
    /\ pc = "plan" /\ planned < PlanCap /\ planned < Len(Hot)
    /\ planned' = planned + 1
    /\ LET cand == Hot[planned + 1] IN
       \E plan \in Plans[cand.account] : \E tx \in EncodeVersionedTx(plan, payer) :
         IF tx.err # "none"
         THEN EncodeFailed(cand) /\ UNCHANGED <<pc, ixs, wire>>
         ELSE pc' = "simulate" /\ ixs' = plan /\ wire' = tx /\ UNCHANGED results
    /\ Answer
    /\ UNCHANGED <<payer, asked, summary>> /\ Stay

\* What a simulation answers: success, an error of an instruction (3012 and the
\* others are told apart), or an error of the transaction as a whole.
InstructionErrors == {"3012", "6009"}
Outcomes == {"ok", "AccountNotFound"} \cup InstructionErrors

SimulateTx(account, protocol, next) ==
    /\ \/ \E o \in Outcomes : Answer /\ results' = Append(results, Result(account, protocol, o))
       \/ Fail /\ results' = Append(results, Result(account, protocol, "rpc"))
    /\ pc' = next
    /\ ixs' = << >> /\ wire' = NoTx

SimulatePlan ==
    /\ pc = "simulate" /\ SimulateTx(Hot[planned].account, "Kamino", "plan")
    /\ UNCHANGED <<payer, asked, planned, summary>> /\ Stay

\* planned == 0: the two compute budget instructions prove the transaction path.
EncodeProve ==
    /\ pc = "plan" /\ planned = 0 /\ Hot = << >>
    /\ gaps' = gaps \cup {"no candidate to simulate"}
    /\ \E tx \in EncodeVersionedTx(ProveIxs, payer) : wire' = tx
    /\ ixs' = ProveIxs /\ pc' = "prove"
    /\ UNCHANGED <<envVars, mapVars, counts, save, scanVars, payer, asked, planned, results, summary>>

SimulateProve ==
    /\ pc = "prove" /\ SimulateTx("null", "prove", "summarize")
    /\ UNCHANGED <<payer, asked, planned, summary>> /\ Stay

EndPlans ==
    /\ pc = "plan" /\ planned > 0 /\ (planned = PlanCap \/ planned = Len(Hot))
    /\ pc' = "summarize"
    /\ Answer /\ UNCHANGED shadowVars /\ Stay

-----------------------------------------------------------------------------
(* summarize_kamino_sim_progress                                           *)

SortKey(r) ==
    IF r.outcome = "ok" THEN 0 ELSE IF r.outcome \in InstructionErrors THEN 1 ELSE 2

\* The places of Kamino's results, or of those with one sort key.
KaminoAt(rs) == {i \in DOMAIN rs : rs[i].protocol = "Kamino"}

\* Mutant: the results in the order of the plans.
KaminoSorted_Unsorted(rs) == PickedFrom(rs, KaminoAt(rs))

\* sort_by_key is stable.
KaminoSorted(rs) ==
    LET class(n) == PickedFrom(rs, {i \in KaminoAt(rs) : SortKey(rs[i]) = n})
    IN class(0) \o class(1) \o class(2)

\* Results without an error value, and those that end the scan.
NullErr(r) == r.outcome \in {"encode", "rpc"}
Returns(r) == ~NullErr(r) /\ r.outcome # "3012"

\* The first result that returns, else what the last one left in `best`.
SummarizeKaminoSimProgress(rs) ==
    LET s == KaminoSorted(rs)
        first == SelectInSeq(s, Returns)
        line(r) == IF NullErr(r) THEN "no InstructionError" ELSE r.outcome
    IN IF first # 0 THEN line(s[first])
       ELSE IF s = << >> THEN "no strategy sims" ELSE line(s[Len(s)])

WriteReport ==
    /\ pc = "summarize" /\ pc' = "done"
    /\ summary' = SummarizeKaminoSimProgress(results)
    /\ Answer /\ Stay /\ UNCHANGED <<payer, asked, planned, ixs, wire, results>>

ShadowStep ==
    \/ PayerFromEnv \/ AskPayer \/ GetLatestBlockhash \/ Plan \/ SimulatePlan
    \/ EncodeProve \/ SimulateProve \/ EndPlans \/ WriteReport

\* The process has ended: with its report, or with the error of getSlot or
\* getMultipleAccounts.
Ended == pc \in {"done", "failed"} /\ UNCHANGED vars

Next ==
    \/ (Discover \/ Change) /\ UNCHANGED shadowVars
    \/ ShadowStep
    \/ Ended

Spec == Init /\ [][Next]_vars

-----------------------------------------------------------------------------
(* Properties                                                              *)

\* No obligation that was found and left unsimulated is less healthy on chain than one
\* that was simulated, by more than f64 rounds away and unless none of its collateral
\* counts: recomputed health, its sort key, the cap and the take(3) together pick the
\* worst (discover_mainnet's sort, run_mainnet_shadow's loop).
WorstFirst ==
    pc = "done" /\ current =>
        LET simulated == {results[i].account : i \in KaminoAt(results)}
            onChain(Bound(_, _, _), o) == Bound(chain.obl[o], chain.res, chain.market.groups)
        IN \A s \in simulated, o \in FoundAccounts \ simulated :
              onChain(CountsCollateral, o) => onChain(HealthLeast, s) <= onChain(HealthMost, o)

\* At the end the worst candidates, as many as found up to the cap, have one result
\* each, of their own account and in their order, whatever failed on its way; the
\* proving transaction stands in the report only when there was nobody to simulate
\* (run_mainnet_shadow's `continue`s).
OneResultPerPlan ==
    pc = "done" =>
        /\ planned = (IF Len(liquidatable) < PlanCap THEN Len(liquidatable) ELSE PlanCap)
        /\ IF planned = 0 THEN Len(results) = 1 /\ results[1].protocol = "prove"
           ELSE /\ Len(results) = planned
                /\ \A i \in 1..planned :
                     /\ results[i].protocol = "Kamino"
                     /\ results[i].account = liquidatable[i].account

\* The encoded message, read as the runtime reads it, runs the planned instructions
\* with the privileges they ask for and no others (build_account_keys, index_of).
WireFaithful == wire # NoTx => FaithfulMessage(wire, ixs, payer)

\* The progress line reports a success if there was one, else an error past 3012
\* if there was one, whatever the order of the results.
SummaryTellsFurthest ==
    pc = "done" =>
        LET seen == {results[i].outcome : i \in KaminoAt(results)}
        IN /\ "ok" \in seen => summary = "ok"
           /\ "ok" \notin seen /\ (seen \cap InstructionErrors) \ {"3012"} # {}
                => summary \in InstructionErrors \ {"3012"}
=============================================================================
