------------------------------- MODULE RpcPool -------------------------------
(***************************************************************************)
(* RotatingRpcPool (crates/liq-streaming/src/rpc_pool.rs): JSON-RPC over   *)
(* several endpoints.  A call starts at the shared index, walks the        *)
(* endpoints cyclically on retriable failures, and moves the shared index  *)
(* as it goes.                                                             *)
(*                                                                         *)
(* The pool is Clone over an Arc, the index an atomic and the statistics a *)
(* mutex, so calls of several tasks interleave at every access to either   *)
(* and at every await.  post_once bounds each request by a timeout, so     *)
(* every request is answered, if only by "http_timeout".                   *)
(*                                                                         *)
(* A reply is a value or an error text; texts are kept as far as           *)
(* classify_error tells them apart.  Hosts and latencies are left out.     *)
(***************************************************************************)
EXTENDS Integers, FiniteSets

CONSTANTS N,         \* urls.len(), at least 1 (from_urls refuses an empty list)
          Callers,   \* tasks that share the pool
          Replies,   \* what endpoints may answer
          MaxCalls   \* bound of the model: calls per caller

AllReplies == {"ok",
               "http_429", "http_5xx", "http_timeout", "http_other",
               "rpc_too_many_requests",  \* JSON-RPC error, text names a rate limit
               "rpc_app",                \* JSON-RPC error, text has no number below
               "rpc_app_500",            \* JSON-RPC error, "500" occurs in its text
               "decode"}                 \* Config or Decode error

ASSUME PoolAssumption ==
    /\ N \in Nat \ {0}
    /\ IsFiniteSet(Callers)
    /\ Replies \subseteq AllReplies
    /\ MaxCalls \in Nat

Endpoints == 0 .. N - 1

VARIABLES index,           \* AtomicUsize: where the next call starts
          requests,        \* stats, per endpoint
          successes,
          errors,
          rotations_away,
          pc,              \* per caller: what post_json does next
          start,           \* per caller: index when the call started
          attempt,         \* per caller: loop counter
          reply,           \* per caller: the last answer, "none" before the first
          calls,           \* per caller: calls made
          tried            \* history, per caller: endpoints asked in this call

statVars == <<requests, successes, errors, rotations_away>>
callVars == <<pc, start, attempt, reply, calls, tried>>
poolVars == <<index, statVars, callVars>>

PoolPC == {"idle", "send", "wait", "stick", "failed", "rotated"}

TypeOK ==
    /\ index \in Endpoints
    /\ requests \in [Endpoints -> Nat]
    /\ successes \in [Endpoints -> Nat]
    /\ errors \in [Endpoints -> Nat]
    /\ rotations_away \in [Endpoints -> Nat]
    /\ pc \in [Callers -> PoolPC]
    /\ start \in [Callers -> Endpoints]
    /\ attempt \in [Callers -> Endpoints]
    /\ reply \in [Callers -> AllReplies \cup {"none"}]
    /\ calls \in [Callers -> Nat]
    /\ tried \in [Callers -> SUBSET Endpoints]

PoolInit ==
    /\ index = 0
    /\ requests = [i \in Endpoints |-> 0]
    /\ successes = [i \in Endpoints |-> 0]
    /\ errors = [i \in Endpoints |-> 0]
    /\ rotations_away = [i \in Endpoints |-> 0]
    /\ pc = [c \in Callers |-> "idle"]
    /\ start = [c \in Callers |-> 0]
    /\ attempt = [c \in Callers |-> 0]
    /\ reply = [c \in Callers |-> "none"]
    /\ calls = [c \in Callers |-> 0]
    /\ tried = [c \in Callers |-> {}]

Goto(c, label) == pc' = [pc EXCEPT ![c] = label]

\* The endpoint of the current attempt.
Idx(c) == (start[c] + attempt[c]) % N

\* classify_error: the text of Http and Rpc errors is searched for "429" / "too
\* many request", then "500" ... "504" / "http 5", then "timeout"; what is left
\* is a transport error or an application error.
ClassifyError(r) ==
    CASE r \in {"http_429", "rpc_too_many_requests"} -> "RateLimited"
      [] r \in {"http_5xx", "rpc_app_500"}           -> "ServerError"
      [] r = "http_timeout"                          -> "Timeout"
      [] r = "http_other"                            -> "Transport"
      [] r = "rpc_app"                               -> "RpcApp"
      [] r = "decode"                                -> "Other"

ShouldRotate(kind) == kind \in {"RateLimited", "ServerError", "Timeout", "Transport"}

Retriable(r) == r \notin {"none", "ok"} /\ ShouldRotate(ClassifyError(r))

\* max_attempts is urls.len() for every pool from_urls builds.
Attempts == N

-----------------------------------------------------------------------------
(* One call of post_json                                                   *)

StartCall(c) ==
    /\ pc[c] = "idle"
    /\ calls[c] < MaxCalls
    /\ start' = [start EXCEPT ![c] = index]
    /\ attempt' = [attempt EXCEPT ![c] = 0]
    /\ reply' = [reply EXCEPT ![c] = "none"]
    /\ calls' = [calls EXCEPT ![c] = @ + 1]
    /\ tried' = [tried EXCEPT ![c] = {}]
    /\ Goto(c, "send")
    /\ UNCHANGED <<index, statVars>>

\* post_once up to the await: the request is counted and sent.
Send(c) ==
    /\ pc[c] = "send"
    /\ requests' = [requests EXCEPT ![Idx(c)] = @ + 1]
    /\ tried' = [tried EXCEPT ![c] = @ \cup {Idx(c)}]
    /\ Goto(c, "wait")
    /\ UNCHANGED <<index, successes, errors, rotations_away, start, attempt, reply, calls>>

\* Mutant: the answer is booked on the endpoint the pool points at now.
Answer_BookedOnIndex(c, r) ==
    /\ pc[c] = "wait"
    /\ reply' = [reply EXCEPT ![c] = r]
    /\ IF r = "ok"
       THEN /\ successes' = [successes EXCEPT ![index] = @ + 1]
            /\ Goto(c, "stick")
            /\ UNCHANGED errors
       ELSE /\ errors' = [errors EXCEPT ![index] = @ + 1]
            /\ Goto(c, "failed")
            /\ UNCHANGED successes
    /\ UNCHANGED <<index, requests, rotations_away, start, attempt, calls, tried>>

\* post_once after the await: the answer, or the timeout, is counted.
Answer(c, r) ==
    /\ pc[c] = "wait"
    /\ reply' = [reply EXCEPT ![c] = r]
    /\ IF r = "ok"
       THEN /\ successes' = [successes EXCEPT ![Idx(c)] = @ + 1]
            /\ Goto(c, "stick")
            /\ UNCHANGED errors
       ELSE /\ errors' = [errors EXCEPT ![Idx(c)] = @ + 1]
            /\ Goto(c, "failed")
            /\ UNCHANGED successes
    /\ UNCHANGED <<index, requests, rotations_away, start, attempt, calls, tried>>

\* "Stick to successful endpoint."
Stick(c) ==
    /\ pc[c] = "stick"
    /\ index' = Idx(c)
    /\ Goto(c, "idle")
    /\ UNCHANGED <<statVars, start, attempt, reply, calls, tried>>

\* Mutant: the last endpoint is left out.
MayRetry_OneShort(c) == Retriable(reply[c]) /\ attempt[c] + 2 < Attempts

MayRetry(c) == Retriable(reply[c]) /\ attempt[c] + 1 < Attempts

\* advance: the index moves first ...
AdvanceIndex(c) ==
    /\ pc[c] = "failed"
    /\ MayRetry(c)
    /\ index' = (Idx(c) + 1) % N
    /\ Goto(c, "rotated")
    /\ UNCHANGED <<statVars, start, attempt, reply, calls, tried>>

\* ... then the statistics; the loop goes on, after a pause on a rate limit.
AdvanceStats(c) ==
    /\ pc[c] = "rotated"
    /\ rotations_away' = [rotations_away EXCEPT ![Idx(c)] = @ + 1]
    /\ attempt' = [attempt EXCEPT ![c] = @ + 1]
    /\ Goto(c, "send")
    /\ UNCHANGED <<index, requests, successes, errors, start, reply, calls, tried>>

\* Mutant: nothing is returned when the attempts are used up.
GiveUp_NotRetriableOnly(c) ==
    /\ pc[c] = "failed"
    /\ ~Retriable(reply[c])
    /\ Goto(c, "idle")
    /\ UNCHANGED <<index, statVars, start, attempt, reply, calls, tried>>

\* The error is returned: it is not retriable, or the attempts are used up.
GiveUp(c) ==
    /\ pc[c] = "failed"
    /\ ~MayRetry(c)
    /\ Goto(c, "idle")
    /\ UNCHANGED <<index, statVars, start, attempt, reply, calls, tried>>

\* What a caller does once it has called, the endpoints answering.
Proceed(c) ==
    \/ Send(c)
    \/ \E r \in Replies : Answer(c, r)
    \/ Stick(c)
    \/ AdvanceIndex(c)
    \/ AdvanceStats(c)
    \/ GiveUp(c)

PoolNext == \E c \in Callers : StartCall(c) \/ Proceed(c)

PoolSpec == PoolInit /\ [][PoolNext]_poolVars

\* tokio polls every task that is ready, and a request without an answer becomes
\* one when the timeout of post_once elapses: a call that can go on does.
FairSpec == PoolSpec /\ \A c \in Callers : WF_poolVars(Proceed(c))

-----------------------------------------------------------------------------
(* Properties                                                              *)

\* A retriable error reaches the caller only after every endpoint was asked in
\* this very call: whatever other callers did to the shared index meanwhile, no
\* endpoint is skipped (post_json walks from its own start).
GivesUpOnlyAfterAll ==
    \A c \in Callers :
        pc[c] = "idle" /\ Retriable(reply[c]) => tried[c] = Endpoints

\* Requests to an endpoint are its successes, its errors and the requests still
\* waiting: concurrent calls lose no count and book none on another endpoint,
\* and the pool never rotates away from an endpoint more often than it failed.
StatsBalance ==
    \A i \in Endpoints :
        /\ requests[i] = successes[i] + errors[i]
                         + Cardinality({c \in Callers : pc[c] = "wait" /\ Idx(c) = i})
        /\ rotations_away[i] <= errors[i]

\* Every call returns: the walk over the endpoints ends (post_json).
EveryCallReturns == \A c \in Callers : pc[c] # "idle" ~> pc[c] = "idle"
=============================================================================
