------------------------------- MODULE Policy -------------------------------
(***************************************************************************)
(* Policy::execute() of rskit-resilience (policy.rs): bulkhead, circuit    *)
(* breaker, timeout and retry around one operation, in this order.  The    *)
(* rate limiter before them only refuses calls and is left out.            *)
(*                                                                         *)
(* The breaker is CircuitBreaker; this module adds what a caller does      *)
(* around and inside the breaker's execute().  The operation may succeed,  *)
(* fail, or never return, and the caller may drop its call at any await.   *)
(***************************************************************************)
EXTENDS CircuitBreaker, Sequences, SequencesExt

CONSTANTS
    Limits,      \* values BulkheadConfig::max_concurrent may have
    MaxAttempts  \* RetryPolicy::max_attempts

ASSUME PolicyAssumption ==
    /\ Limits \subseteq Nat \ {0}
    /\ MaxAttempts \in Nat \ {0}

VARIABLES
    limit,    \* BulkheadConfig::max_concurrent, fixed at construction
    permits,  \* free permits of the bulkhead's semaphore
    waiters,  \* callers that wait for one, first come first served
    stage,    \* where each caller is: "out", "waiting", "granted" (a permit was
              \* assigned to it while it waited), "in" (it took one at once),
              \* "breaker" (inside the breaker's execute()), "rejected" by it
    attempt   \* attempts the retry loop has made

bulkhead == <<limit, permits, waiters>>
policyVars == <<vars, bulkhead, stage, attempt>>

PolicyInit ==
    /\ Init
    /\ limit \in Limits
    /\ permits = limit
    /\ waiters = <<>>
    /\ stage = [c \in Callers |-> "out"]
    /\ attempt = [c \in Callers |-> 0]

Goto(c, s) == stage' = [stage EXCEPT ![c] = s]

\* Mutant: the permit is counted as free and nobody is woken.
GivePermitUnheard(c, s) ==
    /\ permits' = permits + 1
    /\ Goto(c, s)
    /\ UNCHANGED waiters

\* Caller c goes to s and drops its permit, which the longest waiter gets.
GivePermit(c, s) ==
    IF waiters = <<>>
    THEN permits' = permits + 1 /\ Goto(c, s) /\ UNCHANGED waiters
    ELSE /\ stage' = [stage EXCEPT ![c] = s, ![Head(waiters)] = "granted"]
         /\ waiters' = Tail(waiters)
         /\ UNCHANGED permits

\* The future of acquire() is dropped: its waiter leaves the queue.
StopWaiting(c) ==
    \E i \in DOMAIN waiters : waiters[i] = c /\ waiters' = RemoveAt(waiters, i)

(***************************************************************************)
(* Bulkhead::execute()                                                     *)
(***************************************************************************)

\* The first poll of acquire().
Enter(c) ==
    /\ stage[c] = "out"
    /\ \/ /\ permits > 0
          /\ permits' = permits - 1
          /\ Goto(c, "in")
          /\ UNCHANGED waiters
       \/ /\ permits = 0
          /\ waiters' = Append(waiters, c)
          /\ Goto(c, "waiting")
          /\ UNCHANGED permits
    /\ UNCHANGED <<vars, limit, attempt>>

\* max_wait is over; a permit assigned by then is taken instead.
WaitExpires(c) ==
    /\ stage[c] = "waiting"
    /\ StopWaiting(c)
    /\ Goto(c, "out")
    /\ UNCHANGED <<vars, limit, permits, attempt>>

\* With the permit, the breaker's execute() is called; its callers begin idle.
EnterBreaker(c) ==
    /\ stage[c] \in {"granted", "in"}
    /\ Admit(c)
    /\ Goto(c, IF pc'[c] = "idle" THEN "rejected" ELSE "breaker")
    /\ attempt' = [attempt EXCEPT ![c] = IF pc'[c] = "idle" THEN 0 ELSE 1]
    /\ UNCHANGED bulkhead

\* f() has returned: on_release, and the permit is dropped.
Leave(c) ==
    /\ \/ stage[c] = "rejected"
       \/ stage[c] = "breaker" /\ pc[c] = "idle"
    /\ GivePermit(c, "out")
    /\ UNCHANGED <<vars, limit, attempt>>

(***************************************************************************)
(* Inside the breaker: timeout around the retry loop around f()            *)
(***************************************************************************)
InFrame == UNCHANGED <<bulkhead, stage>>

\* The transition callbacks of the breaker.
CallBack(c) == Notify(c) /\ InFrame /\ UNCHANGED attempt

AttemptSucceeds(c) ==
    /\ Succeed(c)
    /\ attempt' = [attempt EXCEPT ![c] = 0]
    /\ InFrame

\* An attempt failed with a retryable error: back off and try again.
AttemptRetried(c) ==
    /\ Calling(c) /\ attempt[c] < MaxAttempts
    /\ attempt' = [attempt EXCEPT ![c] = @ + 1]
    /\ UNCHANGED vars
    /\ InFrame

\* The attempts are used up, or the error is not retryable: the breaker sees one
\* failure.
AttemptsFail(c) ==
    /\ Fail(c)
    /\ attempt' = [attempt EXCEPT ![c] = 0]
    /\ InFrame

\* Mutant: an operation that hangs is waited for.
TimeoutElapsesNever(c) ==
    /\ FALSE
    /\ UNCHANGED policyVars

\* The timeout drops the loop at an await.  To the breaker, which is outside it,
\* that is a failure like any other.
TimeoutElapses(c) ==
    /\ Fail(c)
    /\ attempt' = [attempt EXCEPT ![c] = 0]
    /\ InFrame

\* The caller drops its call: while it waits, with a permit assigned to it, or at
\* the operation, where the breaker never learns of it.
DropCall(c) ==
    /\ c \in Cancellable
    /\ \/ /\ stage[c] = "waiting"
          /\ StopWaiting(c)
          /\ Goto(c, "out")
          /\ UNCHANGED <<vars, permits>>
       \/ stage[c] = "granted" /\ GivePermit(c, "out") /\ UNCHANGED vars
       \/ stage[c] = "breaker" /\ Drop(c) /\ GivePermit(c, "out")
    /\ attempt' = [attempt EXCEPT ![c] = 0]
    /\ UNCHANGED limit

PolicyNext ==
    \/ \E c \in Callers :
        \/ Enter(c) \/ WaitExpires(c) \/ EnterBreaker(c) \/ Leave(c)
        \/ CallBack(c) \/ AttemptSucceeds(c) \/ AttemptRetried(c)
        \/ AttemptsFail(c) \/ TimeoutElapses(c) \/ DropCall(c)
    \/ (Reset \/ Tick) /\ UNCHANGED <<bulkhead, stage, attempt>>

PolicySpec == PolicyInit /\ [][PolicyNext]_policyVars

\* A call that was made is polled and its timers fire; the operation itself need
\* not return.
CallFairness ==
    \A c \in Callers :
        /\ WF_policyVars(WaitExpires(c)) /\ WF_policyVars(EnterBreaker(c))
        /\ WF_policyVars(Leave(c)) /\ WF_policyVars(CallBack(c))
        /\ WF_policyVars(TimeoutElapses(c))

\* The clock advances, traffic keeps arriving, and a caller does not drop all its
\* calls before they reach the breaker.
PolicyTraffic ==
    /\ WF_policyVars(Tick /\ UNCHANGED <<bulkhead, stage, attempt>>)
    /\ \A c \in Callers : WF_policyVars(Enter(c)) /\ SF_policyVars(EnterBreaker(c))

PolicyFairSpec == PolicySpec /\ CallFairness /\ PolicyTraffic

(***************************************************************************)
(* Properties                                                              *)
(***************************************************************************)

\* Callers that have a permit.
Holders == {c \in Callers : stage[c] \in {"granted", "in", "breaker", "rejected"}}

\* Permits are neither lost nor forged, whether calls return, are rejected by the
\* breaker, time out or are dropped at any await; nobody waits beside a free one;
\* and only a holder is inside the breaker (bulkhead.rs execute()).
BulkheadSound ==
    /\ permits + Cardinality(Holders) = limit
    /\ waiters # <<>> => permits = 0
    /\ ToSet(waiters) = {c \in Callers : stage[c] = "waiting"}
    /\ \A c \in Callers : pc[c] # "idle" => stage[c] = "breaker"

\* Every call returns, although the operation may never do: max_wait bounds the
\* wait for a permit and the timeout bounds the operation with all its attempts
\* (policy.rs execute(), execute_timeout(); bulkhead.rs execute()).
CallsReturn == \A c \in Callers : stage[c] # "out" ~> stage[c] = "out"
=============================================================================
