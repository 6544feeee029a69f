--------------------------- MODULE CircuitBreaker ---------------------------
(***************************************************************************)
(* The circuit breaker of rskit-resilience (circuit_breaker.rs).           *)
(*                                                                         *)
(* Any number of tasks call execute() on clones of one breaker.  A call    *)
(* takes the mutex before the protected operation (Admit), runs the        *)
(* operation with the mutex released, and takes the mutex again to record  *)
(* the result (Succeed, Fail).  The state-change callback runs after the   *)
(* mutex is released, in steps of its own.  A result is recorded against   *)
(* the state the breaker has by then, not the one that admitted the call.  *)
(***************************************************************************)
EXTENDS Integers, FiniteSets, FiniteSetsExt

CONSTANTS
    Callers,      \* tasks that call execute(), over and over
    Cancellable,  \* the callers whose future may be dropped (or may panic)
    MaxFailures,  \* CbConfig::max_failures
    HalfOpenMax,  \* CbConfig::half_open_max_calls
    Timeout,      \* CbConfig::timeout, in clock ticks
    Resettable    \* whether the application calls reset()

\* CbConfig::validate() refuses zero thresholds.
CbConfigValid ==
    /\ MaxFailures \in Nat \ {0}
    /\ HalfOpenMax \in Nat \ {0}
    /\ Timeout \in Nat

ASSUME CbConfigAssumption == CbConfigValid
ASSUME CallersAssumption ==
    /\ IsFiniteSet(Callers)
    /\ Cancellable \subseteq Callers
    /\ Resettable \in BOOLEAN

VARIABLES
    state,            \* Inner::state
    failures,         \* Inner::failures, saturating at MaxFailures
    successes,        \* Inner::successes
    half_open_calls,  \* Inner::half_open_calls
    last_failure,     \* age of Inner::last_failure (up to Timeout)
    pc,               \* where each caller is in execute()
    transition,       \* each caller's local `transition`
    probe,            \* history: callers admitted by the current half-open period
    probes_ok,        \* history: probes of the current period that succeeded
    probes_lost,      \* history: probes of the current period that were dropped
    open_for,         \* history: ticks the breaker has been open (up to Timeout)
    delivered         \* history: net flow into each state, by callbacks and resets

inner == <<state, failures, successes, half_open_calls, last_failure>>
history == <<probe, probes_ok, probes_lost, open_for>>
vars == <<inner, pc, transition, history, delivered>>

CbState == {"Closed", "Open", "HalfOpen"}
NoInstant == -1      \* last_failure: None
NoTransition == <<>>
Transitions == {t \in CbState \X CbState : t[1] # t[2]}

\* The protected operation is running (execute() is suspended at f().await).
Calling(c) == pc[c] = "calling"

\* The half-open probes whose result is still outstanding.
ProbesInFlight == {c \in probe : pc[c] \in {"notify_pre", "calling"}}

(***************************************************************************)
(* Building blocks                                                         *)
(***************************************************************************)

\* Saturating successor: the code compares these counters with n, never more.
Bump(k, n) == IF k < n THEN k + 1 ELSE n

\* Inner::new()
Init ==
    /\ state = "Closed"
    /\ failures = 0
    /\ successes = 0
    /\ half_open_calls = 0
    /\ last_failure = NoInstant
    /\ pc = [c \in Callers |-> "idle"]
    /\ transition = [c \in Callers |-> NoTransition]
    /\ probe = {}
    /\ probes_ok = 0
    /\ probes_lost = 0
    /\ open_for = 0
    /\ delivered = [s \in CbState |-> 0]

\* transition(): caller c moves the breaker to a different state and keeps the
\* pair for its callback, which it delivers at `next`.  Entering or leaving a
\* half-open period starts the history of the period afresh.
MoveTo(c, to, next) ==
    /\ state' = to
    /\ transition' = [transition EXCEPT ![c] = <<state, to>>]
    /\ pc' = [pc EXCEPT ![c] = next]
    /\ probe' = IF to = "HalfOpen" THEN {c} ELSE {}
    /\ probes_ok' = 0
    /\ probes_lost' = 0
    /\ open_for' = 0

\* The lock section ends without a transition.
Stay(c, next) ==
    /\ pc' = [pc EXCEPT ![c] = next]
    /\ UNCHANGED <<state, transition, probes_lost, open_for>>

\* The open breaker's timeout has elapsed since the last recorded failure.
Elapsed == last_failure # NoInstant /\ last_failure >= Timeout

\* A half-open breaker has a probe slot left.
SlotFree == half_open_calls < HalfOpenMax

\* Mutant: off by one, the breaker waits for one success too many.
EnoughSuccessesOneMore == successes + 1 > HalfOpenMax

\* With one more success a half-open breaker closes.
EnoughSuccesses == successes + 1 >= HalfOpenMax

\* One more failure opens the breaker.
Trips ==
    \/ state = "Closed" /\ failures + 1 >= MaxFailures
    \/ state = "HalfOpen"

\* Mutant: a failed probe does not record the time.
RecordFailureTimeClosed ==
    last_failure' = IF state = "HalfOpen" THEN last_failure ELSE 0

RecordFailureTime == last_failure' = 0

(***************************************************************************)
(* execute(): the pre-call lock section                                    *)
(***************************************************************************)
AdmitClosed(c) ==
    /\ state = "Closed"
    /\ Stay(c, "calling")
    /\ UNCHANGED <<failures, successes, half_open_calls, last_failure, probe,
                   probes_ok>>

\* Mutant: the call that opens the half-open period takes no probe slot.
AdmitFirstProbeUncounted(c) ==
    /\ state = "Open"
    /\ Elapsed
    /\ MoveTo(c, "HalfOpen", "notify_pre")
    /\ half_open_calls' = 0
    /\ successes' = 0
    /\ UNCHANGED <<failures, last_failure>>

\* Mutant: the result of transition() is discarded.
AdmitFirstProbeSilent(c) ==
    /\ state = "Open"
    /\ Elapsed
    /\ state' = "HalfOpen"
    /\ pc' = [pc EXCEPT ![c] = "calling"]
    /\ half_open_calls' = 1
    /\ successes' = 0
    /\ probe' = {c}
    /\ probes_ok' = 0
    /\ probes_lost' = 0
    /\ open_for' = 0
    /\ UNCHANGED <<failures, last_failure, transition>>

AdmitFirstProbe(c) ==
    /\ state = "Open"
    /\ Elapsed
    /\ MoveTo(c, "HalfOpen", "notify_pre")
    /\ half_open_calls' = 1
    /\ successes' = 0
    /\ UNCHANGED <<failures, last_failure>>

AdmitProbe(c) ==
    /\ state = "HalfOpen"
    /\ SlotFree
    /\ half_open_calls' = half_open_calls + 1
    /\ Stay(c, "calling")
    /\ probe' = probe \cup {c}
    /\ UNCHANGED <<failures, successes, last_failure, probes_ok>>

\* Mutant: a rejected call is recorded as a failure.
RejectCounted(c) ==
    /\ \/ state = "Open" /\ ~Elapsed /\ last_failure' = 0
       \/ /\ state = "HalfOpen" /\ ~SlotFree
          /\ UNCHANGED last_failure
    /\ UNCHANGED <<state, failures, successes, half_open_calls, pc, transition,
                   history>>

\* can_proceed is false: the caller gets service_unavailable at once.
Reject(c) ==
    /\ \/ state = "Open" /\ ~Elapsed
       \/ state = "HalfOpen" /\ ~SlotFree
    /\ UNCHANGED <<inner, pc, transition, history>>

Admit(c) ==
    /\ pc[c] = "idle"
    /\ AdmitClosed(c) \/ AdmitFirstProbe(c) \/ AdmitProbe(c) \/ Reject(c)
    /\ UNCHANGED delivered

(***************************************************************************)
(* execute(): the post-call lock section                                   *)
(***************************************************************************)

\* Mutant: the failure counter survives the recovery.
SucceedHalfOpenKeepFailures(c) ==
    /\ state = "HalfOpen"
    /\ successes' = successes + 1
    /\ IF EnoughSuccesses
       THEN MoveTo(c, "Closed", "notify_post")
       ELSE /\ Stay(c, "idle")
            /\ probe' = probe \ {c}
            /\ probes_ok' = probes_ok + (IF c \in probe THEN 1 ELSE 0)
    /\ UNCHANGED failures

\* Ok(_) in HalfOpen: every success counts, whenever its call was admitted.
SucceedHalfOpen(c) ==
    /\ state = "HalfOpen"
    /\ successes' = successes + 1
    /\ IF EnoughSuccesses
       THEN failures' = 0 /\ MoveTo(c, "Closed", "notify_post")
       ELSE /\ Stay(c, "idle")
            /\ probe' = probe \ {c}
            /\ probes_ok' = probes_ok + (IF c \in probe THEN 1 ELSE 0)
            /\ UNCHANGED failures

SucceedClosed(c) ==
    /\ state = "Closed"
    /\ failures' = 0
    /\ Stay(c, "idle")
    /\ UNCHANGED <<successes, probe, probes_ok>>

SucceedOpen(c) ==
    /\ state = "Open"
    /\ Stay(c, "idle")
    /\ UNCHANGED <<failures, successes, probe, probes_ok>>

Succeed(c) ==
    /\ Calling(c)
    /\ SucceedHalfOpen(c) \/ SucceedClosed(c) \/ SucceedOpen(c)
    /\ UNCHANGED <<half_open_calls, last_failure, delivered>>

\* Err(_): the failure is counted and timestamped in every state.
Fail(c) ==
    /\ Calling(c)
    /\ failures' = Bump(failures, MaxFailures)
    /\ RecordFailureTime
    /\ IF Trips
       THEN MoveTo(c, "Open", "notify_post")
       ELSE Stay(c, "idle") /\ probe' = probe \ {c} /\ UNCHANGED probes_ok
    /\ UNCHANGED <<successes, half_open_calls, delivered>>

(***************************************************************************)
(* notify_transition(): the callback runs with the mutex released          *)
(***************************************************************************)
Notify(c) ==
    /\ pc[c] \in {"notify_pre", "notify_post"}
    /\ delivered' = [delivered EXCEPT ![transition[c][1]] = @ - 1,
                                      ![transition[c][2]] = @ + 1]
    /\ transition' = [transition EXCEPT ![c] = NoTransition]
    /\ pc' = [pc EXCEPT ![c] = IF @ = "notify_pre" THEN "calling" ELSE "idle"]
    /\ UNCHANGED <<inner, history>>

(***************************************************************************)
(* The environment                                                         *)
(***************************************************************************)

\* The caller drops the future at its only await (a timeout layer, select!, an
\* aborted task) or f() panics: the post-call section never runs.
Drop(c) ==
    /\ c \in Cancellable
    /\ Calling(c)
    /\ pc' = [pc EXCEPT ![c] = "idle"]
    /\ probe' = probe \ {c}
    /\ probes_lost' = probes_lost + (IF c \in probe THEN 1 ELSE 0)
    /\ UNCHANGED <<inner, transition, probes_ok, open_for, delivered>>

\* reset(): *inner = Inner::new(), with no callback.
Reset ==
    /\ Resettable
    /\ state' = "Closed"
    /\ failures' = 0
    /\ successes' = 0
    /\ half_open_calls' = 0
    /\ last_failure' = NoInstant
    /\ probe' = {}
    /\ probes_ok' = 0
    /\ probes_lost' = 0
    /\ open_for' = 0
    /\ delivered' = [delivered EXCEPT ![state] = @ - 1, !["Closed"] = @ + 1]
    /\ UNCHANGED <<pc, transition>>

Tick ==
    /\ \/ last_failure # NoInstant /\ last_failure < Timeout
       \/ state = "Open" /\ open_for < Timeout
    /\ last_failure' = IF last_failure = NoInstant THEN NoInstant
                       ELSE Bump(last_failure, Timeout)
    /\ open_for' = IF state = "Open" THEN Bump(open_for, Timeout) ELSE open_for
    /\ UNCHANGED <<state, failures, successes, half_open_calls, pc, transition,
                   probe, probes_ok, probes_lost, delivered>>

Next ==
    \/ \E c \in Callers : \/ Admit(c) \/ Succeed(c) \/ Fail(c)
                          \/ Notify(c) \/ Drop(c)
    \/ Reset
    \/ Tick

Spec == Init /\ [][Next]_vars

\* Every admitted operation finishes (or is dropped), callbacks return.
Completion ==
    \A c \in Callers : /\ WF_vars(Succeed(c) \/ Fail(c) \/ Drop(c))
                       /\ WF_vars(Notify(c))

\* Traffic keeps arriving and the clock advances.
Traffic == WF_vars(Tick) /\ \A c \in Callers : WF_vars(Admit(c))

FairSpec == Spec /\ Completion /\ Traffic
(***************************************************************************)
(* Properties                                                              *)
(***************************************************************************)

\* The fields of Inner and the callers' local state have their types.
TypeOK ==
    /\ state \in CbState
    /\ failures \in 0..MaxFailures
    /\ successes \in 0..HalfOpenMax
    /\ half_open_calls \in 0..HalfOpenMax
    /\ last_failure \in {NoInstant} \cup 0..Timeout
    /\ pc \in [Callers -> {"idle", "notify_pre", "calling", "notify_post"}]
    /\ transition \in [Callers -> Transitions \cup {NoTransition}]
    /\ probe \in SUBSET Callers
    /\ probes_ok \in 0..HalfOpenMax
    /\ probes_lost \in 0..HalfOpenMax
    /\ open_for \in 0..Timeout
    /\ delivered \in [CbState -> Int]

\* A closed breaker has seen fewer than max_failures failures in a row, however
\* late the results of calls admitted in earlier periods are recorded: the
\* counter left over from an open period never survives into a closed one.
ClosedBelowThreshold == state = "Closed" => failures < MaxFailures

\* An open breaker always has the timestamp execute() needs to leave Open: with
\* last_failure None, `unwrap_or(false)` would reject every call for ever.
OpenCanExpire == state = "Open" => last_failure # NoInstant

\* In a half-open period every slot handed out belongs to a probe that is in
\* flight, succeeded or was dropped, and there are at most half_open_max_calls of
\* them: calls that race for the slots send a bounded number of probes upstream.
ProbesBounded ==
    state = "HalfOpen" =>
        /\ Cardinality(ProbesInFlight) + probes_ok + probes_lost = half_open_calls
        /\ half_open_calls <= HalfOpenMax

Saturated == state = "HalfOpen" /\ half_open_calls >= HalfOpenMax

\* A half-open breaker that has handed out all its slots still waits for a probe
\* whose result will close or reopen it, unless a probe was dropped.
SaturatedHasProbe == Saturated /\ probes_lost = 0 => ProbesInFlight # {}

\* The callbacks delivered and the ones still pending lead, together with the
\* resets, from Closed to the breaker's state: none is lost or repeated, although
\* callers deliver them with the mutex released and so possibly out of order.
CallbacksAccountForState ==
    LET pending == {c \in Callers : transition[c] # NoTransition}
        into(s) == Cardinality({c \in pending : transition[c][2] = s})
        outOf(s) == Cardinality({c \in pending : transition[c][1] = s})
        at(s, r) == IF s = r THEN 1 ELSE 0
    IN  \A s \in CbState :
            delivered[s] + into(s) - outOf(s) = at(s, state) - at(s, "Closed")

\* The breaker stays open at least `timeout`: it moves to half-open only when the
\* timeout has elapsed since it opened, whichever failure opened it.
OpenForTimeout ==
    [][state = "Open" /\ state' = "HalfOpen" => open_for >= Timeout]_vars

\* A half-open breaker with no slot left is closed or reopened, unless one of its
\* probes was dropped.
SaturatedResolves == Saturated ~> state # "HalfOpen" \/ probes_lost > 0

\* Under traffic an open breaker is eventually tried again, although results of
\* calls admitted earlier keep refreshing last_failure.
OpenEventuallyProbes == state = "Open" ~> state # "Open"

\* No state of the breaker is final while calls arrive: an open one is eventually
\* tried again, although late failures keep refreshing last_failure, and a
\* half-open one without slots is eventually decided, unless a probe was dropped.
Recovers == OpenEventuallyProbes /\ SaturatedResolves

\* The diagram on CircuitBreaker leads from HalfOpen to Closed or to Open: a
\* half-open breaker with no slot left never stays half-open for good.
HalfOpenResolves == Saturated ~> state # "HalfOpen"

=============================================================================
