------------------------------ MODULE PoolSpec ------------------------------
(***************************************************************************)
(* What the worker pool promises to its users, without locks, wake-ups and *)
(* runner: tasks are accepted into a bounded queue, leave it in the order  *)
(* of acceptance, run at most Size at a time and each at most once, and    *)
(* every handle resolves at most once.  WorkerPool implements it.          *)
(***************************************************************************)
EXTENDS Naturals, FiniteSets, Sequences, SequencesExt

CONSTANTS
    Tasks,     \* the tasks submitted, each once
    Capacity,  \* places in the queue
    Size       \* tasks that may run at a time

VARIABLES
    queue,    \* accepted tasks, first in first out
    next,     \* the task that left the queue to run next, if any
    running,  \* tasks that run
    outcome   \* what each handle, or a refused submission, resolved to

vars == <<queue, next, running, outcome>>
Outcome == {"none", "returned", "error"}

Init ==
    /\ queue = <<>>
    /\ next = {}
    /\ running = {}
    /\ outcome = [t \in Tasks |-> "none"]

\* Task t was not accepted yet, nor refused.
Fresh(t) == outcome[t] = "none" /\ t \notin ToSet(queue) \cup next \cup running

Resolve(ts, r) == outcome' = [t \in Tasks |-> IF t \in ts THEN r ELSE outcome[t]]

\* The queue is full or closed, or the submitter gives up.
Refuse(t) ==
    /\ Fresh(t)
    /\ Resolve({t}, "error")
    /\ UNCHANGED <<queue, next, running>>

Accept(t) ==
    /\ Fresh(t) /\ Len(queue) < Capacity
    /\ queue' = Append(queue, t)
    /\ UNCHANGED <<next, running, outcome>>

\* The oldest task makes room.
Displace(t) ==
    /\ Fresh(t) /\ Len(queue) = Capacity
    /\ queue' = Append(Tail(queue), t)
    /\ Resolve({Head(queue)}, "error")
    /\ UNCHANGED <<next, running>>

Take ==
    /\ next = {} /\ queue # <<>>
    /\ next' = {Head(queue)}
    /\ queue' = Tail(queue)
    /\ UNCHANGED <<running, outcome>>

Begin ==
    /\ next # {} /\ Cardinality(running) < Size
    /\ running' = running \cup next
    /\ next' = {}
    /\ UNCHANGED <<queue, outcome>>

\* The pool is ending: what was to run next does not ...
Cancel ==
    /\ next # {}
    /\ Resolve(next, "error")
    /\ next' = {}
    /\ UNCHANGED <<queue, running>>

\* ... or nothing of what waits does.
CancelAll ==
    /\ Resolve(ToSet(queue) \cup next, "error")
    /\ queue' = <<>> /\ next' = {}
    /\ UNCHANGED running

End(t) ==
    /\ t \in running
    /\ \E r \in {"returned", "error"} : Resolve({t}, r)
    /\ running' = running \ {t}
    /\ UNCHANGED <<queue, next>>

Next ==
    \/ \E t \in Tasks : Refuse(t) \/ Accept(t) \/ Displace(t) \/ End(t)
    \/ Take \/ Begin \/ Cancel \/ CancelAll

Spec == Init /\ [][Next]_vars
=============================================================================
