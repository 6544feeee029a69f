-------------------------- MODULE WorkerPoolProofs --------------------------
(***************************************************************************)
(* Machine-checked proofs about the worker pool, for any number of tasks   *)
(* and submitters, every policy, capacity and size, and every way in which *)
(* the pool may be ended.                                                  *)
(*                                                                         *)
(* TasksInv says where each task is: in the queue, in the list of waiters, *)
(* in the runner's hands, or nowhere but in its own state.  The other      *)
(* invariants rest on it, and so does the refinement of PoolSpec.          *)
(***************************************************************************)
EXTENDS WorkerPool, FiniteSetTheorems, SequenceLemmas

\* The queue and the submitters' futures, the tasks and their handles.
TasksTyped ==
    /\ items \in Seq(Tasks) /\ waiters \in Seq(Tasks)
    /\ status \in [Tasks -> Status] /\ result \in [Tasks -> Result]

QueueInv ==
    /\ Len(items) <= Capacity /\ Distinct(items)
    /\ \A t \in Tasks : t \in ToSet(items) <=> status[t] = "queued"

WaitersInv ==
    /\ Distinct(waiters)
    /\ \A t \in Tasks : t \in ToSet(waiters) <=> status[t] = "waiting"

\* The runner holds at most one task, and one exactly between dequeuing it and
\* starting or failing it.
HeldInv ==
    /\ \A t, u \in Tasks : status[t] = "held" /\ status[u] = "held" => t = u
    /\ (\E t \in Tasks : status[t] = "held") <=> runner \in {"permit", "acquire", "fail"}

ResultInv ==
    \A t \in Tasks :
        status[t] \in {"new", "queued", "held", "running"} \cup Blocked => result[t] = "none"

TasksInv == TasksTyped /\ QueueInv /\ WaitersInv /\ HeldInv /\ ResultInv

\* The owner closes the queue before the runner is aborted or leaves its drain
\* loop, and a closed queue stays empty once it is.
EndInv ==
    /\ aborted => closed
    /\ runner \in {"join", "exited", "dropped"} => closed /\ items = <<>>

\* A task dequeued after the shutdown began is failed before a permit is awaited.
LateInv ==
    /\ late \subseteq Tasks
    /\ \A t \in late :
        /\ shutdown
        /\ \/ status[t] = "held" /\ runner # "acquire" /\ result[t] = "none"
           \/ status[t] = "done" /\ result[t] \in {"cancelled", "lost"}

\* As SubmitterRemembered, also for a submitter that has not polled its future yet.
WakeInv ==
    (\E t \in Tasks : status[t] \in {"pending", "waiting"}) /\ ~closed =>
        \/ items # <<>>
        \/ not_full
        \/ \E t \in Tasks : status[t] \in {"notified", "retry"}

PermitsInv == permits \in Nat /\ permits + Cardinality(Executing) = Size

-----------------------------------------------------------------------------

\* What one step may do to task u and to its handle.
Move(u) ==
    \/ status'[u] = status[u] /\ result'[u] = result[u]
    \/ /\ status[u] \in {"new"} \cup Blocked /\ status'[u] \in {"queued"} \cup Blocked
       /\ result'[u] = result[u]
    \/ /\ status[u] \in {"new", "queued", "held"} \cup Blocked /\ status'[u] = "done"
       /\ result'[u] \notin {"none", "returned"}
       /\ status[u] = "held" => result'[u] \in {"cancelled", "lost"}
    \/ status[u] = "queued" /\ status'[u] = "held" /\ result'[u] = result[u]
    \/ status[u] = "held" /\ status'[u] = "running" /\ result'[u] = result[u] /\ RunnerSpawn
    \/ status[u] = "running" /\ status'[u] = "returning" /\ result'[u] \in {"returned", "lost"}
    \/ status[u] = "returning" /\ status'[u] = "done" /\ result'[u] = result[u] /\ Release(u)

TasksKept == TasksInv' /\ \A u \in Tasks : Move(u)

\* A submission is refused, accepted, has to wait, or displaces the oldest task.
Refused(t) ==
    /\ closed \/ status[t] = "new"
    /\ \E r \in Result \ {"none", "returned"} :
        /\ status' = [status EXCEPT ![t] = "done"]
        /\ result' = [result EXCEPT ![t] = r]
    /\ UNCHANGED <<items, not_empty>>

Accepted(t) ==
    /\ ~closed /\ Len(items) < Capacity
    /\ items' = Append(items, t) /\ not_empty' = TRUE
    /\ status' = [status EXCEPT ![t] = "queued"]
    /\ UNCHANGED result

Parked(t) ==
    /\ ~closed /\ ~(Len(items) < Capacity)
    /\ status' = [status EXCEPT ![t] = "pending"]
    /\ UNCHANGED <<items, not_empty, result>>

Displaced(t) ==
    /\ ~closed /\ ~(Len(items) < Capacity)
    /\ items' = Append(Tail(items), t) /\ not_empty' = TRUE
    /\ status' = [status EXCEPT ![t] = "queued", ![Head(items)] = "done"]
    /\ result' = [result EXCEPT ![Head(items)] = "rate_limited"]

\* What a first or a repeated push does, whatever the policy.
LEMMA SubmissionCases ==
    ASSUME NEW t \in Tasks, Submit(t) \/ Retry(t)
    PROVE  /\ status[t] \in {"new", "notified", "woken", "retry"}
           /\ Refused(t) \/ Accepted(t) \/ Parked(t) \/ Displaced(t)
           /\ UNCHANGED <<closed, not_full, waiters, control, permits, unreaped, runner, cancel, late>>
<1>1. status[t] \in {"new", "notified", "woken", "retry"}
  BY DEF Submit, Retry
<1>2. UNCHANGED <<closed, not_full, waiters, control, permits, unreaped, runner, cancel, late>>
  BY DEF Submit, Retry
<1>3. PushBlock(t) \/ (PushReject(t) /\ status[t] = "new") \/ PushDropOldest(t)
  BY DEF Submit, Retry
<1>4. CASE PushClosed(t)
  BY <1>1, <1>2, <1>4 DEF PushClosed, Resolve, Refused, Result
<1>5. CASE PushRoom(t)
  BY <1>1, <1>2, <1>5 DEF PushRoom, PushBack, HasRoom, Accepted
<1>6. CASE ~closed /\ ~HasRoom
  BY <1>1, <1>2, <1>3, <1>6
  DEF PushBlock, PushReject, PushDropOldest, PushClosed, PushRoom, Resolve, Displace, PushBack,
      HasRoom, Refused, Parked, Displaced, Result
<1> QED
  BY <1>1, <1>2, <1>3, <1>4, <1>5, <1>6 DEF PushBlock, PushReject, PushDropOldest

\* The first in a full queue: it has a first, which is queued.
LEMMA OldestQueued ==
    ASSUME TasksInv, items # <<>>
    PROVE  /\ Head(items) \in Tasks /\ status[Head(items)] = "queued"
           /\ Tail(items) \in Seq(Tasks) /\ Distinct(Tail(items))
           /\ Len(Tail(items)) = Len(items) - 1 /\ Len(items) \in Nat \ {0}
           /\ \A t \in Tasks : t \in ToSet(Tail(items)) <=> status[t] = "queued" /\ t # Head(items)
<1> DEFINE h == Head(items)
<1>1. /\ Tail(items) \in Seq(Tasks) /\ Distinct(Tail(items)) /\ h \in Tasks /\ h \in ToSet(items)
      /\ Len(Tail(items)) = Len(items) - 1 /\ Len(items) \in Nat \ {0}
      /\ h \notin ToSet(Tail(items)) /\ ToSet(items) = ToSet(Tail(items)) \cup {h}
  BY TailElements DEF TasksInv, TasksTyped, QueueInv
<1> HIDE DEF h
<1>2. status[h] = "queued"
  BY <1>1 DEF TasksInv, QueueInv
<1>3. \A t \in Tasks : t \in ToSet(Tail(items)) <=> status[t] = "queued" /\ t # h
  BY <1>1 DEF TasksInv, QueueInv
<1> QED
  BY <1>1, <1>2, <1>3 DEF h

\* A push keeps every task in its place.
LEMMA TasksSubmission ==
    ASSUME TasksInv, NEW t \in Tasks, Submit(t) \/ Retry(t) PROVE TasksKept
<1> USE DEF TasksInv, TasksKept
<1>1. /\ status[t] \in {"new", "notified", "woken", "retry"} /\ UNCHANGED <<waiters, runner>>
      /\ Refused(t) \/ Accepted(t) \/ Parked(t) \/ Displaced(t)
  BY SubmissionCases
<1>2. status[t] \notin {"queued", "waiting", "held"} /\ t \notin ToSet(items) /\ result[t] = "none"
  BY <1>1 DEF QueueInv, ResultInv, Blocked
<1>3. CASE Refused(t)
  <2>1. PICK r \in Result \ {"none", "returned"} :
          /\ status' = [status EXCEPT ![t] = "done"]
          /\ result' = [result EXCEPT ![t] = r] /\ UNCHANGED items
    BY <1>3 DEF Refused
  <2>2. TasksTyped'
    BY <1>1, <2>1 DEF TasksTyped, Status
  <2>3. QueueInv' /\ WaitersInv' /\ HeldInv'
    BY <1>1, <1>2, <2>1 DEF TasksTyped, QueueInv, WaitersInv, HeldInv
  <2>4. ResultInv'
    BY <1>1, <2>1 DEF TasksTyped, ResultInv, Blocked
  <2>5. \A u \in Tasks : Move(u)
    BY <1>1, <2>1 DEF TasksTyped, Move, Blocked
  <2> QED
    BY <2>2, <2>3, <2>4, <2>5
<1>4. CASE Accepted(t)
  <2>1. /\ Len(items) < Capacity /\ items' = Append(items, t)
        /\ status' = [status EXCEPT ![t] = "queued"] /\ result' = result
    BY <1>4 DEF Accepted
  <2>2. /\ items' \in Seq(Tasks) /\ Len(items') = Len(items) + 1 /\ Distinct(items')
        /\ ToSet(items') = ToSet(items) \cup {t}
    BY <1>2, <2>1, AppendElements DEF TasksTyped, QueueInv
  <2>3. TasksTyped'
    BY <1>1, <2>1, <2>2 DEF TasksTyped, Status
  <2>4. Len(items') <= Capacity
    BY <2>1, <2>2, PoolAssumption DEF TasksTyped
  <2>5. QueueInv'
    BY <2>1, <2>2, <2>4 DEF TasksTyped, QueueInv
  <2>6. WaitersInv' /\ HeldInv'
    BY <1>1, <1>2, <2>1 DEF TasksTyped, WaitersInv, HeldInv
  <2>7. ResultInv'
    BY <1>2, <2>1 DEF TasksTyped, ResultInv
  <2>8. \A u \in Tasks : Move(u)
    BY <1>1, <2>1 DEF TasksTyped, Move, Blocked
  <2> QED
    BY <2>3, <2>5, <2>6, <2>7, <2>8
<1>5. CASE Parked(t)
  <2>1. UNCHANGED <<items, result>> /\ status' = [status EXCEPT ![t] = "pending"]
    BY <1>5 DEF Parked
  <2>2. TasksTyped'
    BY <1>1, <2>1 DEF TasksTyped, Status, Blocked
  <2>3. QueueInv' /\ WaitersInv' /\ HeldInv'
    BY <1>1, <1>2, <2>1 DEF TasksTyped, QueueInv, WaitersInv, HeldInv
  <2>4. ResultInv'
    BY <1>2, <2>1 DEF TasksTyped, ResultInv
  <2>5. \A u \in Tasks : Move(u)
    BY <1>1, <2>1 DEF TasksTyped, Move, Blocked
  <2> QED
    BY <2>2, <2>3, <2>4, <2>5
<1>6. CASE Displaced(t)
  <2> DEFINE h == Head(items)
             rest == Tail(items)
  <2>1. /\ ~(Len(items) < Capacity) /\ items' = Append(rest, t)
        /\ status' = [status EXCEPT ![t] = "queued", ![h] = "done"]
        /\ result' = [result EXCEPT ![h] = "rate_limited"]
    BY <1>6 DEF Displaced
  <2>2. items # <<>>
    BY <2>1, PoolAssumption, EmptySeq DEF TasksTyped
  <2>3. /\ h \in Tasks /\ status[h] = "queued" /\ rest \in Seq(Tasks) /\ Distinct(rest)
        /\ Len(rest) = Len(items) - 1 /\ Len(items) \in Nat \ {0}
        /\ \A u \in Tasks : u \in ToSet(rest) <=> status[u] = "queued" /\ u # h
    BY <2>2, OldestQueued
  <2> HIDE DEF h, rest
  <2>4. /\ items' \in Seq(Tasks) /\ Len(items') = Len(rest) + 1 /\ Distinct(items')
        /\ ToSet(items') = ToSet(rest) \cup {t}
    BY <1>2, <2>1, <2>3, AppendElements
  <2>5. h # t
    BY <1>2, <2>3
  <2>6. TasksTyped'
    BY <1>1, <2>1, <2>4 DEF TasksTyped, Status, Result
  <2>7. Len(items') <= Capacity
    BY <2>3, <2>4 DEF QueueInv
  <2>8. QueueInv'
    BY <2>1, <2>3, <2>4, <2>5, <2>7 DEF TasksTyped, QueueInv
  <2>9. WaitersInv' /\ HeldInv'
    BY <1>1, <1>2, <2>1, <2>3 DEF TasksTyped, WaitersInv, HeldInv
  <2>10. ResultInv'
    BY <1>2, <2>1, <2>3, <2>5 DEF TasksTyped, ResultInv, Blocked
  <2>11. \A u \in Tasks : Move(u)
    BY <1>1, <2>1, <2>3, <2>5 DEF TasksTyped, Move, Blocked
  <2> QED
    BY <2>6, <2>8, <2>9, <2>10, <2>11
<1> QED
  BY <1>1, <1>3, <1>4, <1>5, <1>6

\* The first poll of a Notified takes the stored permit or joins the waiters.
LEMMA TasksPoll ==
    ASSUME TasksInv, NEW t \in Tasks, Poll(t) PROVE TasksKept
<1> USE DEF TasksInv, TasksKept
<1>1. status[t] = "pending" /\ UNCHANGED <<items, result, runner>>
  BY DEF Poll
<1>2. t \notin ToSet(waiters) /\ result[t] = "none"
  BY <1>1 DEF WaitersInv, ResultInv, Blocked
<1>3. CASE status' = [status EXCEPT ![t] = "retry"] /\ UNCHANGED waiters
  <2>1. TasksTyped'
    BY <1>1, <1>3 DEF TasksTyped, Status, Blocked
  <2>2. QueueInv' /\ WaitersInv' /\ HeldInv' /\ ResultInv'
    BY <1>1, <1>2, <1>3 DEF TasksTyped, QueueInv, WaitersInv, HeldInv, ResultInv
  <2>3. \A u \in Tasks : Move(u)
    BY <1>1, <1>3 DEF TasksTyped, Move, Blocked
  <2> QED
    BY <2>1, <2>2, <2>3
<1>4. CASE status' = [status EXCEPT ![t] = "waiting"] /\ waiters' = Append(waiters, t)
  <2>1. /\ waiters' \in Seq(Tasks) /\ Distinct(waiters') /\ ToSet(waiters') = ToSet(waiters) \cup {t}
    BY <1>2, <1>4, AppendElements DEF TasksTyped, WaitersInv
  <2>2. TasksTyped'
    BY <1>1, <1>4, <2>1 DEF TasksTyped, Status, Blocked
  <2>3. QueueInv' /\ WaitersInv' /\ HeldInv' /\ ResultInv'
    BY <1>1, <1>2, <1>4, <2>1 DEF TasksTyped, QueueInv, WaitersInv, HeldInv, ResultInv
  <2>4. \A u \in Tasks : Move(u)
    BY <1>1, <1>4 DEF TasksTyped, Move, Blocked
  <2> QED
    BY <2>2, <2>3, <2>4
<1> QED
  BY <1>3, <1>4 DEF Poll

\* notify_one() wakes the longest waiter, or stores a permit when there is none;
\* st is where the tasks are otherwise.
LEMMA NotifyOneEffect ==
    ASSUME TasksTyped, Distinct(waiters), NEW st \in [Tasks -> Status], NotifyOne(st),
           \A u \in Tasks : u \in ToSet(waiters) <=> st[u] = "waiting"
    PROVE  /\ waiters' \in Seq(Tasks) /\ Distinct(waiters') /\ status' \in [Tasks -> Status]
           /\ \A u \in Tasks : u \in ToSet(waiters') <=> status'[u] = "waiting"
           /\ \A u \in Tasks :
                \/ status'[u] = st[u]
                \/ status'[u] = "notified" /\ st[u] = "waiting"
           /\ waiters # <<>> => \E u \in Tasks : status'[u] = "notified"
           /\ waiters = <<>> => not_full'
<1>1. CASE waiters = <<>>
  BY <1>1 DEF NotifyOne, TasksTyped
<1>2. CASE waiters # <<>>
  <2> DEFINE h == Head(waiters)
             rest == Tail(waiters)
  <2>1. status' = [st EXCEPT ![h] = "notified"] /\ waiters' = rest
    BY <1>2 DEF NotifyOne
  <2>2. /\ rest \in Seq(Tasks) /\ Distinct(rest) /\ h \in Tasks /\ h \in ToSet(waiters)
        /\ h \notin ToSet(rest) /\ ToSet(waiters) = ToSet(rest) \cup {h}
    BY <1>2, TailElements DEF TasksTyped
  <2> HIDE DEF h, rest
  <2>3. status' \in [Tasks -> Status]
    BY <2>1, <2>2 DEF Status, Blocked
  <2>4. st[h] = "waiting"
    BY <2>2
  <2>5. \A u \in Tasks : u \in ToSet(rest) <=> st[u] = "waiting" /\ u # h
    BY <2>2
  <2> QED
    BY <1>2, <2>1, <2>2, <2>3, <2>4, <2>5
<1> QED
  BY <1>1, <1>2

\* A submitter that gives up leaves the waiters, or passes its wake-up on.
LEMMA TasksAbandon ==
    ASSUME TasksInv, NEW t \in Tasks, Abandon(t) PROVE TasksKept
<1> USE DEF TasksInv, TasksKept
<1> DEFINE st == [status EXCEPT ![t] = "done"]
<1>1. /\ status[t] \in {"notified", "waiting", "woken"}
      /\ result' = [result EXCEPT ![t] = "abandoned"] /\ UNCHANGED <<items, runner>>
  BY DEF Abandon
<1>2. st \in [Tasks -> Status] /\ result' \in [Tasks -> Result]
  BY <1>1 DEF TasksTyped, Status, Result
<1>3. /\ waiters' \in Seq(Tasks) /\ Distinct(waiters') /\ status' \in [Tasks -> Status]
      /\ \A u \in Tasks : u \in ToSet(waiters') <=> status'[u] = "waiting"
      /\ \A u \in Tasks : status'[u] = st[u] \/ (status'[u] = "notified" /\ st[u] = "waiting")
  <2>1. CASE status[t] = "notified" /\ NotifyOne(st)
    <3>1. \A u \in Tasks : u \in ToSet(waiters) <=> st[u] = "waiting"
      BY <2>1 DEF TasksTyped, WaitersInv
    <3> HIDE DEF st
    <3> QED
      BY <1>2, <2>1, <3>1, NotifyOneEffect DEF WaitersInv
  <2>2. CASE /\ status[t] = "waiting" /\ status' = st
             /\ \E i \in DOMAIN waiters : waiters[i] = t /\ waiters' = RemoveAt(waiters, i)
    <3>1. PICK i \in 1..Len(waiters) : waiters[i] = t /\ waiters' = RemoveAt(waiters, i)
      BY <2>2 DEF TasksTyped
    <3>2. /\ waiters' \in Seq(Tasks) /\ Distinct(waiters')
          /\ ToSet(waiters') = ToSet(waiters) \ {t}
      BY <3>1, RemoveAtElements DEF TasksTyped, WaitersInv
    <3>3. \A u \in Tasks : st[u] = "waiting" <=> status[u] = "waiting" /\ u # t
      BY DEF TasksTyped
    <3> HIDE DEF st
    <3> QED
      BY <1>2, <2>2, <3>2, <3>3 DEF WaitersInv
  <2>3. CASE status[t] = "woken" /\ status' = st /\ UNCHANGED waiters
    BY <1>2, <2>3 DEF TasksTyped, WaitersInv
  <2> QED
    BY <2>1, <2>2, <2>3 DEF Abandon
<1>4. st[t] = "done" /\ \A u \in Tasks \ {t} : st[u] = status[u]
  BY DEF TasksTyped
<1> HIDE DEF st
<1>5. TasksTyped' /\ WaitersInv'
  BY <1>1, <1>2, <1>3 DEF TasksTyped, WaitersInv
<1>6. QueueInv' /\ HeldInv'
  BY <1>1, <1>3, <1>4 DEF QueueInv, HeldInv
<1>7. ResultInv' /\ \A u \in Tasks : Move(u)
  <2>1. result'[t] = "abandoned" /\ \A u \in Tasks \ {t} : result'[u] = result[u]
    BY <1>1 DEF TasksTyped
  <2>2. status'[t] = "done"
    BY <1>3, <1>4
  <2>3. \A u \in Tasks \ {t} : status'[u] = status[u] \/ status[u] = "waiting"
    BY <1>3, <1>4
  <2>4. \A u \in Tasks : Move(u)
    BY <1>1, <1>3, <1>4, <2>1, <2>2 DEF Move, Blocked
  <2> QED
    BY <2>1, <2>2, <2>3, <2>4 DEF ResultInv, Blocked
<1> QED
  BY <1>5, <1>6, <1>7

\* recv() takes the oldest task and wakes a submitter, or finds the queue empty.
LEMMA TasksRecv ==
    ASSUME TasksInv, runner \in {"recv", "drain"}, UNCHANGED result,
           NEW next \in {"permit", "fail"}, NEW end \in {"drain", "join"},
           NEW wait \in {"recv_wait", "drain_wait"}, Recv(next, end, wait)
    PROVE  TasksKept
<1> USE DEF TasksInv, TasksKept
<1>0. \A u \in Tasks : status[u] # "held"
  BY DEF HeldInv
<1>1. CASE items = <<>>
  <2>1. UNCHANGED <<items, status, waiters>> /\ runner' \in {"drain", "join", "recv_wait", "drain_wait"}
    BY <1>1 DEF Recv
  <2>2. TasksTyped' /\ QueueInv' /\ WaitersInv' /\ ResultInv'
    BY <2>1 DEF TasksTyped, QueueInv, WaitersInv, ResultInv
  <2>3. HeldInv'
    BY <1>0, <2>1 DEF HeldInv
  <2> QED
    BY <2>1, <2>2, <2>3 DEF Move
<1>2. CASE items # <<>>
  <2> DEFINE h == Head(items)
             st == [status EXCEPT ![h] = "held"]
  <2>1. NotifyOne(st) /\ items' = Tail(items) /\ runner' = next
    BY <1>2 DEF Recv
  <2>2. /\ h \in Tasks /\ status[h] = "queued"
        /\ Tail(items) \in Seq(Tasks) /\ Distinct(Tail(items))
        /\ Len(Tail(items)) = Len(items) - 1 /\ Len(items) \in Nat \ {0}
        /\ \A t \in Tasks : t \in ToSet(Tail(items)) <=> status[t] = "queued" /\ t # h
    BY <1>2, OldestQueued
  <2> HIDE DEF h
  <2>3. /\ st \in [Tasks -> Status] /\ st[h] = "held" /\ \A u \in Tasks \ {h} : st[u] = status[u]
    BY <2>2 DEF TasksTyped, Status
  <2> HIDE DEF st
  <2>4. \A u \in Tasks : u \in ToSet(waiters) <=> st[u] = "waiting"
    BY <2>2, <2>3 DEF WaitersInv
  <2>5. /\ waiters' \in Seq(Tasks) /\ Distinct(waiters') /\ status' \in [Tasks -> Status]
        /\ \A u \in Tasks : u \in ToSet(waiters') <=> status'[u] = "waiting"
        /\ \A u \in Tasks : status'[u] = st[u] \/ (status'[u] = "notified" /\ st[u] = "waiting")
    BY <2>1, <2>3, <2>4, NotifyOneEffect DEF WaitersInv
  <2>6. TasksTyped' /\ WaitersInv'
    BY <2>1, <2>2, <2>5 DEF TasksTyped, WaitersInv
  <2>7. status'[h] = "held" /\ \A u \in Tasks \ {h} : status'[u] # "held"
    BY <1>0, <2>2, <2>3, <2>5
  <2>8. HeldInv'
    BY <2>1, <2>2, <2>7 DEF HeldInv
  <2>9. \A t \in Tasks : t \in ToSet(items') <=> status'[t] = "queued"
    BY <2>1, <2>2, <2>3, <2>5
  <2>10. QueueInv'
    BY <2>1, <2>2, <2>9, PoolAssumption DEF QueueInv
  <2>11. ResultInv'
    BY <2>2, <2>3, <2>5 DEF ResultInv, Blocked
  <2>12. \A u \in Tasks : Move(u)
    BY <2>2, <2>3, <2>5 DEF Move, Blocked
  <2> QED
    BY <2>6, <2>8, <2>10, <2>11, <2>12
<1> QED
  BY <1>1, <1>2

\* The runner fails the task it holds.
LEMMA TasksFailHeld ==
    ASSUME TasksInv, FailHeld("drain"), UNCHANGED <<items, waiters>> PROVE TasksKept
<1> USE DEF TasksInv, TasksKept
<1>1. PICK t \in Tasks :
        /\ status[t] = "held" /\ status' = [status EXCEPT ![t] = "done"]
        /\ result' = [result EXCEPT ![t] = "cancelled"]
  BY DEF FailHeld, Resolve, With
<1>2. runner' = "drain"
  BY DEF FailHeld
<1>3. TasksTyped'
  BY <1>1 DEF TasksTyped, Status, Result
<1>4. QueueInv' /\ WaitersInv'
  BY <1>1 DEF TasksTyped, QueueInv, WaitersInv
<1>5. HeldInv' /\ ResultInv'
  BY <1>1, <1>2 DEF TasksTyped, HeldInv, ResultInv, Blocked
<1>6. \A u \in Tasks : Move(u)
  BY <1>1 DEF TasksTyped, Move
<1> QED
  BY <1>3, <1>4, <1>5, <1>6

\* The runner starts the task it holds.
LEMMA TasksSpawn ==
    ASSUME TasksInv, RunnerSpawn PROVE TasksKept
<1> USE DEF TasksInv, TasksKept
<1>1. PICK t \in Tasks : status[t] = "held" /\ status' = [status EXCEPT ![t] = "running"]
  BY DEF RunnerSpawn, With
<1>2. runner' = "select" /\ UNCHANGED <<items, waiters, result>>
  BY DEF RunnerSpawn
<1>3. TasksTyped'
  BY <1>1, <1>2 DEF TasksTyped, Status
<1>4. QueueInv' /\ WaitersInv'
  BY <1>1, <1>2 DEF TasksTyped, QueueInv, WaitersInv
<1>5. HeldInv' /\ ResultInv'
  BY <1>1, <1>2 DEF TasksTyped, HeldInv, ResultInv
<1>6. \A u \in Tasks : Move(u)
  BY <1>1, <1>2 DEF TasksTyped, Move
<1> QED
  BY <1>3, <1>4, <1>5, <1>6

\* The handler returns or perishes, and its task ends.
LEMMA TasksEnd ==
    ASSUME TasksInv, NEW t \in Tasks, Finish(t) \/ Perish(t) \/ Release(t) PROVE TasksKept
<1> USE DEF TasksInv, TasksKept
<1>1. UNCHANGED <<items, waiters, runner>>
  BY DEF Finish, Perish, Release, TaskFrame, queue
<1>2. CASE /\ status[t] = "running" /\ status' = [status EXCEPT ![t] = "returning"]
           /\ \/ result' = [result EXCEPT ![t] = "returned"]
              \/ result' = [result EXCEPT ![t] = "lost"]
  <2>1. TasksTyped'
    BY <1>1, <1>2 DEF TasksTyped, Status, Result
  <2>2. QueueInv' /\ WaitersInv' /\ HeldInv' /\ ResultInv'
    BY <1>1, <1>2 DEF TasksTyped, QueueInv, WaitersInv, HeldInv, ResultInv, Blocked
  <2>3. \A u \in Tasks : Move(u)
    BY <1>1, <1>2 DEF TasksTyped, Move
  <2> QED
    BY <2>1, <2>2, <2>3
<1>3. CASE Release(t)
  <2>0. status[t] = "returning" /\ status' = [status EXCEPT ![t] = "done"] /\ UNCHANGED result
    BY <1>3 DEF Release
  <2>1. TasksTyped'
    BY <1>1, <2>0 DEF TasksTyped, Status, Result
  <2>2. QueueInv' /\ WaitersInv' /\ HeldInv' /\ ResultInv'
    BY <1>1, <2>0 DEF TasksTyped, QueueInv, WaitersInv, HeldInv, ResultInv, Blocked
  <2>3. \A u \in Tasks : Move(u)
    <3> SUFFICES ASSUME NEW u \in Tasks PROVE Move(u)
      OBVIOUS
    <3>1. CASE u = t
      BY <1>3, <2>0, <3>1 DEF TasksTyped, Move
    <3>2. CASE u # t
      BY <2>0, <3>2 DEF TasksTyped, Move
    <3> QED
      BY <3>1, <3>2
  <2> QED
    BY <2>1, <2>2, <2>3
<1> QED
  BY <1>2, <1>3 DEF Finish, Perish

\* The aborted runner drops what it holds and what is queued.
LEMMA TasksAborted ==
    ASSUME TasksInv, RunnerAborted PROVE TasksKept
<1> USE DEF TasksInv, TasksKept
<1>1. /\ items' = <<>> /\ runner' = "dropped" /\ UNCHANGED waiters
      /\ DOMAIN status' = Tasks /\ DOMAIN result' = Tasks
      /\ \A u \in Tasks :
            \/ /\ status[u] \in {"held", "queued"} /\ status'[u] = "done" /\ result'[u] = "lost"
            \/ /\ status[u] \notin {"held", "queued"}
               /\ status'[u] = status[u] /\ result'[u] = result[u]
  BY DEF RunnerAborted, With
<1>2. status' \in [Tasks -> Status] /\ result' \in [Tasks -> Result]
  <2>1. \A u \in Tasks : status'[u] \in Status /\ result'[u] \in Result
    BY <1>1 DEF TasksTyped, Status, Result
  <2>2. /\ status' = [u \in Tasks |-> status'[u]]
        /\ result' = [u \in Tasks |-> result'[u]]
    BY DEF RunnerAborted
  <2> QED
    BY <2>1, <2>2
<1>3. items' \in Seq(Tasks) /\ Len(items') = 0 /\ Distinct(items') /\ ToSet(items') = {}
  <2>1. items' \in Seq(Tasks) /\ Len(items') = 0
    BY <1>1, EmptySeq
  <2>2. ToSet(items') = {}
    BY <1>1, <2>1, ToSetElements
  <2>3. Distinct(items')
    BY <2>1 DEF Distinct
  <2> QED
    BY <2>1, <2>2, <2>3
<1>4. TasksTyped'
  BY <1>1, <1>2, <1>3 DEF TasksTyped
<1>5. QueueInv'
  BY <1>1, <1>3, PoolAssumption DEF QueueInv
<1>6. WaitersInv' /\ HeldInv' /\ ResultInv'
  BY <1>1 DEF WaitersInv, HeldInv, ResultInv, Blocked
<1>7. \A u \in Tasks : Move(u)
  BY <1>1 DEF Move
<1> QED
  BY <1>4, <1>5, <1>6, <1>7

\* close() wakes every submitter that waits.
LEMMA TasksClose ==
    ASSUME TasksInv, CloseQueue PROVE TasksKept
<1> USE DEF TasksInv, TasksKept
<1>1. /\ waiters' = <<>> /\ UNCHANGED <<items, runner, result>>
      /\ status' = [u \in Tasks |-> IF status[u] \in {"pending", "waiting"} THEN "woken" ELSE status[u]]
  BY DEF CloseQueue, WakeSubmitters, OwnerFrame
<1>2. waiters' \in Seq(Tasks) /\ Distinct(waiters') /\ ToSet(waiters') = {}
  <2>1. waiters' \in Seq(Tasks) /\ Len(waiters') = 0
    BY <1>1, EmptySeq
  <2> QED
    BY <1>1, <2>1, ToSetElements DEF Distinct
<1>3. TasksTyped'
  BY <1>1, <1>2 DEF TasksTyped, Status, Blocked
<1>4. QueueInv' /\ HeldInv' /\ ResultInv'
  BY <1>1 DEF QueueInv, HeldInv, ResultInv, Blocked
<1>5. WaitersInv'
  BY <1>1, <1>2 DEF WaitersInv
<1>6. \A u \in Tasks : Move(u)
  BY <1>1 DEF Move, Blocked
<1> QED
  BY <1>3, <1>4, <1>5, <1>6

\* Every step keeps each task in one place and moves it along its lifecycle.
LEMMA TasksInductive ==
    ASSUME TasksInv, [Next]_vars PROVE TasksKept
<1>1. ASSUME NEW t \in Tasks, Submit(t) \/ Retry(t) \/ Poll(t) \/ Abandon(t) PROVE TasksKept
  BY <1>1, TasksSubmission, TasksPoll, TasksAbandon
<1>2. ASSUME NEW t \in Tasks, Finish(t) \/ Perish(t) \/ Release(t) PROVE TasksKept
  BY <1>2, TasksEnd
<1>3. CASE RunnerRecv
  BY <1>3, TasksRecv DEF RunnerRecv
<1>4. CASE RunnerDrain
  BY <1>4, TasksRecv, TasksFailHeld DEF RunnerDrain
<1>5. CASE RunnerSpawn
  BY <1>5, TasksSpawn
<1>6. CASE RunnerAborted
  BY <1>6, TasksAborted
<1>7. CASE CloseQueue
  BY <1>7, TasksClose
<1>8. ASSUME UNCHANGED <<items, waiters, status, result>>,
             runner' \in {"permit", "acquire", "fail"} <=> runner \in {"permit", "acquire", "fail"}
      PROVE  TasksKept
  <2>1. TasksTyped' /\ QueueInv' /\ WaitersInv' /\ ResultInv'
    BY <1>8 DEF TasksInv, TasksTyped, QueueInv, WaitersInv, ResultInv
  <2>2. HeldInv'
    BY <1>8 DEF TasksInv, HeldInv
  <2> QED
    BY <1>8, <2>1, <2>2 DEF TasksInv, TasksKept, Move
<1>9. CASE RunnerPermit
  <2>1. CASE FailHeld("drain")
    BY <1>9, <2>1, TasksFailHeld DEF RunnerPermit
  <2>2. CASE runner = "permit" /\ runner' = "acquire" /\ UNCHANGED <<status, result>>
    BY <1>8, <1>9, <2>2 DEF RunnerPermit
  <2> QED
    BY <1>9, <2>1, <2>2 DEF RunnerPermit
<1>10. CASE RunnerSelect \/ RunnerDrainWoken \/ RunnerJoin
  BY <1>8, <1>10 DEF RunnerSelect, RunnerDrainWoken, RunnerJoin
<1>11. ASSUME \/ \E t \in Tasks : CancelTask(t)
              \/ \E next \in Endings : CloseToken(next)
              \/ OwnerEnds \/ UNCHANGED vars
       PROVE  TasksKept
  BY <1>8, <1>11 DEF CancelTask, CloseToken, OwnerEnds, OwnerFrame, vars, queue
<1> QED
  BY <1>1, <1>2, <1>3, <1>4, <1>5, <1>6, <1>7, <1>9, <1>10, <1>11 DEF Next, RunnerStep
-----------------------------------------------------------------------------

\* Every permit is free or belongs to one task that runs or returns.
LEMMA PermitsInductive ==
    ASSUME TasksInv, PermitsInv, [Next]_vars PROVE PermitsInv'
<1> USE DEF PermitsInv
<1>1. TasksKept
  BY TasksInductive
<1>2. IsFiniteSet(Executing) /\ Cardinality(Executing) \in Nat
  <2>1. Executing \subseteq Tasks
    BY DEF Executing, With
  <2> QED
    BY <2>1, FS_Subset, FS_CardinalityType, PoolAssumption
<1>3. \A u : u \in Executing <=> u \in Tasks /\ status[u] \in {"running", "returning"}
  BY DEF Executing, With
<1>4. \A u : u \in Executing' <=> u \in Tasks /\ status'[u] \in {"running", "returning"}
  BY DEF Executing, With
<1>5. CASE RunnerSpawn
  <2>1. PICK t \in Tasks : status[t] = "held" /\ status' = [status EXCEPT ![t] = "running"]
    BY <1>5 DEF RunnerSpawn, With
  <2>2. permits' = permits - 1 /\ permits > 0
    BY <1>5 DEF RunnerSpawn, PermitFree
  <2>3. t \notin Executing /\ Executing' = Executing \cup {t}
    BY <1>3, <1>4, <2>1 DEF TasksInv, TasksTyped
  <2>4. Cardinality(Executing') = Cardinality(Executing) + 1
    BY <1>2, <2>3, FS_AddElement
  <2> QED
    BY <1>2, <2>2, <2>4, PoolAssumption
<1>6. ASSUME NEW t \in Tasks, Release(t) PROVE PermitsInv'
  <2>1. /\ status[t] = "returning" /\ status' = [status EXCEPT ![t] = "done"]
        /\ permits' = permits + 1
    BY <1>6 DEF Release
  <2>2. t \in Executing /\ Executing' = Executing \ {t}
    BY <1>3, <1>4, <2>1 DEF TasksInv, TasksTyped
  <2>3. Cardinality(Executing') = Cardinality(Executing) - 1
    BY <1>2, <2>2, FS_RemoveElement
  <2> QED
    BY <1>2, <2>1, <2>3, PoolAssumption
<1>7. CASE ~RunnerSpawn /\ ~\E t \in Tasks : Release(t)
  <2>1. \A u \in Tasks : status[u] \in {"running", "returning"} <=> status'[u] \in {"running", "returning"}
    BY <1>1, <1>7 DEF TasksKept, Move, Blocked
  <2>2. Executing' = Executing
    BY <1>3, <1>4, <2>1
  <2>3. permits' = permits
    BY <1>7 DEF Next, RunnerStep, Submit, Poll, Retry, Abandon, Finish, Perish, CancelTask,
                RunnerSelect, RunnerRecv, RunnerPermit, RunnerDrain, RunnerDrainWoken, RunnerJoin,
                RunnerAborted, CloseToken, CloseQueue, OwnerEnds, OwnerFrame, vars
  <2> QED
    BY <2>2, <2>3
<1> QED
  BY <1>5, <1>6, <1>7

\* A closed queue stays closed, and takes no task.
LEMMA ClosedStays ==
    ASSUME [Next]_vars, closed PROVE closed' /\ (items = <<>> => items' = <<>>)
<1>1. ASSUME NEW t \in Tasks, Submit(t) \/ Retry(t) PROVE closed' /\ UNCHANGED items
  <2>1. UNCHANGED closed /\ (Refused(t) \/ Accepted(t) \/ Parked(t) \/ Displaced(t))
    BY <1>1, SubmissionCases
  <2> QED
    BY <2>1 DEF Refused, Accepted, Parked, Displaced
<1>2. CASE RunnerRecv \/ RunnerDrain
  BY <1>2 DEF RunnerRecv, RunnerDrain, Recv, RunnerFrame
<1>3. CASE RunnerSelect \/ RunnerPermit \/ RunnerSpawn \/ RunnerDrainWoken \/ RunnerJoin \/ RunnerAborted
  BY <1>3 DEF RunnerSelect, RunnerPermit, RunnerSpawn, RunnerDrainWoken, RunnerJoin, RunnerAborted,
              RunnerFrame
<1>4. CASE \E t \in Tasks : Poll(t) \/ Abandon(t) \/ Finish(t) \/ Perish(t) \/ Release(t) \/ CancelTask(t)
  BY <1>4 DEF Poll, Abandon, Finish, Perish, Release, CancelTask, TaskFrame, queue
<1>5. CASE (\E next \in Endings : CloseToken(next)) \/ CloseQueue \/ OwnerEnds \/ UNCHANGED vars
  BY <1>5 DEF CloseToken, CloseQueue, OwnerEnds, OwnerFrame, vars, queue
<1> QED
  BY <1>1, <1>2, <1>3, <1>4, <1>5 DEF Next, RunnerStep

\* The runner leaves the drain loop, or is aborted, only after the queue is closed.
LEMMA EndInductive ==
    ASSUME EndInv, [Next]_vars PROVE EndInv'
<1>1. aborted' => aborted \/ closed
  BY DEF Next, RunnerStep, Submit, Poll, Retry, Abandon, Finish, Perish, Release, CancelTask,
         RunnerSelect, RunnerRecv, RunnerPermit, RunnerSpawn, RunnerDrain, RunnerDrainWoken,
         RunnerJoin, RunnerAborted, CloseToken, CloseQueue, OwnerEnds, RunnerFrame, TaskFrame,
         control, vars
<1>2. runner' \in {"join", "exited", "dropped"} =>
        \/ runner \in {"join", "exited", "dropped"}
        \/ closed /\ items' = <<>>
  <2>1. CASE RunnerDrain
    BY <2>1 DEF RunnerDrain, Recv, FailHeld
  <2>2. CASE RunnerAborted
    BY <2>2 DEF RunnerAborted, EndInv
  <2>3. CASE RunnerSelect \/ RunnerRecv \/ RunnerPermit \/ RunnerSpawn \/ RunnerDrainWoken \/ RunnerJoin
    BY <2>3 DEF RunnerSelect, RunnerRecv, Recv, RunnerPermit, FailHeld, RunnerSpawn,
                RunnerDrainWoken, RunnerJoin
  <2>4. CASE UNCHANGED runner
    BY <2>4
  <2>5. CASE \/ \E t \in Tasks : \/ Submit(t) \/ Poll(t) \/ Retry(t) \/ Abandon(t)
                                 \/ Finish(t) \/ Perish(t) \/ Release(t) \/ CancelTask(t)
             \/ \E next \in Endings : CloseToken(next)
             \/ CloseQueue \/ OwnerEnds \/ UNCHANGED vars
    BY <2>4, <2>5 DEF Submit, Poll, Retry, Abandon, Finish, Perish, Release, CancelTask,
         CloseToken, CloseQueue, OwnerEnds, OwnerFrame, TaskFrame, vars
  <2> QED
    BY <2>1, <2>2, <2>3, <2>5 DEF Next, RunnerStep
<1>3. closed => closed' /\ (items = <<>> => items' = <<>>)
  BY ClosedStays
<1> QED
  BY <1>1, <1>2, <1>3 DEF EndInv

\* The runner never waits for a permit with a task it dequeued after the shutdown.
LEMMA LateInductive ==
    ASSUME TasksInv, LateInv, [Next]_vars PROVE LateInv'
<1>1. TasksKept
  BY TasksInductive
<1>2. shutdown => shutdown'
  BY DEF Next, RunnerStep, Submit, Poll, Retry, Abandon, Finish, Perish, Release, CancelTask,
         RunnerSelect, RunnerRecv, RunnerPermit, RunnerSpawn, RunnerDrain, RunnerDrainWoken,
         RunnerJoin, RunnerAborted, CloseToken, CloseQueue, OwnerEnds, RunnerFrame, TaskFrame,
         control, vars
<1>3. \/ UNCHANGED late /\ (runner' = "acquire" => runner = "acquire" \/ ~shutdown)
      \/ /\ runner' # "acquire"
         /\ \E h \in Tasks : /\ late' = (IF shutdown THEN late \cup {h} ELSE late)
                             /\ status[h] = "queued" /\ status'[h] = "held"
  <2>1. ASSUME Recv("permit", "drain", "recv_wait") \/ Recv("fail", "join", "drain_wait")
        PROVE  \/ UNCHANGED late /\ runner' # "acquire"
               \/ /\ runner' # "acquire"
                  /\ \E h \in Tasks : /\ late' = (IF shutdown THEN late \cup {h} ELSE late)
                                      /\ status[h] = "queued" /\ status'[h] = "held"
    <3>1. CASE items = <<>>
      BY <2>1, <3>1 DEF Recv
    <3>2. CASE items # <<>>
      <4> DEFINE h == Head(items)
      <4>1. /\ late' = (IF shutdown THEN late \cup {h} ELSE late) /\ runner' # "acquire"
            /\ NotifyOne([status EXCEPT ![h] = "held"])
        BY <2>1, <3>2 DEF Recv
      <4>2. h \in Tasks /\ status[h] = "queued"
        BY <3>2, OldestQueued
      <4>3. waiters # <<>> => Head(waiters) \in Tasks /\ status[Head(waiters)] = "waiting"
        <5>1. waiters # <<>> => Head(waiters) \in Tasks /\ Head(waiters) \in ToSet(waiters)
          BY TailElements DEF TasksInv, TasksTyped
        <5> QED
          BY <5>1 DEF TasksInv, WaitersInv
      <4> HIDE DEF h
      <4>4. status'[h] = "held"
        BY <4>1, <4>2, <4>3 DEF NotifyOne, TasksInv, TasksTyped
      <4> QED
        BY <4>1, <4>2, <4>4
    <3> QED
      BY <3>1, <3>2
  <2>2. CASE RunnerRecv
    BY <2>1, <2>2 DEF RunnerRecv
  <2>3. CASE RunnerDrain
    BY <2>1, <2>3 DEF RunnerDrain, FailHeld
  <2>4. CASE RunnerSelect \/ RunnerPermit \/ RunnerSpawn \/ RunnerDrainWoken \/ RunnerJoin \/ RunnerAborted
    BY <2>4 DEF RunnerSelect, RunnerPermit, FailHeld, RunnerSpawn, RunnerDrainWoken, RunnerJoin,
                RunnerAborted
  <2>5. CASE \/ \E t \in Tasks : \/ Submit(t) \/ Poll(t) \/ Retry(t) \/ Abandon(t)
                                 \/ Finish(t) \/ Perish(t) \/ Release(t) \/ CancelTask(t)
             \/ \E next \in Endings : CloseToken(next)
             \/ CloseQueue \/ OwnerEnds \/ UNCHANGED vars
    <3>1. UNCHANGED <<late, runner>>
      BY <2>5 DEF Submit, Poll, Retry, Abandon, Finish, Perish, Release, CancelTask,
           CloseToken, CloseQueue, OwnerEnds, OwnerFrame, TaskFrame, vars
    <3> QED
      BY <3>1
  <2> QED
    BY <2>2, <2>3, <2>4, <2>5 DEF Next, RunnerStep
<1>4. ASSUME NEW t \in late
      PROVE  /\ t \in Tasks /\ shutdown'
             /\ \/ status'[t] = "held" /\ runner' # "acquire" /\ result'[t] = "none"
                \/ status'[t] = "done" /\ result'[t] \in {"cancelled", "lost"}
  <2>0. t \in Tasks /\ Move(t)
    BY <1>1 DEF LateInv, TasksKept
  <2>1. shutdown'
    BY <1>2 DEF LateInv
  <2>2. CASE status[t] = "done"
    BY <2>0, <2>1, <2>2 DEF LateInv, Move, Blocked
  <2>3. CASE status[t] = "held"
    <3>1. runner # "acquire" /\ result[t] = "none" /\ shutdown
      BY <2>3 DEF LateInv
    <3>2. runner' # "acquire"
      BY <1>3, <3>1
    <3>3. ~RunnerSpawn
      BY <3>1 DEF RunnerSpawn
    <3> QED
      BY <2>0, <2>1, <2>3, <3>1, <3>2, <3>3 DEF Move, Blocked
  <2> QED
    BY <2>2, <2>3 DEF LateInv
<1>5. CASE UNCHANGED late
  BY <1>4, <1>5 DEF LateInv
<1>6. CASE /\ runner' # "acquire"
           /\ \E h \in Tasks : /\ late' = (IF shutdown THEN late \cup {h} ELSE late)
                               /\ status[h] = "queued" /\ status'[h] = "held"
  <2>1. PICK h \in Tasks : /\ late' = (IF shutdown THEN late \cup {h} ELSE late)
                           /\ status[h] = "queued" /\ status'[h] = "held"
    BY <1>6
  <2>2. result'[h] = "none"
    BY <1>1, <2>1 DEF TasksKept, TasksInv, ResultInv
  <2>3. CASE shutdown
    BY <1>2, <1>4, <1>6, <2>1, <2>2, <2>3 DEF LateInv
  <2>4. CASE ~shutdown
    BY <1>4, <2>1, <2>4 DEF LateInv
  <2> QED
    BY <2>3, <2>4
<1> QED
  BY <1>3, <1>5, <1>6

\* A submitter that has to wait always has a wake-up to come.
LEMMA WakeInductive ==
    ASSUME TasksInv, EndInv, WakeInv, [Next]_vars PROVE WakeInv'
<1> USE DEF WakeInv
<1>0. closed => closed'
  BY ClosedStays
<1>1. ASSUME NEW t \in Tasks, Submit(t) \/ Retry(t) PROVE WakeInv'
  <2>1. Refused(t) \/ Accepted(t) \/ Parked(t) \/ Displaced(t)
    BY <1>1, SubmissionCases
  <2>2. UNCHANGED <<closed, not_full>>
    BY <1>1, SubmissionCases
  <2>3. items \in Seq(Tasks) /\ status \in [Tasks -> Status]
    BY DEF TasksInv, TasksTyped
  <2>4. CASE Accepted(t) \/ Displaced(t)
    <3>1. items' # <<>>
      <4>1. \A s \in Seq(Tasks) : Append(s, t) # <<>>
        BY AppendElements
      <4>2. Accepted(t) => items' # <<>>
        BY <2>3, <4>1 DEF Accepted
      <4>3. Displaced(t) => items # <<>>
        BY <2>3, PoolAssumption, EmptySeq DEF Displaced
      <4>4. Displaced(t) => Tail(items) \in Seq(Tasks)
        BY <4>3, OldestQueued
      <4>5. Displaced(t) => items' # <<>>
        BY <4>1, <4>4 DEF Displaced
      <4> QED
        BY <2>4, <4>2, <4>5
    <3> QED
      BY <3>1
  <2>5. CASE Parked(t)
    <3>1. items' # <<>>
      BY <2>3, <2>5, PoolAssumption, EmptySeq DEF Parked
    <3> QED
      BY <3>1
  <2>6. CASE Refused(t)
    <3>1. /\ closed \/ status[t] = "new"
          /\ status' = [status EXCEPT ![t] = "done"] /\ UNCHANGED items
      BY <2>6 DEF Refused
    <3>2. CASE closed
      BY <2>2, <3>2
    <3>3. CASE status[t] = "new"
      BY <2>2, <2>3, <3>1, <3>3
    <3> QED
      BY <3>1, <3>2, <3>3
  <2> QED
    BY <2>1, <2>4, <2>5, <2>6
<1>2. ASSUME NEW t \in Tasks, Poll(t) PROVE WakeInv'
  <2>1. status \in [Tasks -> Status] /\ UNCHANGED <<items, closed>> /\ status[t] = "pending"
    BY <1>2 DEF Poll, TasksInv, TasksTyped
  <2>2. CASE status' = [status EXCEPT ![t] = "retry"]
    BY <2>1, <2>2
  <2>3. CASE ~not_full /\ status' = [status EXCEPT ![t] = "waiting"]
    BY <2>1, <2>3
  <2> QED
    BY <1>2, <2>2, <2>3 DEF Poll
<1>3. ASSUME NEW st \in [Tasks -> Status], NotifyOne(st),
             \A u \in Tasks : u \in ToSet(waiters) <=> st[u] = "waiting"
      PROVE  WakeInv'
  <2>1. /\ waiters # <<>> => \E u \in Tasks : status'[u] = "notified"
        /\ waiters = <<>> => not_full'
    BY <1>3, NotifyOneEffect DEF TasksInv, WaitersInv
  <2> QED
    BY <2>1
<1>4. ASSUME NEW t \in Tasks, Abandon(t) PROVE WakeInv'
  <2> DEFINE st == [status EXCEPT ![t] = "done"]
  <2>1. status \in [Tasks -> Status] /\ UNCHANGED <<items, closed>>
    BY <1>4 DEF Abandon, TasksInv, TasksTyped
  <2>2. CASE status[t] = "notified" /\ NotifyOne(st)
    <3>1. st \in [Tasks -> Status] /\ \A u \in Tasks : u \in ToSet(waiters) <=> st[u] = "waiting"
      BY <2>1, <2>2 DEF TasksInv, WaitersInv, Status
    <3> HIDE DEF st
    <3> QED
      BY <1>3, <2>2, <3>1
  <2>3. CASE status[t] \in {"waiting", "woken"} /\ status' = st /\ UNCHANGED not_full
    BY <2>1, <2>3
  <2> QED
    BY <1>4, <2>2, <2>3 DEF Abandon
<1>5. ASSUME NEW next, NEW end, NEW wait, Recv(next, end, wait), UNCHANGED closed PROVE WakeInv'
  <2>1. CASE items = <<>>
    BY <1>5, <2>1 DEF Recv
  <2>2. CASE items # <<>>
    <3> DEFINE st == [status EXCEPT ![Head(items)] = "held"]
    <3>1. NotifyOne(st)
      BY <1>5, <2>2 DEF Recv
    <3>2. Head(items) \in Tasks /\ status[Head(items)] = "queued"
      BY <2>2, OldestQueued
    <3>3. st \in [Tasks -> Status] /\ \A u \in Tasks : u \in ToSet(waiters) <=> st[u] = "waiting"
      BY <3>2 DEF TasksInv, TasksTyped, WaitersInv, Status
    <3> HIDE DEF st
    <3> QED
      BY <1>3, <3>1, <3>3
  <2> QED
    BY <2>1, <2>2
<1>6. ASSUME UNCHANGED <<items, not_full, closed>>,
             \A u \in Tasks : status'[u] = status[u] \/ (status[u] \notin Blocked /\ status'[u] \notin Blocked)
      PROVE  WakeInv'
  BY <1>6 DEF Blocked
<1>7. ASSUME NEW t \in Tasks, Finish(t) \/ Perish(t) \/ Release(t) PROVE WakeInv'
  <2>1. UNCHANGED <<items, not_full, closed>>
    BY <1>7 DEF Finish, Perish, Release, TaskFrame, queue
  <2>2. /\ status[t] \in {"running", "returning"}
        /\ \/ status' = [status EXCEPT ![t] = "returning"]
           \/ status' = [status EXCEPT ![t] = "done"]
    BY <1>7 DEF Finish, Perish, Release
  <2>3. \A u \in Tasks : status'[u] = status[u] \/ (status[u] \notin Blocked /\ status'[u] \notin Blocked)
    <3>1. \A u \in Tasks \ {t} : status'[u] = status[u]
      BY <2>2 DEF TasksInv, TasksTyped
    <3>2. status'[t] \in {"returning", "done"}
      BY <2>2 DEF TasksInv, TasksTyped
    <3>3. status[t] \notin Blocked /\ status'[t] \notin Blocked
      BY <2>2, <3>2 DEF Blocked
    <3> QED
      BY <3>1, <3>3
  <2> QED
    BY <1>6, <2>1, <2>3
<1>8. ASSUME FailHeld("drain") \/ \E t \in With("held") : status' = [status EXCEPT ![t] = "running"],
             UNCHANGED <<items, not_full, closed>>
      PROVE  WakeInv'
  <2>1. PICK t \in Tasks : /\ status[t] = "held"
                           /\ \/ status' = [status EXCEPT ![t] = "done"]
                              \/ status' = [status EXCEPT ![t] = "running"]
    BY <1>8 DEF FailHeld, Resolve, With
  <2>2. \A u \in Tasks : status'[u] = status[u] \/ (status[u] \notin Blocked /\ status'[u] \notin Blocked)
    <3>1. \A u \in Tasks \ {t} : status'[u] = status[u]
      BY <2>1 DEF TasksInv, TasksTyped
    <3>2. status'[t] \in {"running", "done"}
      BY <2>1 DEF TasksInv, TasksTyped
    <3>3. status[t] \notin Blocked /\ status'[t] \notin Blocked
      BY <2>1, <3>2 DEF Blocked
    <3> QED
      BY <3>1, <3>3
  <2> QED
    BY <1>6, <1>8, <2>2
<1>9. CASE RunnerRecv \/ RunnerDrain \/ RunnerPermit \/ RunnerSpawn
  <2>1. UNCHANGED closed
    BY <1>9 DEF RunnerRecv, RunnerDrain, RunnerPermit, RunnerSpawn, RunnerFrame
  <2>2. CASE RunnerRecv \/ RunnerDrain
    BY <1>5, <1>8, <2>1, <2>2 DEF RunnerRecv, RunnerDrain
  <2>3. CASE RunnerPermit \/ RunnerSpawn
    BY <1>6, <1>8, <2>1, <2>3 DEF RunnerPermit, RunnerSpawn
  <2> QED
    BY <1>9, <2>2, <2>3
<1>10. CASE RunnerAborted \/ CloseQueue
  <2>1. closed'
    BY <1>0, <1>10 DEF RunnerAborted, CloseQueue, EndInv
  <2> QED
    BY <2>1
<1>11. CASE \/ RunnerSelect \/ RunnerDrainWoken \/ RunnerJoin
            \/ \E t \in Tasks : CancelTask(t)
            \/ \E next \in Endings : CloseToken(next)
            \/ OwnerEnds \/ UNCHANGED vars
  <2>1. UNCHANGED <<items, not_full, closed, status>>
    BY <1>11 DEF RunnerSelect, RunnerDrainWoken, RunnerJoin, CancelTask, CloseToken, OwnerEnds,
                 OwnerFrame, RunnerFrame, vars, queue
  <2> QED
    BY <1>6, <2>1
<1> QED
  BY <1>1, <1>2, <1>4, <1>7, <1>9, <1>10, <1>11 DEF Next, RunnerStep

\* The runner sleeps only when no push and no close has left it a wake-up.
LEMMA ReceiverInductive ==
    ASSUME ReceiverAwake, [Next]_vars PROVE ReceiverAwake'
<1> USE DEF ReceiverAwake
<1>1. ASSUME NEW t \in Tasks, Submit(t) \/ Retry(t) PROVE ReceiverAwake'
  <2>1. UNCHANGED <<closed, runner>> /\ (Refused(t) \/ Accepted(t) \/ Parked(t) \/ Displaced(t))
    BY <1>1, SubmissionCases
  <2> QED
    BY <2>1 DEF Refused, Accepted, Parked, Displaced
<1>2. CASE CloseQueue
  <2>1. not_empty' = (not_empty \/ runner \in {"recv_wait", "drain_wait"}) /\ UNCHANGED runner
    BY <1>2 DEF CloseQueue, WakeReceiver, OwnerFrame
  <2> QED
    BY <2>1
<1>3. CASE RunnerRecv \/ RunnerDrain
  <2>1. runner' \in {"recv_wait", "drain_wait"} => items' = <<>> /\ ~closed'
    BY <1>3 DEF RunnerRecv, RunnerDrain, Recv, FailHeld, RunnerFrame
  <2> QED
    BY <2>1
<1>4. CASE RunnerSelect \/ RunnerPermit \/ RunnerSpawn \/ RunnerDrainWoken \/ RunnerJoin \/ RunnerAborted
  <2>1. runner' \notin {"recv_wait", "drain_wait"}
    BY <1>4 DEF RunnerSelect, RunnerPermit, FailHeld, RunnerSpawn, RunnerDrainWoken, RunnerJoin,
                RunnerAborted
  <2> QED
    BY <2>1
<1>5. CASE \/ \E t \in Tasks : \/ Poll(t) \/ Abandon(t) \/ Finish(t) \/ Perish(t)
                               \/ Release(t) \/ CancelTask(t)
           \/ \E next \in Endings : CloseToken(next)
           \/ OwnerEnds \/ UNCHANGED vars
  <2>1. UNCHANGED <<items, closed, not_empty, runner>>
    BY <1>5 DEF Poll, Abandon, Finish, Perish, Release, CancelTask, CloseToken, OwnerEnds,
                OwnerFrame, TaskFrame, vars, queue
  <2> QED
    BY <2>1
<1> QED
  BY <1>1, <1>2, <1>3, <1>4, <1>5 DEF Next, RunnerStep

-----------------------------------------------------------------------------

PoolInv == TasksInv /\ PermitsInv /\ EndInv /\ LateInv /\ WakeInv /\ ReceiverAwake

LEMMA PoolInit == Init => PoolInv
<1> SUFFICES ASSUME Init PROVE PoolInv
  OBVIOUS
<1>1. <<>> \in Seq(Tasks) /\ Len(<<>>) = 0 /\ ToSet(<<>>) = {}
  <2>1. <<>> \in Seq(Tasks) /\ Len(<<>>) = 0
    BY EmptySeq
  <2> QED
    BY <2>1, ToSetElements
<1>2. TasksInv
  <2>1. items = <<>> /\ waiters = <<>> /\ runner = "select"
    BY DEF Init
  <2>2. status \in [Tasks -> Status] /\ result \in [Tasks -> Result]
    BY DEF Init, Status, Result
  <2>3. \A t \in Tasks : status[t] = "new" /\ result[t] = "none"
    BY DEF Init
  <2>4. Distinct(<<>>) /\ 0 <= Capacity
    BY <1>1, PoolAssumption DEF Distinct
  <2> QED
    BY <1>1, <2>1, <2>2, <2>3, <2>4
    DEF TasksInv, TasksTyped, QueueInv, WaitersInv, HeldInv, ResultInv
<1>3. PermitsInv
  <2>1. Executing = {}
    BY DEF Init, Executing, With
  <2> QED
    BY <2>1, FS_EmptySet, PoolAssumption DEF Init, PermitsInv
<1>4. EndInv /\ LateInv /\ WakeInv /\ ReceiverAwake
  BY DEF Init, EndInv, LateInv, WakeInv, ReceiverAwake
<1> QED
  BY <1>2, <1>3, <1>4 DEF PoolInv

\* The conjunction of the invariants holds throughout.
LEMMA PoolInvariant == Spec => []PoolInv
<1>1. Init => PoolInv
  BY PoolInit
<1>2. PoolInv /\ [Next]_vars => PoolInv'
  BY TasksInductive, PermitsInductive, EndInductive, LateInductive, WakeInductive, ReceiverInductive
  DEF PoolInv, TasksKept
<1> QED
  BY <1>1, <1>2, PTL DEF Spec

\* No permit of the semaphore leaks or is used twice: however handlers end and
\* whenever the runner is aborted, at most `size` tasks run (runtime.rs).
THEOREM PermitsAreConserved == Spec => []PermitsConserved
<1>1. PoolInv => PermitsConserved
  BY DEF PoolInv, PermitsInv, PermitsConserved
<1> QED
  BY <1>1, PoolInvariant, PTL

\* SubmitQueue holds the accepted tasks, each once, within its capacity, whichever
\* submitters race and under every overflow policy (queue.rs).
THEOREM QueueIsSound == Spec => []QueueSound
<1>1. PoolInv => QueueSound
  <2> SUFFICES ASSUME TasksInv PROVE QueueSound
    BY DEF PoolInv
  <2>1. items \in Seq(Tasks) /\ Len(items) <= Capacity /\ Distinct(items)
    BY DEF TasksInv, TasksTyped, QueueInv
  <2>2. IsInjective(items)
    BY <2>1 DEF Distinct, IsInjective
  <2>3. ToSet(items) \subseteq Tasks
    BY <2>1, ToSetElements
  <2>4. ToSet(items) = With("queued")
    BY <2>3 DEF TasksInv, QueueInv, With
  <2> QED
    BY <2>1, <2>2, <2>4 DEF QueueSound
<1> QED
  BY <1>1, PoolInvariant, PTL

\* No wake-up of the queue's two Notify objects is lost.  A registered submitter has
\* one coming: from the next removal, which there will be since the queue has items
\* (so it may sleep beside a free place), from a stored permit, or from a submitter
\* that carries it.  The receiver never sleeps on a queue that has items or is closed.
THEOREM WakeupsAreNotLost == Spec => []NoLostWakeup
<1>1. PoolInv => NoLostWakeup
  <2> SUFFICES ASSUME TasksInv, WakeInv, ReceiverAwake PROVE SubmitterRemembered
    BY DEF PoolInv, NoLostWakeup
  <2>1. waiters \in Seq(Tasks)
    BY DEF TasksInv, TasksTyped
  <2>2. waiters # <<>> => \E t \in Tasks : t \in ToSet(waiters)
    BY <2>1, ToSetElements
  <2>3. waiters # <<>> => \E t \in Tasks : status[t] = "waiting"
    BY <2>2 DEF TasksInv, WaitersInv
  <2> QED
    BY <2>3 DEF WakeInv, SubmitterRemembered
<1> QED
  BY <1>1, PoolInvariant, PTL

\* Once the runner has ended, by its drain loop or by abort(), no accepted task is left
\* in the queue or in its hands, and what it dequeued late was never started.
THEOREM NoTaskStranded == Spec => []NoStrandedTask
<1>1. PoolInv => NoStrandedTask
  <2> SUFFICES ASSUME TasksInv, EndInv, LateInv PROVE NoStrandedTask
    BY DEF PoolInv
  <2>1. ASSUME runner \in {"exited", "dropped"} PROVE With("queued") = {} /\ With("held") = {}
    <3>1. ToSet(items) = {}
      BY <2>1, ToSetElements DEF EndInv, TasksInv, TasksTyped
    <3>2. \A t \in Tasks : status[t] # "queued"
      BY <3>1 DEF TasksInv, QueueInv
    <3>3. \A t \in Tasks : status[t] # "held"
      BY <2>1 DEF TasksInv, HeldInv
    <3> QED
      BY <3>2, <3>3 DEF With
  <2>2. LateDequeuedNeverRuns
    BY DEF LateInv, LateDequeuedNeverRuns, Executing, With
  <2> QED
    BY <2>1, <2>2 DEF NoStrandedTask
<1> QED
  BY <1>1, PoolInvariant, PTL

-----------------------------------------------------------------------------

\* The life of a task, whatever the other tasks, the runner and the owner do at the
\* same time: it is accepted once, runs at most once and only after it was queued, its
\* handle resolves once, and a task that never ran does not report "returned".
THEOREM TasksMoveForward == Spec => [][\A u \in Tasks : Move(u)]_vars
<1>1. PoolInv /\ [Next]_vars => [\A u \in Tasks : Move(u)]_vars
  BY TasksInductive DEF PoolInv, TasksKept
<1> QED
  BY <1>1, PoolInvariant, PTL DEF Spec

-----------------------------------------------------------------------------

\* PoolSpec's step in which the handles of ts resolve to r.
LEMMA OutcomesResolve ==
    ASSUME NEW ts, NEW r \in {"returned", "error"},
           \A u \in Tasks : IF u \in ts
                            THEN IF r = "returned" THEN result'[u] = "returned"
                                                   ELSE result'[u] \notin {"none", "returned"}
                            ELSE result'[u] = result[u]
    PROVE  Promise!Resolve(ts, r)
BY DEF Promise!Resolve

\* Steps that users do not see.
LEMMA Unseen ==
    ASSUME UNCHANGED <<items, result>>,
           \A u \in Tasks : status'[u] = status[u] \/ (/\ status[u] \notin {"held", "running"}
                                                       /\ status'[u] \notin {"held", "running"})
    PROVE  UNCHANGED Promise!vars
<1>1. UNCHANGED With("held") /\ UNCHANGED With("running")
  BY DEF With
<1> QED
  BY <1>1 DEF Promise!vars

LEMMA PromiseSubmission ==
    ASSUME TasksInv, NEW t \in Tasks, Submit(t) \/ Retry(t) PROVE [Promise!Next]_(Promise!vars)
<1>1. /\ status[t] \in {"new", "notified", "woken", "retry"}
      /\ Refused(t) \/ Accepted(t) \/ Parked(t) \/ Displaced(t)
  BY SubmissionCases
<1>2. status \in [Tasks -> Status] /\ result \in [Tasks -> Result] /\ items \in Seq(Tasks)
  BY DEF TasksInv, TasksTyped
<1>3. Promise!Fresh(t)
  <2>1. result[t] = "none" /\ t \notin ToSet(items) /\ t \notin With("held") /\ t \notin With("running")
    BY <1>1 DEF TasksInv, QueueInv, ResultInv, Blocked, With
  <2> QED
    BY <2>1 DEF Promise!Fresh, Promise!ToSet, ToSet
<1>4. CASE Refused(t)
  <2>1. PICK r \in Result \ {"none", "returned"} :
          /\ status' = [status EXCEPT ![t] = "done"]
          /\ result' = [result EXCEPT ![t] = r] /\ UNCHANGED items
    BY <1>4 DEF Refused
  <2>2. UNCHANGED With("held") /\ UNCHANGED With("running")
    BY <1>1, <1>2, <2>1 DEF With
  <2>3. Promise!Resolve({t}, "error")
    BY <1>2, <2>1, OutcomesResolve
  <2> QED
    BY <1>3, <2>1, <2>2, <2>3 DEF Promise!Refuse, Promise!Next
<1>5. CASE Accepted(t)
  <2>1. UNCHANGED With("held") /\ UNCHANGED With("running")
    BY <1>1, <1>2, <1>5 DEF Accepted, With
  <2> QED
    BY <1>3, <1>5, <2>1 DEF Accepted, Promise!Accept, Promise!Next
<1>6. CASE Parked(t)
  BY <1>1, <1>2, <1>6, Unseen DEF Parked
<1>7. CASE Displaced(t)
  <2> DEFINE h == Head(items)
  <2>1. /\ items' = Append(Tail(items), t) /\ ~(Len(items) < Capacity)
        /\ status' = [status EXCEPT ![t] = "queued", ![h] = "done"]
        /\ result' = [result EXCEPT ![h] = "rate_limited"]
    BY <1>7 DEF Displaced
  <2>2. Len(items) = Capacity /\ items # <<>>
    BY <1>2, <2>1, PoolAssumption, EmptySeq DEF TasksInv, QueueInv
  <2>3. h \in Tasks /\ status[h] = "queued"
    BY <2>2, OldestQueued
  <2> HIDE DEF h
  <2>4. UNCHANGED With("held") /\ UNCHANGED With("running")
    BY <1>1, <1>2, <2>1, <2>3 DEF With
  <2>5. Promise!Resolve({h}, "error")
    BY <1>2, <2>1, <2>3, OutcomesResolve
  <2> QED
    BY <1>3, <2>1, <2>2, <2>4, <2>5 DEF h, Promise!Displace, Promise!Next
<1> QED
  BY <1>1, <1>4, <1>5, <1>6, <1>7

LEMMA PromiseAbandon ==
    ASSUME TasksInv, NEW t \in Tasks, Abandon(t) PROVE Promise!Next
<1>1. /\ status[t] \in {"notified", "waiting", "woken"} /\ UNCHANGED <<items, runner>>
      /\ result' = [result EXCEPT ![t] = "abandoned"]
  BY DEF Abandon
<1>2. result \in [Tasks -> Result]
  BY DEF TasksInv, TasksTyped
<1>3. Promise!Fresh(t)
  <2>1. result[t] = "none" /\ t \notin ToSet(items) /\ t \notin With("held") /\ t \notin With("running")
    BY <1>1 DEF TasksInv, QueueInv, ResultInv, Blocked, With
  <2> QED
    BY <2>1 DEF Promise!Fresh, Promise!ToSet, ToSet
<1>4. Promise!Resolve({t}, "error")
  BY <1>1, <1>2, OutcomesResolve
<1>5. UNCHANGED With("held") /\ UNCHANGED With("running")
  <2>1. TasksInv' /\ \A u \in Tasks : Move(u)
    BY TasksAbandon DEF TasksKept
  <2>2. ~RunnerSpawn
    BY <1>1 DEF RunnerSpawn
  <2>3. ASSUME NEW u \in Tasks \ {t}, status'[u] # status[u]
        PROVE  status[u] \notin {"held", "running"} /\ status'[u] \notin {"held", "running"}
    <3>1. result'[u] = result[u]
      BY <1>1, <1>2
    <3>2. status[u] \in {"held", "running"} => result'[u] = "none"
      BY <3>1 DEF TasksInv, ResultInv
    <3>3. status[u] = "queued" <=> status'[u] = "queued"
      BY <1>1, <2>1 DEF TasksInv, QueueInv
    <3> QED
      BY <2>1, <2>2, <2>3, <3>2, <3>3 DEF Move, Blocked
  <2>4. status'[t] \notin {"held", "running"}
    BY <1>1, <2>1, <2>2 DEF Move, Blocked
  <2> QED
    BY <1>1, <2>3, <2>4 DEF With
<1> QED
  BY <1>1, <1>3, <1>4, <1>5 DEF Promise!Refuse, Promise!Next

\* recv() takes the oldest task.
LEMMA PromiseRecv ==
    ASSUME TasksInv, runner \in {"recv", "drain"}, UNCHANGED result,
           NEW next \in {"permit", "fail"}, NEW end \in {"drain", "join"},
           NEW wait \in {"recv_wait", "drain_wait"}, Recv(next, end, wait)
    PROVE  [Promise!Next]_(Promise!vars)
<1>1. CASE items = <<>>
  BY <1>1, Unseen DEF Recv
<1>2. CASE items # <<>>
  <2> DEFINE h == Head(items)
             st == [status EXCEPT ![h] = "held"]
  <2>1. NotifyOne(st) /\ items' = Tail(items)
    BY <1>2 DEF Recv
  <2>2. h \in Tasks /\ status[h] = "queued"
    BY <1>2, OldestQueued
  <2>3. status \in [Tasks -> Status] /\ \A u \in Tasks : status[u] # "held"
    BY DEF TasksInv, TasksTyped, HeldInv
  <2>4. st[h] = "held" /\ st \in [Tasks -> Status] /\ \A u \in Tasks \ {h} : st[u] = status[u]
    BY <2>2, <2>3 DEF Status
  <2> HIDE DEF h, st
  <2>5. \A u \in Tasks : u \in ToSet(waiters) <=> st[u] = "waiting"
    BY <2>2, <2>4 DEF TasksInv, WaitersInv
  <2>6. \A u \in Tasks : status'[u] = st[u] \/ (status'[u] = "notified" /\ st[u] = "waiting")
    BY <2>1, <2>4, <2>5, NotifyOneEffect DEF TasksInv, WaitersInv
  <2>7. With("held") = {} /\ With("held")' = {h} /\ UNCHANGED With("running")
    BY <2>2, <2>3, <2>4, <2>6 DEF With
  <2> QED
    BY <1>2, <2>1, <2>7 DEF h, Promise!Take, Promise!Next
<1> QED
  BY <1>1, <1>2

\* The runner fails the task it holds.
LEMMA PromiseFailHeld ==
    ASSUME TasksInv, FailHeld("drain"), UNCHANGED items PROVE Promise!Next
<1>1. PICK t \in Tasks :
        /\ status[t] = "held" /\ status' = [status EXCEPT ![t] = "done"]
        /\ result' = [result EXCEPT ![t] = "cancelled"]
  BY DEF FailHeld, Resolve, With
<1>2. status \in [Tasks -> Status] /\ result \in [Tasks -> Result]
  BY DEF TasksInv, TasksTyped
<1>3. With("held") = {t}
  BY <1>1 DEF TasksInv, HeldInv, With
<1>4. With("held")' = {} /\ UNCHANGED With("running")
  BY <1>1, <1>2, <1>3 DEF With
<1>5. Promise!Resolve({t}, "error")
  BY <1>1, <1>2, OutcomesResolve
<1> QED
  BY <1>3, <1>4, <1>5 DEF Promise!Cancel, Promise!Next

\* The runner starts the task it holds; the permit it took shows that fewer than
\* Size tasks run.
LEMMA PromiseSpawn ==
    ASSUME TasksInv, PermitsInv, RunnerSpawn PROVE Promise!Next
<1>1. PICK t \in Tasks : status[t] = "held" /\ status' = [status EXCEPT ![t] = "running"]
  BY DEF RunnerSpawn, With
<1>2. status \in [Tasks -> Status]
  BY DEF TasksInv, TasksTyped
<1>3. With("held") = {t}
  BY <1>1 DEF TasksInv, HeldInv, With
<1>4. With("held")' = {} /\ With("running")' = With("running") \cup {t}
  BY <1>1, <1>2, <1>3 DEF With
<1>5. Cardinality(With("running")) < Size
  <2>1. With("running") \subseteq Executing /\ Executing \subseteq Tasks
    BY DEF Executing, With
  <2>2. IsFiniteSet(Executing)
    BY <2>1, FS_Subset, PoolAssumption
  <2>3. /\ Cardinality(With("running")) \in Nat /\ Cardinality(Executing) \in Nat
        /\ Cardinality(With("running")) <= Cardinality(Executing)
    BY <2>1, <2>2, FS_Subset, FS_CardinalityType
  <2>4. permits \in Nat /\ permits > 0 /\ permits + Cardinality(Executing) = Size
    BY DEF PermitsInv, RunnerSpawn, PermitFree
  <2> QED
    BY <2>3, <2>4
<1>6. UNCHANGED <<items, result>>
  BY DEF RunnerSpawn
<1>7. Promise!Cardinality(With("running")) = Cardinality(With("running"))
  BY DEF Promise!Cardinality, Cardinality
<1> QED
  BY <1>3, <1>4, <1>5, <1>6, <1>7 DEF Promise!Begin, Promise!Next

\* abort() drops the queue and what the runner holds.
LEMMA PromiseAborted ==
    ASSUME TasksInv, RunnerAborted PROVE Promise!Next
<1> DEFINE lost == ToSet(items) \cup With("held")
<1>1. items' = <<>>
  BY DEF RunnerAborted
<1>2. ToSet(items) = With("queued")
  <2>1. ToSet(items) \subseteq Tasks
    BY ToSetElements DEF TasksInv, TasksTyped
  <2> QED
    BY <2>1 DEF TasksInv, QueueInv, With
<1>3. /\ \A u \in Tasks : u \in lost <=> status[u] \in {"held", "queued"}
      /\ \A u \in Tasks : status'[u] = IF u \in lost THEN "done" ELSE status[u]
      /\ \A u \in Tasks : result'[u] = IF u \in lost THEN "lost" ELSE result[u]
  BY <1>2 DEF RunnerAborted, With
<1> HIDE DEF lost
<1>4. With("held")' = {} /\ UNCHANGED With("running")
  BY <1>3 DEF With
<1>5. Promise!Resolve(lost, "error")
  BY <1>3, OutcomesResolve
<1> QED
  BY <1>1, <1>4, <1>5 DEF lost, ToSet, Promise!ToSet, Promise!CancelAll, Promise!Next

\* A handler returns, panics or is dropped.
LEMMA PromiseEnd ==
    ASSUME TasksInv, NEW t \in Tasks, Finish(t) \/ Perish(t) PROVE Promise!Next
<1>1. /\ status[t] = "running" /\ status' = [status EXCEPT ![t] = "returning"]
      /\ \/ result' = [result EXCEPT ![t] = "returned"]
         \/ result' = [result EXCEPT ![t] = "lost"]
  BY DEF Finish, Perish
<1>2. UNCHANGED items
  BY DEF Finish, Perish, TaskFrame, queue
<1>3. status \in [Tasks -> Status] /\ result \in [Tasks -> Result]
  BY DEF TasksInv, TasksTyped
<1>4. t \in With("running") /\ With("running")' = With("running") \ {t} /\ UNCHANGED With("held")
  BY <1>1, <1>3 DEF With
<1>5. \E r \in {"returned", "error"} : Promise!Resolve({t}, r)
  BY <1>1, <1>3, OutcomesResolve
<1> QED
  BY <1>2, <1>4, <1>5 DEF Promise!End, Promise!Next

\* Every step of the pool is a step of PoolSpec or changes nothing that users see.
LEMMA PromiseStep ==
    ASSUME TasksInv, PermitsInv, [Next]_vars PROVE [Promise!Next]_(Promise!vars)
<1>1. ASSUME NEW t \in Tasks, Submit(t) \/ Retry(t) \/ Abandon(t) \/ Finish(t) \/ Perish(t)
      PROVE  [Promise!Next]_(Promise!vars)
  BY <1>1, PromiseSubmission, PromiseAbandon, PromiseEnd
<1>2. ASSUME NEW t \in Tasks, Poll(t) \/ Release(t) PROVE [Promise!Next]_(Promise!vars)
  <2>1. UNCHANGED <<items, result>>
    BY <1>2 DEF Poll, Release, TaskFrame, queue
  <2>2. /\ status[t] \in {"pending", "returning"}
        /\ \E s \in {"retry", "waiting", "done"} : status' = [status EXCEPT ![t] = s]
    BY <1>2 DEF Poll, Release
  <2>3. status \in [Tasks -> Status]
    BY DEF TasksInv, TasksTyped
  <2> QED
    BY <2>1, <2>2, <2>3, Unseen
<1>3. CASE RunnerRecv
  BY <1>3, PromiseRecv DEF RunnerRecv
<1>4. CASE RunnerDrain
  BY <1>4, PromiseRecv, PromiseFailHeld DEF RunnerDrain
<1>5. CASE RunnerPermit
  BY <1>5, PromiseFailHeld, Unseen DEF RunnerPermit
<1>6. CASE RunnerSpawn \/ RunnerAborted
  BY <1>6, PromiseSpawn, PromiseAborted
<1>7. CASE CloseQueue
  <2>1. /\ UNCHANGED <<items, result>>
        /\ status' = [t \in Tasks |-> IF status[t] \in {"pending", "waiting"} THEN "woken" ELSE status[t]]
    BY <1>7 DEF CloseQueue, WakeSubmitters, OwnerFrame
  <2> QED
    BY <2>1, Unseen
<1>8. CASE \/ RunnerSelect \/ RunnerDrainWoken \/ RunnerJoin \/ OwnerEnds
           \/ \E t \in Tasks : CancelTask(t)
           \/ \E next \in Endings : CloseToken(next)
           \/ UNCHANGED vars
  <2>1. UNCHANGED <<items, result, status>>
    BY <1>8 DEF RunnerSelect, RunnerDrainWoken, RunnerJoin, OwnerEnds, CancelTask, CloseToken,
                OwnerFrame, vars, queue
  <2> QED
    BY <2>1, Unseen
<1> QED
  BY <1>1, <1>2, <1>3, <1>4, <1>5, <1>6, <1>7, <1>8 DEF Next, RunnerStep

\* The pool with its locks, wake-ups, runner and abort implements PoolSpec: first in first
\* out, only the oldest displaced, at most Size at a time, each task at most once, no
\* handle resolved twice (queue.rs, runtime.rs).
THEOREM PoolRefines == Spec => ImplementsPool
<1>1. Init => Promise!Init
  BY DEF Init, With, Promise!Init
<1>2. PoolInv /\ [Next]_vars => [Promise!Next]_(Promise!vars)
  BY PromiseStep DEF PoolInv
<1> QED
  BY <1>1, <1>2, PoolInvariant, PTL DEF Spec, ImplementsPool, Promise!Spec
=============================================================================
