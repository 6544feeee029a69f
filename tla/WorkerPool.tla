----------------------------- MODULE WorkerPool -----------------------------
(***************************************************************************)
(* The worker pool of rskit-worker: the bounded submit queue (queue.rs),   *)
(* submit() under the three overflow policies, the runner loop, the tasks  *)
(* it spawns, and close(), shutdown() and Drop (runtime.rs).               *)
(*                                                                         *)
(* Submitters, the runner, the spawned tasks and the pool's owner run on   *)
(* different threads; a lock section, an atomic operation or a send is one *)
(* step.  tokio's Notify is modelled by what its users rely on: notify_one *)
(* wakes the longest-waiting registered future or else stores one permit,  *)
(* notify_waiters wakes every existing future and stores nothing, and a    *)
(* future that is dropped after notify_one chose it passes the wake-up on. *)
(***************************************************************************)
EXTENDS Naturals, FiniteSets, Sequences, SequencesExt

CONSTANTS
    Tasks,        \* the tasks submitted, each once
    Policies,     \* the overflow policies a pool may be configured with
    Capacity,     \* QueueInner::capacity, queue_size.max(1)
    Size,         \* Pool::capacity, PoolConfig::size clamped to at least 1
    LongRunning,  \* tasks whose handler returns only once its token is cancelled
    Endings       \* how the owner may end the pool: of close, shutdown, drop

ASSUME PoolAssumption ==
    /\ IsFiniteSet(Tasks)
    /\ Policies \subseteq {"Block", "Reject", "DropOldest"}
    /\ Capacity \in Nat \ {0}
    /\ Size \in Nat \ {0}
    /\ LongRunning \subseteq Tasks
    /\ Endings \subseteq {"closed", "waiting", "dropping"}

VARIABLES
    policy,       \* PoolConfig::overflow_policy, fixed at construction
    items,        \* QueueInner::items
    closed,       \* QueueInner::closed
    not_full,     \* a stored permit of the Notify not_full
    waiters,      \* futures registered with not_full, longest wait first
    not_empty,    \* a wake-up the single receiver has not consumed
    shutdown,     \* the shutdown token is cancelled
    permits,      \* available permits of the semaphore
    unreaped,     \* finished tasks the JoinSet still holds
    runner,       \* where the runner loop is
    owner,        \* what the pool's owner is doing
    aborted,      \* runner.abort() was called
    status,       \* where each task is
    result,       \* what each submission or task handle resolved to
    cancel,       \* tasks whose cancellation token is cancelled
    late          \* history: tasks dequeued after the token was cancelled

queue == <<items, closed, not_full, waiters, not_empty>>
control == <<policy, shutdown, owner, aborted>>
vars == <<queue, control, permits, unreaped, runner, status, result, cancel,
          late>>

(***************************************************************************)
(* A task is new; pending (its Notified exists but is not polled yet),     *)
(* waiting (registered), notified (chosen by notify_one), woken (by        *)
(* notify_waiters) or retry (permit consumed) while its submitter is       *)
(* blocked; queued; held by the runner that waits for a permit; running;   *)
(* returning (its result is sent, its permit not yet released); or done.   *)
(***************************************************************************)
Blocked == {"pending", "waiting", "notified", "woken", "retry"}
Status == {"new", "queued", "held", "running", "returning", "done"} \cup Blocked
Result == {"none", "returned", "unavailable", "rate_limited", "abandoned",
           "cancelled", "lost"}

With(s) == {t \in Tasks : status[t] = s}

\* Tasks that occupy a permit.
Executing == With("running") \cup With("returning")

\* Pool::new(): the runner is spawned, all permits are available.
Init ==
    /\ policy \in Policies
    /\ items = <<>> /\ closed = FALSE
    /\ not_full = FALSE /\ waiters = <<>> /\ not_empty = FALSE
    /\ shutdown = FALSE /\ owner = "using" /\ aborted = FALSE
    /\ permits = Size /\ unreaped = 0 /\ runner = "select"
    /\ status = [t \in Tasks |-> "new"]
    /\ result = [t \in Tasks |-> "none"]
    /\ cancel = {}
    /\ late = {}

(***************************************************************************)
(* Building blocks                                                         *)
(***************************************************************************)

\* not_full.notify_one(), after the task states have become st.
NotifyOne(st) ==
    IF waiters = <<>>
    THEN not_full' = TRUE /\ status' = st /\ UNCHANGED waiters
    ELSE /\ status' = [st EXCEPT ![Head(waiters)] = "notified"]
         /\ waiters' = Tail(waiters)
         /\ UNCHANGED not_full

\* The submission or the handle of task t resolves to r.
Resolve(t, r) ==
    /\ status' = [status EXCEPT ![t] = "done"]
    /\ result' = [result EXCEPT ![t] = r]

\* items.push_back(t); not_empty.notify_one()
PushBack(q, t) ==
    /\ items' = Append(q, t)
    /\ not_empty' = TRUE

\* Mutant: off by one in the capacity check.
HasRoomOneMore == Len(items) <= Capacity

HasRoom == Len(items) < Capacity

(***************************************************************************)
(* submit()                                                                *)
(***************************************************************************)

\* The arms the three push operations share: the queue is closed, or has room.
PushClosed(t) ==
    /\ closed
    /\ Resolve(t, "unavailable")
    /\ UNCHANGED <<items, not_empty>>

PushRoom(t) ==
    /\ ~closed /\ HasRoom
    /\ PushBack(items, t)
    /\ status' = [status EXCEPT ![t] = "queued"]
    /\ UNCHANGED result

\* One round of push_block: the lock section up to notified().
PushBlock(t) ==
    \/ PushClosed(t) \/ PushRoom(t)
    \/ /\ ~closed /\ ~HasRoom
       /\ status' = [status EXCEPT ![t] = "pending"]
       /\ UNCHANGED <<items, not_empty, result>>

PushReject(t) ==
    \/ PushClosed(t) \/ PushRoom(t)
    \/ /\ ~closed /\ ~HasRoom
       /\ Resolve(t, "rate_limited")
       /\ UNCHANGED <<items, not_empty>>

\* Task t displaces the queued task u, whose handle gets rate_limited.
Displace(t, u, rest) ==
    /\ PushBack(rest, t)
    /\ status' = [status EXCEPT ![t] = "queued", ![u] = "done"]
    /\ result' = [result EXCEPT ![u] = "rate_limited"]

\* Mutant: the newest queued task is displaced.
PushDropNewest(t) ==
    \/ PushClosed(t) \/ PushRoom(t)
    \/ ~closed /\ ~HasRoom /\ Displace(t, Last(items), Front(items))

\* push_drop_oldest() and notify_dropped_task() on the task it displaced.
PushDropOldest(t) ==
    \/ PushClosed(t) \/ PushRoom(t)
    \/ ~closed /\ ~HasRoom /\ Displace(t, Head(items), Tail(items))

\* submit(&self): the owner still has the pool.
Submit(t) ==
    /\ status[t] = "new"
    /\ owner \in {"using", "closing", "closed"}
    /\ \/ policy = "Block" /\ PushBlock(t)
       \/ policy = "Reject" /\ PushReject(t)
       \/ policy = "DropOldest" /\ PushDropOldest(t)
    /\ UNCHANGED <<closed, not_full, waiters, control, permits, unreaped, runner,
                   cancel, late>>

\* First poll of the Notified: take the stored permit or register.
Poll(t) ==
    /\ status[t] = "pending"
    /\ \/ /\ not_full
          /\ not_full' = FALSE
          /\ status' = [status EXCEPT ![t] = "retry"]
          /\ UNCHANGED waiters
       \/ /\ ~not_full
          /\ waiters' = Append(waiters, t)
          /\ status' = [status EXCEPT ![t] = "waiting"]
          /\ UNCHANGED not_full
    /\ UNCHANGED <<items, closed, not_empty, control, permits, unreaped, runner,
                   result, cancel, late>>

\* The submitter runs again after its wake-up.
Retry(t) ==
    /\ status[t] \in {"notified", "woken", "retry"}
    /\ PushBlock(t)
    /\ UNCHANGED <<closed, not_full, waiters, control, permits, unreaped, runner,
                   cancel, late>>

\* The submitter's future is dropped while it waits: a wake-up that notify_one
\* gave it goes to the next waiter.
Abandon(t) ==
    /\ result' = [result EXCEPT ![t] = "abandoned"]
    /\ LET st == [status EXCEPT ![t] = "done"] IN
       \/ /\ status[t] = "notified"
          /\ NotifyOne(st)
       \/ /\ status[t] = "waiting"
          /\ \E i \in DOMAIN waiters : waiters[i] = t /\ waiters' = RemoveAt(waiters, i)
          /\ status' = st
          /\ UNCHANGED not_full
       \/ /\ status[t] = "woken"
          /\ status' = st
          /\ UNCHANGED <<waiters, not_full>>
    /\ UNCHANGED <<items, closed, not_empty, control, permits, unreaped, runner,
                   cancel, late>>

(***************************************************************************)
(* runner_loop()                                                           *)
(***************************************************************************)
RunnerFrame == UNCHANGED <<closed, control, cancel>>

\* First branches of the biased select!: leave on shutdown, else reap one
\* finished task, else poll recv().
RunnerSelect ==
    /\ runner \in {"select", "recv_wait"}
    /\ \/ shutdown /\ runner' = "drain" /\ UNCHANGED <<unreaped, not_empty>>
       \/ /\ ~shutdown /\ unreaped > 0
          /\ unreaped' = unreaped - 1
          /\ runner' = "select"
          /\ UNCHANGED not_empty
       \/ /\ ~shutdown /\ unreaped = 0
          /\ runner = "select" \/ not_empty
          /\ not_empty' = IF runner = "select" THEN not_empty ELSE FALSE
          /\ runner' = "recv"
          /\ UNCHANGED unreaped
    /\ UNCHANGED <<items, not_full, waiters, permits, status, result, late>>
    /\ RunnerFrame

\* Mutant: recv() notifies only when the queue was full.
RecvNotifyIfFull(next, end, wait) ==
    \/ /\ items # <<>>
       /\ IF HasRoom
          THEN /\ status' = [status EXCEPT ![Head(items)] = "held"]
               /\ UNCHANGED <<not_full, waiters>>
          ELSE NotifyOne([status EXCEPT ![Head(items)] = "held"])
       /\ items' = Tail(items)
       /\ late' = IF shutdown THEN late \cup {Head(items)} ELSE late
       /\ runner' = next
    \/ /\ items = <<>>
       /\ runner' = IF closed THEN end ELSE wait
       /\ UNCHANGED <<items, status, not_full, waiters, late>>

\* The lock section of recv(): pop and notify_one(not_full), end, or wait.
Recv(next, end, wait) ==
    \/ /\ items # <<>>
       /\ NotifyOne([status EXCEPT ![Head(items)] = "held"])
       /\ items' = Tail(items)
       /\ late' = IF shutdown THEN late \cup {Head(items)} ELSE late
       /\ runner' = next
    \/ /\ items = <<>> /\ closed
       /\ runner' = end
       /\ UNCHANGED <<items, status, not_full, waiters, late>>
    \/ /\ items = <<>> /\ ~closed
       /\ runner' = wait
       /\ UNCHANGED <<items, status, not_full, waiters, late>>

RunnerRecv ==
    /\ runner = "recv"
    /\ Recv("permit", "drain", "recv_wait")
    /\ UNCHANGED <<not_empty, permits, unreaped, result>>
    /\ RunnerFrame

\* fail_envelope_shutdown() on the task the runner holds.
FailHeld(next) ==
    /\ \E t \in With("held") : Resolve(t, "cancelled")
    /\ runner' = next

\* The select! for a permit: shutdown comes first, then acquire_owned().
RunnerPermit ==
    /\ runner \in {"permit", "acquire"}
    /\ \/ shutdown /\ FailHeld("drain")
       \/ /\ ~shutdown /\ runner = "permit"
          /\ runner' = "acquire"
          /\ UNCHANGED <<status, result>>
    /\ UNCHANGED <<items, not_full, waiters, not_empty, permits, unreaped, late>>
    /\ RunnerFrame

PermitFree == permits > 0

\* A permit is there: spawn the task, then reap what has finished.
RunnerSpawn ==
    /\ runner = "acquire"
    /\ PermitFree
    /\ permits' = permits - 1
    /\ \E t \in With("held") : status' = [status EXCEPT ![t] = "running"]
    /\ unreaped' = 0
    /\ runner' = "select"
    /\ UNCHANGED <<items, not_full, waiters, not_empty, result, late>>
    /\ RunnerFrame

\* Mutant: the drain loop ends at the first empty queue, closed or not.
RunnerDrainUntilEmpty ==
    /\ \/ runner = "drain" /\ Recv("fail", "join", "join") /\ UNCHANGED result
       \/ /\ runner = "fail" /\ FailHeld("drain")
          /\ UNCHANGED <<items, not_full, waiters, late>>
    /\ UNCHANGED <<not_empty, permits, unreaped>>
    /\ RunnerFrame

\* The drain loop: every remaining task is cancelled until the queue is closed
\* and empty.  The loop may have to wait for close() to close the queue.
RunnerDrain ==
    /\ \/ runner = "drain" /\ Recv("fail", "join", "drain_wait") /\ UNCHANGED result
       \/ /\ runner = "fail" /\ FailHeld("drain")
          /\ UNCHANGED <<items, not_full, waiters, late>>
    /\ UNCHANGED <<not_empty, permits, unreaped>>
    /\ RunnerFrame

\* recv() in the drain loop is woken by a push that came before the close.
RunnerDrainWoken ==
    /\ runner = "drain_wait" /\ not_empty
    /\ not_empty' = FALSE
    /\ runner' = "drain"
    /\ UNCHANGED <<items, not_full, waiters, permits, unreaped, status, result,
                   late>>
    /\ RunnerFrame

\* join_next() until every spawned task has ended.
RunnerJoin ==
    /\ runner = "join"
    /\ \/ unreaped > 0 /\ unreaped' = unreaped - 1 /\ UNCHANGED runner
       \/ unreaped = 0 /\ Executing = {} /\ runner' = "exited" /\ UNCHANGED unreaped
    /\ UNCHANGED <<items, not_full, waiters, not_empty, permits, status, result,
                   late>>
    /\ RunnerFrame

\* An aborted runner is dropped at an await, with the task it holds, the queue
\* (whose other owner, the pool, is gone or going) and the JoinSet.
RunnerAborted ==
    /\ aborted
    /\ runner \in {"recv_wait", "acquire", "drain_wait", "join"}
    /\ LET lost == With("held") \cup With("queued") IN
       /\ status' = [t \in Tasks |-> IF t \in lost THEN "done" ELSE status[t]]
       /\ result' = [t \in Tasks |-> IF t \in lost THEN "lost" ELSE result[t]]
    /\ items' = <<>>
    /\ unreaped' = 0
    /\ runner' = "dropped"
    /\ UNCHANGED <<not_full, waiters, not_empty, permits, late>>
    /\ RunnerFrame

(***************************************************************************)
(* run_task() and TaskHandle                                               *)
(***************************************************************************)
TaskFrame == UNCHANGED <<queue, control, runner, cancel, late>>

\* The handler returns Ok or Err: the final event and the result are sent.
Finish(t) ==
    /\ status[t] = "running"
    /\ t \notin LongRunning \/ t \in cancel
    /\ result' = [result EXCEPT ![t] = "returned"]
    /\ status' = [status EXCEPT ![t] = "returning"]
    /\ UNCHANGED <<permits, unreaped>>
    /\ TaskFrame

\* The handler panics, or the task is dropped with the aborted runner's JoinSet:
\* the oneshot sender is dropped unused and the handle reports Internal.
Perish(t) ==
    /\ status[t] = "running"
    /\ status' = [status EXCEPT ![t] = "returning"]
    /\ result' = [result EXCEPT ![t] = "lost"]
    /\ UNCHANGED <<permits, unreaped>>
    /\ TaskFrame

\* Mutant: a task that perishes keeps its permit.
ReleaseLeak(t) ==
    /\ status[t] = "returning"
    /\ permits' = IF result[t] = "lost" THEN permits ELSE permits + 1
    /\ unreaped' = IF runner = "dropped" THEN 0 ELSE unreaped + 1
    /\ status' = [status EXCEPT ![t] = "done"]
    /\ UNCHANGED result
    /\ TaskFrame

\* The task ends and its OwnedSemaphorePermit is dropped.
Release(t) ==
    /\ status[t] = "returning"
    /\ permits' = permits + 1
    /\ unreaped' = IF runner = "dropped" THEN 0 ELSE unreaped + 1
    /\ status' = [status EXCEPT ![t] = "done"]
    /\ UNCHANGED result
    /\ TaskFrame

\* TaskHandle::cancel()
CancelTask(t) ==
    /\ t \in LongRunning \ cancel
    /\ status[t] \notin Blocked \cup {"new"}
    /\ cancel' = cancel \cup {t}
    /\ UNCHANGED <<queue, control, permits, unreaped, runner, status, result,
                   late>>

(***************************************************************************)
(* close(), shutdown() and Drop                                            *)
(***************************************************************************)
OwnerFrame == UNCHANGED <<policy, items, not_full, permits, unreaped, runner, result,
                          cancel, late>>

\* close() cancels the token and closes the queue.  shutdown(self) and Drop start
\* with close() and own the pool: no submitter borrows it any more.
CloseToken(next) ==
    /\ next \in Endings
    /\ owner = "using" \/ (owner = "closed" /\ next # "closed")
    /\ next # "closed" => \A t \in Tasks : status[t] \notin Blocked
    /\ shutdown' = TRUE
    /\ owner' = IF next = "closed" THEN "closing" ELSE next
    /\ UNCHANGED <<closed, waiters, not_empty, aborted, status>>
    /\ OwnerFrame

\* Mutant: close() does not wake the receiver.
WakeReceiverNot == UNCHANGED not_empty

\* not_empty.notify_waiters()
WakeReceiver ==
    not_empty' = (not_empty \/ runner \in {"recv_wait", "drain_wait"})

\* Mutant: close() does not wake the blocked submitters.
WakeSubmittersNot == UNCHANGED <<waiters, status>>

\* not_full.notify_waiters()
WakeSubmitters ==
    /\ waiters' = <<>>
    /\ status' = [t \in Tasks |-> IF status[t] \in {"pending", "waiting"}
                                  THEN "woken" ELSE status[t]]

\* SubmitQueue::close()
CloseQueue ==
    /\ owner \in {"closing", "waiting", "dropping"}
    /\ ~closed
    /\ closed' = TRUE
    /\ WakeReceiver
    /\ WakeSubmitters
    /\ owner' = IF owner = "closing" THEN "closed" ELSE owner
    /\ UNCHANGED <<shutdown, aborted>>
    /\ OwnerFrame

\* shutdown() sees the runner end.
ShutdownJoins ==
    /\ owner \in {"waiting", "aborting"} /\ runner \in {"exited", "dropped"}
    /\ owner' = "gone"
    /\ UNCHANGED aborted

\* The grace period of shutdown() is over: abort the runner and await it.
GraceElapses ==
    /\ owner = "waiting" /\ runner # "exited"
    /\ owner' = "aborting"
    /\ aborted' = TRUE

\* Mutant: Drop closes the pool and does not abort the runner.
DropDetaches ==
    /\ owner = "dropping"
    /\ owner' = "gone"
    /\ UNCHANGED aborted

DropAborts ==
    /\ owner = "dropping"
    /\ owner' = "gone"
    /\ aborted' = TRUE

OwnerEnds ==
    /\ closed
    /\ ShutdownJoins \/ GraceElapses \/ DropAborts
    /\ UNCHANGED <<closed, waiters, not_empty, shutdown, status>>
    /\ OwnerFrame

RunnerStep ==
    \/ RunnerSelect \/ RunnerRecv \/ RunnerPermit \/ RunnerSpawn
    \/ RunnerDrain \/ RunnerDrainWoken \/ RunnerJoin

Next ==
    \/ \E t \in Tasks : \/ Submit(t) \/ Poll(t) \/ Retry(t) \/ Abandon(t)
                        \/ Finish(t) \/ Perish(t) \/ Release(t) \/ CancelTask(t)
    \/ RunnerStep
    \/ RunnerAborted
    \/ \E next \in Endings : CloseToken(next)
    \/ CloseQueue
    \/ OwnerEnds

Spec == Init /\ [][Next]_vars

\* tokio schedules every ready task, handlers return, the grace timer fires, and
\* an aborted task is dropped; nobody is obliged to submit, cancel or close.
Fairness ==
    /\ WF_vars(RunnerStep) /\ WF_vars(RunnerAborted)
    /\ WF_vars(CloseQueue) /\ WF_vars(OwnerEnds)
    /\ \A t \in Tasks : /\ WF_vars(Poll(t)) /\ WF_vars(Retry(t))
                        /\ WF_vars(Finish(t)) /\ WF_vars(Release(t))
                        /\ WF_vars(runner = "dropped" /\ Perish(t))

FairSpec == Spec /\ Fairness

(***************************************************************************)
(* Properties                                                              *)
(***************************************************************************)

\* The queue, the semaphore, the runner and the tasks have their types.
TypeOK ==
    /\ items \in Seq(Tasks) /\ waiters \in Seq(Tasks)
    /\ policy \in Policies
    /\ closed \in BOOLEAN /\ shutdown \in BOOLEAN /\ aborted \in BOOLEAN
    /\ not_full \in BOOLEAN /\ not_empty \in BOOLEAN
    /\ permits \in 0..Size /\ unreaped \in Nat
    /\ runner \in {"select", "recv", "recv_wait", "permit", "acquire", "drain",
                   "drain_wait", "fail", "join", "exited", "dropped"}
    /\ owner \in {"using", "closing", "closed", "waiting", "dropping",
                  "aborting", "gone"}
    /\ status \in [Tasks -> Status]
    /\ result \in [Tasks -> Result]
    /\ cancel \in SUBSET Tasks /\ late \in SUBSET Tasks

\* Every permit is available or belongs to exactly one spawned task: none leaks
\* when a handler panics or is aborted, and never more than `size` tasks run.
PermitsConserved == permits + Cardinality(Executing) = Size

\* The queue holds the queued tasks, each once, and never more than its capacity,
\* whichever policy the submitters race under.
QueueSound ==
    /\ Len(items) <= Capacity
    /\ ToSet(items) = With("queued")
    /\ IsInjective(items)

\* A submitter asleep on not_full while the queue is open has items whose removal
\* will wake it, or a wake-up is already under way.
SubmitterRemembered ==
    waiters # <<>> /\ ~closed =>
        \/ items # <<>>
        \/ not_full
        \/ \E t \in Tasks : status[t] \in {"notified", "retry"}

\* The runner never sleeps in recv() while the queue has items or is closed.
ReceiverAwake ==
    runner \in {"recv_wait", "drain_wait"} /\ (items # <<>> \/ closed) => not_empty

\* Neither side of the queue sleeps through what it waits for: submitters on
\* not_full, the receiver on not_empty, however wake-ups are taken or passed on.
NoLostWakeup == SubmitterRemembered /\ ReceiverAwake

\* A task that the runner dequeues after the shutdown token is cancelled never
\* starts, although the token may be cancelled between any two of its checks.
LateDequeuedNeverRuns ==
    \A t \in late : t \notin Executing /\ result[t] \in {"none", "cancelled", "lost"}

\* Ending the pool leaves no accepted task behind, even one pushed between the two
\* steps of close(): when the runner has ended every task is resolved, and none
\* that it dequeued after the shutdown began was started.
NoStrandedTask ==
    /\ runner \in {"exited", "dropped"} => With("queued") = {} /\ With("held") = {}
    /\ LateDequeuedNeverRuns

\* The pool as its users see it, see PoolSpec: what the runner holds is next, and
\* a task stops running when its result is sent.
Promise == INSTANCE PoolSpec WITH
    queue <- items,
    next <- With("held"),
    running <- With("running"),
    outcome <- [t \in Tasks |-> IF result[t] \in {"none", "returned"}
                                THEN result[t] ELSE "error"]

\* Locks, wake-ups and abort implement the simple pool of PoolSpec: tasks leave the
\* queue in the order of acceptance, only the oldest is displaced, a task runs at
\* most once and only Size at a time, and no handle resolves twice (queue.rs,
\* runtime.rs).
ImplementsPool == Promise!Spec

\* A handler that nobody cancels runs for ever; it may hold the permit or the
\* JoinSet that others wait for.
Hung == \E t \in LongRunning \ cancel : status[t] = "running"

\* A blocked submit() returns, unless a handler hangs.
SubmittersReturn ==
    \A t \in Tasks : status[t] \in Blocked ~> status[t] \notin Blocked \/ Hung

\* However the pool went away, every accepted task's handle resolves.
EndingResolves ==
    owner = "gone" ~> \A t \in Tasks : status[t] # "new" => result[t] # "none"

\* The handle of every accepted task resolves, unless a handler hangs; once the
\* pool is gone it resolves in any case.
HandlesResolve ==
    /\ \A t \in Tasks : status[t] = "queued" ~> result[t] # "none" \/ Hung
    /\ EndingResolves

\* After close() the runner drains the queue, joins the running tasks and exits,
\* unless a handler hangs.
CloseDrains == owner = "closed" ~> runner \in {"exited", "dropped"} \/ Hung

\* shutdown() returns, although a handler may never return.
ShutdownReturns == owner = "waiting" ~> owner = "gone"

\* A pool that is being ended ends: the runner of a closed pool drains and exits,
\* unless a handler hangs, and shutdown() returns even then.
PoolEnds == CloseDrains /\ ShutdownReturns
=============================================================================
