# rskit in TLA+

This directory holds TLA+ models of the concurrent core of rskit, the TLC
configurations that check them on small instances, and TLAPS proofs of every
safety property of the passing runs, for any number of callers, tasks, components,
children, threads and messages and for every configuration.
`PROJECT.json` lists the components, the runs, the source lines behind each
definition, the hazards and the theorems.

rskit is a workspace of Rust crates (`core/`), adapters to external services
(`contrib/`), examples and tooling. Most crates define interfaces, data types or
I/O. The behaviour that is hard to test sits in a few crates where tasks,
timeouts, cancellation and shared state meet; those come first here.

## 1. Inventory

### Parts that carry state and interleave

**Circuit breaker** (`rskit-resilience/src/circuit_breaker.rs`, modelled).
State: `Inner` under a mutex (state, failure, success and probe counters, time of
the last failure). Operations: `execute()` takes the mutex before and after the
protected call, not during it; `reset()`; a callback after each transition, with
the mutex released. It is shared by clones, wrapped by the policy stack and by the
messaging middleware. Hard: results recorded in a later period than the one that
admitted the call; futures dropped at the await; racing probes; callbacks out of
order. Correct when: counters match the state, probes are bounded, it stays open
for the timeout, and it always gets out of Open and HalfOpen.

**Worker pool** (`rskit-worker/src/pool/{queue,runtime}.rs`, `task.rs`, modelled
but for events). State: a bounded queue under a mutex with two `Notify` objects, a
semaphore, a `JoinSet`, the shutdown token, one oneshot per task. Operations:
`submit()` under Block, Reject or DropOldest, the runner loop, task completion,
`close()`, `shutdown()`, `Drop`. Hard: lost wake-ups, cancelled submitters, a
token cancelled between two checks, panics, aborts. Correct when: no wake-up,
permit or accepted task is lost, the queue is bounded and in order, and every
ending resolves every handle.

**Component registry** (`rskit-component/src/registry.rs`, modelled but for
dropped operations). State: the
registered components, each with a state under a lock. Operations: `start_all()`,
`start_all_concurrent()`, `stop_all()`, and the rollback. Hard: states copied
before an await, timeouts that drop a `start()`, panicking start tasks, the first
error cancelling the other starts. Correct when: startup is all or nothing, orders
are kept, the registry's view agrees with the components, every operation returns.

**Application lifecycle** (`rskit-bootstrap/src/{app,lifecycle,hooks}.rs`,
modelled). State: the position in the lifecycle, the shutdown token, the error to
be reported. Operations: `start()`, `rollback_startup_failure()`, `run()`,
`run_task()`, `stop()`. It owns the registry and the di container and runs hooks.
Hard: failures in any of six phases, hooks that hang, a token cancelled meanwhile.
Correct when: it ends, nothing stays up, resources go in order, no error is lost.

**DAG engine** (`rskit-dag/src/dag.rs`, modelled). State: the edges; per run the
remaining in-degrees, results, skipped nodes, a join set under a semaphore.
Operations: `add_edge()`, `run()` and `execute()`, joining a node under the
behaviours Fail, Continue and Skip. Hard: siblings finish in any order while one of
them skips or aborts; an edge added twice; nodes that ended but are not joined yet
when the run is aborted. Correct when: a node runs once, with all inputs there are,
or its result says why it did not; the run returns.

**Process supervisor** (`rskit-process/src/supervisor/`, `runner/`, `sync.rs`,
modelled on Unix). State: the registry of live children, each entry free, claimed
by a shutdown pass, reaped under the claim, or a survivor; the gate that lets one
pass claim at a time. Operations: a supervised run and its blocking twin (spawn,
register, wait, terminate, escalate, disarm or hand over), wrappers,
`shutdown()`, and the drops of run, wrapper, pass and supervisor. Hard: a pass and
a run act on the same child; a pass or a run is dropped half-way; the leader is
gone while its group lives. Correct when: no claim and no live child is lost,
`shutdown()` reports what is true, runs and passes return.

**Messaging** (`rskit-messaging`, modelled but for several consumers). A memory
broker over a bounded broadcast channel, a batch producer with a periodic flush
task, a managed consumer loop around a handler with dedup, retry and dead-letter
layers. Hard: several flushers of one buffer, a flush that fails or is dropped, a
`recv()` that is dropped, an overflowing channel, a handler that hangs or panics,
retries against deduplication. Correct when: every message is accounted for, an Ok
means handled, and what was closed or stopped is quiet.

**Stateful accumulators** (`rskit-stateful/src/{manager,accumulator,memory_store}.rs`,
modelled). State: a map of accumulators under one lock, a buffer under a lock of its
own each. Operations: `append()`, `flush()`, `cleanup_expired()`, `close()`. Hard:
append, measure, evict and flush are separate lock sections; a sweep tests one
accumulator and removes what its key maps to later. Correct when: each accumulator
is closed once, values are neither duplicated nor reordered, buffers respect their
limits. The state machine in `machine.rs` is one critical section and is left out.

**Policy stack, bulkhead, retry, timeout** (`rskit-resilience/src/{policy,bulkhead}.rs`,
modelled; the rate limiter, a wrapper over an external crate that only refuses
calls, is not). State: the bulkhead's semaphore with its queue of waiters, the
breaker, the attempts of each call. Operation: `Policy::execute()`, bulkhead outside
breaker outside timeout outside retry. Hard: an operation that never returns while
its call is the deciding probe and holds a permit; a call dropped while it waits,
while a permit is on its way to it, or at the operation. Correct when: permits are
conserved, every call returns, the breaker recovers.

**Worker scheduler and bridge, hook bus, di container** (not modelled). Smaller
pieces of the same kind; the hook bus is a thin wrapper over a broadcast channel,
the container is one `close()` step to the application.

### Parts without such behaviour

Transports (http, grpc, sse, httpclient), discovery, cache, storage, database,
stream and chain combinators, provider and schema registries, tool, skill, mcp,
agent loop, ai and llm types, auth and encryption, config, logging, validation,
cli, codecs, media, datasets, contrib adapters and examples. They are I/O, data
types, sequential dispatch, cryptography, or the behaviour of external services.
`PROJECT.json` lists each with the reason it is left out.

### Interactions

    App ──start_all/stop_all──> Registry ──start/stop──> components
     │ hooks, shutdown_token, container.close()
     └─ components use: worker pool, policy stack ──> circuit breaker
    batch producer ──publish──> broker ──recv──> managed consumer ──> dedup, retry,
                                                  dead letter ──> handler
    shutdown pass ──claims──> child registry <──registers, removes── supervised runs
    Manager ──> accumulators ──> stores

## 2. Modules

| module | models | proved in |
|---|---|---|
| `CircuitBreaker` | the breaker, its callers, the clock | `PolicyProofs` |
| `Policy` | bulkhead, timeout and retry around `CircuitBreaker`, which it extends | `PolicyProofs` |
| `WorkerPool` | queue, submitters, runner, tasks, owner | `WorkerPoolProofs` |
| `PoolSpec` | what the pool promises; `WorkerPool` implements it | `WorkerPoolProofs` |
| `Registry` | the registry, its clients, the components | `LifecycleProofs` |
| `App` | the lifecycle on top of `Registry`, which it extends | `LifecycleProofs` |
| `Dag` | the graph, a run's engine and its tasks | `DagProofs` |
| `Supervisor` | children, runs, wrappers, shutdown passes, the supervisor | `SupervisorProofs` |
| `Stateful` | manager, accumulators, stores, calling threads | `StatefulProofs` |
| `Broker` | the broadcast channel | `MessagingProofs` |
| `BatchProducer` | clients, buffer, periodic task, on `Broker` | `MessagingProofs` |
| `ManagedConsumer` | the loop, its client, the handler chain, on `Broker` | `MessagingProofs` |
| `Messaging` | both on one broker | `MessagingProofs` |

`SequenceLemmas` has what several proofs need to know about sequences.

Each `MC...` module extends one of them with model values and definitions the
`.cfg` files use. Operators commented `Mutant:` are faulty variants of the
definition that follows them; no specification uses them. They document, for each
property, a plausible bug that the property would expose.

### CircuitBreaker

`state`, `failures`, `successes`, `half_open_calls`, `last_failure` are the fields
of `Inner`. `last_failure` is the age of the instant, up to `Timeout`, and
`failures` saturates at `MaxFailures`: the code only compares them with those
values. `execute()` is split where it releases the mutex: `Admit` (pre-call
section), `Notify` (callback), `Succeed` or `Fail` (post-call section), `Notify`.
`Drop` is the future dropped, or a panic, at the await. `Reset` is `reset()`, which
runs no callback. `Tick` is time. `probe`, `probes_ok`, `probes_lost`, `open_for`
and `delivered` are history: nothing in the code reads them.

### Policy

`stage` is where a caller is in `Policy::execute()`, `limit`, `permits` and `waiters`
are the bulkhead's semaphore, which is external: first come first served, a released
permit is assigned to the longest waiter (`granted`) before that one runs, and a
waiter dropped in between passes it on. `EnterBreaker` is the breaker's `Admit`; the
result of the retry loop is its `Succeed` or `Fail`, and so is the timeout, which
lies inside the breaker. A retried attempt is a stuttering step of the breaker.
`DropCall` is the future of `execute()` dropped at any await; at the operation it is
the breaker's `Drop`. The breaker's own `Spec` is checked against all of this by
proof (section 4) rather than by a run. Backoff delays are left out, and so are the
callbacks of bulkhead and retry.

### WorkerPool

A lock section, an atomic or a send is one step. tokio's `Notify`, semaphore and
`JoinSet` are external; they are modelled by what the pool relies on: `notify_one`
wakes the longest-waiting registered future or stores one permit, `notify_waiters`
wakes all existing futures and stores nothing, and a dropped future that had been
chosen passes the wake-up on. `push_block` creates its `Notified` under the lock
and polls it outside, hence the states pending, waiting, notified, woken, retry.
The runner is a program counter over the `select!`, `recv`, permit, spawn, drain
and join points of `run_pool`. `close()` is two steps (token, queue), and the same
two steps begin `shutdown()` and `Drop`. The handler's Ok and Err are one result;
panic and abort are separate. The policy is chosen in Init and then fixed.
`Promise` instantiates `PoolSpec` with the queue, the task the runner holds, the
tasks that run, and the results reduced to returned and error; everything else
(wake-ups, permits, the runner's position, the token) maps to stuttering.

### Registry

Components are numbered in registration order. `state` is what the registry
records and `comp` is what the component really is; only the registry's calls
connect the two. Each client has the locals of its operation: the copied states,
the set of components its loop has still to handle, the names started so far, the
token, its spawned tasks. `At` is the loop's position: the first of the remaining
components where the code walks the snapshots forwards, the last where it walks
them with `rev()`. Each await is a step boundary. Components keep their documented contract: a
`start()` that returns an error leaves nothing behind, one that is dropped leaves
partial resources that a `stop()` cleans up (`partial` after `start_all()`,
`abandoned` after a concurrent start). Names are taken to be distinct, which
`register()` does not check.

### App

`stage` is the position in `start()`, `rollback_startup_failure()` and `stop()`.
`DispatchHook` and `HookReturns` are `run_hooks()`; the token can be cancelled
between any two steps. The module extends `Registry` with the App as its only client
(`AppAssumption`): `CallStartAll` and `CallStopAll` call it and `RegistryStep` runs
its actions, so registry and application failures combine. The ready
check is nondeterministic. Event publication is left out: it cannot fail or block.

### Dag

`edges` holds `<<from, to, k>>`, `k` telling equal edges apart, since `add_edge()`
accepts the same edge again and counts it in the in-degree. `Visited` is the
depth-first search that both `path_exists` and `mark_skipped_dependents` make, given
as the least closed set. A task waits for a permit, executes, ends, and is joined in
the order of ending, as `JoinSet` does; `abort_all()` (`JoinFail`) marks the tasks
that exist then, and each is dropped at an await or still ends by itself.
`completed`, `failed`, `pending` and `outputs` are derived from `status` and `task`,
which the code updates together. Which `OnError` a node has is fixed before the run
but read only once, when the node is joined; the model chooses it there. The engine
never reads the cancellation token, so cancelling is one of the reasons a node may
return an error. `error` is what `status_from_error()` makes of a failed node's code:
`Reported` is therefore `Canceled` both for a node that returned
`ErrorCode::Cancelled`, under any `OnError`, and for one an abort left without a
result, and `ResultsExplained` tells the two apart. Overrides of `OnError` are taken
to name nodes of the graph.

### Supervisor

A child is a leader (`leader`: runs, exited and not collected, reaped) and the rest
of its group (`sub`); `killed` says which parts were sent SIGKILL. `entry` is its
entry in `LiveChildRegistry`, `owner` is the position of the run or wrapper that
spawned it, `task` that of the termination task a pass started for it, `pass` that
of each `shutdown()`. One pass (`Detached`) is the backstop of the supervisor's
drop. Every await in the runs is a place where their future can be dropped; the
synchronous scope is the same run with its own drop. Lifecycle policies
(`kill_after_grace`, `targets_group`, wrapped or not) are chosen in Init. The
operating system is nondeterministic: a process may exit at any time, ignore
SIGTERM, and takes any time to die of SIGKILL. A SIGTERM that the system refuses
makes the run kill the leader at once, if the policy escalates (`TermRefused`).

### Stateful

Every lock section of `Manager`, `Accumulator` and `MemoryStore` is a step;
`Manager::flush()` is one, since the map's lock is held across the store's. A value
is its position in the order of storing. `Expire` is time: an accumulator's TTL may
elapse at any moment, and activity renews it when `keep_alive` is set. The size
trigger is exact, a time trigger may fire at any append. `closes`, `flushed` and
`dropped` are history.

### Messaging

`Broker` is the log of everything broadcast and the receiver's cursor; falling more
than `Capacity` behind is `Lagged`. In `BatchProducer` each call of a client is a
program counter over its awaits, `hand` is the batch taken out of the buffer, and
`DropCall` drops the call's future. `ManagedConsumer` runs its loops, one per
`start()`: receive, filter (the await on the topics lock, where a dropped `recv()`
loses the message), call, back off. A call walks down `Stack`, a sequence of layers,
with `layer` as its position, and the result walks up. The dedup window expires from
its old end at any call. `task` is the slot that has a loop's handle, `joining` the
loop whose handle `stop()` has taken and waits for. `DropStop` is that future
dropped, which can only happen in this wait (the in-memory consumer's `close()` does
not suspend): the handle is gone, the loop is cancelled but goes on with its
message, `running` stays set. The next `stop()` finds the slot empty and returns Ok
at once, and a `start()` after it spawns a second loop beside the first; hence the
loops are numbered and each has its own `loop`, `layer`, `attempt` and `held`, while
receiver, handler and dedup window are shared. `Messaging` joins the two on the
shared log: the producer appends, the consumer moves the cursor. `lost`, `outcome`,
`served`, `dead`, `atClose`, `stopped` and `dropped` are history.

## 3. Runs

All bounds are in the `.cfg` files. "Violation" runs state what a comment in the
code says; TLC finds the behaviour of the code that disagrees.

| run | instance | shows |
|---|---|---|
| `policy` | 3 callers, a bulkhead of 2 or 3, thresholds 2, timeout 2, 2 attempts, any call may be dropped, resets, an operation that may hang | counters match the state, probes bounded, open for the timeout, callbacks complete, permits conserved, recovery when no probe is lost, every call returns |
| `cb_dropped_probe` | 2 callers, thresholds 1, one may be dropped | violation: a dropped probe keeps its slot; the breaker stays half-open for ever |
| `pool_safety` | 4 tasks, capacity 2, size 2, 3 policies, 3 endings | no lost wake-up, permit or task; the pool implements `PoolSpec` |
| `pool_liveness` | 3 tasks, capacity 1, size 1, Block, one handler that never returns | submitters return, handles resolve, `close()` drains, `shutdown()` and Drop end |
| `registry` | 1 client, 3 components that may hang, 3 operations, concurrency 2, cancellation | all or nothing, start and stop order, nothing untracked or in between, every operation returns |
| `app` | 3 components, hooks in each phase, hanging before_stop hooks | starts all or none, releases in order, leaks nothing, loses no error, ends |
| `dag` | every graph of 4 nodes and up to 6 edges, equal ones included | inputs complete, exactly the downstream skipped, every reported status has a reason, no internal error, no run stuck (deadlock check) |
| `supervisor` | 1 child under each of 8 policies, 2 passes, one may be dropped | claims are held; no child is orphaned, and after an Ok of `shutdown()` none registered at the call lives unsignalled but for survivors by policy, both except for descendants of a leader that was reaped before its run was dropped (the next run); passes and runs return |
| `supervisor_orphan` | the same | violation: a run dropped after its leader was collected orphans the rest of the group |
| `stateful` | 3 threads, 2 keys, 4 operations, limits 2 | each accumulator closed once, values conserved and in order, limits kept |
| `messaging` | 1 client and the periodic task, 2 copies of a message, channel of 1, dedup outside dead letter outside retry, 2 loops, `stop()` may be dropped | messages conserved; Ok means handled, dead-lettered or the duplicate of a copy that failed or is being handled; quiet after close and stop; close and stop return |
| `messaging_retry_dedup` | retry outside dedup | violation: a failed message's retry is dropped as its own duplicate and reported Ok |

Why the bounds suffice. *Breaker*: three callers allow one probe, one late result of
an earlier period and one racing admission; limits of 2 tell "first" from "last";
timeout 2 tells "reset" from "still old". A bulkhead of 2 makes the third caller
wait, one of 3 lets all three into the breaker at once. *Pool*: four tasks fill two
places, a permit and a blocked submitter at once; two freed slots between creating
and polling a `Notified` need two submitters and two removals. One place and one
permit is the tightest case for liveness. *Registry*: three components have a first,
a middle and a last, so that a failure in the middle has something to roll back and
something not yet started; three operations allow start, stop, start again. *App*: a
phase with two hooks tells a skipped hook from a finished phase. *Dag*: four nodes
include the diamond, two failing parents of one child, and a child beyond a skipped
one; node names are interchangeable, hence the symmetry. *Supervisor*: the protocols
are per child; what needs two actors needs a run and two passes. With a second child
the instance has more than 18 million states; what it would add, batches of claims
(`Fanout`), is therefore only exercised with batches of one; the proofs cover any
number of children and every batch size. *Stateful*: three threads are two appends
and a sweep or close around them, four operations allow a sweep, an append and
another sweep. *Messaging*: two messages overflow a channel of one and fill a buffer
of two; two copies in a window of one meet expiry, and each of two loops may have
one in the handler; two starts are what a dropped `stop()`, the one after it and a
second loop need. A message for another topic, eviction from the window and several
clients do not occur in this instance (680,000 states); the theorems cover them, and
any number of loops.

Deadlock checking is off where the system may stop: a pool that has ended, a
registry or manager after `MaxOps` operations, an application at its end, a
supervisor whose children are gone, a closed producer and a stopped consumer.

### Fairness

* Policy stack: a call is polled and its timers fire (`max_wait` and the timeout);
  the operation need not return. For `Recovers`, time passes, traffic arrives, and a
  caller does not drop every one of its calls before it reaches the breaker
  (strong fairness of `EnterBreaker`). The breaker has no timer of its own: without
  traffic an open breaker stays open. The run `cb_dropped_probe` takes the breaker
  alone, where calls finish unless they are dropped.
* Pool: the runtime schedules ready tasks, the grace timer fires, an aborted task
  is dropped, handlers return except the `LongRunning` ones (only when cancelled).
  Nobody has to submit, cancel or close. Properties that a handler which never
  returns would defeat say so (`Hung`).
* Registry: an operation, once called, is polled and its timers fire; a `start()`
  or `stop()` that hangs is ended by the timeout alone.
* App: the same, hooks return except in `HangingHooks`, and a cancelled token is
  noticed. Nobody has to send a signal.
* Supervisor: runs, passes and termination tasks are polled, their timers fire, a
  process that was sent SIGKILL dies. No process has to exit by itself, nobody has
  to cancel, drop or shut down.
* Messaging: clients inside a call, the periodic task and `stop()` are polled, their
  timers fire, and a publish returns. Nothing is assumed of the loops: a handler need
  not return, and `stop()` relies on its grace period alone. Nobody has to send,
  flush, start or stop.
* Dag and Stateful: safety only.

## 4. Proofs

Every invariant and every action property of the runs, and the refinement of
`PoolSpec`, is a theorem about the same definitions, for every value of the
constants that the module's named assumption admits. Bounds such as `MaxOps` are
constants like the others: the theorems hold for each of them. The runs found the
inductive invariants cheaply; the proofs then say that nothing depended on the small
instances. In each module one invariant (given below) implies the properties, which
are not inductive by themselves, and there is a lemma per action or group of actions.

### PolicyProofs: circuit breaker and policy stack

For any finite set of callers and any configuration `CbConfig::validate()` accepts
(`CbConfigAssumption`, `CallersAssumption`, `PolicyAssumption`):

| theorem | states |
|---|---|
| `TypeCorrect` | `TypeOK`: counters stay within their limits |
| `ClosedIsBelowThreshold` | no late result leaves a closed breaker at its threshold |
| `OpenAlwaysCanExpire` | an open breaker has the timestamp it needs to leave Open (the run `policy` checks its consequence, that it is tried again) |
| `ProbesAreBounded` | every slot belongs to one probe, and there are at most the configured number |
| `SaturatedAlwaysHasProbe` | without lost probes a saturated breaker waits for a probe |
| `StaysOpenForTimeout` | the breaker turns half-open only after the timeout |
| `CallbacksAccount` | callbacks delivered and owed by calls, with the transitions of `reset()`, which has none, add up to the state |
| `PolicyImplementsBreaker` | `PolicySpec => Spec`: to the breaker, every step of the stack is one of its own steps or none |
| `PolicyKeepsBreakerSafe` | the breaker's properties therefore hold under every policy |
| `BulkheadIsSound` | permits are conserved, nobody waits beside a free one |

The breaker's invariant is
`IndInv == TypeOK /\ CountersFit /\ TimestampFits /\ CallersFit /\ SlotsFit`.
`CountersFit` bounds each counter by the state it belongs to and holds probe
successes below all recorded successes, without which a saturated breaker might have
no probe left. `TimestampFits` relates the last failure's age to the time spent
open: a late failure may only make the age younger, never older, than the open
period. `CallersFit` says which callers have a transition to deliver and that probes
are callers inside `execute()`. `SlotsFit` is the accounting: probes in flight,
succeeded and lost add up to the slots handed out.

The callbacks are a flow argument: `FlowBalanced` counts, for each breaker state, the
transitions into it minus those out of it, delivered or still carried by a caller;
`PendingCounts` says how that number moves when one caller takes up or delivers a
transition. `PolicyImplementsBreaker` needs no invariant: each action of the stack
contains one of the breaker's or leaves it alone. `BulkheadInv` adds to
`BulkheadSound` where each caller is and that the waiters are a queue of distinct
callers, without which one that leaves might stay.

### WorkerPoolProofs

For any finite set of tasks and submitters, every policy, capacity, size and ending
(`PoolAssumption`):

| theorem | states |
|---|---|
| `PermitsAreConserved` | `PermitsConserved` |
| `QueueIsSound` | `QueueSound`: bounded, and exactly the queued tasks, each once |
| `WakeupsAreNotLost` | `NoLostWakeup`: a sleeping submitter has a wake-up coming, though it may sleep beside a free place while the queue has items; the receiver sleeps only on an empty open queue |
| `NoTaskStranded` | `NoStrandedTask` |
| `TasksMoveForward` | what one step may do to a task and its handle; no task ever goes back |
| `PoolRefines` | `Spec => ImplementsPool`: the pool implements `PoolSpec` |

`PoolInv` is `TasksInv` with `PermitsInv`, `EndInv`, `LateInv`, `WakeInv` and the
receiver's part of `NoLostWakeup`. `TasksInv` says where each task is: in the queue,
in the list of waiters, in the runner's hands (one at most), or in none of them, and
that only tasks which are over have a result. `WakeInv` is the strengthening that the
wake-up property needs: while a submitter has created its `Notified`, polled or not,
somebody will free a place for it (the queue is not empty), or a permit is stored, or
another submitter carries the wake-up. `EndInv` and `LateInv` say that the queue is
closed before the runner ends, and that what was dequeued after the shutdown began is
failed without a permit. For the refinement each action is shown to move one task
along one step of `PoolSpec`, or to change nothing the abstract pool sees (`Unseen`).

### LifecycleProofs: registry and application

For any number of components, operations and hooks (`RegistryAssumption`,
`AppAssumption`). The registry's theorems assume `OneClient`: operations do not
overlap. That is what the code needs and does not enforce; two overlapping
`start_all()` start a component twice (section 5).

| theorem | states |
|---|---|
| `NothingLeaks` | `NoLeak` |
| `StartupIsAllOrNothing` | `AllOrNothing` |
| `StopAllStopsAll` | `NoneRunsAfterStop` |
| `OrderIsKept` | `Order`, an action property |
| `AppImplementsRegistry` | `AppSpec => Spec`: the application drives the registry through its interface |
| `AppKeepsRegistrySafe` | under the application the four hold without further assumption |
| `StartupIsAllOrNothingToTheEnd` | `AllUpOrDown` |
| `ReleaseIsOrdered` | `ReleasedInOrder` |
| `SuccessIsClean` | `OkMeansClean` |

`RegistryInv` has five parts. `ViewInv` is the core: at each point of an operation
it says what the recorded state of a component is worth; whatever nobody works on is
`Settled`, its record agreeing with what it is. `StartInv` says that `start_all()`
goes up the order: below its position everything runs, above it nothing has changed
since the states were copied, which is why acting on the copy is right. `SpawnInv`
and `StopInv` say the same of the concurrent start and of the stop loop, `DoneInv`
what an operation leaves when it returns. The position of a loop is the least or the
greatest element of a finite set; `Extremes` shows that it exists, by well-founded
induction over finite sets.

`AppInv` relates the stage to the registry. `StageInv`: before `start_all()` nothing
has been touched, so what runs during it was started by it (`FirstStart`) and a
failed one leaves nothing; from the ready check to `stop_all()` everything is up;
`stop_all()` has cleanly stopped what it handled or has noted a failure
(`CleanStop`). `ErrorInv`: no error is forgotten, and the container is closed last.

### DagProofs

For any finite set of nodes, any graph `add_edge()` can build and any parallelism
(`DagAssumption`):

| theorem | states |
|---|---|
| `TypeCorrect` | `TypeOK` |
| `NeverInternalError` | `NoInternalError`: the cycle and underflow errors are unreachable |
| `InputsAreComplete` | `InputsComplete` |
| `SkipsExactlyDownstream` | `SkippedAreDownstream` |
| `ResultsAreExplained` | `ResultsExplained`: no node is forgotten, and Canceled or Skipped has its reason |

There are two inductive invariants. `IndInv` has the accounting, `DegreesFit`: the
in-degree of a node neither spawned nor skipped is the number of its edges from
dependencies that have not let it through, and is positive. When the last of them
is joined the rest is empty (`EdgeCount`, a counting argument over equal edges),
which gives complete inputs and no underflow. `GraphFits` says every set of nodes
has one without dependencies in the set, which Kahn's algorithm needs;
`AddEdgeKeepsSortable` shows that refusing an edge whose target leads back to its
source preserves it. `SkipInv`, on top, relates `skipped` to the Skip failures and
`aborted` to the Fail ones. Its core is `MarksDownstream`: nothing downstream of a
node that has not been recorded is spawned, and what is skipped is closed, so the
search loses nothing where it turns back. `EndAccounts` finishes the argument: with
no task left and no abort, a first unaccounted node in the order of the graph would
have all its dependencies in, and so would have been spawned.

### SupervisorProofs

For any finite sets of children and passes, every policy and every batch size
(`SupervisorAssumption`); the run has one child.

| theorem | states |
|---|---|
| `ClaimsAreHeld` | `ClaimsHeld` |
| `NoChildOrphaned` | `NoOrphan`: with the exception `Adrift` |
| `ShutdownIsHonest` | `ShutdownHonest`, an action property, with the same exception |

`ClaimInv` ties claims to the pass that holds the gate: only that pass has claims,
and each has its termination task. `ChildInv` lists the points at which a child is
safe: dead, sent SIGKILL, or `Adrift`, that is, its leader is reaped and its run's
scope was dropped after that, so that at most descendants live. Every way out of the
registry leads through one of them. `Adrift` is an exception to both properties and
not a kind of safety: the run `supervisor_orphan` shows that such descendants do
live on, and then `shutdown()` returns Ok over them too (section 5). `DropInv` says
that the supervisor's drop empties the registry but for what a pass has claimed,
`SparedInv` that survivors of a pass which counted no failure are spared by their
policy.

### StatefulProofs

For any finite sets of threads and keys, any number of operations and all limits
(`StatefulAssumption`):

| theorem | states |
|---|---|
| `TypeCorrect` | `TypeOK` |
| `AccumulatorsClosedOnce` | `ClosedExactlyOnce` |
| `ValuesAreConserved` | `ValuesConserved` |
| `BuffersWithinLimits` | `QuietWithinLimits` |

The properties count; the invariants say it without numbers. `HandedOver`: an
accumulator is held by exactly one key, or one thread has still to close it, or it
was closed once. `OnePlace`: each stored value is in one accumulator's flushes and
buffer, in ascending order, or was dropped. `LimitsWatched`: wherever a buffer is
over a limit, an append that will act on it is under way.

### MessagingProofs

For any number of clients and messages, all buffer, channel and window sizes and
every stack of layers (`BrokerAssumption`, `BatchAssumption`, `ConsumerAssumption`):

| theorem | states |
|---|---|
| `MessagesAreConserved` | `MessagesConserved` |
| `ShutdownIsQuiet` | `ShutdownQuiet`: nothing a returned `close()` saw is left, a loop whose `stop()` had its handle is over; one loop at most and a truthful `is_running()` only if no `stop()` was dropped |
| `NoMessageSilentlyLost` | `NoSilentLoss`, if deduplication comes before retry (`DedupFirst`); the duplicate of a copy that failed or is still being handled is excepted |

`PlacesInv` says where an accepted message is on the producer's side (buffer, one
flusher's hand, log, or lost), `ReceiptInv` where a broadcast one is on the
consumer's side; the counting comes last. `CloseInv` is what a `close()` in progress
has seen out of the buffer. `LifeInv` says who has which handle: the loop in the
slot is up and not cancelled, one whose `stop()` returned is off, and unless a
`stop()` was dropped every loop that is up is in the slot or is waited for. For the
third theorem `SeenInv` says that every id in the dedup window is there because of a
message that was answered or is being handled further down. With retry outside dedup
that fails, as the run `messaging_retry_dedup` shows, hence the assumption.

### What is only model-checked

Liveness (`Recovers`, `CallsReturn`, `SubmittersReturn`, `HandlesResolve`, `PoolEnds`,
`OpsReturn`, `StopEnds`, `Ends`, `MessagingEnds`): the prover does not handle fairness
and ENABLED. And that no DAG run gets stuck, which is the deadlock check of `dag`.

## 5. Observations

Beside the violation runs, reading and modelling showed these points. They are
recorded for the maintainers; no run is claimed for them.

* Successes of calls admitted before the breaker opened count as probe successes
  (`circuit_breaker.rs:261`) and can close it; line 166 speaks of "(probes succeed)".
* Dropping a pool aborts its runner before it drains (`runtime.rs:205`): unstarted
  tasks report Internal, where `close()` documents Cancelled (`runtime.rs:162`).
* A `start()` that times out inside `start_all_concurrent()` is marked Failed and
  never stopped (`registry.rs:444`), while `component.rs:57` counts on a subsequent
  `stop()`; `start_all()` makes that call.
* A DAG node that had finished when another one aborted the run is joined later and
  schedules its dependents (`dag.rs:376`), which nobody aborts; the comment at
  `dag.rs:403` says the abort is there to "Stop waiting on independent in-flight
  nodes". A dependent that never returns keeps the run from returning.
* Supervisor: `relinquish()` of a survivor whose entry is claimed gets the child
  back, and the scope's drop then sends it SIGKILL although its policy forbids that
  (`scope.rs:85`, `sync.rs:255`; `sync.rs:252` says "rather than force-killing"). A
  target that is only a leader counts as terminated after the SIGKILL wait even if
  it has not died yet (`target.rs:355`). When a run is dropped after its leader was
  reaped while a pass has the entry claimed, no signal is sent (`scope.rs:109`), the
  entry is marked reaped (`registry.rs:125`), the pass takes it for gone, and
  `shutdown()` returns Ok although the descendants live. The flag `shutting_down` is
  never read.
* Stateful: `cleanup_expired()` tests the accumulator it copied and removes whatever
  its key maps to by then (`manager.rs:162`): around another sweep and an append, that
  is a fresh one, closed with its values, although the doc says "Remove expired
  accumulators". An append through an `Arc` obtained before a sweep or close returns Ok
  and its value is never flushed. Two racing appends over `max_size` may evict one
  value too many.
* `StateMachine::apply()` leaves the first persistence hooks with the new state when a
  later one fails (`machine.rs:224`).
* Messaging: a failed periodic flush is only logged (`batch.rs:103`), a failed or
  dropped `flush()` loses other clients' messages, and a message sent during or after
  `close()` stays in the buffer. A second `close()` returns while the first still
  waits for the task. A handler's panic leaves `is_running()` true with no loop.
  `recv()` loses a message when its timeout or the loop's `select!` drops it at the
  topics lock (`consumer.rs:88`).
* Messaging: a `stop()` dropped while it waits detaches its loop and leaves `running`
  set (`managed_consumer.rs:153-160`). The next `stop()` finds no task, clears
  `running` and returns Ok with the handler still at work, although its doc says "wait
  for it to drain"; `start()` then spawns a second loop. When the first loop ends it
  clears `running` under the second, and a further `start()` replaces that one's
  handle, so that a loop goes on which nobody can cancel. `ShutdownQuiet` claims
  nothing of that case beyond the loops whose `stop()` had their handle.
* Messaging: with deduplication, a message redelivered after its first copy failed,
  panicked or was aborted is taken for a duplicate and reported Ok, although nobody
  handled either (`dedup.rs:92`). `NoSilentLoss` excepts this case; it would not show
  a change there.
  Overlapping `start()` and `stop()` can leave a loop whose task nobody holds.
* The bulkhead skips `on_release` when the call is dropped or panics
  (`bulkhead.rs:173`). A pool task's final event can overtake progress events
  (`runtime.rs:356`).

* `reset()` changes the breaker's state without the callback that
  `circuit_breaker.rs:39` describes for state transitions.
* `shutdown()` says "Cancel all in-flight tasks" (`runtime.rs:168`) but cancels no
  task's token: a handler learns of it only when the grace period aborts it.
* Overlapping `start_all()` calls start a component twice, since each acts on its
  own copy of the states. A concurrent start that is cancelled can leave a later
  component running without an earlier one; a following `start_all()` that fails
  then stops only its own, so the reverse order is not kept across the two.
* `start_all()` that meets a component in `Starting` or `Stopping` returns Conflict
  without rolling back what it started before.
* A failed start never runs after_stop hooks and never closes the container. The
  hooks of the rollback, and after_stop hooks, have no timeout.
* When `start_all()` fails, the registry has stopped the components it had started
  before the application runs the before_stop hooks, which `hooks.rs:17` describes
  as "Emitted before components stop."
* The README of rskit-dag says of FailFast that "already-running sibling tasks are
  allowed to finish"; the engine aborts them. `NodeStatus::Canceled` is documented as
  "did not run" but also reports nodes aborted while running, and nodes that ran and
  failed with `ErrorCode::Cancelled` in a run that nobody aborted (`dag.rs:39`).
* SIGINT and `stop()` never cancel `shutdown_token`.

## 6. Not modelled, and the plan

The repository has 953 implementation files with some 150,000 lines; the models
cover those parts of seven crates where tasks, locks, timeouts and cancellation
meet. The bulk of the rest has no behaviour a state machine would say anything
about: data types and builders, serialisation, protocol and storage adapters whose
state is in an external service, cryptography, media and dataset conversion,
metrics for benchmarks, command-line prompts. A share of the lines is therefore not
what the project aims at.

Within the modelled parts these are left out: the pool's event stream, `stats()` and
labels; overlapping registry operations and the drop of one (which leaves its
component `Starting`); several children in one supervisor, `track_pid()` and
`unregister_pid()`, platforms without signals, output capture and pid recycling;
several consumers, changing subscriptions, overlapping `start()` and `stop()` calls of
one consumer (the drop of a `stop()` is modelled), an inner consumer whose `close()`
suspends (a further point where `stop()` could be dropped, with the loop ended),
the errors for configurations that a call would refuse at once (an invalid
`RetryPolicy`, `retry/policy.rs:239`, and an `OnError` override for an unknown node,
`dag.rs:142`), and the breaker, metrics and tracing layers; the clock beyond ticks.

Next, in this order:

1. The type invariants of the pool, the registry, the application, the supervisor and
   messaging as theorems of their own; today the proofs use the parts they need.
2. The registry with overlapping operations: which properties survive, as a run first.
3. That a run of the DAG engine that has not returned always has a step to take, as an
   invariant rather than the deadlock check, so that it can be proved.
4. Dropped registry operations; the pool's event stream.
