-------------------------- MODULE ManagedConsumer --------------------------
(***************************************************************************)
(* ManagedConsumer of rskit-messaging (managed_consumer.rs) over the       *)
(* in-memory consumer (memory/consumer.rs), with a handler wrapped in      *)
(* middleware (handler.rs, middleware/): a loop receives a message,        *)
(* filters it by topic and awaits the handler; one client starts and stops *)
(* loops, and may drop the future of stop().  A dropped stop() detaches    *)
(* the loop it was waiting for, so that several loops may be at work.      *)
(* Dedup, retry and dead-letter layers are modelled, in any order; the     *)
(* handler itself may succeed, fail, panic or never return.                *)
(***************************************************************************)
EXTENDS Broker, FiniteSets, SequencesExt

CONSTANTS
    Stack,        \* the middleware, outermost first
    MaxAttempts,  \* RetryPolicy::max_attempts
    WindowSize,   \* DedupConfig::window_size
    IdOf,         \* the message-id header of each message, NoId for none
    Wanted,       \* messages whose topic the consumer accepts
    MaxStarts     \* bound: how often the consumer is started

NoId == "no id"

ASSUME ConsumerAssumption ==
    /\ Stack \in Seq({"dedup", "retry", "dead_letter"})
    /\ MaxAttempts \in Nat \ {0} /\ WindowSize \in Nat /\ MaxStarts \in Nat
    /\ Wanted \subseteq Messages
    /\ DOMAIN IdOf = Messages

VARIABLES
    running,    \* AtomicBool running
    task,       \* ManagedConsumer::task: the loop whose handle it has, or NoLoop
    joining,    \* the loop stop() has taken and waits for, or NoLoop
    cancelled,  \* loops whose cancellation token is cancelled
    loop,       \* where each loop is: "off", "recv", "filter", "backoff", in the
                \* handler ("call", "ok", "err"), or "dead" after a panic
    layer,      \* the layer of the stack that is called, or gets the result
    attempt,    \* attempts the retry layer has made
    held,       \* the message each loop works on
    seen,       \* DedupHandler::seen, oldest first; the loops share the handler
    starts,     \* number of starts: the n-th spawned loop n
    outcome,    \* history: what became of each message received
    served,     \* history: messages the handler itself succeeded with
    dead,       \* history: messages sent to the dead-letter queue
    stopped,    \* history: loops whose stop() returned Ok
    dropped     \* history: some stop() was dropped

consumer == <<running, task, joining, cancelled, loop, layer, attempt, held, seen,
              starts, outcome, served, dead, stopped, dropped>>
chain == <<layer, attempt, seen, served, dead>>
memory == <<seen, served, dead>>
client == <<task, joining, cancelled, starts, stopped, dropped>>
lifecycle == <<running, client>>

Loops == 1..MaxStarts
NoLoop == 0

ConsumerInit ==
    /\ running = FALSE
    /\ task = NoLoop
    /\ joining = NoLoop
    /\ cancelled = {}
    /\ loop = [g \in Loops |-> "off"]
    /\ layer = [g \in Loops |-> 0]
    /\ attempt = [g \in Loops |-> 0]
    /\ held = [g \in Loops |-> NoMessage]
    /\ seen = <<>>
    /\ starts = 0
    /\ outcome = [m \in Messages |-> "none"]
    /\ served = {}
    /\ dead = {}
    /\ stopped = {}
    /\ dropped = FALSE

\* Loop g moves to s.
Moves(g, s) == loop' = [loop EXCEPT ![g] = s]

(***************************************************************************)
(* start() and stop()                                                      *)
(***************************************************************************)

\* Refused while running.  A handle that is still in the slot is detached.
Start ==
    /\ joining = NoLoop /\ ~running /\ starts < MaxStarts
    /\ starts' = starts + 1
    /\ running' = TRUE
    /\ task' = starts + 1
    /\ Moves(starts + 1, "recv")
    /\ UNCHANGED <<joining, cancelled, held, outcome, chain, stopped, dropped, cursor>>

\* Refused while not running; otherwise the task is taken and cancelled.  Without
\* a task stop() returns Ok at once.
Stop ==
    /\ joining = NoLoop /\ running
    /\ joining' = task
    /\ task' = NoLoop
    /\ cancelled' = cancelled \cup ({task} \ {NoLoop})
    /\ running' = (task # NoLoop)
    /\ UNCHANGED <<loop, held, starts, outcome, chain, stopped, dropped, cursor>>

\* The message loop g holds, if any, ends as what, and with it the call of
\* the handler.
Ends(g, what) ==
    /\ outcome' = IF held[g] = NoMessage THEN outcome ELSE [outcome EXCEPT ![held[g]] = what]
    /\ held' = [held EXCEPT ![g] = NoMessage]
    /\ layer' = [layer EXCEPT ![g] = 0]
    /\ attempt' = [attempt EXCEPT ![g] = 0]
    /\ UNCHANGED memory

\* stop() returns Ok for the loop it waited for.
StopReturns ==
    /\ running' = FALSE
    /\ stopped' = stopped \cup {joining}
    /\ joining' = NoLoop
    /\ UNCHANGED <<task, cancelled, starts, dropped, cursor>>

\* SpawnedTask::shutdown(): the loop ends within the grace period, or is aborted
\* with the message it works on.
StopJoined ==
    /\ joining # NoLoop /\ loop[joining] \in {"off", "dead"}
    /\ Moves(joining, "off")
    /\ StopReturns
    /\ UNCHANGED <<held, outcome, chain>>

\* Mutant: stop() gives up on the loop but leaves it running.
StopDetached ==
    /\ joining # NoLoop /\ loop[joining] \notin {"off", "dead"}
    /\ StopReturns
    /\ UNCHANGED <<loop, held, outcome, chain>>

\* Mutant: stop() waits for the loop without a limit.
StopPatient ==
    /\ FALSE
    /\ UNCHANGED <<consumer, cursor>>

StopAborted ==
    /\ joining # NoLoop /\ loop[joining] \notin {"off", "dead"}
    /\ Moves(joining, "off")
    /\ Ends(joining, "aborted")
    /\ StopReturns

\* The client drops the future of stop(): the handle it has taken is gone, its
\* loop goes on, and running stays as it is.
DropStop ==
    /\ joining # NoLoop
    /\ joining' = NoLoop
    /\ dropped' = TRUE
    /\ UNCHANGED <<running, task, cancelled, loop, held, starts, outcome, chain, stopped, cursor>>

(***************************************************************************)
(* A loop: cancellation is seen only while it receives                     *)
(***************************************************************************)

LoopExits(g) ==
    /\ Moves(g, "off")
    /\ running' = FALSE

LoopCancelled(g) ==
    /\ g \in cancelled /\ loop[g] \in {"recv", "filter"}
    /\ LoopExits(g)
    /\ Ends(g, "dropped")
    /\ UNCHANGED <<client, cursor>>

\* InMemoryConsumer::recv(): skip what was overwritten, or take a message ...
RecvLagged(g) ==
    /\ loop[g] = "recv" /\ Lagging
    /\ cursor' = Len(log) - Capacity
    /\ outcome' = [m \in Messages |-> IF m \in Overwritten THEN "lagged" ELSE outcome[m]]
    /\ UNCHANGED <<lifecycle, loop, held, chain>>

RecvMessage(g) ==
    /\ loop[g] = "recv" /\ ~Lagging /\ cursor < Len(log)
    /\ held' = [held EXCEPT ![g] = log[cursor + 1]]
    /\ cursor' = cursor + 1
    /\ Moves(g, "filter")
    /\ UNCHANGED <<lifecycle, outcome, chain>>

\* ... then lock the topics, and return it if its topic is wanted.
Filter(g) ==
    /\ loop[g] = "filter"
    /\ IF held[g] \in Wanted
       THEN /\ Moves(g, "call")
            /\ layer' = [layer EXCEPT ![g] = 1]
            /\ UNCHANGED <<held, outcome, attempt, memory>>
       ELSE /\ Moves(g, "recv")
            /\ Ends(g, "filtered")
    /\ UNCHANGED <<lifecycle, cursor>>

\* recv() has failed: break when cancelled, else go on at s.
Fails(g, s) ==
    IF g \in cancelled THEN LoopExits(g) ELSE Moves(g, s) /\ UNCHANGED running

\* The timeout of recv() drops a message it has already taken.
RecvTimeout(g) ==
    /\ loop[g] = "filter"
    /\ Ends(g, "dropped")
    /\ Fails(g, "recv")
    /\ UNCHANGED <<client, cursor>>

\* Any other error: sleep.
RecvError(g) ==
    /\ loop[g] = "recv"
    /\ Fails(g, "backoff")
    /\ UNCHANGED <<client, held, outcome, chain, cursor>>

BackoffOver(g) ==
    /\ loop[g] = "backoff"
    /\ Moves(g, "recv")
    /\ UNCHANGED <<lifecycle, held, outcome, chain, cursor>>

\* handle() returned; an error is only logged.
Handled(g) ==
    /\ loop[g] \in {"ok", "err"} /\ layer[g] = 0
    /\ Ends(g, loop[g])
    /\ Moves(g, "recv")
    /\ UNCHANGED <<lifecycle, cursor>>

(***************************************************************************)
(* The handler chain                                                       *)
(***************************************************************************)

Called(g, name) == loop[g] = "call" /\ layer[g] <= Len(Stack) /\ Stack[layer[g]] = name
Got(g, result, name) == loop[g] = result /\ layer[g] > 0 /\ Stack[layer[g]] = name
ToNext(g) == Moves(g, "call") /\ layer' = [layer EXCEPT ![g] = @ + 1]
Return(g, result) == Moves(g, result) /\ layer' = [layer EXCEPT ![g] = @ - 1]
ChainUnchanged == UNCHANGED <<lifecycle, held, outcome, cursor>>

\* The entries left when the window has room for one more.
Evicted(entries) ==
    LET keep == IF WindowSize = 0 THEN 0 ELSE WindowSize - 1
    IN  IF Len(entries) <= keep THEN entries
        ELSE SubSeq(entries, Len(entries) - keep + 1, Len(entries))

\* DedupHandler::handle(): purge what has expired, skip a duplicate, record the
\* id, call on.
DedupCall(g) ==
    /\ Called(g, "dedup")
    /\ \E expired \in 0..Len(seen) :
        LET live == SubSeq(seen, expired + 1, Len(seen))
            id == IdOf[held[g]]
        IN  IF id = NoId THEN ToNext(g) /\ UNCHANGED seen
            ELSE IF Contains(live, id) THEN Return(g, "ok") /\ seen' = live
            ELSE ToNext(g) /\ seen' = Append(Evicted(live), id)
    /\ UNCHANGED <<attempt, served, dead>>
    /\ ChainUnchanged

\* RetryPolicy::execute()
RetryCall(g) ==
    /\ Called(g, "retry")
    /\ ToNext(g)
    /\ attempt' = [attempt EXCEPT ![g] = 1]
    /\ UNCHANGED memory
    /\ ChainUnchanged

\* An attempt failed: try again, or give up (attempts, predicate or time).
RetryErr(g) ==
    /\ Got(g, "err", "retry")
    /\ \/ /\ attempt[g] < MaxAttempts
          /\ attempt' = [attempt EXCEPT ![g] = @ + 1]
          /\ ToNext(g)
       \/ /\ Return(g, "err")
          /\ attempt' = [attempt EXCEPT ![g] = 0]
    /\ UNCHANGED memory
    /\ ChainUnchanged

\* max_elapsed_time drops the attempt in progress.
RetryElapsed(g) ==
    /\ loop[g] = "call" /\ layer[g] = Len(Stack) + 1
    /\ \E i \in 1..Len(Stack) :
        /\ Stack[i] = "retry"
        /\ Moves(g, "err") /\ layer' = [layer EXCEPT ![g] = i - 1]
    /\ attempt' = [attempt EXCEPT ![g] = 0]
    /\ UNCHANGED memory
    /\ ChainUnchanged

DeadLetterCall(g) ==
    /\ Called(g, "dead_letter")
    /\ ToNext(g)
    /\ UNCHANGED <<attempt, memory>>
    /\ ChainUnchanged

\* Mutant: the failure of the queue is swallowed too.
DeadLetterSwallows(g) ==
    /\ Got(g, "err", "dead_letter")
    /\ Return(g, "ok")
    /\ \/ dead' = dead \cup {held[g]}
       \/ UNCHANGED dead
    /\ UNCHANGED <<attempt, seen, served>>
    /\ ChainUnchanged

\* DeadLetterHandler::handle(): a failure goes to the queue, whose own failure
\* is returned.
DeadLetterErr(g) ==
    /\ Got(g, "err", "dead_letter")
    /\ \/ Return(g, "ok") /\ dead' = dead \cup {held[g]}
       \/ Return(g, "err") /\ UNCHANGED dead
    /\ UNCHANGED <<attempt, seen, served>>
    /\ ChainUnchanged

\* A layer that passes a result on.
PassOn(g) ==
    /\ \/ \E name \in {"dedup", "retry", "dead_letter"} : Got(g, "ok", name) /\ Return(g, "ok")
       \/ Got(g, "err", "dedup") /\ Return(g, "err")
    /\ UNCHANGED <<attempt, memory>>
    /\ ChainUnchanged

\* The handler itself.
Base(g) == loop[g] = "call" /\ layer[g] = Len(Stack) + 1

HandlerReturns(g) ==
    /\ Base(g)
    /\ \/ Return(g, "ok") /\ served' = served \cup {held[g]}
       \/ Return(g, "err") /\ UNCHANGED served
    /\ UNCHANGED <<attempt, seen, dead>>
    /\ ChainUnchanged

\* A panic ends the loop's task; running stays set.
HandlerPanics(g) ==
    /\ Base(g)
    /\ Moves(g, "dead")
    /\ Ends(g, "panicked")
    /\ UNCHANGED <<lifecycle, cursor>>

LifeStep == StopJoined \/ StopAborted

LoopStep(g) ==
    \/ LoopCancelled(g) \/ RecvLagged(g) \/ RecvMessage(g) \/ Filter(g) \/ BackoffOver(g)
    \/ Handled(g) \/ DedupCall(g) \/ RetryCall(g) \/ RetryErr(g) \/ DeadLetterCall(g)
    \/ DeadLetterErr(g) \/ PassOn(g)

ConsumerNext ==
    \/ Start \/ Stop \/ LifeStep \/ DropStop
    \/ \E g \in Loops :
        \/ LoopStep(g) \/ RecvTimeout(g) \/ RecvError(g)
        \/ RetryElapsed(g) \/ HandlerReturns(g) \/ HandlerPanics(g)
=============================================================================
