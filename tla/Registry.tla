------------------------------ MODULE Registry ------------------------------
(***************************************************************************)
(* The component registry of rskit-component (registry.rs): start_all(),   *)
(* start_all_concurrent() and stop_all() over components registered in the *)
(* order 1..N, with start and stop timeouts and rollback.                  *)
(*                                                                         *)
(* The methods take &self, so clients may overlap.  Each reads the states  *)
(* once (snapshots()) and acts on that copy; set_state() and every await   *)
(* are steps of their own.  comp is what the components really are: the    *)
(* registry only sees what their start() and stop() return.  Components    *)
(* honour their contract: start() that fails leaves nothing behind, start()*)
(* that is dropped leaves partial resources which stop() cleans up.        *)
(***************************************************************************)
EXTENDS Naturals, FiniteSets, FiniteSetsExt

CONSTANTS
    Clients,      \* tasks that call the registry
    N,            \* number of components, numbered in registration order
    Ops,          \* the operations clients call
    MaxOps,       \* bound: how many operations are called altogether
    Concurrency,  \* RegistryConfig::concurrency, with 0 resolved to N
    UserCancels   \* whether the caller cancels start_all_concurrent()'s token

ASSUME RegistryAssumption ==
    /\ IsFiniteSet(Clients)
    /\ N \in Nat /\ MaxOps \in Nat
    /\ Ops \subseteq {"start_all", "start_all_concurrent", "stop_all"}
    /\ Concurrency \in Nat \ {0}
    /\ UserCancels \in BOOLEAN

VARIABLES
    state,    \* RegisteredComponent::state
    comp,     \* what each component really is
    op,       \* the operation each client calls, or called last
    pc,       \* where the client is in it
    snap,     \* the states it copied (snapshots())
    todo,     \* the components its loop has still to handle, see At
    mine,     \* started_names, candidate_names
    failed,   \* an error is to be returned
    token,    \* the CancellationToken of start_all_concurrent() is cancelled
    phase,    \* the tasks it spawned, by component
    outcome,  \* what its last operation returned
    calls     \* number of operations called so far

locals == <<op, snap, todo, mine, failed, token, phase, outcome>>
vars == <<state, comp, pc, locals, calls>>

Components == 1..N
State == {"Created", "Starting", "Running", "Stopping", "Stopped", "Failed"}
can_start == {"Created", "Stopped", "Failed"}
should_stop == {"Running"}

\* down: no resources; starting: start() runs; partial: start_all() dropped its
\* start(); abandoned: a task of start_all_concurrent() did, or it panicked;
\* up: started; stuck: stop() failed or timed out.
Condition == {"down", "starting", "partial", "abandoned", "up", "stuck"}

\* A spawned start task: waiting for a permit, in start(), ended, or joined.
Phase == {"none", "queued", "starting", "ok", "err", "panic"}

\* register() of N components.
Init ==
    /\ state = [i \in Components |-> "Created"]
    /\ comp = [i \in Components |-> "down"]
    /\ op = [c \in Clients |-> "none"]
    /\ pc = [c \in Clients |-> "idle"]
    /\ snap = [c \in Clients |-> state]
    /\ todo = [c \in Clients |-> {}]
    /\ mine = [c \in Clients |-> {}]
    /\ failed = [c \in Clients |-> FALSE]
    /\ token = [c \in Clients |-> FALSE]
    /\ phase = [c \in Clients |-> [i \in Components |-> "none"]]
    /\ outcome = [c \in Clients |-> "none"]
    /\ calls = 0

(***************************************************************************)
(* Building blocks                                                         *)
(***************************************************************************)

\* The components whose current state is in S.
Those(S) == {i \in Components : state[i] \in S}

\* set_state(), and what it tells about the component.
Set(i, s, k) ==
    /\ state' = [state EXCEPT ![i] = s]
    /\ comp' = [comp EXCEPT ![i] = k]

Goto(c, l) == pc' = [pc EXCEPT ![c] = l]

Return(c, o) ==
    /\ Goto(c, "idle")
    /\ outcome' = [outcome EXCEPT ![c] = o]

\* A client calls an operation and copies the states; its loop will handle those.
Call(c, name, those, first) ==
    /\ pc[c] = "idle" /\ name \in Ops
    /\ calls < MaxOps /\ calls' = calls + 1
    /\ op' = [op EXCEPT ![c] = name]
    /\ snap' = [snap EXCEPT ![c] = state]
    /\ todo' = [todo EXCEPT ![c] = those]
    /\ failed' = [failed EXCEPT ![c] = FALSE]
    /\ token' = [token EXCEPT ![c] = FALSE]
    /\ outcome' = [outcome EXCEPT ![c] = "none"]
    /\ Goto(c, first)
    /\ UNCHANGED <<state, comp, phase>>

\* Mutant: components start in reverse registration order, too.
AtReverse(c) == Max(todo[c])

\* The component the client's loop is at: components are started in registration
\* order and stopped in reverse.
At(c) == IF pc[c] \in {"stop_next", "stopping"} THEN Max(todo[c]) ELSE Min(todo[c])

Advance(c) == todo' = [todo EXCEPT ![c] = @ \ {At(c)}]

(***************************************************************************)
(* start_all()                                                             *)
(***************************************************************************)

StartAll(c) ==
    /\ Call(c, "start_all", Components, "start_next")
    /\ mine' = [mine EXCEPT ![c] = {}]

\* One round of the loop, up to the await of component.start().
StartNext(c) ==
    /\ pc[c] = "start_next"
    /\ \/ /\ todo[c] = {}
          /\ Return(c, "ok")
          /\ UNCHANGED <<state, comp, todo>>
       \/ /\ todo[c] # {} /\ snap[c][At(c)] = "Running"
          /\ Advance(c)
          /\ UNCHANGED <<state, comp, pc, outcome>>
       \/ /\ todo[c] # {} /\ snap[c][At(c)] \in can_start
          /\ Set(At(c), "Starting", "starting")
          /\ Goto(c, "starting")
          /\ UNCHANGED <<todo, outcome>>
       \/ /\ todo[c] # {} /\ snap[c][At(c)] \in {"Starting", "Stopping"}
          /\ Return(c, "conflict")
          /\ UNCHANGED <<state, comp, todo>>
    /\ UNCHANGED <<op, snap, mine, failed, token, phase, calls>>

\* component.start() returned Ok or Err.
StartReturns(c) ==
    /\ pc[c] = "starting"
    /\ \/ /\ Set(At(c), "Running", "up")
          /\ mine' = [mine EXCEPT ![c] = @ \cup {At(c)}]
          /\ Advance(c)
          /\ Goto(c, "start_next")
       \/ /\ Set(At(c), "Failed", "down")
          /\ Goto(c, "rollback")
          /\ UNCHANGED <<mine, todo>>
    /\ UNCHANGED <<op, snap, failed, token, phase, outcome, calls>>

\* Mutant: a start() that timed out is only marked failed.
StartTimesOutNoStop(c) ==
    /\ pc[c] = "starting"
    /\ Set(At(c), "Failed", "partial")
    /\ Goto(c, "rollback")
    /\ UNCHANGED <<locals, calls>>

\* start_timeout expired: the start future is dropped and stop() called.
StartTimesOut(c) ==
    /\ pc[c] = "starting"
    /\ Set(At(c), "Failed", "partial")
    /\ Goto(c, "cleanup")
    /\ UNCHANGED <<locals, calls>>

\* That stop() returned Ok, or failed or timed out, which is only logged.
Cleanup(c) ==
    /\ pc[c] = "cleanup"
    /\ \E k \in {"down", "stuck"} : comp' = [comp EXCEPT ![At(c)] = k]
    /\ Goto(c, "rollback")
    /\ UNCHANGED <<state, locals, calls>>

(***************************************************************************)
(* rollback_started() and stop_all(): the stop loop                        *)
(***************************************************************************)

\* Mutant: the rollback filters the states copied when the operation began.
RollbackStale(c) ==
    /\ pc[c] = "rollback"
    /\ todo' = [todo EXCEPT ![c] = {i \in mine[c] : snap[c][i] \in should_stop}]
    /\ failed' = [failed EXCEPT ![c] = TRUE]
    /\ Goto(c, "stop_next")
    /\ UNCHANGED <<state, comp, op, snap, mine, token, phase, outcome, calls>>

\* A fresh snapshot: of the components this call started, the running ones.
Rollback(c) ==
    /\ pc[c] = "rollback"
    /\ todo' = [todo EXCEPT ![c] = Those(should_stop) \cap mine[c]]
    /\ failed' = [failed EXCEPT ![c] = TRUE]
    /\ Goto(c, "stop_next")
    /\ UNCHANGED <<state, comp, op, snap, mine, token, phase, outcome, calls>>

StopAll(c) ==
    /\ Call(c, "stop_all", Those(should_stop), "stop_next")
    /\ mine' = [mine EXCEPT ![c] = {}]

StopNext(c) ==
    /\ pc[c] = "stop_next"
    /\ \/ /\ todo[c] = {}
          /\ Return(c, IF failed[c] THEN "failed" ELSE "ok")
          /\ UNCHANGED state
       \/ /\ todo[c] # {}
          /\ state' = [state EXCEPT ![At(c)] = "Stopping"]
          /\ Goto(c, "stopping")
          /\ UNCHANGED outcome
    /\ UNCHANGED <<comp, op, snap, todo, mine, failed, token, phase, calls>>

\* component.stop() returned Ok.
StopReturns(c) ==
    /\ pc[c] = "stopping"
    /\ Set(At(c), "Stopped", "down")
    /\ Advance(c)
    /\ Goto(c, "stop_next")
    /\ UNCHANGED <<op, snap, mine, failed, token, phase, outcome, calls>>

\* Mutant: the first failure ends the loop of stop_all_detailed().
StopFailsFirst(c) ==
    /\ pc[c] = "stopping"
    /\ Set(At(c), "Failed", "stuck")
    /\ failed' = [failed EXCEPT ![c] = TRUE]
    /\ todo' = [todo EXCEPT ![c] = IF op[c] = "stop_all" THEN {} ELSE @ \ {At(c)}]
    /\ Goto(c, "stop_next")
    /\ UNCHANGED <<op, snap, mine, token, phase, outcome, calls>>

\* Mutant: stop() is awaited without a timeout.
StopFailsUntimed(c) == FALSE /\ UNCHANGED vars

\* component.stop() returned Err or timed out: recorded, and the loop goes on.
StopFails(c) ==
    /\ pc[c] = "stopping"
    /\ Set(At(c), "Failed", "stuck")
    /\ failed' = [failed EXCEPT ![c] = TRUE]
    /\ Advance(c)
    /\ Goto(c, "stop_next")
    /\ UNCHANGED <<op, snap, mine, token, phase, outcome, calls>>

(***************************************************************************)
(* start_all_concurrent()                                                  *)
(***************************************************************************)
StartAllConcurrent(c) ==
    /\ Call(c, "start_all_concurrent", Those(can_start), "dispatch")
    /\ mine' = [mine EXCEPT ![c] = Those(can_start)]

\* One candidate is marked Starting and its task spawned.
Dispatch(c) ==
    /\ pc[c] = "dispatch"
    /\ \/ /\ todo[c] = {}
          /\ Goto(c, "join")
          /\ UNCHANGED <<state, todo, phase>>
       \/ /\ todo[c] # {}
          /\ state' = [state EXCEPT ![At(c)] = "Starting"]
          /\ phase' = [phase EXCEPT ![c][At(c)] = "queued"]
          /\ Advance(c)
          /\ UNCHANGED pc
    /\ UNCHANGED <<comp, op, snap, mine, failed, token, outcome, calls>>

TaskFrame == UNCHANGED <<pc, op, snap, todo, mine, failed, token, outcome, calls>>

\* A task holds a permit from here until it ends.
Permit(c) ==
    Cardinality({i \in Components : phase[c][i] = "starting"}) < Concurrency

\* The spawned task has its permit: cancelled before dispatch, or start() begins.
TaskBegins(c, i) ==
    /\ phase[c][i] = "queued" /\ Permit(c)
    /\ IF token[c]
       THEN /\ state' = [state EXCEPT ![i] = snap[c][i]]
            /\ phase' = [phase EXCEPT ![c][i] = "ok"]
            /\ UNCHANGED comp
       ELSE /\ comp' = [comp EXCEPT ![i] = "starting"]
            /\ phase' = [phase EXCEPT ![c][i] = "starting"]
            /\ UNCHANGED state
    /\ TaskFrame

\* start() returns Ok or Err, or panics.
TaskReturns(c, i) ==
    /\ phase[c][i] = "starting"
    /\ \/ Set(i, "Running", "up") /\ phase' = [phase EXCEPT ![c][i] = "ok"]
       \/ Set(i, "Failed", "down") /\ phase' = [phase EXCEPT ![c][i] = "err"]
       \/ Set(i, state[i], "abandoned") /\ phase' = [phase EXCEPT ![c][i] = "panic"]
    /\ TaskFrame

\* start() is dropped: by the timeout, or by the token.
TaskInterrupted(c, i) ==
    /\ phase[c][i] = "starting"
    /\ \/ Set(i, "Failed", "abandoned") /\ phase' = [phase EXCEPT ![c][i] = "err"]
       \/ /\ token[c]
          /\ Set(i, snap[c][i], "abandoned") /\ phase' = [phase EXCEPT ![c][i] = "ok"]
    /\ TaskFrame

\* join_next_with_id(): the first error cancels the token, a panic is recorded.
Join(c, i) ==
    /\ pc[c] = "join" /\ phase[c][i] \in {"ok", "err", "panic"}
    /\ LET bad == phase[c][i] # "ok" IN
       /\ failed' = [failed EXCEPT ![c] = @ \/ bad]
       /\ token' = [token EXCEPT ![c] = @ \/ bad]
    /\ state' = IF phase[c][i] = "panic" THEN [state EXCEPT ![i] = "Failed"] ELSE state
    /\ phase' = [phase EXCEPT ![c][i] = "none"]
    /\ UNCHANGED <<comp, pc, op, snap, todo, mine, outcome, calls>>

\* Every task has been joined: roll back after an error, else return Ok.
JoinEnds(c) ==
    /\ pc[c] = "join" /\ \A i \in Components : phase[c][i] = "none"
    /\ \/ failed[c] /\ Goto(c, "rollback") /\ UNCHANGED outcome
       \/ ~failed[c] /\ Return(c, "ok")
    /\ UNCHANGED <<state, comp, op, snap, todo, mine, failed, token, phase, calls>>

\* The caller cancels the token it passed in.
UserCancel(c) ==
    /\ UserCancels
    /\ pc[c] \in {"dispatch", "join"} /\ ~token[c]
    /\ token' = [token EXCEPT ![c] = TRUE]
    /\ UNCHANGED <<state, comp, pc, op, snap, todo, mine, failed, phase, outcome,
                   calls>>

\* What a component answers, when it does, and the registry's own steps, its
\* timers included.
Answer(c) ==
    \/ StartReturns(c) \/ StopReturns(c)
    \/ \E i \in Components : TaskReturns(c, i)

OwnStep(c) ==
    \/ StartNext(c) \/ StartTimesOut(c) \/ Cleanup(c)
    \/ Rollback(c) \/ StopNext(c) \/ StopFails(c)
    \/ Dispatch(c) \/ JoinEnds(c)
    \/ \E i \in Components : TaskBegins(c, i) \/ TaskInterrupted(c, i) \/ Join(c, i)

Next ==
    \E c \in Clients :
        \/ StartAll(c) \/ StartAllConcurrent(c) \/ StopAll(c)
        \/ Answer(c) \/ OwnStep(c) \/ UserCancel(c)

Spec == Init /\ [][Next]_vars

\* The runtime schedules the clients and their tasks, and timers fire; no component
\* has to answer, and nobody has to call an operation or to cancel one.
FairSpec == Spec /\ \A c \in Clients : WF_vars(OwnStep(c))

(***************************************************************************)
(* Properties                                                              *)
(***************************************************************************)

\* States, conditions and the clients' locals have their types, and a client that
\* awaits a component's start() or stop() knows which.
TypeOK ==
    /\ state \in [Components -> State]
    /\ comp \in [Components -> Condition]
    /\ op \in [Clients -> Ops \cup {"none"}]
    /\ pc \in [Clients -> {"idle", "start_next", "starting", "cleanup", "rollback",
                           "stop_next", "stopping", "dispatch", "join"}]
    /\ snap \in [Clients -> [Components -> State]]
    /\ todo \in [Clients -> SUBSET Components]
    /\ mine \in [Clients -> SUBSET Components]
    /\ failed \in [Clients -> BOOLEAN]
    /\ token \in [Clients -> BOOLEAN]
    /\ phase \in [Clients -> [Components -> Phase]]
    /\ outcome \in [Clients -> {"none", "ok", "failed", "conflict"}]
    /\ calls \in 0..MaxOps
    /\ \A c \in Clients : pc[c] \in {"starting", "cleanup", "stopping"} => todo[c] # {}

Quiet == \A c \in Clients : pc[c] = "idle"

\* Between operations the registry's view and the components agree: what is up is
\* tracked as Running, a start() that start_all() dropped was followed by a stop(),
\* and no component is left Starting or Stopping, from where it could neither be
\* started nor stopped any more.
NoLeak ==
    Quiet => \A i \in Components :
        /\ comp[i] = "up" => state[i] = "Running"
        /\ comp[i] # "partial"
        /\ state[i] \notin {"Starting", "Stopping"}

\* Startup is all or nothing: a start operation that failed leaves none of the
\* components it started running or starting, and one that reports Ok, and was
\* not cancelled, leaves every component running (start_all(),
\* start_all_concurrent(), rollback_started()).
AllOrNothing ==
    \A c \in Clients :
        pc[c] = "idle" /\ op[c] \in {"start_all", "start_all_concurrent"} =>
            /\ outcome[c] = "failed" =>
                \A i \in mine[c] : state[i] # "Running" /\ comp[i] \notin {"up", "starting"}
            /\ outcome[c] = "ok" /\ ~token[c] =>
                \A i \in Components : state[i] = "Running" /\ comp[i] = "up"

\* After stop_all() no component is running, even when some failed to stop.
NoneRunsAfterStop ==
    \A c \in Clients :
        pc[c] = "idle" /\ op[c] = "stop_all" =>
            \A i \in Components : state[i] # "Running" /\ comp[i] # "up"

\* start_all() starts a component only when all registered before it are running,
\* and a component is stopped only when none registered after it is running,
\* "ensuring dependants shut down before their dependencies"; a rollback leaves
\* those alone that an earlier operation started.
Order ==
    [][\A c \in Clients :
        /\ StartNext(c) /\ pc'[c] = "starting" =>
            \A j \in 1..(At(c) - 1) : state[j] = "Running" /\ comp[j] = "up"
        /\ StopNext(c) /\ pc'[c] = "stopping" =>
            \A j \in (At(c) + 1)..N :
                state[j] = "Running" => op[c] # "stop_all" /\ j \notin mine[c]]_vars

\* Every operation returns, although a component's start() or stop() may never do
\* (the timeouts of start_all(), start_component_snapshot(), stop_all_detailed()).
OpsReturn == \A c \in Clients : pc[c] # "idle" ~> pc[c] = "idle"
=============================================================================
