-------------------------------- MODULE Dag --------------------------------
(***************************************************************************)
(* The DAG engine of rskit-dag (dag.rs): building the graph, and a run of  *)
(* it, which spawns every node whose dependencies are in, at most          *)
(* max_parallelism of them executing at a time, and applies each failed    *)
(* node's OnError when its task is joined.                                 *)
(*                                                                         *)
(* The tasks run on other threads: several may have ended before the       *)
(* engine joins the first of them (a JoinSet returns them in the order     *)
(* they ended), and abort_all() stops a task only at its next await.  The  *)
(* engine never reads the cancellation token, it only hands it to the      *)
(* nodes: what a node makes of it is among the results it may return.      *)
(***************************************************************************)
EXTENDS Naturals, FiniteSets, Sequences

CONSTANTS
    Nodes,             \* the nodes added to the DAG
    MaxParallelism,    \* Dag::max_parallelism, clamped to at least 1
    MaxParallelEdges,  \* bound: how often the same edge is added
    MaxEdges,          \* bound: how many edges are added
    OnError            \* the behaviours effective_on_error() may resolve to

ASSUME DagAssumption ==
    /\ IsFiniteSet(Nodes)
    /\ MaxParallelism \in Nat \ {0}
    /\ MaxParallelEdges \in Nat /\ MaxEdges \in Nat
    /\ OnError \subseteq {"Fail", "Continue", "Skip"}

VARIABLES
    edges,     \* Dag::edges: <<from, to, k>>, k telling equal edges apart
    stage,     \* the DAG is being built, running, or has returned
    outcome,   \* what run() returned
    task,      \* the task of each node
    ended,     \* the tasks that ended and are not joined yet, in that order
    doomed,    \* tasks abort_all() has been called on
    degree,    \* remaining_in_degree
    status,    \* node_results; a failed node's is the OnError that applied
    error,     \* the NodeStatus that a failed node's error is recorded with
    skipped,   \* ExecutionRun::skipped
    aborted,   \* ExecutionRun::aborted, and first_error is set
    inputs     \* the nodes whose outputs each spawned node was given

run == <<outcome, task, ended, doomed, degree, status, error, skipped,
         aborted, inputs>>
vars == <<edges, stage, run>>

\* A task waits for a permit, executes, has ended, or has been joined.
Ended == {"ok", "err", "panic", "aborted"}
Task == {"none", "waiting", "executing", "joined"} \cup Ended

\* status_from_error(): an ErrorCode::Cancelled, an ErrorCode::Timeout, any other.
ErrorStatus == {"Canceled", "TimedOut", "Failed"}

completed == {n \in Nodes : status[n] # "none"}
pending == {n \in Nodes : task[n] # "none" /\ n \notin completed}

(***************************************************************************)
(* The graph                                                               *)
(***************************************************************************)
EdgesFrom(m) == {e \in edges : e[1] = m}
EdgesTo(n) == {e \in edges : e[2] = n}
Dependents(m) == {e[2] : e \in EdgesFrom(m)}
Dependencies(n) == {e[1] : e \in EdgesTo(n)}

\* What a depth-first search from the nodes in S visits if it turns back at the
\* nodes in B: the least set that has S \ B and is closed under it.
Visited(S, B) ==
    {n \in Nodes :
        \A V \in SUBSET Nodes :
            /\ S \ B \subseteq V
            /\ \A m \in V : Dependents(m) \ B \subseteq V
            => n \in V}

path_exists(from, to) == to \in Visited({from}, {})

\* Kahn's algorithm sorts all nodes: what is left always has a node without
\* dependencies among the rest.
topological_sort ==
    \A S \in (SUBSET Nodes) \ {{}} : \E n \in S : Dependencies(n) \cap S = {}

Init ==
    /\ edges = {} /\ stage = "building" /\ outcome = "none"
    /\ task = [n \in Nodes |-> "none"] /\ ended = <<>> /\ doomed = {}
    /\ degree = [n \in Nodes |-> 0]
    /\ status = [n \in Nodes |-> "none"] /\ error = [n \in Nodes |-> "none"]
    /\ skipped = {} /\ aborted = FALSE
    /\ inputs = [n \in Nodes |-> {}]

\* Mutant: the search for a path is made in the wrong direction.
AcceptsEdgeForward(from, to) == from # to /\ ~path_exists(from, to)

AcceptsEdge(from, to) == ~path_exists(to, from)

\* add_edge(); an edge that would close a cycle is refused.
AddEdge(from, to) ==
    /\ stage = "building" /\ Cardinality(edges) < MaxEdges
    /\ AcceptsEdge(from, to)
    /\ LET k == Cardinality(EdgesFrom(from) \cap EdgesTo(to)) IN
       /\ k < MaxParallelEdges
       /\ edges' = edges \cup {<<from, to, k + 1>>}
    /\ UNCHANGED <<stage, run>>

(***************************************************************************)
(* run_engine()                                                            *)
(***************************************************************************)
Return(o) == stage' = "returned" /\ outcome' = o

\* run() may be called again; every run has a state of its own.
Run ==
    /\ stage \in {"building", "returned"}
    /\ IF topological_sort
       THEN stage' = "running" /\ outcome' = "none"
       ELSE Return("cycle")
    /\ degree' = [n \in Nodes |-> Cardinality(EdgesTo(n))]
    /\ task' = [n \in Nodes |-> IF EdgesTo(n) = {} THEN "waiting" ELSE "none"]
    /\ ended' = <<>> /\ doomed' = {} /\ skipped' = {} /\ aborted' = FALSE
    /\ status' = [n \in Nodes |-> "none"] /\ error' = [n \in Nodes |-> "none"]
    /\ inputs' = [n \in Nodes |-> {}]
    /\ UNCHANGED edges

(***************************************************************************)
(* The tasks                                                               *)
(***************************************************************************)
TaskBecomes(n, s) ==
    /\ task' = [task EXCEPT ![n] = s]
    /\ ended' = IF s \in Ended THEN Append(ended, n) ELSE ended
    /\ UNCHANGED <<edges, stage, outcome, doomed, degree, status, error, skipped,
                   aborted, inputs>>

Acquire(n) ==
    /\ stage = "running" /\ task[n] = "waiting"
    /\ Cardinality({m \in Nodes : task[m] = "executing"}) < MaxParallelism
    /\ TaskBecomes(n, "executing")

\* execute() returns, or panics.
Finish(n) ==
    /\ stage = "running" /\ task[n] = "executing"
    /\ \E s \in {"ok", "err", "panic"} : TaskBecomes(n, s)

\* A task that was aborted is dropped at an await.
Abort(n) ==
    /\ stage = "running" /\ n \in doomed /\ task[n] \in {"waiting", "executing"}
    /\ TaskBecomes(n, "aborted")

(***************************************************************************)
(* record_execution(): a task is joined                                    *)
(***************************************************************************)

\* The dependents whose in-degree schedule_dependents() decrements.
OpenDependents(m) == Dependents(m) \ (completed \cup pending \cup skipped)

\* Mutant: equal edges are counted once.
LessOne(m, n) == IF degree[n] > 0 THEN degree[n] - 1 ELSE 0

\* degree, less one for each edge from m; a node is spawned when it reaches zero,
\* and further equal edges then find it pending.
Less(m, n) == LET k == Cardinality(EdgesFrom(m) \cap EdgesTo(n)) IN
              IF degree[n] > k THEN degree[n] - k ELSE 0

\* Mutant: the dependents are scheduled before m's output is stored.
collect_inputs_early(n, m, s) == {d \in Dependencies(n) : status[d] = "Completed"}

\* The outputs a node is given: those of its dependencies that are there and have
\* not failed, after node m has been recorded with status s.
collect_inputs(n, m, s) ==
    {d \in Dependencies(n) : (IF d = m THEN s ELSE status[d]) = "Completed"}

\* schedule_dependents(m), and m's task has been joined; m's status becomes s.
schedule_dependents(m, s) ==
    LET open == OpenDependents(m)
        ready == {n \in open : Less(m, n) = 0}
    IN  IF \E n \in open : degree[n] = 0
        THEN /\ Return("underflow")
             /\ task' = [task EXCEPT ![m] = "joined"]
             /\ UNCHANGED <<degree, inputs>>
        ELSE /\ degree' = [n \in Nodes |-> IF n \in open THEN Less(m, n) ELSE degree[n]]
             /\ task' = [n \in Nodes |-> IF n \in ready THEN "waiting"
                                         ELSE IF n = m THEN "joined" ELSE task[n]]
             /\ inputs' = [n \in Nodes |-> IF n \in ready THEN collect_inputs(n, m, s)
                                           ELSE inputs[n]]
             /\ UNCHANGED <<stage, outcome>>

JoinOk(m) ==
    /\ task[m] = "ok"
    /\ status' = [status EXCEPT ![m] = "Completed"]
    /\ schedule_dependents(m, "Completed")
    /\ UNCHANGED <<error, doomed, skipped, aborted>>

\* OnError::Fail: abort_all() reaches every task spawned so far.
JoinFail(m) ==
    /\ aborted' = TRUE
    /\ doomed' = {n \in Nodes : task[n] \in {"waiting", "executing"}}
    /\ task' = [task EXCEPT ![m] = "joined"]
    /\ UNCHANGED <<stage, outcome, degree, skipped, inputs>>

JoinContinue(m) ==
    /\ schedule_dependents(m, "Continue")
    /\ UNCHANGED <<doomed, skipped, aborted>>

\* Mutant: only the failed node's direct dependents are marked.
mark_skipped_dependents_direct(m) == skipped \cup (Dependents(m) \ pending)

\* The search turns back at pending nodes and at nodes already skipped.
mark_skipped_dependents(m) ==
    skipped \cup Visited(Dependents(m), (pending \ {m}) \cup skipped)

JoinSkip(m) ==
    /\ skipped' = mark_skipped_dependents(m)
    /\ task' = [task EXCEPT ![m] = "joined"]
    /\ UNCHANGED <<stage, outcome, doomed, degree, aborted, inputs>>

\* Which OnError a node has is fixed, but read only here, once in a run; so is the
\* code of the error, on which what happens to the others does not depend.
JoinErr(m) ==
    /\ task[m] = "err"
    /\ \E s \in OnError :
         /\ status' = [status EXCEPT ![m] = s]
         /\ \E c \in ErrorStatus : error' = [error EXCEPT ![m] = c]
         /\ \/ s = "Fail" /\ JoinFail(m)
            \/ s = "Continue" /\ JoinContinue(m)
            \/ s = "Skip" /\ JoinSkip(m)

\* The run ends with an error and drops the other tasks.
JoinPanic(m) ==
    /\ task[m] = "panic"
    /\ Return("panicked")
    /\ task' = [task EXCEPT ![m] = "joined"]
    /\ UNCHANGED <<doomed, degree, status, error, skipped, aborted, inputs>>

JoinAborted(m) ==
    /\ task[m] = "aborted"
    /\ task' = [task EXCEPT ![m] = "joined"]
    /\ UNCHANGED <<stage, outcome, doomed, degree, status, error, skipped, aborted,
                   inputs>>

JoinNext ==
    /\ stage = "running" /\ ended # <<>>
    /\ LET m == Head(ended) IN
         JoinOk(m) \/ JoinErr(m) \/ JoinPanic(m) \/ JoinAborted(m)
    /\ ended' = Tail(ended)
    /\ UNCHANGED edges

\* join_next() returns None: there is no task left.
JoinEnds ==
    /\ stage = "running" /\ \A n \in Nodes : task[n] \in {"none", "joined"}
    /\ Return("ok")
    /\ UNCHANGED <<edges, task, ended, doomed, degree, status, error, skipped, aborted,
                   inputs>>

Next ==
    \/ \E from, to \in Nodes : AddEdge(from, to)
    \/ Run
    \/ \E n \in Nodes : Acquire(n) \/ Finish(n) \/ Abort(n)
    \/ JoinNext
    \/ JoinEnds

Spec == Init /\ [][Next]_vars

(***************************************************************************)
(* build_result()                                                          *)
(***************************************************************************)

\* What a run reports of a node: its result, or why it has none.  Only the latter
\* tells what the run did: a node may fail with the code Cancelled by itself.
Reported(n) ==
    IF status[n] = "Completed" THEN "Completed"
    ELSE IF status[n] # "none" THEN error[n]
    ELSE IF aborted /\ n \notin skipped THEN "Canceled" ELSE "Skipped"

(***************************************************************************)
(* Properties                                                              *)
(***************************************************************************)

\* The graph, the tasks and the run's bookkeeping have their types.
TypeOK ==
    /\ edges \subseteq Nodes \X Nodes \X (1..MaxParallelEdges)
    /\ stage \in {"building", "running", "returned"}
    /\ outcome \in {"none", "ok", "panicked", "cycle", "underflow"}
    /\ task \in [Nodes -> Task] /\ ended \in Seq(Nodes)
    /\ doomed \subseteq Nodes /\ skipped \subseteq Nodes /\ aborted \in BOOLEAN
    /\ degree \in [Nodes -> Nat]
    /\ status \in [Nodes -> {"none", "Completed"} \cup OnError]
    /\ error \in [Nodes -> {"none"} \cup ErrorStatus]
    /\ inputs \in [Nodes -> SUBSET Nodes]

\* The errors that are not about a node are dead code: add_edge() keeps every graph
\* sortable, and no order of results makes an in-degree underflow.
NoInternalError == outcome \notin {"cycle", "underflow"}

\* A node is spawned only when all its dependencies have been recorded, none with a
\* failure that should have stopped it, and it is given every output there is.
InputsComplete ==
    \A n \in Nodes : task[n] # "none" =>
        /\ \A d \in Dependencies(n) : status[d] \in {"Completed", "Continue"}
        /\ inputs[n] = {d \in Dependencies(n) : status[d] = "Completed"}

\* Skipped are exactly the nodes downstream of a node that failed with Skip,
\* although the search turns back early and siblings finish in any order.
SkippedAreDownstream ==
    skipped = {n \in Nodes : \E m \in Nodes :
                   status[m] = "Skip" /\ m # n /\ path_exists(m, n)}

\* In the result of a run a node is Canceled only if it failed with that code itself
\* (and then whatever its OnError was) or if, without a result of its own, another
\* node aborted the run; it is Skipped only downstream of a Skip failure.  Any other
\* node has the result that it returned: the run forgot none.
ResultsExplained ==
    stage = "returned" /\ outcome = "ok" =>
        \A n \in Nodes :
            /\ Reported(n) = "Canceled" =>
                  \/ status[n] \in OnError /\ error[n] = "Canceled"
                  \/ \E m \in Nodes \ {n} : status[n] = "none" /\ status[m] = "Fail"
            /\ Reported(n) = "Skipped" =>
                  \E m \in Nodes \ {n} : status[m] = "Skip" /\ path_exists(m, n)
=============================================================================
