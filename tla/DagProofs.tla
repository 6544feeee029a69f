----------------------------- MODULE DagProofs -----------------------------
(***************************************************************************)
(* Machine-checked proofs about the DAG engine, for every graph that       *)
(* add_edge() can build and every order in which nodes finish.             *)
(*                                                                         *)
(* The heart of the invariant is DegreesFit: the in-degree of a node that  *)
(* is neither spawned nor skipped counts the edges from dependencies that  *)
(* have not let it through yet, and is not zero.  GraphFits, that every    *)
(* graph can be sorted, is what add_edge()'s search for a path preserves.  *)
(***************************************************************************)
EXTENDS Dag, FiniteSetTheorems, TLAPS

Counted == {"Completed", "Continue"}

\* The edges to n from nodes that have not let their dependents through.
Uncounted(n) == {e \in EdgesTo(n) : status[e[1]] \notin Counted}

GraphFits == IsFiniteSet(edges) /\ topological_sort

TasksFit ==
    \A n \in Nodes :
        /\ status[n] # "none" => task[n] = "joined"
        /\ stage = "building" => task[n] = "none" /\ status[n] = "none"

DegreesFit ==
    stage = "running" =>
        \A n \in Nodes : task[n] = "none" /\ n \notin skipped =>
            degree[n] = Cardinality(Uncounted(n)) /\ degree[n] > 0

IndInv ==
    /\ TypeOK
    /\ GraphFits
    /\ TasksFit
    /\ DegreesFit
    /\ InputsComplete
    /\ NoInternalError

-----------------------------------------------------------------------------

\* The ends of an edge are nodes.
LEMMA EdgeEnds ==
    ASSUME TypeOK
    PROVE  /\ \A e \in edges : e[1] \in Nodes /\ e[2] \in Nodes
           /\ \A n : Dependents(n) \subseteq Nodes /\ Dependencies(n) \subseteq Nodes
  BY DEF TypeOK, Dependents, Dependencies, EdgesFrom, EdgesTo

\* The edges from m to n are some of those that n still waits for, as long as m has
\* not been counted; taking them away subtracts their number.
LEMMA EdgeCount ==
    ASSUME TypeOK, IsFiniteSet(edges), NEW m \in Nodes, NEW n \in Nodes,
           status[m] \notin Counted
    PROVE  LET E == EdgesFrom(m) \cap EdgesTo(n) IN
           /\ Cardinality(E) \in Nat
           /\ Cardinality(Uncounted(n)) \in Nat
           /\ Cardinality(Uncounted(n) \ E) = Cardinality(Uncounted(n)) - Cardinality(E)
           /\ Cardinality(E) = 0 <=> n \notin Dependents(m)
           /\ Cardinality(Uncounted(n)) = 0 <=> Uncounted(n) = {}
           /\ Cardinality(Uncounted(n)) <= Cardinality(E) => Uncounted(n) \subseteq E
  <1> DEFINE E == EdgesFrom(m) \cap EdgesTo(n)
             U == Uncounted(n)
  <1>1. E \subseteq U /\ U \subseteq edges /\ E \subseteq edges
    BY DEF Uncounted, EdgesFrom, EdgesTo
  <1>2. IsFiniteSet(U) /\ IsFiniteSet(E) /\ IsFiniteSet(U \ E)
    BY <1>1, FS_Subset, U \ E \subseteq edges
  <1>3. Cardinality(U) \in Nat /\ Cardinality(E) \in Nat /\ Cardinality(U \ E) \in Nat
    BY <1>2, FS_CardinalityType
  <1>4. Cardinality(U) = Cardinality(U \ E) + Cardinality(E)
    <2>1. (U \ E) \cup E = U /\ (U \ E) \cap E = {}
      BY <1>1
    <2>2. Cardinality((U \ E) \cup E) =
            Cardinality(U \ E) + Cardinality(E) - Cardinality((U \ E) \cap E)
      BY <1>2, FS_Union
    <2>3. Cardinality((U \ E) \cap E) = 0
      BY <2>1, FS_EmptySet
    <2>4. Cardinality(U) = Cardinality(U \ E) + Cardinality(E) - 0
      BY <2>1, <2>2, <2>3, Zenon
    <2> QED BY <2>4, <1>3
  <1>5. E = {} <=> n \notin Dependents(m)
    BY DEF Dependents, EdgesFrom, EdgesTo
  <1>6. (Cardinality(E) = 0 <=> E = {}) /\ (Cardinality(U) = 0 <=> U = {})
    BY <1>2, FS_EmptySet
  <1>7. Cardinality(U) <= Cardinality(E) => U \subseteq E
    <2> SUFFICES ASSUME Cardinality(U) <= Cardinality(E) PROVE U \subseteq E
      OBVIOUS
    <2>1. Cardinality(U \ E) = 0
      BY <1>3, <1>4
    <2> QED BY <2>1, <1>2, FS_EmptySet
  <1> QED BY <1>3, <1>4, <1>5, <1>6, <1>7

-----------------------------------------------------------------------------

LEMMA InitEstablishes == Init => IndInv
  <1> SUFFICES ASSUME Init PROVE IndInv
    OBVIOUS
  <1> USE DEF Init
  <1>1. TypeOK
    <2>1. edges \subseteq Nodes \X Nodes \X (1..MaxParallelEdges)
      OBVIOUS
    <2>2. ended \in Seq(Nodes) /\ doomed \subseteq Nodes /\ skipped \subseteq Nodes
      OBVIOUS
    <2> QED BY <2>1, <2>2 DEF TypeOK, Task
  <1>2. GraphFits
    <2>1. \A n : Dependencies(n) = {}
      BY DEF Dependencies, EdgesTo
    <2>2. topological_sort
      BY <2>1 DEF topological_sort
    <2> QED BY <2>2, FS_EmptySet DEF GraphFits
  <1>3. TasksFit /\ DegreesFit /\ InputsComplete /\ NoInternalError
    BY DEF TasksFit, DegreesFit, InputsComplete, NoInternalError
  <1> QED BY <1>1, <1>2, <1>3 DEF IndInv

\* An edge whose target does not lead back to its source closes no cycle: the set
\* that separates the two splits every set of nodes into a part that has its
\* source as before.
LEMMA AddEdgeKeepsSortable ==
    ASSUME TypeOK, topological_sort, NEW f \in Nodes, NEW t \in Nodes, NEW k,
           ~path_exists(t, f), edges' = edges \cup {<<f, t, k>>}
    PROVE  topological_sort'
  <1>1. PICK V \in SUBSET Nodes : /\ t \in V
                                  /\ f \notin V
                                  /\ \A m \in V : Dependents(m) \subseteq V
    BY DEF path_exists, Visited
  <1>2. \A n \in Nodes : n # t => Dependencies(n)' = Dependencies(n)
    BY DEF Dependencies, EdgesTo
  <1>3. Dependencies(t)' = Dependencies(t) \cup {f}
    <2>1. EdgesTo(t)' = EdgesTo(t) \cup {<<f, t, k>>}
      BY DEF EdgesTo
    <2>2. <<f, t, k>>[1] = f
      OBVIOUS
    <2> QED BY <2>1, <2>2, Zenon DEF Dependencies
  <1>4. \A n, d \in Nodes : d \in Dependencies(n) => n \in Dependents(d)
    BY DEF Dependencies, Dependents, EdgesTo, EdgesFrom
  <1> SUFFICES ASSUME NEW S \in SUBSET Nodes, S # {}
               PROVE  \E n \in S : Dependencies(n)' \cap S = {}
    BY DEF topological_sort
  <1>5. PICK n \in S : Dependencies(n) \cap S = {}
    BY DEF topological_sort
  <1>6. CASE n # t \/ f \notin S
    BY <1>2, <1>3, <1>5, <1>6
  <1>7. CASE n = t /\ f \in S
    <2>1. S \ V \in SUBSET Nodes /\ S \ V # {}
      BY <1>1, <1>7
    <2>2. PICK r \in S \ V : Dependencies(r) \cap (S \ V) = {}
      BY <2>1 DEF topological_sort
    <2>3. Dependencies(r) \cap V = {}
      BY <1>1, <1>4, <2>2
    <2> QED BY <1>1, <1>2, <2>2, <2>3
  <1> QED BY <1>6, <1>7

LEMMA AddEdgePreserves ==
    ASSUME IndInv, NEW f \in Nodes, NEW t \in Nodes, AddEdge(f, t)
    PROVE  IndInv'
  <1> DEFINE k == Cardinality(EdgesFrom(f) \cap EdgesTo(t))
  <1>1. /\ stage = "building" /\ ~path_exists(t, f) /\ k < MaxParallelEdges
        /\ edges' = edges \cup {<<f, t, k + 1>>}
        /\ UNCHANGED <<stage, outcome, task, ended, doomed, degree, status, error,
                       skipped, aborted, inputs>>
    BY DEF AddEdge, AcceptsEdge, run
  <1>2. k \in Nat
    <2>1. IsFiniteSet(EdgesFrom(f) \cap EdgesTo(t))
      BY FS_Subset, EdgesFrom(f) \cap EdgesTo(t) \subseteq edges
      DEF IndInv, GraphFits, EdgesFrom
    <2> QED BY <2>1, FS_CardinalityType
  <1>3. TypeOK'
    <2>1. k + 1 \in 1..MaxParallelEdges
      BY <1>1, <1>2, DagAssumption
    <2>2. edges' \subseteq Nodes \X Nodes \X (1..MaxParallelEdges)
      BY <1>1, <2>1 DEF IndInv, TypeOK
    <2> QED BY <1>1, <2>2 DEF IndInv, TypeOK
  <1>4. GraphFits'
    <2>1. IsFiniteSet(edges')
      BY <1>1, FS_AddElement DEF IndInv, GraphFits
    <2>2. topological_sort'
      <3> HIDE DEF k
      <3> QED BY <1>1, AddEdgeKeepsSortable DEF IndInv, GraphFits
    <2> QED BY <2>1, <2>2 DEF GraphFits
  <1>5. TasksFit' /\ DegreesFit' /\ NoInternalError'
    BY <1>1 DEF IndInv, TasksFit, DegreesFit, NoInternalError
  <1>6. InputsComplete'
    BY <1>1 DEF IndInv, TasksFit, InputsComplete
  <1> QED BY <1>3, <1>4, <1>5, <1>6 DEF IndInv

LEMMA RunPreserves == ASSUME IndInv, Run PROVE IndInv'
  <1>1. /\ stage' = "running" /\ outcome' = "none" /\ edges' = edges
        /\ degree' = [n \in Nodes |-> Cardinality(EdgesTo(n))]
        /\ task' = [n \in Nodes |-> IF EdgesTo(n) = {} THEN "waiting" ELSE "none"]
        /\ ended' = <<>> /\ doomed' = {} /\ skipped' = {} /\ aborted' = FALSE
        /\ status' = [n \in Nodes |-> "none"] /\ error' = [n \in Nodes |-> "none"]
        /\ inputs' = [n \in Nodes |-> {}]
    BY DEF Run, IndInv, GraphFits
  <1>2. \A n \in Nodes : /\ IsFiniteSet(EdgesTo(n))
                         /\ Cardinality(EdgesTo(n)) \in Nat
                         /\ Cardinality(EdgesTo(n)) = 0 <=> EdgesTo(n) = {}
    <2> SUFFICES ASSUME NEW n \in Nodes
                 PROVE  /\ IsFiniteSet(EdgesTo(n))
                        /\ Cardinality(EdgesTo(n)) \in Nat
                        /\ Cardinality(EdgesTo(n)) = 0 <=> EdgesTo(n) = {}
      OBVIOUS
    <2>1. IsFiniteSet(EdgesTo(n))
      BY FS_Subset, EdgesTo(n) \subseteq edges DEF IndInv, GraphFits, EdgesTo
    <2> QED BY <2>1, FS_CardinalityType, FS_EmptySet
  <1>3. TypeOK'
    <2>1. task' \in [Nodes -> Task] /\ degree' \in [Nodes -> Nat]
      BY <1>1, <1>2 DEF Task
    <2>2. ended' \in Seq(Nodes) /\ doomed' \subseteq Nodes /\ skipped' \subseteq Nodes
      BY <1>1
    <2> QED BY <1>1, <2>1, <2>2 DEF IndInv, TypeOK
  <1>4. GraphFits'
    BY <1>1 DEF IndInv, GraphFits, topological_sort, Dependencies, EdgesTo
  <1>5. TasksFit' /\ NoInternalError'
    BY <1>1 DEF TasksFit, NoInternalError
  <1>6. DegreesFit'
    <2> SUFFICES ASSUME NEW n \in Nodes, task'[n] = "none"
                 PROVE  degree'[n] = Cardinality(Uncounted(n)') /\ degree'[n] > 0
      BY DEF DegreesFit
    <2>1. Uncounted(n)' = EdgesTo(n)
      <3>1. \A e \in edges : status'[e[1]] = "none"
        BY <1>1, EdgeEnds DEF IndInv
      <3> QED BY <1>1, <3>1 DEF Uncounted, EdgesTo, Counted
    <2>2. EdgesTo(n) # {}
      BY <1>1
    <2> QED BY <1>1, <1>2, <2>1, <2>2
  <1>7. InputsComplete'
    <2> SUFFICES ASSUME NEW n \in Nodes, task'[n] # "none"
                 PROVE  Dependencies(n)' = {} /\ inputs'[n] = {}
      BY DEF InputsComplete
    <2>1. EdgesTo(n) = {}
      BY <1>1
    <2> QED BY <1>1, <2>1 DEF Dependencies, EdgesTo
  <1> QED BY <1>3, <1>4, <1>5, <1>6, <1>7 DEF IndInv

\* A step of a task that has been spawned and not joined disturbs only TypeOK.
LEMMA TaskPreserves ==
    ASSUME IndInv, NEW n \in Nodes, NEW s \in {"executing"} \cup Ended,
           task[n] \in {"waiting", "executing"}, TaskBecomes(n, s)
    PROVE  IndInv'
  <1>1. /\ task' = [task EXCEPT ![n] = s]
        /\ ended' = IF s \in Ended THEN Append(ended, n) ELSE ended
        /\ UNCHANGED <<edges, stage, outcome, doomed, degree, status, error, skipped,
                       aborted, inputs>>
    BY DEF TaskBecomes
  <1>2. TypeOK'
    <2>1. task' \in [Nodes -> Task]
      BY <1>1 DEF IndInv, TypeOK, Task
    <2>2. ended' \in Seq(Nodes)
      BY <1>1 DEF IndInv, TypeOK
    <2> QED BY <1>1, <2>1, <2>2 DEF IndInv, TypeOK
  <1>3. s # "none" /\ \A m \in Nodes : task'[m] = IF m = n THEN s ELSE task[m]
    BY <1>1 DEF IndInv, TypeOK, Ended
  <1>4. GraphFits'
    BY <1>1 DEF IndInv, GraphFits, topological_sort, Dependencies, EdgesTo
  <1>5. TasksFit' /\ NoInternalError'
    BY <1>1, <1>3 DEF IndInv, TasksFit, NoInternalError
  <1>6. DegreesFit'
    BY <1>1, <1>3 DEF IndInv, DegreesFit, Uncounted, EdgesTo
  <1>7. InputsComplete'
    BY <1>1, <1>3 DEF IndInv, InputsComplete, Dependencies, EdgesTo
  <1> QED BY <1>2, <1>4, <1>5, <1>6, <1>7 DEF IndInv

\* When m is recorded and lets its dependents through, the ones that become ready
\* have all their dependencies in, and no in-degree is decremented below zero.
LEMMA SchedulePreserves ==
    ASSUME IndInv, stage = "running", NEW m \in Nodes, task[m] \in Ended,
           NEW s \in Counted, s \in {"none", "Completed"} \cup OnError,
           status' = [status EXCEPT ![m] = s], schedule_dependents(m, s),
           error' \in [Nodes -> {"none"} \cup ErrorStatus], ended' \in Seq(Nodes),
           UNCHANGED <<edges, doomed, skipped, aborted>>
    PROVE  IndInv'
  <1> DEFINE open == OpenDependents(m)
             ready == {n \in open : Less(m, n) = 0}
  <1>1. status[m] = "none" /\ s # "none"
    BY DEF IndInv, TasksFit, Ended, Counted
  <1>2. \A n \in open : n \in Nodes /\ n # m /\ task[n] = "none" /\ n \notin skipped
    BY <1>1, EdgeEnds DEF OpenDependents, completed, pending, IndInv, Ended
  <1>3. \A n \in Nodes : task[n] = "none" /\ n \notin skipped /\ n \notin open
                            => n \notin Dependents(m)
    BY DEF OpenDependents, completed, pending, IndInv, TasksFit
  <1>4. \A n \in open : degree[n] > 0
    BY <1>2 DEF IndInv, DegreesFit
  <1>5. /\ degree' = [n \in Nodes |-> IF n \in open THEN Less(m, n) ELSE degree[n]]
        /\ task' = [n \in Nodes |-> IF n \in ready THEN "waiting"
                                    ELSE IF n = m THEN "joined" ELSE task[n]]
        /\ inputs' = [n \in Nodes |-> IF n \in ready THEN collect_inputs(n, m, s)
                                      ELSE inputs[n]]
        /\ stage' = stage /\ outcome' = outcome
    <2>1. ~ \E n \in open : degree[n] = 0
      BY <1>2, <1>4 DEF IndInv, TypeOK
    <2> QED BY <2>1 DEF schedule_dependents
  <1>6. \A n \in Nodes : Less(m, n) \in Nat
    <2> SUFFICES ASSUME NEW n \in Nodes PROVE Less(m, n) \in Nat
      OBVIOUS
    <2>1. Cardinality(EdgesFrom(m) \cap EdgesTo(n)) \in Nat
      BY <1>1, EdgeCount DEF IndInv, GraphFits, Counted
    <2> QED BY <2>1 DEF Less, IndInv, TypeOK
  <1>7. \A n \in Nodes : Uncounted(n)' = Uncounted(n) \ (EdgesFrom(m) \cap EdgesTo(n))
    <2> SUFFICES ASSUME NEW n \in Nodes
                 PROVE  Uncounted(n)' = Uncounted(n) \ (EdgesFrom(m) \cap EdgesTo(n))
      OBVIOUS
    <2>1. \A e \in edges : status'[e[1]] = IF e[1] = m THEN s ELSE status[e[1]]
      BY EdgeEnds DEF IndInv, TypeOK
    <2>2. EdgesTo(n)' = EdgesTo(n)
      BY DEF EdgesTo
    <2> QED BY <2>1, <2>2 DEF Uncounted, EdgesFrom, EdgesTo
  <1>8. \A n \in ready : Uncounted(n)' = {}
    <2> SUFFICES ASSUME NEW n \in ready PROVE Uncounted(n)' = {}
      OBVIOUS
    <2> DEFINE E == EdgesFrom(m) \cap EdgesTo(n)
    <2>1. n \in Nodes /\ degree[n] = Cardinality(Uncounted(n))
      BY <1>2 DEF IndInv, DegreesFit
    <2>2. /\ Cardinality(E) \in Nat
          /\ Cardinality(Uncounted(n)) <= Cardinality(E) => Uncounted(n) \subseteq E
      BY <1>1, <2>1, EdgeCount DEF IndInv, GraphFits, Counted
    <2>3. Cardinality(Uncounted(n)) <= Cardinality(E)
      BY <2>1, <2>2 DEF Less, IndInv, TypeOK
    <2> QED BY <2>1, <2>2, <2>3, <1>7
  <1> HIDE DEF open, ready
  <1>9. \A n \in ready : n \in open /\ n \in Nodes /\ n # m /\ task[n] = "none"
    BY <1>2 DEF ready
  <1>10. \A n \in Nodes : Dependencies(n)' = Dependencies(n)
    BY DEF Dependencies, EdgesTo
  <1>11. \A n \in Nodes : status'[n] = IF n = m THEN s ELSE status[n]
    BY DEF IndInv, TypeOK
  <1>12. TypeOK'
    <2>1. \A n \in Nodes : collect_inputs(n, m, s) \subseteq Nodes
      BY EdgeEnds DEF collect_inputs, IndInv
    <2>2. task' \in [Nodes -> Task]
      BY <1>5 DEF IndInv, TypeOK, Task
    <2>3. degree' \in [Nodes -> Nat]
      BY <1>5, <1>6 DEF IndInv, TypeOK
    <2>4. inputs' \in [Nodes -> SUBSET Nodes]
      BY <1>5, <2>1 DEF IndInv, TypeOK
    <2>5. status' \in [Nodes -> {"none", "Completed"} \cup OnError]
      BY DEF IndInv, TypeOK
    <2> QED BY <1>5, <2>2, <2>3, <2>4, <2>5 DEF IndInv, TypeOK
  <1>13. GraphFits'
    BY <1>10 DEF IndInv, GraphFits, topological_sort
  <1>14. TasksFit' /\ NoInternalError'
    BY <1>5, <1>9, <1>11 DEF IndInv, TasksFit, NoInternalError
  <1>15. DegreesFit'
    <2> SUFFICES ASSUME NEW n \in Nodes, task'[n] = "none", n \notin skipped
                 PROVE  degree'[n] = Cardinality(Uncounted(n)') /\ degree'[n] > 0
      BY DEF DegreesFit
    <2> DEFINE E == EdgesFrom(m) \cap EdgesTo(n)
    <2>1. task[n] = "none" /\ n \notin ready
      BY <1>5
    <2>2. degree[n] = Cardinality(Uncounted(n)) /\ degree[n] > 0 /\ degree[n] \in Nat
      BY <2>1 DEF IndInv, DegreesFit, TypeOK
    <2>3. /\ Cardinality(E) \in Nat
          /\ Cardinality(Uncounted(n)') = Cardinality(Uncounted(n)) - Cardinality(E)
          /\ Cardinality(E) = 0 <=> n \notin Dependents(m)
      BY <1>1, <1>7, EdgeCount DEF IndInv, GraphFits, Counted
    <2>4. CASE n \in open
      <3>1. Less(m, n) # 0 /\ degree'[n] = Less(m, n)
        BY <2>1, <2>4, <1>5 DEF ready
      <3> QED BY <2>2, <2>3, <3>1 DEF Less
    <2>5. CASE n \notin open
      BY <2>1, <2>2, <2>3, <2>5, <1>3, <1>5
    <2> QED BY <2>4, <2>5
  <1>16. InputsComplete'
    <2> SUFFICES ASSUME NEW n \in Nodes, task'[n] # "none"
                 PROVE  /\ \A d \in Dependencies(n) : status'[d] \in Counted
                        /\ inputs'[n] = {d \in Dependencies(n) : status'[d] = "Completed"}
      BY <1>10 DEF InputsComplete, Counted
    <2>1. CASE n \in ready
      <3>1. \A d \in Dependencies(n) : status'[d] \in Counted
        <4>1. \A d \in Dependencies(n) : \E e \in EdgesTo(n) : e[1] = d
          BY DEF Dependencies
        <4>2. \A e \in EdgesTo(n) : status'[e[1]] \in Counted
          BY <1>8, <2>1 DEF Uncounted, EdgesTo
        <4> QED BY <4>1, <4>2
      <3>2. inputs'[n] = {d \in Dependencies(n) : status'[d] = "Completed"}
        BY <1>5, <1>11, <2>1, EdgeEnds DEF collect_inputs, IndInv
      <3> QED BY <3>1, <3>2
    <2>2. CASE n \notin ready
      <3>1. task[n] # "none" /\ inputs'[n] = inputs[n]
        BY <1>5, <2>2 DEF Ended
      <3>2. \A d \in Dependencies(n) : d \in Nodes /\ status[d] \in Counted
        BY <3>1, EdgeEnds DEF IndInv, InputsComplete, Counted
      <3>3. \A d \in Dependencies(n) : status'[d] = status[d]
        BY <3>2, <1>1, <1>11 DEF Counted
      <3> QED BY <3>1, <3>2, <3>3 DEF IndInv, InputsComplete
    <2> QED BY <2>1, <2>2
  <1> QED BY <1>12, <1>13, <1>14, <1>15, <1>16 DEF IndInv

\* A joined node that does not let its dependents through disturbs nobody's count.
LEMMA JoinPreserves ==
    ASSUME IndInv, stage = "running", NEW m \in Nodes, task[m] \in Ended,
           NEW s \in {"none", "Fail", "Skip"}, s \in {"none", "Completed"} \cup OnError,
           status' = [status EXCEPT ![m] = s], task' = [task EXCEPT ![m] = "joined"],
           UNCHANGED <<edges, degree, inputs>>, ended' \in Seq(Nodes),
           error' \in [Nodes -> {"none"} \cup ErrorStatus],
           doomed' \subseteq Nodes, aborted' \in BOOLEAN,
           skipped \subseteq skipped', skipped' \subseteq Nodes,
           stage' \in {"running", "returned"}, outcome' \in {outcome, "panicked"}
    PROVE  IndInv'
  <1>1. status[m] = "none"
    BY DEF IndInv, TasksFit, Ended
  <1>2. \A n \in Nodes : /\ status'[n] = IF n = m THEN s ELSE status[n]
                         /\ task'[n] = IF n = m THEN "joined" ELSE task[n]
    BY DEF IndInv, TypeOK
  <1>3. \A n : Dependencies(n)' = Dependencies(n) /\ EdgesTo(n)' = EdgesTo(n)
    BY DEF Dependencies, EdgesTo
  <1>4. TypeOK'
    <2>1. task' \in [Nodes -> Task]
      BY DEF IndInv, TypeOK, Task
    <2>2. status' \in [Nodes -> {"none", "Completed"} \cup OnError]
      BY DEF IndInv, TypeOK
    <2> QED BY <2>1, <2>2 DEF IndInv, TypeOK
  <1>5. GraphFits'
    BY <1>3 DEF IndInv, GraphFits, topological_sort
  <1>6. TasksFit' /\ NoInternalError'
    BY <1>2 DEF IndInv, TasksFit, NoInternalError
  <1>7. DegreesFit'
    <2>1. \A n \in Nodes : Uncounted(n)' = Uncounted(n)
      <3>1. \A e \in edges : status'[e[1]] \in Counted <=> status[e[1]] \in Counted
        BY <1>1, <1>2, EdgeEnds DEF Counted, IndInv
      <3> QED BY <1>3, <3>1 DEF Uncounted, EdgesTo
    <2> QED BY <1>2, <2>1 DEF IndInv, DegreesFit
  <1>8. InputsComplete'
    <2> SUFFICES ASSUME NEW n \in Nodes, task'[n] # "none"
                 PROVE  /\ \A d \in Dependencies(n) : status'[d] \in Counted
                        /\ inputs'[n] = {d \in Dependencies(n) : status'[d] = "Completed"}
      BY <1>3 DEF InputsComplete, Counted
    <2>1. task[n] # "none"
      BY <1>2 DEF Ended
    <2>2. \A d \in Dependencies(n) : d \in Nodes /\ status[d] \in Counted
      BY <2>1, EdgeEnds DEF IndInv, InputsComplete, Counted
    <2>3. \A d \in Dependencies(n) : status'[d] = status[d]
      BY <1>1, <1>2, <2>2 DEF Counted
    <2> QED BY <2>1, <2>2, <2>3 DEF IndInv, InputsComplete
  <1> QED BY <1>4, <1>5, <1>6, <1>7, <1>8 DEF IndInv

LEMMA JoinNextPreserves == ASSUME IndInv, JoinNext PROVE IndInv'
  <1> DEFINE m == Head(ended)
  <1>1. m \in Nodes /\ Tail(ended) \in Seq(Nodes)
    BY DEF JoinNext, IndInv, TypeOK
  <1>2. stage = "running" /\ ended' \in Seq(Nodes) /\ edges' = edges
    BY <1>1 DEF JoinNext
  <1>3. status \in [Nodes -> {"none", "Completed"} \cup OnError]
    BY DEF IndInv, TypeOK
  <1>4. task[m] \in Ended => status[m] = "none" /\ status = [status EXCEPT ![m] = "none"]
    BY <1>1, <1>3 DEF IndInv, TasksFit, Ended
  <1> HIDE DEF m
  <1>5. CASE JoinOk(m)
    <2>1. error' \in [Nodes -> {"none"} \cup ErrorStatus]
      BY <1>5 DEF JoinOk, IndInv, TypeOK
    <2> QED BY <1>1, <1>2, <1>5, <2>1, SchedulePreserves DEF JoinOk, Ended, Counted
  <1>6. CASE JoinErr(m)
    <2>0. error' \in [Nodes -> {"none"} \cup ErrorStatus]
      BY <1>1, <1>6 DEF JoinErr, IndInv, TypeOK
    <2>1. PICK s \in OnError : /\ status' = [status EXCEPT ![m] = s]
                               /\ \/ s = "Fail" /\ JoinFail(m)
                                  \/ s = "Continue" /\ JoinContinue(m)
                                  \/ s = "Skip" /\ JoinSkip(m)
      BY <1>6 DEF JoinErr
    <2>2. task[m] \in Ended
      BY <1>6 DEF JoinErr, Ended
    <2>3. CASE s = "Fail" /\ JoinFail(m)
      BY <1>1, <1>2, <2>0, <2>1, <2>2, <2>3, JoinPreserves DEF JoinFail, IndInv, TypeOK
    <2>4. CASE s = "Continue" /\ JoinContinue(m)
      BY <1>1, <1>2, <2>0, <2>1, <2>2, <2>4, SchedulePreserves DEF JoinContinue, Counted
    <2>5. CASE s = "Skip" /\ JoinSkip(m)
      <3>1. mark_skipped_dependents(m) \subseteq Nodes
        BY DEF mark_skipped_dependents, Visited, IndInv, TypeOK
      <3>2. skipped \subseteq mark_skipped_dependents(m)
        BY DEF mark_skipped_dependents
      <3> QED BY <1>1, <1>2, <2>0, <2>1, <2>2, <2>5, <3>1, <3>2, JoinPreserves
              DEF JoinSkip, IndInv, TypeOK
    <2> QED BY <2>1, <2>3, <2>4, <2>5
  <1>7. CASE JoinPanic(m) \/ JoinAborted(m)
    <2>1. task[m] \in Ended
      BY <1>7 DEF JoinPanic, JoinAborted, Ended
    <2> QED BY <1>1, <1>2, <1>4, <1>7, <2>1, JoinPreserves
            DEF JoinPanic, JoinAborted, Return, IndInv, TypeOK
  <1> QED BY <1>5, <1>6, <1>7 DEF JoinNext, m

LEMMA JoinEndsPreserves == ASSUME IndInv, JoinEnds PROVE IndInv'
  <1>1. /\ stage' = "returned" /\ outcome' = "ok"
        /\ UNCHANGED <<edges, task, ended, doomed, degree, status, error, skipped, aborted,
                       inputs>>
    BY DEF JoinEnds, Return
  <1>2. TypeOK'
    BY <1>1 DEF IndInv, TypeOK
  <1>3. GraphFits' /\ InputsComplete'
    BY <1>1 DEF IndInv, GraphFits, topological_sort, InputsComplete, Dependencies, EdgesTo
  <1>4. TasksFit' /\ DegreesFit' /\ NoInternalError'
    BY <1>1 DEF IndInv, TasksFit, DegreesFit, NoInternalError
  <1> QED BY <1>2, <1>3, <1>4 DEF IndInv

\* Every state of the engine satisfies the invariant.
THEOREM Inductive == Spec => []IndInv
  <1>1. Init => IndInv
    BY InitEstablishes
  <1>2. IndInv /\ [Next]_vars => IndInv'
    <2> SUFFICES ASSUME IndInv, [Next]_vars PROVE IndInv'
      OBVIOUS
    <2>1. CASE \E f, t \in Nodes : AddEdge(f, t)
      BY <2>1, AddEdgePreserves
    <2>2. CASE Run
      BY <2>2, RunPreserves
    <2>3. ASSUME NEW n \in Nodes, Acquire(n) \/ Finish(n) \/ Abort(n) PROVE IndInv'
      BY <2>3, TaskPreserves DEF Acquire, Finish, Abort, Ended
    <2>4. CASE JoinNext
      BY <2>4, JoinNextPreserves
    <2>5. CASE JoinEnds
      BY <2>5, JoinEndsPreserves
    <2>6. CASE UNCHANGED vars
      <3>1. \A n : /\ Dependencies(n)' = Dependencies(n)
                   /\ Uncounted(n)' = Uncounted(n)
        BY <2>6 DEF vars, run, Dependencies, Uncounted, EdgesTo
      <3>2. TypeOK' /\ TasksFit' /\ NoInternalError'
        BY <2>6 DEF vars, run, IndInv, TypeOK, TasksFit, NoInternalError
      <3>3. GraphFits'
        BY <2>6, <3>1 DEF vars, IndInv, GraphFits, topological_sort
      <3>4. DegreesFit' /\ InputsComplete'
        BY <2>6, <3>1 DEF vars, run, IndInv, DegreesFit, InputsComplete
      <3> QED BY <3>2, <3>3, <3>4 DEF IndInv
    <2> QED BY <2>1, <2>2, <2>3, <2>4, <2>5, <2>6 DEF Next
  <1> QED BY <1>1, <1>2, PTL DEF Spec

\* The graph, the tasks and the run's bookkeeping keep their types.
THEOREM TypeCorrect == Spec => []TypeOK
  BY Inductive, PTL DEF IndInv

\* Whatever edges are added and in whatever order nodes end, a run never reports a
\* cycle or an in-degree underflow: the two internal errors are unreachable.
THEOREM NeverInternalError == Spec => []NoInternalError
  BY Inductive, PTL DEF IndInv

\* Every node that is spawned has all its dependencies recorded, none of them with a
\* failure that stops it, and is given all the outputs there are.
THEOREM InputsAreComplete == Spec => []InputsComplete
  BY Inductive, PTL DEF IndInv

-----------------------------------------------------------------------------
(***************************************************************************)
(* Skipping, aborting and the result of a run.                             *)
(***************************************************************************)

AbortFits ==
    /\ stage = "running" => outcome = "none"
    /\ aborted <=> \E m \in Nodes : status[m] = "Fail"
    /\ doomed # {} => aborted
    /\ \A n \in Nodes :
         /\ task[n] = "aborted" => aborted
         /\ task[n] = "joined" /\ status[n] = "none" /\ outcome # "panicked" => aborted

\* Without an abort, every node has a result or was skipped.
ResultFits ==
    stage = "returned" /\ outcome = "ok" /\ ~aborted =>
        \A n \in Nodes : status[n] # "none" \/ n \in skipped

SkipInv == SkippedAreDownstream /\ AbortFits /\ ResultFits

\* A search visits where it starts, goes on to the dependents of what it visits, and
\* stays in every set that is closed in that way.
LEMMA VisitedClosed ==
    ASSUME TypeOK, NEW S \in SUBSET Nodes, NEW B
    PROVE  /\ Visited(S, B) \subseteq Nodes
           /\ S \ B \subseteq Visited(S, B)
           /\ \A m \in Visited(S, B) : Dependents(m) \ B \subseteq Visited(S, B)
           /\ \A V \in SUBSET Nodes :
                S \ B \subseteq V /\ (\A m \in V : Dependents(m) \ B \subseteq V)
                  => Visited(S, B) \subseteq V
  <1>1. \A m : Dependents(m) \subseteq Nodes
    BY EdgeEnds
  <1> QED BY <1>1 DEF Visited

\* The same of the nodes that a path leads to.
LEMMA PathClosed ==
    ASSUME TypeOK, NEW m \in Nodes
    PROVE  /\ path_exists(m, m)
           /\ \A x : path_exists(m, x) =>
                x \in Nodes /\ \A d \in Dependents(x) : path_exists(m, d)
           /\ \A V \in SUBSET Nodes :
                m \in V /\ (\A x \in V : Dependents(x) \subseteq V)
                  => \A n : path_exists(m, n) => n \in V
  <1>1. {m} \in SUBSET Nodes /\ m \in {m} \ {} /\ \A T : T \ {} = T
    OBVIOUS
  <1>2. \A V : m \in V => {m} \ {} \subseteq V
    OBVIOUS
  <1> QED BY <1>1, <1>2, VisitedClosed DEF path_exists

\* The graph does not change during a run, and neither does what a search visits.
LEMMA SameGraph ==
    ASSUME edges' = edges
    PROVE  /\ \A m : Dependents(m)' = Dependents(m)
           /\ \A m, n : path_exists(m, n)' = path_exists(m, n)
  <1>1. \A m : Dependents(m)' = Dependents(m)
    BY DEF Dependents, EdgesFrom
  <1>2. \A m : Visited({m}, {})' = Visited({m}, {})
    BY <1>1 DEF Visited
  <1> QED BY <1>1, <1>2 DEF path_exists

\* Nothing downstream of a node that has not let its dependents through is spawned.
LEMMA UnspawnedDownstream ==
    ASSUME IndInv, NEW m \in Nodes, status[m] \notin Counted
    PROVE  /\ \A d \in Dependents(m) : d \in Nodes /\ task[d] = "none"
           /\ \A n \in Nodes : path_exists(m, n) /\ n # m => task[n] = "none"
  <1> DEFINE U == {n \in Nodes : task[n] = "none"}
  <1>1. \A x \in Nodes : status[x] \notin Counted => Dependents(x) \subseteq U
    <2> SUFFICES ASSUME NEW x \in Nodes, NEW d \in Dependents(x), task[d] # "none"
                 PROVE  status[x] \in Counted
      BY EdgeEnds DEF IndInv
    <2>1. d \in Nodes /\ x \in Dependencies(d)
      BY EdgeEnds DEF IndInv, Dependents, Dependencies, EdgesFrom, EdgesTo
    <2> QED BY <2>1 DEF IndInv, InputsComplete, Counted
  <1>2. \A x \in U : status[x] \notin Counted
    BY DEF IndInv, TasksFit, Counted
  <1>3. \A n : path_exists(m, n) => n \in U \cup {m}
    <2> DEFINE V == U \cup {m}
    <2>1. V \in SUBSET Nodes /\ m \in V
      OBVIOUS
    <2>2. \A x \in V : Dependents(x) \subseteq V
      BY <1>1, <1>2
    <2>3. \A n : path_exists(m, n) => n \in V
      <3> HIDE DEF V
      <3> QED BY <2>1, <2>2, PathClosed DEF IndInv
    <2> QED BY <2>3
  <1>4. \A d \in Dependents(m) : d \in U
    BY <1>1
  <1> QED BY <1>3, <1>4

\* The dependents of a skipped node are skipped.
LEMMA SkippedClosed ==
    ASSUME IndInv, SkippedAreDownstream, NEW x \in skipped, NEW d \in Dependents(x)
    PROVE  d \in skipped /\ task[x] = "none"
  <1>1. PICK m \in Nodes : status[m] = "Skip" /\ m # x /\ path_exists(m, x)
    BY DEF SkippedAreDownstream
  <1>2. x \in Nodes /\ task[x] = "none" /\ task[m] = "joined"
    BY <1>1, UnspawnedDownstream DEF IndInv, TasksFit, Counted, SkippedAreDownstream
  <1>3. d \in Nodes /\ task[d] = "none"
    BY <1>2, UnspawnedDownstream DEF IndInv, TasksFit, Counted
  <1>4. path_exists(m, d)
    BY <1>1, PathClosed DEF IndInv
  <1> QED BY <1>1, <1>2, <1>3, <1>4 DEF SkippedAreDownstream

\* The search of mark_skipped_dependents(), although it turns back at pending and at
\* skipped nodes, adds exactly what is downstream of the failed node.
LEMMA MarksDownstream ==
    ASSUME IndInv, SkippedAreDownstream, NEW m \in Nodes, task[m] \in Ended
    PROVE  mark_skipped_dependents(m) =
             skipped \cup {n \in Nodes : m # n /\ path_exists(m, n)}
  <1> DEFINE B == (pending \ {m}) \cup skipped
             W == Visited(Dependents(m), B)
             D == {n \in Nodes : m # n /\ path_exists(m, n)}
  <1>1. status[m] = "none" /\ task[m] # "none"
    BY DEF IndInv, TasksFit, Ended
  <1>2. \A x \in D : task[x] = "none" /\ status[x] = "none"
    BY <1>1, UnspawnedDownstream DEF IndInv, TasksFit, Counted
  <1>3. \A x \in D \cup {m} : \A d \in Dependents(x) : d \in Nodes /\ task[d] = "none"
    BY <1>1, <1>2, UnspawnedDownstream DEF Counted
  <1>4. path_exists(m, m) /\ \A x : path_exists(m, x) =>
                               \A d \in Dependents(x) : path_exists(m, d)
    BY PathClosed DEF IndInv
  <1>5. \A x \in D \cup {m} : Dependents(x) \subseteq D
    BY <1>1, <1>3, <1>4
  <1>6. /\ Dependents(m) \in SUBSET Nodes
        /\ Dependents(m) \ B \subseteq W
        /\ \A x \in W : Dependents(x) \ B \subseteq W
        /\ \A V \in SUBSET Nodes :
             Dependents(m) \ B \subseteq V /\ (\A x \in V : Dependents(x) \ B \subseteq V)
               => W \subseteq V
    <2>1. Dependents(m) \in SUBSET Nodes
      BY EdgeEnds DEF IndInv
    <2> HIDE DEF B
    <2> QED BY <2>1, VisitedClosed DEF IndInv
  <1>7. W \subseteq D
    <2> HIDE DEF W, B
    <2>1. D \in SUBSET Nodes
      OBVIOUS
    <2>2. Dependents(m) \ B \subseteq D /\ \A x \in D : Dependents(x) \ B \subseteq D
      BY <1>5
    <2> HIDE DEF D
    <2> QED BY <1>6, <2>1, <2>2
  <1>8. \A x \in D \cup {m} : \A d \in Dependents(x) : d \in B => d \in skipped
    <2>1. \A n \in pending : task[n] # "none"
      BY DEF pending
    <2> QED BY <1>3, <2>1
  <1>9. D \subseteq skipped \cup W
    <2> HIDE DEF W, B
    <2> DEFINE V == {m} \cup skipped \cup W
    <2>1. V \in SUBSET Nodes /\ m \in V
      BY <1>7 DEF IndInv, TypeOK
    <2>2. \A x \in skipped : Dependents(x) \subseteq skipped
      BY SkippedClosed
    <2>3. \A x \in V : Dependents(x) \subseteq V
      <3> HIDE DEF D
      <3> QED BY <1>6, <1>7, <1>8, <2>2
    <2>4. \A n : path_exists(m, n) => n \in V
      <3> HIDE DEF V
      <3> QED BY <2>1, <2>3, PathClosed DEF IndInv
    <2> QED BY <2>4
  <1>10. mark_skipped_dependents(m) = skipped \cup W
    BY DEF mark_skipped_dependents
  <1> HIDE DEF W, D
  <1>11. skipped \cup W = skipped \cup D
    BY <1>7, <1>9
  <1> QED BY <1>10, <1>11 DEF D

\* Recording a node as anything but a Skip failure changes nothing downstream.
LEMMA RecordedElsewhere ==
    ASSUME TypeOK, SkippedAreDownstream, NEW m \in Nodes, NEW s, s # "Skip",
           status[m] # "Skip", status' = [status EXCEPT ![m] = s],
           UNCHANGED <<edges, skipped>>
    PROVE  SkippedAreDownstream'
  <1>1. \A x \in Nodes : status'[x] = "Skip" <=> status[x] = "Skip"
    BY DEF TypeOK
  <1> QED BY <1>1, SameGraph DEF SkippedAreDownstream

\* A node without a result, when no task is left and no node aborted the run, has
\* been skipped: take a first one, in the order of the graph, that was not.
LEMMA EndAccounts ==
    ASSUME IndInv, SkipInv, stage = "running", ~aborted,
           \A n \in Nodes : task[n] \in {"none", "joined"}
    PROVE  \A n \in Nodes : status[n] # "none" \/ n \in skipped
  <1> DEFINE S == {n \in Nodes : status[n] = "none" /\ n \notin skipped}
  <1> SUFFICES ASSUME S # {} PROVE FALSE
    OBVIOUS
  <1>1. PICK n \in S : Dependencies(n) \cap S = {}
    <2>1. S \in (SUBSET Nodes) \ {{}}
      OBVIOUS
    <2> HIDE DEF S
    <2> QED BY <2>1 DEF IndInv, GraphFits, topological_sort
  <1>2. task[n] = "none"
    BY DEF SkipInv, AbortFits
  <1>3. Cardinality(Uncounted(n)) > 0
    BY <1>2 DEF IndInv, DegreesFit
  <1>4. PICK e \in EdgesTo(n) : status[e[1]] \notin Counted
    <2>1. Uncounted(n) # {}
      BY <1>3, FS_EmptySet
    <2> QED BY <2>1 DEF Uncounted
  <1> DEFINE p == e[1]
  <1>5. p \in Nodes /\ p \in Dependencies(n) /\ n \in Dependents(p)
    BY <1>4, EdgeEnds DEF IndInv, Dependencies, Dependents, EdgesTo, EdgesFrom
  <1>6. status[p] \in {"none", "Skip"}
    <2>1. status[p] \in {"none", "Completed", "Fail", "Continue", "Skip"}
      BY <1>5, DagAssumption DEF IndInv, TypeOK
    <2>2. status[p] # "Fail"
      BY <1>5 DEF SkipInv, AbortFits
    <2> QED BY <1>4, <2>1, <2>2 DEF Counted
  <1>7. CASE status[p] = "none"
    <2>1. p \in skipped
      BY <1>1, <1>5, <1>7
    <2> QED BY <1>5, <2>1, SkippedClosed DEF SkipInv
  <1>8. CASE status[p] = "Skip"
    <2>1. path_exists(p, n)
      BY <1>5, PathClosed DEF IndInv
    <2> QED BY <1>5, <1>8, <2>1 DEF SkipInv, SkippedAreDownstream
  <1> QED BY <1>6, <1>7, <1>8

LEMMA SkipInvTask ==
    ASSUME IndInv, SkipInv, NEW n \in Nodes, stage = "running",
           NEW s \in {"executing"} \cup Ended, s = "aborted" => n \in doomed,
           TaskBecomes(n, s)
    PROVE  SkipInv'
  <1>1. SkippedAreDownstream'
    BY SameGraph DEF TaskBecomes, SkipInv, SkippedAreDownstream
  <1>2. \A x \in Nodes : task'[x] = IF x = n THEN s ELSE task[x]
    BY DEF TaskBecomes, IndInv, TypeOK
  <1>3. AbortFits'
    BY <1>2 DEF SkipInv, AbortFits, TaskBecomes, Ended
  <1>4. ResultFits'
    BY DEF ResultFits, TaskBecomes
  <1> QED BY <1>1, <1>3, <1>4 DEF SkipInv

LEMMA SkipInvJoin == ASSUME IndInv, SkipInv, JoinNext PROVE SkipInv'
  <1> DEFINE m == Head(ended)
  <1>1. m \in Nodes /\ stage = "running" /\ outcome = "none" /\ edges' = edges
    BY DEF JoinNext, IndInv, TypeOK, SkipInv, AbortFits
  <1> HIDE DEF m
  <1>2. TypeOK /\ SkippedAreDownstream /\ AbortFits
    BY DEF IndInv, SkipInv
  <1>3. task[m] \in Ended => status[m] = "none"
    BY <1>1 DEF IndInv, TasksFit, Ended
  <1>4. ASSUME NEW s \in Counted, task[m] \in {"ok", "err"}, schedule_dependents(m, s),
               status' = [status EXCEPT ![m] = s], UNCHANGED <<doomed, skipped, aborted>>
        PROVE  SkipInv'
    <2>1. \A x \in Nodes : status'[x] = IF x = m THEN s ELSE status[x]
      BY <1>1, <1>2, <1>4 DEF TypeOK
    <2>2. /\ \A x \in Nodes : task'[x] \in {"waiting", "joined", task[x]}
          /\ \A x \in Nodes : x # m /\ task'[x] = "joined" => task[x] = "joined"
          /\ (stage' = "running" /\ outcome' = "none") \/ outcome' = "underflow"
      BY <1>1, <1>2, <1>4 DEF schedule_dependents, Return, TypeOK
    <2>3. SkippedAreDownstream'
      BY <1>1, <1>2, <1>3, <1>4, RecordedElsewhere DEF Counted, Ended
    <2>4. outcome' # "underflow"
      <3>1. IndInv'
        BY JoinNextPreserves
      <3> QED BY <3>1 DEF IndInv, NoInternalError
    <2>5. AbortFits'
      BY <1>1, <1>2, <1>3, <1>4, <2>1, <2>2, <2>4 DEF AbortFits, Counted, Ended
    <2>6. ResultFits'
      BY <2>2, <2>4 DEF ResultFits
    <2> QED BY <2>3, <2>5, <2>6 DEF SkipInv
  <1>5. CASE JoinOk(m)
    BY <1>4, <1>5 DEF JoinOk, Counted
  <1>6. CASE JoinErr(m)
    <2>1. PICK s \in OnError : /\ status' = [status EXCEPT ![m] = s]
                               /\ \/ s = "Fail" /\ JoinFail(m)
                                  \/ s = "Continue" /\ JoinContinue(m)
                                  \/ s = "Skip" /\ JoinSkip(m)
      BY <1>6 DEF JoinErr
    <2>2. task[m] = "err" /\ status[m] = "none"
      BY <1>3, <1>6 DEF JoinErr, Ended
    <2>3. \A x \in Nodes : status'[x] = IF x = m THEN s ELSE status[x]
      BY <1>1, <1>2, <2>1 DEF TypeOK
    <2>4. CASE s = "Fail" /\ JoinFail(m)
      <3>1. SkippedAreDownstream'
        BY <1>1, <1>2, <2>1, <2>2, <2>4, RecordedElsewhere DEF JoinFail
      <3>2. AbortFits'
        BY <1>1, <1>2, <2>3, <2>4 DEF AbortFits, JoinFail
      <3>3. ResultFits'
        BY <1>1, <2>4 DEF ResultFits, JoinFail
      <3> QED BY <3>1, <3>2, <3>3 DEF SkipInv
    <2>5. CASE s = "Continue" /\ JoinContinue(m)
      BY <1>4, <2>1, <2>2, <2>5 DEF JoinContinue, Counted
    <2>6. CASE s = "Skip" /\ JoinSkip(m)
      <3>1. skipped' = skipped \cup {n \in Nodes : m # n /\ path_exists(m, n)}
        BY <1>1, <1>2, <2>2, <2>6, MarksDownstream DEF JoinSkip, Ended
      <3>2. SkippedAreDownstream'
        BY <1>1, <1>2, <2>2, <2>3, <2>6, <3>1, SameGraph DEF SkippedAreDownstream
      <3>3. \A x \in Nodes : task'[x] = IF x = m THEN "joined" ELSE task[x]
        BY <1>1, <1>2, <2>6 DEF JoinSkip, TypeOK
      <3>4. AbortFits'
        BY <1>1, <1>2, <2>2, <2>3, <2>6, <3>3 DEF AbortFits, JoinSkip
      <3>5. ResultFits'
        BY <1>1, <2>6 DEF ResultFits, JoinSkip
      <3> QED BY <3>2, <3>4, <3>5 DEF SkipInv
    <2> QED BY <2>1, <2>4, <2>5, <2>6
  <1>7. CASE JoinPanic(m) \/ JoinAborted(m)
    <2>1. SkippedAreDownstream'
      BY <1>1, <1>2, <1>7, SameGraph DEF SkippedAreDownstream, JoinPanic, JoinAborted
    <2>2. \A x \in Nodes : task'[x] = IF x = m THEN "joined" ELSE task[x]
      BY <1>1, <1>2, <1>7 DEF JoinPanic, JoinAborted, TypeOK
    <2>3. AbortFits'
      BY <1>1, <1>2, <1>7, <2>2 DEF AbortFits, JoinPanic, JoinAborted, Return
    <2>4. ResultFits'
      BY <1>1, <1>7 DEF ResultFits, JoinPanic, JoinAborted, Return
    <2> QED BY <2>1, <2>3, <2>4 DEF SkipInv
  <1> QED BY <1>5, <1>6, <1>7 DEF JoinNext, m

\* What is skipped, aborted and reported fits together in every state.
THEOREM SkipInductive == Spec => []SkipInv
  <1>1. Init => SkipInv
    BY DEF Init, SkipInv, SkippedAreDownstream, AbortFits, ResultFits
  <1>2. IndInv /\ SkipInv /\ [Next]_vars => SkipInv'
    <2> SUFFICES ASSUME IndInv, SkipInv, [Next]_vars PROVE SkipInv'
      OBVIOUS
    <2>1. CASE \E f, t \in Nodes : AddEdge(f, t)
      BY <2>1 DEF AddEdge, run, IndInv, TasksFit, SkipInv, SkippedAreDownstream,
                  AbortFits, ResultFits
    <2>2. CASE Run
      BY <2>2 DEF Run, Return, IndInv, GraphFits, SkipInv, SkippedAreDownstream,
                  AbortFits, ResultFits
    <2>3. ASSUME NEW n \in Nodes, Acquire(n) \/ Finish(n) \/ Abort(n) PROVE SkipInv'
      BY <2>3, SkipInvTask DEF Acquire, Finish, Abort, Ended
    <2>4. CASE JoinNext
      BY <2>4, SkipInvJoin
    <2>5. CASE JoinEnds
      <3>1. SkippedAreDownstream' /\ AbortFits'
        BY <2>5, SameGraph DEF JoinEnds, Return, SkipInv, SkippedAreDownstream, AbortFits
      <3>2. ResultFits'
        BY <2>5, EndAccounts DEF JoinEnds, ResultFits
      <3> QED BY <3>1, <3>2 DEF SkipInv
    <2>6. CASE UNCHANGED vars
      BY <2>6, SameGraph DEF vars, run, SkipInv, SkippedAreDownstream, AbortFits, ResultFits
    <2> QED BY <2>1, <2>2, <2>3, <2>4, <2>5, <2>6 DEF Next
  <1> QED BY <1>1, <1>2, Inductive, PTL DEF Spec

\* Exactly what is downstream of a Skip failure is skipped, in every graph and in
\* every order in which nodes finish.
THEOREM SkipsExactlyDownstream == Spec => []SkippedAreDownstream
  BY SkipInductive, PTL DEF SkipInv

\* The result of a run explains every node that did not run: it is Canceled because
\* another node aborted the run (a node that did run is only if it failed with that
\* code itself), or Skipped because it is downstream of a Skip failure.
THEOREM ResultsAreExplained == Spec => []ResultsExplained
  <1>1. IndInv /\ SkipInv => ResultsExplained
    <2> SUFFICES ASSUME IndInv, SkipInv, stage = "returned", outcome = "ok", NEW n \in Nodes
                 PROVE  /\ Reported(n) = "Canceled" =>
                             \/ status[n] \in OnError /\ error[n] = "Canceled"
                             \/ \E m \in Nodes \ {n} :
                                  status[n] = "none" /\ status[m] = "Fail"
                        /\ Reported(n) = "Skipped" =>
                             \E m \in Nodes \ {n} : status[m] = "Skip" /\ path_exists(m, n)
      BY DEF ResultsExplained
    <2>1. status[n] \in {"none", "Completed"} \cup OnError /\ error[n] # "Skipped"
      BY DEF IndInv, TypeOK, ErrorStatus
    <2>2. CASE status[n] # "none"
      BY <2>1, <2>2 DEF Reported
    <2>3. CASE status[n] = "none"
      <3>1. Reported(n) = "Canceled" => aborted
        BY <2>3 DEF Reported
      <3>2. Reported(n) = "Skipped" => n \in skipped
        BY <2>3 DEF Reported, SkipInv, ResultFits
      <3>3. aborted => \E m \in Nodes \ {n} : status[m] = "Fail"
        BY <2>3 DEF SkipInv, AbortFits
      <3>4. n \in skipped => \E m \in Nodes \ {n} : status[m] = "Skip" /\ path_exists(m, n)
        BY DEF SkipInv, SkippedAreDownstream
      <3> QED BY <2>3, <3>1, <3>2, <3>3, <3>4
    <2> QED BY <2>2, <2>3
  <1> QED BY <1>1, Inductive, SkipInductive, PTL
=============================================================================
