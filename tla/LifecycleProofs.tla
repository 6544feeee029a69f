-------------------------- MODULE LifecycleProofs --------------------------
(***************************************************************************)
(* Machine-checked proofs about the component registry with one client,    *)
(* for any number of components and operations, and about the application  *)
(* on top of it.                                                           *)
(*                                                                         *)
(* ViewInv says what the registry's view of each component is worth at     *)
(* each point of an operation; StartInv, SpawnInv and StopInv say how far  *)
(* the loops have come.                                                    *)
(***************************************************************************)
EXTENDS App, FiniteSetTheorems, TLAPS

(***************************************************************************)
(* The registry                                                            *)
(***************************************************************************)

Typed ==
    /\ state \in [Components -> State] /\ comp \in [Components -> Condition]
    /\ DOMAIN op = Clients /\ DOMAIN pc = Clients /\ DOMAIN outcome = Clients
    /\ DOMAIN failed = Clients /\ DOMAIN token = Clients
    /\ snap \in [Clients -> [Components -> State]]
    /\ todo \in [Clients -> SUBSET Components]
    /\ mine \in [Clients -> SUBSET Components]
    /\ phase \in [Clients -> [Components -> Phase]]

StartLoop == {"start_next", "starting", "cleanup"}
SpawnLoop == {"dispatch", "join"}
StopLoop == {"stop_next", "stopping"}

\* The client awaits the component's start() or stop().
Awaited(c, i) == pc[c] \in {"starting", "cleanup", "stopping"} /\ i = At(c)

\* The registry's view of a component that nobody works on is right.
Settled(i) ==
    /\ state[i] \notin {"Starting", "Stopping"}
    /\ comp[i] \notin {"starting", "partial"}
    /\ comp[i] = "up" <=> state[i] = "Running"

InStart(i) == state[i] = "Starting" /\ comp[i] = "starting"

ViewInv(c) ==
    \A i \in Components :
        /\ phase[c][i] # "none" => pc[c] \in SpawnLoop
        /\ Awaited(c, i) =>
            /\ pc[c] = "starting" => InStart(i)
            /\ pc[c] = "cleanup" => state[i] = "Failed" /\ comp[i] = "partial"
            /\ pc[c] = "stopping" => state[i] = "Stopping" /\ comp[i] = "up"
        /\ phase[c][i] = "queued" =>
            state[i] = "Starting" /\ comp[i] \in {"down", "abandoned", "stuck"}
        /\ phase[c][i] = "starting" => InStart(i)
        /\ phase[c][i] = "panic" => state[i] = "Starting" /\ comp[i] = "abandoned"
        /\ ~Awaited(c, i) /\ phase[c][i] \notin {"queued", "starting", "panic"} => Settled(i)

\* start_all() goes up the registration order: below its position everything runs,
\* above it nothing has changed since the states were copied.
StartInv(c) ==
    pc[c] \in StartLoop =>
        /\ op[c] = "start_all"
        /\ pc[c] # "start_next" => todo[c] # {}
        /\ \A i \in Components, j \in todo[c] : i >= j => i \in todo[c]
        /\ \A i \in Components \ todo[c] : state[i] = "Running"
        /\ \A i \in todo[c] : ~Awaited(c, i) => snap[c][i] = state[i]
        /\ \A i \in mine[c] : i \notin todo[c]

\* start_all_concurrent() works on what was not running; what it has started runs,
\* unless the token was cancelled.
SpawnInv(c) ==
    pc[c] \in SpawnLoop =>
        /\ op[c] = "start_all_concurrent"
        /\ pc[c] = "join" => todo[c] = {}
        /\ mine[c] = {i \in Components : snap[c][i] \in can_start}
        /\ todo[c] \subseteq mine[c]
        /\ \A i \in Components \ mine[c] : state[i] = "Running" /\ phase[c][i] = "none"
        /\ \A i \in todo[c] : phase[c][i] = "none" /\ state[i] = snap[c][i]
        /\ \A i \in mine[c] \ todo[c] :
            phase[c][i] \in {"none", "ok"} /\ ~token[c] => state[i] = "Running"

\* What the stop loop is to stop.
Target(c, i) == op[c] = "stop_all" \/ i \in mine[c]

StopInv(c) ==
    /\ pc[c] = "rollback" => op[c] # "stop_all"
    /\ pc[c] \in StopLoop =>
        /\ pc[c] = "stopping" => todo[c] # {}
        /\ op[c] # "stop_all" => failed[c]
        /\ \A i \in todo[c] : ~Awaited(c, i) => state[i] = "Running"
        /\ \A i \in Components : state[i] = "Running" /\ Target(c, i) => i \in todo[c]

\* What an operation that has returned leaves.
DoneInv(c) ==
    /\ outcome[c] # "conflict"
    /\ pc[c] = "idle" =>
        /\ op[c] = "stop_all" => \A i \in Components : state[i] # "Running"
        /\ op[c] \in {"start_all", "start_all_concurrent"} /\ outcome[c] = "failed" =>
            \A i \in mine[c] : state[i] # "Running"
        /\ op[c] \in {"start_all", "start_all_concurrent"} /\ outcome[c] = "ok" /\ ~token[c] =>
            \A i \in Components : state[i] = "Running"

RegistryInv(c) ==
    /\ Typed
    /\ pc[c] \in {"idle", "rollback"} \cup StartLoop \cup SpawnLoop \cup StopLoop
    /\ ViewInv(c) /\ StartInv(c) /\ SpawnInv(c) /\ StopInv(c) /\ DoneInv(c)

(***************************************************************************)
(* The position of a loop                                                  *)
(***************************************************************************)

\* A non-empty set of components has a first and a last element.
LEMMA Extremes ==
    ASSUME NEW S, S \subseteq Components, S # {}
    PROVE  /\ Min(S) \in S /\ \A j \in S : Min(S) <= j
           /\ Max(S) \in S /\ \A j \in S : Max(S) >= j
<1> DEFINE R == StrictSubsetOrdering(S)
           Up == {{i \in S : i >= x} : x \in S}
           Down == {{i \in S : i <= x} : x \in S}
<1>1. S \subseteq Nat /\ IsFiniteSet(S)
  <2>1. N \in Nat /\ Components = 1..N
    BY RegistryAssumption DEF Components
  <2>2. IsFiniteSet(Components)
    BY <2>1, FS_Interval
  <2>3. S \in SUBSET Components
    OBVIOUS
  <2>4. IsFiniteSet(S)
    BY <2>2, <2>3, FS_Subset
  <2> QED
    BY <2>1, <2>4
<1>2. IsWellFoundedOn(R, SUBSET S)
  BY <1>1, FS_StrictSubsetOrderingWellFounded, FS_FiniteSubsetsOfFinite
<1>3. Up \subseteq SUBSET S /\ Up # {} /\ Down \subseteq SUBSET S /\ Down # {}
  OBVIOUS
<1>4. \E m \in S : \A j \in S : m <= j
  <2>1. PICK D \in Down : \A E \in Down : ~(<<E, D>> \in R)
    <3> HIDE DEF R, Down
    <3> QED
      BY <1>2, <1>3, WFMin
  <2>2. PICK m \in S : D = {i \in S : i <= m}
    OBVIOUS
  <2>3. ASSUME NEW j \in S, ~(m <= j) PROVE FALSE
    <3> DEFINE E == {i \in S : i <= j}
    <3>1. E \in Down
      OBVIOUS
    <3>2. E \subseteq D /\ E # D /\ D \subseteq S
      BY <1>1, <2>2, <2>3
    <3>3. <<E, D>> \in R
      BY <3>2 DEF StrictSubsetOrdering
    <3> QED
      BY <2>1, <3>1, <3>3
  <2> QED
    BY <2>3
<1>5. \E m \in S : \A j \in S : m >= j
  <2>1. PICK D \in Up : \A E \in Up : ~(<<E, D>> \in R)
    <3> HIDE DEF R, Up
    <3> QED
      BY <1>2, <1>3, WFMin
  <2>2. PICK m \in S : D = {i \in S : i >= m}
    OBVIOUS
  <2>3. ASSUME NEW j \in S, ~(m >= j) PROVE FALSE
    <3> DEFINE E == {i \in S : i >= j}
    <3>1. E \in Up
      OBVIOUS
    <3>2. E \subseteq D /\ E # D /\ D \subseteq S
      BY <1>1, <2>2, <2>3
    <3>3. <<E, D>> \in R
      BY <3>2 DEF StrictSubsetOrdering
    <3> QED
      BY <2>1, <3>1, <3>3
  <2> QED
    BY <2>3
<1> QED
  BY <1>4, <1>5 DEF Min, Max

LEMMA AtBounds ==
    ASSUME Typed, NEW c \in Clients, todo[c] # {}
    PROVE  /\ At(c) \in todo[c] /\ At(c) \in Components
           /\ pc[c] \in StopLoop => \A j \in todo[c] : At(c) >= j
           /\ pc[c] \notin StopLoop => \A j \in todo[c] : At(c) <= j
<1>1. todo[c] \subseteq Components
  BY DEF Typed
<1> QED
  BY <1>1, Extremes DEF At, StopLoop

(***************************************************************************)
(* Steps of the registry                                                   *)
(***************************************************************************)

LEMMA CallKept ==
    ASSUME NEW c, Clients = {c}, RegistryInv(c), StartAll(c) \/ StopAll(c) \/ StartAllConcurrent(c)
    PROVE  RegistryInv(c)'
<1> DEFINE Frame == /\ pc[c] = "idle" /\ snap'[c] = state /\ UNCHANGED <<state, comp, phase>>
                    /\ ~failed'[c] /\ ~token'[c] /\ outcome'[c] = "none"
<1>0. /\ \A i \in Components : Settled(i) /\ phase[c][i] = "none"
      /\ \A i \in Components : state[i] \in can_start \/ state[i] = "Running"
  <2>1. pc[c] = "idle"
    BY DEF StartAll, StopAll, StartAllConcurrent, Call
  <2>2. \A i \in Components : Settled(i) /\ phase[c][i] = "none"
    BY <2>1 DEF RegistryInv, ViewInv, Typed, SpawnLoop, Awaited
  <2> QED
    BY <2>2 DEF RegistryInv, Typed, State, can_start, Settled
<1>1. Typed' /\ Frame
  BY DEF RegistryInv, Typed, StartAll, StopAll, StartAllConcurrent, Call, Goto, Those
<1>2. CASE StartAll(c)
  <2>1. pc'[c] = "start_next" /\ op'[c] = "start_all" /\ todo'[c] = Components /\ mine'[c] = {}
    BY <1>2 DEF RegistryInv, Typed, StartAll, Call, Goto
  <2> QED
    BY <1>0, <1>1, <2>1 DEF RegistryInv, ViewInv, StartInv, SpawnInv, StopInv, DoneInv,
       Settled, Awaited, InStart, StartLoop, SpawnLoop, StopLoop
<1>3. CASE StopAll(c)
  <2>1. pc'[c] = "stop_next" /\ op'[c] = "stop_all" /\ todo'[c] = Those(should_stop)
    BY <1>3 DEF RegistryInv, Typed, StopAll, Call, Goto
  <2> QED
    BY <1>0, <1>1, <2>1 DEF RegistryInv, ViewInv, StartInv, SpawnInv, StopInv, DoneInv,
       Settled, Awaited, InStart, StartLoop, SpawnLoop, StopLoop, Those, should_stop
<1>4. CASE StartAllConcurrent(c)
  <2>1. /\ pc'[c] = "dispatch" /\ op'[c] = "start_all_concurrent"
        /\ todo'[c] = Those(can_start) /\ mine'[c] = Those(can_start)
    BY <1>4 DEF RegistryInv, Typed, StartAllConcurrent, Call, Goto
  <2> QED
    BY <1>0, <1>1, <2>1 DEF RegistryInv, ViewInv, StartInv, SpawnInv, StopInv, DoneInv,
       Settled, Awaited, InStart, StartLoop, SpawnLoop, StopLoop, Those
<1> QED
  BY <1>2, <1>3, <1>4

\* The locals an operation keeps while its loop goes on.
Locals(c) ==
    /\ snap'[c] = snap[c] /\ op'[c] = op[c] /\ token'[c] = token[c] /\ phase'[c] = phase[c]

\* A set of components that reaches up to the last one, without its first element.
LEMMA UpperPart ==
    ASSUME NEW S, S \subseteq Components, NEW a \in S, \A j \in S : a <= j,
           \A i \in Components, j \in S : i >= j => i \in S
    PROVE  \A i \in Components, j \in S \ {a} : i >= j => i \in S \ {a}
  BY RegistryAssumption DEF Components

\* The loop of start_all().
LEMMA StartKept ==
    ASSUME NEW c, Clients = {c}, RegistryInv(c),
           StartNext(c) \/ StartReturns(c) \/ StartTimesOut(c) \/ Cleanup(c)
    PROVE  RegistryInv(c)'
<1> USE DEF StartLoop, SpawnLoop, StopLoop
<1>0. /\ pc[c] \in StartLoop /\ op[c] = "start_all"
      /\ \A i \in Components : phase[c][i] = "none"
      /\ \A i \in Components : ~Awaited(c, i) => Settled(i)
      /\ todo[c] # {} => At(c) \in todo[c] /\ At(c) \in Components /\ \A j \in todo[c] : At(c) <= j
      /\ todo[c] \subseteq Components /\ mine[c] \subseteq Components /\ Components \subseteq Nat
  <2>1. pc[c] \in StartLoop /\ Components \subseteq Nat
    BY RegistryAssumption DEF StartNext, StartReturns, StartTimesOut, Cleanup, Components
  <2> QED
    BY <2>1, AtBounds DEF RegistryInv, ViewInv, StartInv, Typed
<1>1. Locals(c)
  BY DEF RegistryInv, Typed, Locals, StartNext, StartReturns, StartTimesOut, Cleanup, locals
<1>2. CASE StartNext(c) /\ todo[c] = {}
  <2>1. /\ pc[c] = "start_next" /\ pc'[c] = "idle" /\ outcome'[c] = "ok"
        /\ UNCHANGED <<state, comp, todo, mine, failed>> /\ Typed'
    BY <1>2 DEF RegistryInv, Typed, StartNext, Return, Goto
  <2> QED
    BY <1>0, <1>1, <1>2, <2>1 DEF RegistryInv, Locals, ViewInv, StartInv, SpawnInv, StopInv,
       DoneInv, Settled, Awaited
<1>3. CASE StartNext(c) /\ todo[c] # {}
  <2>0. pc[c] = "start_next" /\ state[At(c)] = snap[c][At(c)] /\ Settled(At(c))
    BY <1>0, <1>3 DEF StartNext, RegistryInv, StartInv, Awaited
  <2>1. CASE snap[c][At(c)] = "Running"
    <3>1. /\ pc'[c] = pc[c] /\ todo'[c] = todo[c] \ {At(c)} /\ Typed'
          /\ UNCHANGED <<state, comp, mine, failed, outcome>>
      BY <1>3, <2>1 DEF RegistryInv, Typed, StartNext, Advance, can_start
    <3>2. StartInv(c)'
      <4>1. \A i \in Components, j \in todo'[c] : i >= j => i \in todo'[c]
        <5>1. \A i \in Components, j \in todo[c] : i >= j => i \in todo[c]
          BY <1>0 DEF RegistryInv, StartInv
        <5>2. todo[c] \subseteq Components /\ At(c) \in todo[c] /\ \A j \in todo[c] : At(c) <= j
          BY <1>0, <1>3
        <5>3. \A i \in Components, j \in todo[c] \ {At(c)} : i >= j => i \in todo[c] \ {At(c)}
          BY <5>1, <5>2, UpperPart
        <5>4. todo'[c] = todo[c] \ {At(c)}
          BY <3>1
        <5> QED
          BY <5>3, <5>4
      <4>2. \A i \in Components \ todo'[c] : state'[i] = "Running"
        BY <1>0, <2>0, <2>1, <3>1 DEF RegistryInv, StartInv
      <4> QED
        BY <1>0, <1>1, <2>0, <2>1, <3>1, <4>1, <4>2 DEF RegistryInv, Locals, StartInv, Awaited
    <3> QED
      BY <1>0, <1>1, <2>0, <3>1, <3>2 DEF RegistryInv, Locals, ViewInv, SpawnInv, StopInv,
         DoneInv, Settled, Awaited
  <2>2. CASE snap[c][At(c)] \in can_start
    <3>1. /\ pc'[c] = "starting" /\ Typed'
          /\ \A i \in Components : /\ state'[i] = IF i = At(c) THEN "Starting" ELSE state[i]
                                   /\ comp'[i] = IF i = At(c) THEN "starting" ELSE comp[i]
          /\ UNCHANGED <<todo, mine, failed, outcome>>
      BY <1>0, <1>3, <2>2 DEF RegistryInv, Typed, StartNext, Set, Goto, can_start, State, Condition
    <3>2. At(c)' = At(c)
      BY <1>0, <2>0, <3>1 DEF At
    <3>3. StartInv(c)'
      BY <1>0, <1>1, <1>3, <2>0, <2>2, <3>1, <3>2 DEF RegistryInv, Locals, StartInv, Awaited
    <3> QED
      BY <1>0, <1>1, <1>3, <2>0, <3>1, <3>2, <3>3 DEF RegistryInv, Locals, ViewInv, SpawnInv, StopInv,
         DoneInv, Settled, Awaited, InStart
  <2> QED
    BY <1>0, <1>3, <2>0, <2>1, <2>2 DEF Settled, StartNext
<1>4. CASE StartReturns(c)
  <2>0. pc[c] = "starting" /\ todo[c] # {}
    BY <1>4 DEF StartReturns, RegistryInv, StartInv
  <2>1. CASE pc'[c] = "start_next"
    <3>0. /\ state' = [state EXCEPT ![At(c)] = "Running"] /\ comp' = [comp EXCEPT ![At(c)] = "up"]
          /\ todo' = [todo EXCEPT ![c] = @ \ {At(c)}]
          /\ mine' = [mine EXCEPT ![c] = @ \cup {At(c)}]
          /\ pc' = [pc EXCEPT ![c] = "start_next"]
          /\ UNCHANGED <<op, snap, failed, token, phase, outcome>>
      BY <1>4, <2>1 DEF RegistryInv, Typed, StartReturns, Set, Goto, Advance
    <3>1. /\ todo'[c] = todo[c] \ {At(c)} /\ mine'[c] = mine[c] \cup {At(c)} /\ Typed'
          /\ \A i \in Components : /\ state'[i] = IF i = At(c) THEN "Running" ELSE state[i]
                                   /\ comp'[i] = IF i = At(c) THEN "up" ELSE comp[i]
      BY <1>0, <2>0, <3>0 DEF RegistryInv, Typed, State, Condition
    <3>2. StartInv(c)'
      <4>1. \A i \in Components, j \in todo'[c] : i >= j => i \in todo'[c]
        <5>1. \A i \in Components, j \in todo[c] : i >= j => i \in todo[c]
          BY <1>0 DEF RegistryInv, StartInv
        <5>2. todo[c] \subseteq Components /\ At(c) \in todo[c] /\ \A j \in todo[c] : At(c) <= j
          BY <1>0, <2>0
        <5>3. \A i \in Components, j \in todo[c] \ {At(c)} : i >= j => i \in todo[c] \ {At(c)}
          BY <5>1, <5>2, UpperPart
        <5>4. todo'[c] = todo[c] \ {At(c)}
          BY <3>1
        <5> QED
          BY <5>3, <5>4
      <4>2. \A i \in Components \ todo'[c] : state'[i] = "Running"
        BY <1>0, <2>0, <2>1, <3>1 DEF RegistryInv, StartInv
      <4>3. \A i \in todo'[c] : snap'[c][i] = state'[i]
        BY <1>0, <1>1, <2>0, <3>1 DEF RegistryInv, Locals, StartInv, Awaited
      <4> QED
        BY <1>0, <1>1, <2>0, <2>1, <3>1, <4>1, <4>2, <4>3 DEF RegistryInv, Locals, StartInv
    <3> QED
      BY <1>0, <1>1, <2>0, <2>1, <3>0, <3>1, <3>2 DEF RegistryInv, Locals, ViewInv, SpawnInv, StopInv,
         DoneInv, Settled, Awaited
  <2>2. CASE pc'[c] # "start_next"
    <3>1. /\ pc'[c] = "rollback" /\ Typed'
          /\ \A i \in Components : /\ state'[i] = IF i = At(c) THEN "Failed" ELSE state[i]
                                   /\ comp'[i] = IF i = At(c) THEN "down" ELSE comp[i]
          /\ UNCHANGED <<todo, mine, failed, outcome>>
      BY <1>0, <1>4, <2>0, <2>2 DEF RegistryInv, Typed, StartReturns, Set, Goto, State, Condition
    <3> QED
      BY <1>0, <1>1, <2>0, <3>1 DEF RegistryInv, Locals, ViewInv, StartInv, SpawnInv, StopInv,
         DoneInv, Settled, Awaited
  <2> QED
    BY <2>1, <2>2
<1>5. CASE StartTimesOut(c)
  <2>0. pc[c] = "starting" /\ todo[c] # {}
    BY <1>5 DEF StartTimesOut, RegistryInv, StartInv
  <2>1. /\ pc'[c] = "cleanup" /\ Typed'
        /\ \A i \in Components : /\ state'[i] = IF i = At(c) THEN "Failed" ELSE state[i]
                                 /\ comp'[i] = IF i = At(c) THEN "partial" ELSE comp[i]
        /\ UNCHANGED <<todo, mine, failed, outcome>>
    BY <1>0, <1>5, <2>0 DEF RegistryInv, Typed, StartTimesOut, Set, Goto, State, Condition, locals
  <2>2. At(c)' = At(c)
    BY <2>0, <2>1 DEF At
  <2>3. StartInv(c)'
    BY <1>0, <1>1, <2>0, <2>1, <2>2 DEF RegistryInv, Locals, StartInv, Awaited
  <2> QED
    BY <1>0, <1>1, <2>0, <2>1, <2>2, <2>3 DEF RegistryInv, Locals, ViewInv, SpawnInv, StopInv,
       DoneInv, Settled, Awaited
<1>6. CASE Cleanup(c)
  <2>0. pc[c] = "cleanup" /\ todo[c] # {}
    BY <1>6 DEF Cleanup, RegistryInv, StartInv
  <2>1. /\ pc'[c] = "rollback" /\ Typed' /\ comp'[At(c)] \in {"down", "stuck"}
        /\ \A i \in Components : i # At(c) => comp'[i] = comp[i]
        /\ UNCHANGED <<state, todo, mine, failed, outcome>>
    BY <1>0, <1>6, <2>0 DEF RegistryInv, Typed, Cleanup, Goto, Condition, locals
  <2> QED
    BY <1>0, <1>1, <2>0, <2>1 DEF RegistryInv, Locals, ViewInv, StartInv, SpawnInv, StopInv,
       DoneInv, Settled, Awaited
<1> QED
  BY <1>2, <1>3, <1>4, <1>5, <1>6

\* The rollback and the stop loop.
LEMMA StopKept ==
    ASSUME NEW c, Clients = {c}, RegistryInv(c),
           Rollback(c) \/ StopNext(c) \/ StopReturns(c) \/ StopFails(c)
    PROVE  RegistryInv(c)'
<1> USE DEF StartLoop, SpawnLoop, StopLoop
<1>0. /\ pc[c] \in StopLoop \cup {"rollback"}
      /\ \A i \in Components : phase[c][i] = "none"
      /\ \A i \in Components : ~Awaited(c, i) => Settled(i)
      /\ todo[c] # {} => At(c) \in todo[c] /\ At(c) \in Components
      /\ todo[c] \subseteq Components
  <2>1. pc[c] \in StopLoop \cup {"rollback"}
    BY DEF Rollback, StopNext, StopReturns, StopFails
  <2> QED
    BY <2>1, AtBounds DEF RegistryInv, ViewInv, Typed
<1>1. Locals(c) /\ mine'[c] = mine[c]
  BY DEF RegistryInv, Typed, Locals, Rollback, StopNext, StopReturns, StopFails
<1>2. CASE Rollback(c)
  <2>1. /\ pc[c] = "rollback" /\ pc'[c] = "stop_next" /\ failed'[c] /\ Typed'
        /\ todo'[c] = Those(should_stop) \cap mine[c] /\ UNCHANGED <<state, comp, outcome>>
    BY <1>2 DEF RegistryInv, Typed, Rollback, Goto
  <2> QED
    BY <1>0, <1>1, <2>1 DEF RegistryInv, Locals, ViewInv, StartInv, SpawnInv, StopInv,
       DoneInv, Settled, Awaited, Target, Those, should_stop
<1>3. CASE StopNext(c) /\ todo[c] = {}
  <2>1. /\ pc[c] = "stop_next" /\ pc'[c] = "idle" /\ Typed'
        /\ outcome'[c] = (IF failed[c] THEN "failed" ELSE "ok")
        /\ UNCHANGED <<state, comp, todo, failed>>
    BY <1>3 DEF RegistryInv, Typed, StopNext, Return, Goto
  <2>2. ViewInv(c)'
    BY <1>0, <1>1, <2>1 DEF Locals, ViewInv, Settled, Awaited
  <2>3. /\ op[c] # "stop_all" => failed[c]
        /\ \A i \in Components : state[i] = "Running" => ~Target(c, i)
    BY <1>3, <2>1 DEF RegistryInv, StopInv
  <2>4. DoneInv(c)'
    BY <1>0, <1>1, <2>1, <2>3 DEF RegistryInv, Typed, Locals, DoneInv, Target
  <2> QED
    BY <2>1, <2>2, <2>4 DEF RegistryInv, StartInv, SpawnInv, StopInv
<1>4. CASE StopNext(c) /\ todo[c] # {}
  <2>1. /\ pc[c] = "stop_next" /\ pc'[c] = "stopping" /\ Typed'
        /\ \A i \in Components : state'[i] = IF i = At(c) THEN "Stopping" ELSE state[i]
        /\ UNCHANGED <<comp, todo, failed, outcome>>
    BY <1>0, <1>4 DEF RegistryInv, Typed, StopNext, Goto, State
  <2>2. At(c)' = At(c) /\ Settled(At(c)) /\ state[At(c)] = "Running"
    BY <1>0, <1>4, <2>1 DEF At, RegistryInv, StopInv, Awaited
  <2> QED
    BY <1>0, <1>1, <1>4, <2>1, <2>2 DEF RegistryInv, Locals, ViewInv, StartInv, SpawnInv, StopInv,
       DoneInv, Settled, Awaited, Target
<1>5. CASE StopReturns(c) \/ StopFails(c)
  <2>0. pc[c] = "stopping" /\ todo[c] # {}
    BY <1>5 DEF StopReturns, StopFails, RegistryInv, StopInv
  <2>1. /\ pc'[c] = "stop_next" /\ Typed' /\ (failed[c] => failed'[c])
        /\ todo'[c] = todo[c] \ {At(c)} /\ UNCHANGED outcome
        /\ state'[At(c)] \in {"Stopped", "Failed"} /\ comp'[At(c)] \in {"down", "stuck"}
        /\ \A i \in Components \ {At(c)} : state'[i] = state[i] /\ comp'[i] = comp[i]
    <3>1. CASE StopReturns(c)
      BY <1>0, <2>0, <3>1 DEF RegistryInv, Typed, StopReturns, Set, Advance, Goto, State, Condition
    <3>2. CASE StopFails(c)
      BY <1>0, <2>0, <3>2 DEF RegistryInv, Typed, StopFails, Set, Advance, Goto, State, Condition
    <3> QED
      BY <1>5, <3>1, <3>2
  <2> QED
    BY <1>0, <1>1, <2>0, <2>1 DEF RegistryInv, Locals, ViewInv, StartInv, SpawnInv, StopInv,
       DoneInv, Settled, Awaited, Target
<1> QED
  BY <1>2, <1>3, <1>4, <1>5

\* The tasks of start_all_concurrent(), seen from one of them: phase, state and
\* condition of the others are unchanged.
TaskChange(c, i) ==
    \A j \in Components \ {i} :
        phase'[c][j] = phase[c][j] /\ state'[j] = state[j] /\ comp'[j] = comp[j]

LEMMA TaskKept ==
    ASSUME NEW c, Clients = {c}, RegistryInv(c), NEW i \in Components,
           TaskBegins(c, i) \/ TaskReturns(c, i) \/ TaskInterrupted(c, i)
    PROVE  RegistryInv(c)'
<1> USE DEF StartLoop, SpawnLoop, StopLoop
<1>0. /\ pc[c] \in SpawnLoop /\ phase[c][i] \in {"queued", "starting"}
      /\ i \in mine[c] /\ i \notin todo[c] /\ snap[c][i] \in can_start
  <2>1. phase[c][i] \in {"queued", "starting"}
    BY DEF TaskBegins, TaskReturns, TaskInterrupted
  <2> QED
    BY <2>1 DEF RegistryInv, ViewInv, SpawnInv
<1>1. UNCHANGED <<pc, op, snap, todo, mine, failed, token, outcome>>
  BY DEF TaskBegins, TaskReturns, TaskInterrupted, TaskFrame
<1>2. /\ TaskChange(c, i) /\ Typed'
      /\ \/ /\ phase'[c][i] = "starting" /\ InStart(i)'
         \/ /\ phase'[c][i] = "ok" /\ Settled(i)' /\ (~token[c] => state'[i] = "Running")
         \/ /\ phase'[c][i] = "err" /\ Settled(i)'
         \/ /\ phase'[c][i] = "panic" /\ state'[i] = "Starting" /\ comp'[i] = "abandoned"
  <2>0. /\ state[i] = "Starting"
        /\ phase[c][i] = "queued" => comp[i] \in {"down", "abandoned", "stuck"}
    BY <1>0 DEF RegistryInv, ViewInv, InStart
  <2> USE DEF RegistryInv, Typed, State, Condition, Phase, can_start, TaskChange
  <2>1. CASE TaskBegins(c, i) /\ token[c]
    <3>1. /\ state' = [state EXCEPT ![i] = snap[c][i]] /\ UNCHANGED comp
          /\ phase' = [phase EXCEPT ![c][i] = "ok"]
          /\ phase[c][i] = "queued"
      BY <2>1 DEF TaskBegins
    <3> QED
      BY <1>0, <1>1, <2>0, <2>1, <3>1 DEF Settled
  <2>2. CASE TaskBegins(c, i) /\ ~token[c]
    <3>1. /\ comp' = [comp EXCEPT ![i] = "starting"] /\ UNCHANGED state
          /\ phase' = [phase EXCEPT ![c][i] = "starting"]
      BY <2>2 DEF TaskBegins
    <3> QED
      BY <1>1, <2>0, <3>1 DEF InStart
  <2>3. CASE TaskReturns(c, i)
    BY <1>1, <2>0, <2>3 DEF TaskReturns, Set, Settled
  <2>4. CASE TaskInterrupted(c, i)
    BY <1>0, <1>1, <2>4 DEF TaskInterrupted, Set, Settled
  <2> QED
    BY <2>1, <2>2, <2>3, <2>4
<1>3. \A j \in Components : ~Awaited(c, j)'
  BY <1>0, <1>1 DEF Awaited
<1>4. ViewInv(c)'
  BY <1>0, <1>1, <1>2, <1>3 DEF RegistryInv, ViewInv, TaskChange, Settled, InStart, Awaited
<1>5. SpawnInv(c)'
  BY <1>0, <1>1, <1>2 DEF RegistryInv, SpawnInv, TaskChange
<1> QED
  BY <1>0, <1>1, <1>2, <1>4, <1>5 DEF RegistryInv, StartInv, StopInv, DoneInv

\* The client of start_all_concurrent(): it spawns, joins, and ends.
LEMMA SpawnKept ==
    ASSUME NEW c, Clients = {c}, RegistryInv(c),
           Dispatch(c) \/ JoinEnds(c) \/ UserCancel(c) \/ \E i \in Components : Join(c, i)
    PROVE  RegistryInv(c)'
<1> USE DEF StartLoop, SpawnLoop, StopLoop
<1>0. pc[c] \in SpawnLoop /\ \A i \in Components : ~Awaited(c, i)
  BY DEF Dispatch, JoinEnds, UserCancel, Join, Awaited
<1>1. CASE Dispatch(c) /\ todo[c] = {}
  <2>1. /\ pc'[c] = "join" /\ Typed'
        /\ UNCHANGED <<state, comp, op, snap, todo, mine, failed, token, phase, outcome>>
    BY <1>1 DEF RegistryInv, Typed, Dispatch, Goto
  <2> QED
    BY <1>0, <1>1, <2>1 DEF RegistryInv, ViewInv, StartInv, SpawnInv, StopInv, DoneInv,
       Settled, InStart, Awaited
<1>2. CASE Dispatch(c) /\ todo[c] # {}
  <2>0. At(c) \in todo[c] /\ At(c) \in Components /\ Settled(At(c)) /\ state[At(c)] \in can_start
    BY <1>0, <1>2, AtBounds DEF RegistryInv, SpawnInv, ViewInv
  <2>1. /\ state' = [state EXCEPT ![At(c)] = "Starting"]
        /\ phase' = [phase EXCEPT ![c][At(c)] = "queued"]
        /\ todo' = [todo EXCEPT ![c] = @ \ {At(c)}]
        /\ UNCHANGED <<pc, comp, op, snap, mine, failed, token, outcome>>
    BY <1>2 DEF Dispatch, Advance
  <2>2. Typed' /\ TaskChange(c, At(c)) /\ todo'[c] = todo[c] \ {At(c)}
        /\ state'[At(c)] = "Starting" /\ phase'[c][At(c)] = "queued"
    BY <2>0, <2>1 DEF RegistryInv, Typed, TaskChange, State, Phase
  <2>3. comp'[At(c)] \in {"down", "abandoned", "stuck"}
    BY <2>0, <2>1 DEF RegistryInv, Typed, Condition, Settled, can_start
  <2>4. \A i \in Components : ~Awaited(c, i)'
    BY <1>0, <2>1 DEF Awaited
  <2> HIDE DEF StartLoop, SpawnLoop, StopLoop
  <2>5. ViewInv(c)'
    BY <1>0, <2>0, <2>1, <2>2, <2>3, <2>4 DEF RegistryInv, ViewInv, TaskChange, Settled, InStart
  <2>6. SpawnInv(c)'
    BY <1>0, <2>0, <2>1, <2>2 DEF RegistryInv, SpawnInv, TaskChange
  <2> USE DEF StartLoop, SpawnLoop, StopLoop
  <2> QED
    BY <1>0, <2>1, <2>2, <2>5, <2>6 DEF RegistryInv, StartInv, StopInv, DoneInv
<1>3. CASE JoinEnds(c)
  <2>1. /\ pc[c] = "join" /\ \A i \in Components : phase[c][i] = "none" /\ Settled(i)
        /\ UNCHANGED <<state, comp, op, snap, todo, mine, failed, token, phase>>
        /\ \/ pc'[c] = "rollback" /\ UNCHANGED outcome
           \/ pc'[c] = "idle" /\ outcome'[c] = "ok"
        /\ Typed'
    BY <1>0, <1>3 DEF RegistryInv, Typed, JoinEnds, Goto, Return, ViewInv
  <2> QED
    BY <1>0, <2>1 DEF RegistryInv, ViewInv, StartInv, SpawnInv, StopInv, DoneInv,
       Settled, InStart, Awaited
<1>4. CASE UserCancel(c)
  <2>1. /\ token'[c] /\ Typed'
        /\ UNCHANGED <<state, comp, pc, op, snap, todo, mine, failed, phase, outcome>>
    BY <1>4 DEF RegistryInv, Typed, UserCancel
  <2> QED
    BY <1>0, <2>1 DEF RegistryInv, ViewInv, StartInv, SpawnInv, StopInv, DoneInv,
       Settled, InStart, Awaited, At
<1>5. CASE \E i \in Components : Join(c, i)
  <2>0. PICK i \in Components : Join(c, i)
    BY <1>5
  <2>1. /\ phase[c][i] \in {"ok", "err", "panic"} /\ pc[c] = "join"
        /\ UNCHANGED <<comp, pc, op, snap, todo, mine, outcome>>
        /\ token'[c] <=> token[c] \/ phase[c][i] # "ok"
        /\ Typed' /\ TaskChange(c, i) /\ phase'[c][i] = "none"
        /\ state'[i] = IF phase[c][i] = "panic" THEN "Failed" ELSE state[i]
    <3>1. /\ phase[c][i] \in {"ok", "err", "panic"} /\ pc[c] = "join"
          /\ UNCHANGED <<comp, pc, op, snap, todo, mine, outcome>>
          /\ phase' = [phase EXCEPT ![c][i] = "none"]
          /\ state' = IF phase[c][i] = "panic" THEN [state EXCEPT ![i] = "Failed"] ELSE state
      BY <2>0 DEF Join
    <3>2. token'[c] <=> token[c] \/ phase[c][i] # "ok"
      BY <2>0 DEF RegistryInv, Typed, Join
    <3>3. DOMAIN token' = Clients /\ DOMAIN failed' = Clients
      BY <2>0 DEF RegistryInv, Typed, Join
    <3>4. Typed' /\ TaskChange(c, i) /\ phase'[c][i] = "none"
          /\ state'[i] = IF phase[c][i] = "panic" THEN "Failed" ELSE state[i]
      BY <3>1, <3>3 DEF RegistryInv, Typed, TaskChange, State, Phase
    <3> QED
      BY <3>1, <3>2, <3>4
  <2>2. Settled(i)'
    BY <1>0, <2>1 DEF RegistryInv, ViewInv, Settled
  <2>3. \A j \in Components : ~Awaited(c, j)'
    BY <1>0, <2>1 DEF Awaited
  <2>4. ViewInv(c)'
    BY <1>0, <2>1, <2>2, <2>3 DEF RegistryInv, ViewInv, TaskChange, Settled, InStart
  <2>5. SpawnInv(c)'
    BY <1>0, <2>1 DEF RegistryInv, SpawnInv, TaskChange
  <2> QED
    BY <1>0, <2>1, <2>4, <2>5 DEF RegistryInv, StartInv, StopInv, DoneInv
<1> QED
  BY <1>1, <1>2, <1>3, <1>4, <1>5

(***************************************************************************)
(* The theorems about the registry                                         *)
(***************************************************************************)

\* Operations do not overlap: the registry has one client.
OneClient == \E c : Clients = {c}

LEMMA RegistryKept ==
    ASSUME NEW c, Clients = {c}, RegistryInv(c), [Next]_vars
    PROVE  RegistryInv(c)'
<1>1. CASE UNCHANGED vars
  BY <1>1 DEF vars, locals, RegistryInv, Typed, ViewInv, StartInv, SpawnInv, StopInv, DoneInv,
              Settled, InStart, Awaited, At, Target
<1>2. CASE Next
  BY <1>2, CallKept, StartKept, StopKept, TaskKept, SpawnKept DEF Next, Answer, OwnStep
<1> QED
  BY <1>1, <1>2

LEMMA RegistryStarts ==
    ASSUME NEW c, Clients = {c}, Init
    PROVE  RegistryInv(c)
  BY DEF Init, RegistryInv, Typed, ViewInv, StartInv, SpawnInv, StopInv, DoneInv, Settled, Awaited,
         StartLoop, SpawnLoop, StopLoop, State, Condition, Phase

LEMMA RegistryInvHolds ==
    ASSUME NEW c, Clients = {c}
    PROVE  Spec => []RegistryInv(c)
<1>1. Init => RegistryInv(c)
  BY RegistryStarts
<1>2. RegistryInv(c) /\ [Next]_vars => RegistryInv(c)'
  BY RegistryKept
<1> QED
  BY <1>1, <1>2, PTL DEF Spec

LEMMA IdleSettled ==
    ASSUME NEW c, Clients = {c}, RegistryInv(c), pc[c] = "idle"
    PROVE  \A i \in Components : Settled(i)
  BY DEF RegistryInv, ViewInv, Typed, Awaited, SpawnLoop

\* Between operations what is up is tracked as Running, no dropped start() is left
\* without a stop(), and no component is left Starting or Stopping (registry.rs).
THEOREM NothingLeaks ==
    ASSUME OneClient
    PROVE  Spec => []NoLeak
<1>0. PICK c : Clients = {c}
  BY DEF OneClient
<1>1. RegistryInv(c) => NoLeak
  BY <1>0, IdleSettled DEF NoLeak, Quiet, Settled
<1>2. Spec => []RegistryInv(c)
  BY <1>0, RegistryInvHolds
<1> QED
  BY <1>1, <1>2, PTL

\* A failed start leaves nothing it started running; one that reports Ok and was not
\* cancelled leaves everything running (start_all(), start_all_concurrent(),
\* rollback_started()).
THEOREM StartupIsAllOrNothing ==
    ASSUME OneClient
    PROVE  Spec => []AllOrNothing
<1>0. PICK c : Clients = {c}
  BY DEF OneClient
<1>1. RegistryInv(c) => AllOrNothing
  <2> SUFFICES ASSUME RegistryInv(c), pc[c] = "idle" PROVE AllOrNothing
    BY <1>0 DEF AllOrNothing
  <2>1. \A i \in Components : Settled(i)
    BY <1>0, IdleSettled
  <2>2. mine[c] \subseteq Components
    BY <1>0 DEF RegistryInv, Typed
  <2> QED
    BY <1>0, <2>1, <2>2 DEF AllOrNothing, RegistryInv, DoneInv, Settled
<1>2. Spec => []RegistryInv(c)
  BY <1>0, RegistryInvHolds
<1> QED
  BY <1>1, <1>2, PTL

\* After stop_all() no component is running, even when some failed to stop
\* (stop_all_detailed()).
THEOREM StopAllStopsAll ==
    ASSUME OneClient
    PROVE  Spec => []NoneRunsAfterStop
<1>0. PICK c : Clients = {c}
  BY DEF OneClient
<1>1. RegistryInv(c) => NoneRunsAfterStop
  <2> SUFFICES ASSUME RegistryInv(c), pc[c] = "idle" PROVE NoneRunsAfterStop
    BY <1>0 DEF NoneRunsAfterStop
  <2>1. \A i \in Components : Settled(i)
    BY <1>0, IdleSettled
  <2> QED
    BY <1>0, <2>1 DEF NoneRunsAfterStop, RegistryInv, DoneInv, Settled
<1>2. Spec => []RegistryInv(c)
  BY <1>0, RegistryInvHolds
<1> QED
  BY <1>1, <1>2, PTL

\* Components start when all registered before them run, and stop when none of those to
\* be stopped that was registered after them runs (start_all(), stop_all_detailed()).
THEOREM OrderIsKept ==
    ASSUME OneClient
    PROVE  Spec => Order
<1>0. PICK k : Clients = {k}
  BY DEF OneClient
<1> DEFINE Ordered ==
        \A c \in Clients :
            /\ StartNext(c) /\ pc'[c] = "starting" =>
                \A j \in 1..(At(c) - 1) : state[j] = "Running" /\ comp[j] = "up"
            /\ StopNext(c) /\ pc'[c] = "stopping" =>
                \A j \in (At(c) + 1)..N :
                    state[j] = "Running" => op[c] # "stop_all" /\ j \notin mine[c]
<1>1. RegistryInv(k) /\ [Next]_vars => [Ordered]_vars
  <2> SUFFICES ASSUME RegistryInv(k) PROVE Ordered
    OBVIOUS
  <2>0. N \in Nat /\ Components = 1..N /\ todo[k] \subseteq Components
    BY <1>0, RegistryAssumption DEF Components, RegistryInv, Typed
  <2>1. ASSUME StartNext(k), pc'[k] = "starting", NEW j \in 1..(At(k) - 1)
        PROVE  state[j] = "Running" /\ comp[j] = "up"
    <3>1. pc[k] = "start_next" /\ todo[k] # {}
      BY <1>0, <2>1 DEF StartNext, Return, Goto, RegistryInv, Typed
    <3>2. At(k) \in Components /\ \A i \in todo[k] : At(k) <= i
      BY <1>0, <3>1, AtBounds DEF RegistryInv, StopLoop
    <3>3. j \in Components /\ j \notin todo[k]
      BY <2>0, <2>1, <3>2
    <3>4. state[j] = "Running"
      BY <3>1, <3>3 DEF RegistryInv, StartInv, StartLoop
    <3>5. Settled(j)
      BY <1>0, <3>1, <3>3 DEF RegistryInv, ViewInv, Typed, Awaited, SpawnLoop
    <3> QED
      BY <3>4, <3>5 DEF Settled
  <2>2. ASSUME StopNext(k), pc'[k] = "stopping", NEW j \in (At(k) + 1)..N, state[j] = "Running"
        PROVE  op[k] # "stop_all" /\ j \notin mine[k]
    <3>1. pc[k] = "stop_next" /\ todo[k] # {}
      BY <1>0, <2>2 DEF StopNext, Return, Goto, RegistryInv, Typed
    <3>2. At(k) \in Components /\ \A i \in todo[k] : At(k) >= i
      BY <1>0, <3>1, AtBounds DEF RegistryInv, StopLoop
    <3>3. j \in Components /\ j \notin todo[k]
      BY <2>0, <2>2, <3>2
    <3> QED
      BY <2>2, <3>1, <3>3 DEF RegistryInv, StopInv, StopLoop, Target
  <2> QED
    BY <1>0, <2>1, <2>2
<1>2. Spec => []RegistryInv(k)
  BY <1>0, RegistryInvHolds
<1>3. Spec => [][Ordered]_vars
  <2> HIDE DEF Ordered
  <2> QED
    BY <1>1, <1>2, PTL DEF Spec
<1> QED
  BY <1>3, PTL DEF Order

(***************************************************************************)
(* The application                                                         *)
(***************************************************************************)

AllAre(s, k) == \A i \in Components : state[i] = s /\ comp[i] = k
NoneLeft == \A i \in Components : state[i] # "Running" /\ comp[i] \notin {"up", "starting", "partial"}

Busy == {"starting", "stopping", "undoing"}
NotStarted == {"built", "configure", "before_start", "start_all"}
Started == {"ready_check", "after_start", "ready", "started", "before_stop", "stop_all", "undo"}

\* The application's only start_all() starts from nothing.
FirstStart ==
    /\ op["app"] = "start_all"
    /\ \A i \in Components : snap["app"][i] = "Created"
    /\ \A i \in Components : state[i] = "Running" => i \in mine["app"]

\* Its stop_all() has cleanly stopped what it has handled, or noted a failure.
CleanStop ==
    /\ op["app"] = "stop_all"
    /\ pc["app"] \in StopLoop \cup {"idle"}
    /\ ~failed["app"] => \A i \in Components \ todo["app"] : state[i] = "Stopped" /\ comp[i] = "down"
    /\ pc["app"] = "idle" => todo["app"] = {}
    /\ pc["app"] = "idle" /\ outcome["app"] = "ok" => ~failed["app"]

StageInv ==
    /\ stage \notin Busy => pc["app"] = "idle"
    /\ stage \in NotStarted => AllAre("Created", "down")
    /\ stage = "starting" => FirstStart /\ ~token["app"] /\ outcome["app"] \in {"none", "ok", "failed"}
    /\ stage = "starting" /\ pc["app"] = "idle" => outcome["app"] # "none"
    /\ stage \in Started \/ (stage = "rollback" /\ stop_components) => AllAre("Running", "up")
    /\ stage \in {"stopping", "undoing"} => CleanStop
    /\ stage \in {"after_stop", "close", "end"} \/ (stage = "rollback" /\ ~stop_components) => NoneLeft

\* Errors are kept, and the container is closed last.
ErrorInv ==
    /\ stage \in {"after_stop", "close", "end"} /\ ~error => AllAre("Stopped", "down")
    /\ stage \in {"rollback", "undo", "undoing"} => error
    /\ container = "closed" => stage = "end"
    /\ stage = "end" /\ ~error => container = "closed"

AppInv == StageInv /\ ErrorInv

\* What the registry's operations do for the application.
LEMMA RegistryStepKept ==
    ASSUME RegistryInv("app"), Clients = {"app"}, StageInv, RegistryStep
    PROVE  StageInv'
<1> DEFINE c == "app"
<1>0. /\ pc[c] # "idle" /\ stage \in Busy /\ UNCHANGED <<stage, stop_components>>
      /\ c \in Clients
  BY DEF RegistryStep, StartNext, StartReturns, StartTimesOut, Cleanup, Rollback, StopNext,
         StopReturns, StopFails, StageInv, app
<1>1. CASE stage = "starting"
  <2>0. FirstStart /\ ~token[c]
    BY <1>1 DEF StageInv
  <2>1. op'[c] = op[c] /\ snap'[c] = snap[c] /\ token'[c] = token[c]
    BY DEF RegistryStep, StartNext, StartReturns, StartTimesOut, Cleanup, Rollback, StopNext,
           StopReturns, StopFails, locals
  <2>2. /\ \A i \in Components : state'[i] = "Running" => state[i] = "Running" \/ i \in mine'[c]
        /\ mine[c] \subseteq mine'[c]
    <3>1. CASE StartNext(c)
      BY <3>1 DEF RegistryInv, Typed, StartNext, Set
    <3>2. CASE StartReturns(c)
      BY <1>0, <3>2 DEF RegistryInv, Typed, StartReturns, Set
    <3>3. CASE StartTimesOut(c) \/ Cleanup(c) \/ Rollback(c)
      BY <3>3 DEF RegistryInv, Typed, StartTimesOut, Cleanup, Rollback, Set, locals
    <3>4. CASE StopNext(c) \/ StopReturns(c) \/ StopFails(c)
      BY <3>4 DEF RegistryInv, Typed, StopNext, StopReturns, StopFails, Set
    <3> QED
      BY <3>1, <3>2, <3>3, <3>4 DEF RegistryStep
  <2>3. FirstStart'
    BY <2>0, <2>1, <2>2 DEF FirstStart
  <2>4. \/ outcome'[c] = outcome[c] /\ pc'[c] # "idle"
        \/ outcome'[c] \in {"ok", "failed"}
    <3>1. CASE StartNext(c)
      <4>1. todo[c] # {} => snap[c][At(c)] = "Created"
        BY <1>0, <2>0, AtBounds DEF RegistryInv, FirstStart
      <4> QED
        BY <1>0, <3>1, <4>1 DEF RegistryInv, Typed, StartNext, Return, Goto
    <3>2. CASE StartReturns(c) \/ StartTimesOut(c) \/ Cleanup(c) \/ Rollback(c)
               \/ StopReturns(c) \/ StopFails(c)
      BY <1>0, <3>2 DEF RegistryInv, Typed, StartReturns, StartTimesOut, Cleanup, Rollback,
                        StopReturns, StopFails, Goto, locals
    <3>3. CASE StopNext(c)
      BY <1>0, <3>3 DEF RegistryInv, Typed, StopNext, Return, Goto
    <3> QED
      BY <3>1, <3>2, <3>3 DEF RegistryStep
  <2> QED
    BY <1>0, <1>1, <2>0, <2>1, <2>3, <2>4 DEF StageInv, Busy, NotStarted, Started
<1>2. CASE stage \in {"stopping", "undoing"}
  <2>0. CleanStop /\ pc[c] \in StopLoop
    BY <1>0, <1>2 DEF StageInv, CleanStop
  <2>1. CASE StopNext(c) /\ todo[c] = {}
    <3>1. /\ pc'[c] = "idle" /\ outcome'[c] = (IF failed[c] THEN "failed" ELSE "ok")
          /\ UNCHANGED <<op, state, comp, todo, failed>>
      BY <1>0, <2>1 DEF RegistryInv, Typed, StopNext, Return, Goto
    <3> QED
      BY <1>0, <1>2, <2>0, <2>1, <3>1 DEF StageInv, CleanStop, Busy, NotStarted, Started
  <2>2. CASE StopNext(c) /\ todo[c] # {}
    <3>1. At(c) \in todo[c] /\ At(c) \in Components
      BY <1>0, <2>2, AtBounds DEF RegistryInv
    <3>2. /\ pc'[c] = "stopping" /\ UNCHANGED <<op, comp, todo, failed>>
          /\ \A i \in Components \ {At(c)} : state'[i] = state[i]
      BY <1>0, <2>2, <3>1 DEF RegistryInv, Typed, StopNext, Goto
    <3> QED
      BY <1>0, <1>2, <2>0, <3>1, <3>2 DEF StageInv, CleanStop, Busy, NotStarted, Started, StopLoop
  <2>3. CASE StopReturns(c) \/ StopFails(c)
    <3>0. todo[c] # {}
      BY <2>3 DEF StopReturns, StopFails, RegistryInv, StopInv, StopLoop
    <3>1. At(c) \in todo[c] /\ At(c) \in Components
      BY <1>0, <3>0, AtBounds DEF RegistryInv
    <3>2. /\ pc'[c] = "stop_next" /\ UNCHANGED op /\ todo'[c] = todo[c] \ {At(c)}
          /\ \A i \in Components \ {At(c)} : state'[i] = state[i] /\ comp'[i] = comp[i]
          /\ \/ failed'[c]
             \/ failed'[c] = failed[c] /\ state'[At(c)] = "Stopped" /\ comp'[At(c)] = "down"
      BY <1>0, <2>3, <3>1 DEF RegistryInv, Typed, StopReturns, StopFails, Set, Advance, Goto
    <3> QED
      BY <1>0, <1>2, <2>0, <3>1, <3>2 DEF StageInv, CleanStop, Busy, NotStarted, Started, StopLoop
  <2> QED
    BY <2>0, <2>1, <2>2, <2>3 DEF RegistryStep, StopLoop, StartNext, StartReturns, StartTimesOut,
       Cleanup, Rollback
<1> QED
  BY <1>0, <1>1, <1>2 DEF Busy

\* The application's own steps leave the registry alone.
OwnStage ==
    \/ DispatchHook \/ HookReturns \/ GracefulTimeout \/ Start \/ StartAllReturns \/ ReadyCheck
    \/ UndoReturns \/ Signal \/ RunTaskReturns \/ StopAllReturns \/ CloseContainer \/ CancelToken

\* Where the registry's answers take the application.
LEMMA Answers ==
    ASSUME RegistryInv("app"), Clients = {"app"}, StageInv, pc["app"] = "idle"
    PROVE  /\ stage = "starting" /\ Erred => NoneLeft
           /\ stage = "starting" /\ ~Erred => AllAre("Running", "up")
           /\ stage \in {"stopping", "undoing"} => NoneLeft
           /\ stage \in {"stopping", "undoing"} /\ ~Erred => AllAre("Stopped", "down")
<1>1. \A i \in Components : Settled(i)
  BY IdleSettled
<1>2. stage = "starting" /\ Erred => NoneLeft
  <2> SUFFICES ASSUME stage = "starting", Erred PROVE NoneLeft
    OBVIOUS
  <2>1. FirstStart /\ outcome["app"] = "failed"
    BY DEF StageInv, Erred
  <2>2. \A i \in Components : state[i] # "Running"
    BY <2>1 DEF FirstStart, RegistryInv, DoneInv
  <2> QED
    BY <1>1, <2>2 DEF NoneLeft, Settled
<1>3. stage = "starting" /\ ~Erred => AllAre("Running", "up")
  BY <1>1 DEF StageInv, Erred, FirstStart, RegistryInv, DoneInv, AllAre, Settled
<1>4. stage \in {"stopping", "undoing"} => NoneLeft
  BY <1>1 DEF StageInv, CleanStop, RegistryInv, DoneInv, NoneLeft, Settled
<1>5. stage \in {"stopping", "undoing"} /\ ~Erred => AllAre("Stopped", "down")
  BY DEF StageInv, Erred, CleanStop, AllAre
<1> QED
  BY <1>2, <1>3, <1>4, <1>5

\* The application's own steps keep the invariant: the registry stands still, and
\* only the stage, the error and the container move.
LEMMA OwnStageKept ==
    ASSUME RegistryInv("app"), Clients = {"app"}, AppInv, OwnStage
    PROVE  AppInv'
<1> DEFINE Created == AllAre("Created", "down")
           Up == AllAre("Running", "up")
           Clean == AllAre("Stopped", "down")
           Idle == pc["app"] = "idle"
<1>1. UNCHANGED vars
  BY DEF OwnStage, DispatchHook, HookReturns, GracefulTimeout, Start, StartAllReturns, ReadyCheck,
         UndoReturns, Signal, RunTaskReturns, StopAllReturns, CloseContainer, CancelToken
<1>2. /\ Created' = Created /\ Up' = Up /\ Clean' = Clean /\ NoneLeft' = NoneLeft /\ Idle' = Idle
      /\ FirstStart' = FirstStart /\ CleanStop' = CleanStop
      /\ (~token["app"])' = (~token["app"])
      /\ outcome'["app"] = outcome["app"]
  BY <1>1 DEF vars, locals, AllAre, NoneLeft, FirstStart, CleanStop
<1>3. (Created => NoneLeft) /\ (Clean => NoneLeft)
  BY DEF AllAre, NoneLeft
<1>4. Idle => /\ stage = "starting" /\ Erred => NoneLeft
              /\ stage = "starting" /\ ~Erred => Up
              /\ stage \in {"stopping", "undoing"} => NoneLeft
              /\ stage \in {"stopping", "undoing"} /\ ~Erred => Clean
  BY Answers DEF AppInv
<1>5. /\ stage \notin Busy => Idle
      /\ stage \in NotStarted => Created
      /\ stage = "starting" => FirstStart /\ ~token["app"] /\ outcome["app"] \in {"none", "ok", "failed"}
      /\ stage = "starting" /\ Idle => outcome["app"] # "none"
      /\ stage \in Started \/ (stage = "rollback" /\ stop_components) => Up
      /\ stage \in {"stopping", "undoing"} => CleanStop
      /\ stage \in {"after_stop", "close", "end"} \/ (stage = "rollback" /\ ~stop_components) => NoneLeft
      /\ stage \in {"after_stop", "close", "end"} /\ ~error => Clean
      /\ stage \in {"rollback", "undo", "undoing"} => error
      /\ container = "closed" => stage = "end"
      /\ stage = "end" /\ ~error => container = "closed"
  BY DEF AppInv, StageInv, ErrorInv
<1>6. SUFFICES
      /\ stage' \notin Busy => Idle
      /\ stage' \in NotStarted => Created
      /\ stage' = "starting" => FirstStart /\ ~token["app"] /\ outcome["app"] \in {"none", "ok", "failed"}
      /\ stage' = "starting" /\ Idle => outcome["app"] # "none"
      /\ stage' \in Started \/ (stage' = "rollback" /\ stop_components') => Up
      /\ stage' \in {"stopping", "undoing"} => CleanStop
      /\ stage' \in {"after_stop", "close", "end"} \/ (stage' = "rollback" /\ ~stop_components') => NoneLeft
      /\ stage' \in {"after_stop", "close", "end"} /\ ~error' => Clean
      /\ stage' \in {"rollback", "undo", "undoing"} => error'
      /\ container' = "closed" => stage' = "end"
      /\ stage' = "end" /\ ~error' => container' = "closed"
  BY <1>2 DEF AppInv, StageInv, ErrorInv, Busy, NotStarted, Started
<1> HIDE DEF Created, Up, Clean, Idle
<1>7. CASE UNCHANGED <<stage, stop_components, error, container>>
  BY <1>5, <1>7
<1>8. CASE HooksSucceed
  BY <1>3, <1>5, <1>8 DEF HooksSucceed, Proceed, Enter, Busy, NotStarted, Started
<1>9. CASE HooksFail
  BY <1>3, <1>5, <1>9 DEF HooksFail, StartupFails, Proceed, Enter, Busy, NotStarted, Started
<1>10. CASE GracefulTimeout \/ Start \/ ReadyCheck \/ Signal \/ RunTaskReturns
  BY <1>3, <1>5, <1>10 DEF GracefulTimeout, Start, ReadyCheck, Signal, RunTaskReturns, StartupFails,
                           Proceed, Enter, Busy, NotStarted, Started
<1>11. CASE StartAllReturns
  BY <1>3, <1>4, <1>5, <1>11 DEF StartAllReturns, StartupFails, Proceed, Enter, Returned, Idle,
                                 Busy, NotStarted, Started
<1>12. CASE UndoReturns \/ StopAllReturns
  BY <1>3, <1>4, <1>5, <1>12 DEF UndoReturns, StopAllReturns, Proceed, Enter, Returned, Idle,
                                 Busy, NotStarted, Started
<1>13. CASE CloseContainer
  BY <1>3, <1>5, <1>13 DEF CloseContainer, Enter, Busy, NotStarted, Started
<1> QED
  BY <1>7, <1>8, <1>9, <1>10, <1>11, <1>12, <1>13
  DEF OwnStage, DispatchHook, HookReturns, CancelToken

\* The application calls start_all() once, when nothing has started, and stop_all()
\* only when everything is up.
LEMMA CallsKept ==
    ASSUME RegistryInv("app"), Clients = {"app"}, AppInv, CallStartAll \/ CallStopAll
    PROVE  AppInv'
<1>1. "app" \in Clients
  OBVIOUS
<1>2. CASE CallStartAll
  <2>1. /\ stage = "start_all" /\ stage' = "starting"
        /\ UNCHANGED <<stop_components, error, container, state, comp>>
        /\ pc'["app"] = "start_next" /\ op'["app"] = "start_all" /\ snap'["app"] = state
        /\ mine'["app"] = {} /\ outcome'["app"] = "none" /\ token'["app"] = FALSE
    BY <1>1, <1>2 DEF CallStartAll, StartAll, Call, Goto, RegistryInv, Typed
  <2>2. FirstStart'
    BY <2>1 DEF FirstStart, AppInv, StageInv, NotStarted, AllAre
  <2> QED
    BY <2>1, <2>2 DEF AppInv, StageInv, ErrorInv, Busy, NotStarted, Started
<1>3. CASE CallStopAll
  <2>1. /\ stage \in {"stop_all", "undo"}
        /\ stage' = IF stage = "stop_all" THEN "stopping" ELSE "undoing"
        /\ UNCHANGED <<stop_components, error, container, state, comp>>
        /\ pc'["app"] = "stop_next" /\ op'["app"] = "stop_all"
        /\ todo'["app"] = Those(should_stop)
    BY <1>1, <1>3 DEF CallStopAll, StopAll, Call, Goto, RegistryInv, Typed
  <2>2. todo'["app"] = Components
    BY <2>1 DEF Those, should_stop, AppInv, StageInv, Started, AllAre
  <2>3. CleanStop'
    BY <2>1, <2>2 DEF CleanStop, StopLoop
  <2> QED
    BY <2>1, <2>3 DEF AppInv, StageInv, ErrorInv, Busy, NotStarted, Started
<1> QED
  BY <1>2, <1>3

\* Every step of the application is a step of the registry, or leaves it alone.
LEMMA AppStepsRegistry ==
    ASSUME Clients = {"app"}, [AppNext]_appVars
    PROVE  [Next]_vars
<1>1. CASE UNCHANGED appVars
  BY <1>1 DEF appVars
<1>2. CASE OwnStage
  BY <1>2 DEF OwnStage, DispatchHook, HookReturns, GracefulTimeout, Start, StartAllReturns, ReadyCheck,
         UndoReturns, Signal, RunTaskReturns, StopAllReturns, CloseContainer, CancelToken
<1>3. CASE CallStartAll \/ CallStopAll \/ RegistryStep
  BY <1>3 DEF CallStartAll, CallStopAll, RegistryStep, Next, Answer, OwnStep
<1> QED
  BY <1>1, <1>2, <1>3 DEF AppNext, AppStep, OwnStage

LEMMA AppKept ==
    ASSUME Clients = {"app"}, RegistryInv("app"), AppInv, [AppNext]_appVars
    PROVE  AppInv'
<1>1. CASE UNCHANGED appVars
  BY <1>1 DEF appVars, app, vars, locals, AppInv, StageInv, ErrorInv, AllAre, NoneLeft, FirstStart,
              CleanStop
<1>2. CASE RegistryStep
  <2>1. StageInv'
    BY <1>2, RegistryStepKept DEF AppInv
  <2>2. pc["app"] # "idle" /\ UNCHANGED <<stage, error, container>>
    BY <1>2 DEF RegistryStep, StartNext, StartReturns, StartTimesOut, Cleanup, Rollback, StopNext,
                StopReturns, StopFails, app
  <2> QED
    BY <2>1, <2>2 DEF AppInv, StageInv, ErrorInv, Busy
<1> QED
  BY <1>1, <1>2, OwnStageKept, CallsKept DEF AppNext, AppStep, OwnStage

(***************************************************************************)
(* The theorems about the application                                      *)
(***************************************************************************)

\* The application drives the registry through its interface: what it does to the
\* registry is a behaviour of the registry (app.rs, registry.rs).
THEOREM AppImplementsRegistry == AppSpec => Spec
<1>1. AppInit => Init
  BY DEF AppInit
<1>2. [AppNext]_appVars => [Next]_vars
  BY AppAssumption, AppStepsRegistry
<1> QED
  BY <1>1, <1>2, PTL DEF AppSpec, Spec

\* So under the application, too, the registry's view is right between operations,
\* starts are all or nothing, stop_all() leaves nothing running and the order of
\* starting and stopping is kept.
THEOREM AppKeepsRegistrySafe ==
    AppSpec => [](NoLeak /\ AllOrNothing /\ NoneRunsAfterStop) /\ Order
<1>1. OneClient
  BY AppAssumption DEF OneClient
<1>2. Spec => []NoLeak
  BY <1>1, NothingLeaks
<1>3. Spec => []AllOrNothing
  BY <1>1, StartupIsAllOrNothing
<1>4. Spec => []NoneRunsAfterStop
  BY <1>1, StopAllStopsAll
<1>5. Spec => Order
  BY <1>1, OrderIsKept
<1> QED
  BY <1>2, <1>3, <1>4, <1>5, AppImplementsRegistry, PTL

LEMMA AppInvHolds == AppSpec => []AppInv
<1>0. Clients = {"app"}
  BY AppAssumption
<1>1. Spec => []RegistryInv("app")
  <2>1. Init => RegistryInv("app")
    BY <1>0, RegistryStarts
  <2>2. RegistryInv("app") /\ [Next]_vars => RegistryInv("app")'
    BY <1>0, RegistryKept
  <2> QED
    BY <2>1, <2>2, PTL DEF Spec
<1>2. AppInit => AppInv
  BY <1>0 DEF AppInit, Init, AppInv, StageInv, ErrorInv, AllAre, Busy, NotStarted, Started
<1>3. RegistryInv("app") /\ AppInv /\ [AppNext]_appVars => AppInv'
  BY <1>0, AppKept
<1> QED
  BY <1>1, <1>2, <1>3, AppImplementsRegistry, PTL DEF AppSpec

\* From the after_start hooks to the before_stop hooks every component is up and
\* tracked as Running; however the application ends, no component stays up and none
\* that start_all() gave up on is left uncleaned (app.rs).
THEOREM StartupIsAllOrNothingToTheEnd == AppSpec => []AllUpOrDown
<1>1. AppInv => AllUpOrDown
  BY DEF AppInv, StageInv, AllUpOrDown, NoneUp, NoneLeft, AllAre, Started, Components
<1> QED
  BY <1>1, AppInvHolds, PTL

\* after_stop hooks run, and the container is closed, only when no component is up
\* any more, whatever failed before (stop()).
THEOREM ReleaseIsOrdered == AppSpec => []ReleasedInOrder
<1>1. AppInv => ReleasedInOrder
  BY DEF AppInv, StageInv, ErrorInv, ReleasedInOrder, NoneUp, NoneLeft, Components
<1> QED
  BY <1>1, AppInvHolds, PTL

\* An application that reports success has stopped every component cleanly and closed
\* its container: no error on the way was lost (start(), run(), stop()).
THEOREM SuccessIsClean == AppSpec => []OkMeansClean
<1>1. AppInv => OkMeansClean
  BY DEF AppInv, ErrorInv, OkMeansClean, AllAre, Components
<1> QED
  BY <1>1, AppInvHolds, PTL
=============================================================================
