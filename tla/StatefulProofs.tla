--------------------------- MODULE StatefulProofs ---------------------------
(***************************************************************************)
(* Machine-checked proofs about the keyed accumulators, for every number   *)
(* of threads, keys and operations and all limits.                         *)
(*                                                                         *)
(* The properties count; the inductive invariant says the same without     *)
(* numbers.  HandedOver: an accumulator is held by one key, or one thread  *)
(* has still to close it, or it was closed once.  OnePlace: a value is in  *)
(* one accumulator's buffer or flushes, or was dropped.  LimitsWatched: a  *)
(* thread that will act on it is under way wherever a buffer is over a     *)
(* limit.                                                                  *)
(***************************************************************************)
EXTENDS Stateful, FiniteSetTheorems, SequenceLemmas

\* Thread t has still to close accumulator a.
WillClose(t, a) ==
    \/ pc[t] = "close_swept" /\ acc[t] = a
    \/ pc[t] = "closing" /\ \E k \in Keys : <<k, a>> \in candidates[t]

LocalsFit ==
    /\ created <= calls
    /\ \A t \in Threads :
        /\ pc[t] \in {"append", "measure", "pop", "trigger", "flush", "touch", "close_swept"}
           => acc[t] # 0
        /\ pc[t] = "remove" => key[t] \in Keys
        /\ pc[t] = "closing" =>
            \A k, l \in Keys, a \in Accs :
                <<k, a>> \in candidates[t] /\ <<l, a>> \in candidates[t] => k = l

HandedOver ==
    /\ \A k, l \in Keys : accumulators[k] = accumulators[l] /\ accumulators[k] # 0 => k = l
    /\ \A t, u \in Threads, a \in Accs : WillClose(t, a) /\ WillClose(u, a) => t = u
    /\ \A a \in Accs, k \in Keys : accumulators[k] = a =>
        closes[a] = 0 /\ \A t \in Threads : ~WillClose(t, a)
    /\ \A a \in Accs, t \in Threads : WillClose(t, a) => closes[a] = 0
    /\ \A a \in 1..created :
        \/ closes[a] = 1
        \/ \E k \in Keys : accumulators[k] = a
        \/ \E t \in Threads : WillClose(t, a)
    /\ \A a \in Accs : a > created => closes[a] = 0
    /\ closed => \A k \in Keys : accumulators[k] = 0

LifeInv == CallsTyped /\ LocalsFit /\ HandedOver

\* All that an accumulator has returned or still holds, in order.
Kept(a) == flushed[a] \o values[a]

OnePlace ==
    /\ \A a \in Accs : Ascending(Kept(a))
    /\ \A a, b \in Accs : a # b => ToSet(Kept(a)) \cap ToSet(Kept(b)) = {}
    /\ \A a \in Accs : ToSet(Kept(a)) \cap dropped = {}
    /\ \A v \in 1..stored : v \in dropped \/ \E a \in Accs : v \in ToSet(Kept(a))

ValuesInv == StoresTyped /\ OnePlace

-----------------------------------------------------------------------------

\* A thread copies and closes accumulators that were created.
LEMMA WillCloseCreated ==
    ASSUME CallsTyped, NEW t \in Threads, NEW a, WillClose(t, a)
    PROVE  a \in 0..created
<1>1. candidates[t] \subseteq Keys \X (1..created) /\ acc[t] \in 0..created /\ created \in Nat
  BY DEF CallsTyped
<1>2. ASSUME NEW k, <<k, a>> \in candidates[t] PROVE a \in 1..created
  <2>1. <<k, a>> \in Keys \X (1..created)
    BY <1>1, <1>2
  <2> QED
    BY <2>1
<1>3. CASE \E k \in Keys : <<k, a>> \in candidates[t]
  BY <1>1, <1>2, <1>3
<1>4. CASE acc[t] = a
  BY <1>1, <1>4
<1> QED
  BY <1>3, <1>4 DEF WillClose

\* Nobody's duty to close changes when nobody moves.
LEMMA WillCloseFramed ==
    ASSUME UNCHANGED <<pc, acc, candidates>>
    PROVE  \A t, a : WillClose(t, a)' <=> WillClose(t, a)
BY DEF WillClose

\* Nothing is handed over when the map, the duties and the counts stay.
LEMMA HandedOverFramed ==
    ASSUME CallsTyped, HandedOver, UNCHANGED <<accumulators, closed, created, closes>>,
           \A t \in Threads, a \in Accs : WillClose(t, a)' <=> WillClose(t, a)
    PROVE  HandedOver'
<1>1. 1..created \subseteq Accs
  BY StatefulAssumption DEF CallsTyped, Accs
<1> QED
  BY <1>1 DEF HandedOver

\* The lifecycle of accumulators starts with none.
LEMMA LifeInit == Init => LifeInv
<1> SUFFICES ASSUME Init PROVE LifeInv
  OBVIOUS
<1>1. CallsTyped
  BY StatefulAssumption DEF Init, CallsTyped
<1>3. LocalsFit
  BY DEF Init, LocalsFit
<1>4. \A t \in Threads, a \in Accs : ~WillClose(t, a)
  BY DEF Init, WillClose
<1>5. HandedOver
  BY <1>4, StatefulAssumption DEF Init, HandedOver, Accs
<1> QED
  BY <1>1, <1>3, <1>5 DEF LifeInv

\* Manager::append() creates an accumulator under a key that has none.
LEMMA LifeGetOrCreate ==
    ASSUME LifeInv, NEW t \in Threads, NEW k \in Keys, GetOrCreate(t, k) PROVE LifeInv'
<1> USE StatefulAssumption DEF LifeInv, Accs
<1>2. CASE closed
  <2>1. /\ calls' = calls + 1 /\ calls < MaxOps
        /\ UNCHANGED <<accumulators, created, pc, acc, closed, key, candidates, closes>>
    BY <1>2 DEF GetOrCreate, Call, history
  <2>2. CallsTyped' /\ LocalsFit'
    BY <2>1 DEF CallsTyped, LocalsFit
  <2>3. HandedOver'
    BY <2>1, WillCloseFramed DEF HandedOver
  <2> QED
    BY <2>2, <2>3
<1>3. CASE ~closed
  <2> DEFINE new == accumulators[k] = 0
             a == IF new THEN created + 1 ELSE accumulators[k]
  <2>1. /\ accumulators' = [accumulators EXCEPT ![k] = a]
        /\ created' = IF new THEN created + 1 ELSE created
        /\ acc' = [acc EXCEPT ![t] = a] /\ pc' = [pc EXCEPT ![t] = "append"]
        /\ calls' = calls + 1 /\ calls < MaxOps /\ pc[t] = "idle"
        /\ UNCHANGED <<closed, key, candidates, closes>>
    BY <1>3 DEF GetOrCreate, Call, At, Goto, history
  <2>2. /\ created \in Nat /\ created' \in Nat /\ created <= created'
        /\ a \in 1..created' /\ created' <= calls'
    BY <2>1 DEF CallsTyped, LocalsFit
  <2>3. CallsTyped' /\ LocalsFit'
    BY <2>1, <2>2 DEF CallsTyped, LocalsFit
  <2>4. \A u \in Threads, b \in Accs : WillClose(u, b) => b <= created
    <3> SUFFICES ASSUME NEW u \in Threads, NEW b \in Accs, WillClose(u, b) PROVE b <= created
      OBVIOUS
    <3>1. b \in 0..created
      BY WillCloseCreated
    <3> QED
      BY <2>2, <3>1
  <2>5. \A u \in Threads, b \in Accs : WillClose(u, b)' <=> WillClose(u, b)
    <3> SUFFICES ASSUME NEW u \in Threads, NEW b \in Accs
                 PROVE  WillClose(u, b)' <=> WillClose(u, b)
      OBVIOUS
    <3> QED
      BY <2>1 DEF WillClose, CallsTyped
  <2>6. HandedOver'
    <3>1. \A l, m \in Keys : (accumulators[l] = accumulators[m] /\ accumulators[l] # 0)' => l = m
      BY <2>1, <2>2 DEF CallsTyped, HandedOver
    <3>2. \A b \in Accs, l \in Keys : accumulators'[l] = b =>
            closes'[b] = 0 /\ \A u \in Threads : ~WillClose(u, b)'
      BY <2>1, <2>2, <2>4, <2>5 DEF CallsTyped, HandedOver
    <3>3. \A b \in 1..created' :
            \/ closes'[b] = 1
            \/ \E l \in Keys : accumulators'[l] = b
            \/ \E u \in Threads : WillClose(u, b)'
      <4>1. /\ \A l \in Keys : accumulators[l] # 0 => accumulators'[l] = accumulators[l]
            /\ new => accumulators'[k] = created + 1
        BY <2>1 DEF CallsTyped
      <4>2. \A b \in 1..created' : b \in 1..created \/ (new /\ b = created + 1)
        BY <2>1, <2>2
      <4>3. 1..created \subseteq Accs /\ \A b \in 1..created : b # 0
        BY DEF CallsTyped, LocalsFit
      <4>4. ASSUME NEW b \in 1..created
            PROVE  \/ closes'[b] = 1
                   \/ \E l \in Keys : accumulators'[l] = b
                   \/ \E u \in Threads : WillClose(u, b)'
        <5>1. \/ closes[b] = 1
              \/ \E l \in Keys : accumulators[l] = b
              \/ \E u \in Threads : WillClose(u, b)
          BY DEF HandedOver
        <5>2. closes' = closes
          BY <2>1
        <5> QED
          BY <2>5, <4>1, <4>3, <5>1, <5>2
      <4> QED
        BY <4>1, <4>2, <4>4
    <3> QED
      BY <1>3, <2>1, <2>2, <2>5, <3>1, <3>2, <3>3 DEF CallsTyped, HandedOver
  <2> QED
    BY <2>3, <2>6
<1> QED
  BY <1>2, <1>3

\* The sections of Accumulator::append(), and a flush, hand over nothing.
LEMMA LifeUntouched ==
    ASSUME LifeInv, NEW t \in Threads,
           pc[t] \in {"append", "measure", "pop", "trigger", "flush", "touch"},
           NEW label \in {"measure", "pop", "trigger", "flush", "touch", "idle"},
           pc' = [pc EXCEPT ![t] = label],
           UNCHANGED <<manager, acc, key, candidates, calls, closes>>
    PROVE  LifeInv'
<1> USE DEF LifeInv, manager
<1>1. CallsTyped' /\ LocalsFit'
  BY DEF CallsTyped, LocalsFit
<1>2. \A u \in Threads, b \in Accs : WillClose(u, b)' <=> WillClose(u, b)
  <2> SUFFICES ASSUME NEW u \in Threads, NEW b \in Accs
               PROVE  WillClose(u, b)' <=> WillClose(u, b)
    OBVIOUS
  <2> QED
    BY DEF WillClose, CallsTyped
<1>3. HandedOver'
  BY <1>2, HandedOverFramed
<1> QED
  BY <1>1, <1>3

\* The copy a sweep or a close makes: keys with the accumulators they map to.
LEMMA HeldPairs ==
    ASSUME CallsTyped
    PROVE  /\ Held \subseteq Keys \X (1..created)
           /\ \A k, a : <<k, a>> \in Held <=> k \in Keys /\ a = accumulators[k] /\ a # 0
<1>1. \A k \in Keys : accumulators[k] # 0 => accumulators[k] \in 1..created
  BY DEF CallsTyped
<1>2. \A x : x \in Held <=> \E k \in Keys : accumulators[k] # 0 /\ x = <<k, accumulators[k]>>
  BY DEF Held
<1>3. Held \subseteq Keys \X (1..created)
  BY <1>1, <1>2
<1>4. \A k, a : <<k, a>> \in Held <=> k \in Keys /\ a = accumulators[k] /\ a # 0
  BY <1>2
<1> QED
  BY <1>3, <1>4

\* A sweep copies, tests and skips without handing over anything.
LEMMA LifeSweep ==
    ASSUME LifeInv, NEW t \in Threads, Cleanup(t) \/ TestExpired(t) PROVE LifeInv'
<1> USE StatefulAssumption DEF LifeInv
<1>1. /\ UNCHANGED <<accumulators, closed, created, acc, closes>>
      /\ calls' \in 0..MaxOps /\ calls <= calls'
  BY DEF Cleanup, TestExpired, Call, manager, history, CallsTyped
<1>2. PICK S, label :
        /\ candidates' = [candidates EXCEPT ![t] = S] /\ pc' = [pc EXCEPT ![t] = label]
        /\ S \subseteq Keys \X (1..created) /\ label \in {"idle", "sweep", "remove"}
        /\ pc[t] \in {"idle", "sweep"}
  <2>1. CASE Cleanup(t)
    BY <2>1, HeldPairs DEF Cleanup, Call, At, Goto
  <2>2. CASE TestExpired(t)
    <3>1. PICK c \in candidates[t] :
            /\ candidates' = [candidates EXCEPT ![t] = @ \ {c}]
            /\ \/ pc' = [pc EXCEPT ![t] = "remove"]
               \/ pc' = [pc EXCEPT ![t] = "idle"]
               \/ pc' = [pc EXCEPT ![t] = "sweep"]
      BY <2>2 DEF TestExpired, Goto
    <3>2. candidates[t] \ {c} \subseteq Keys \X (1..created) /\ pc[t] = "sweep"
      BY <2>2 DEF TestExpired, At, CallsTyped
    <3> QED
      BY <3>1, <3>2
  <2> QED
    BY <2>1, <2>2
<1>3. /\ key' \in [Threads -> Keys \cup {NoKey}]
      /\ pc'[t] = "remove" => key'[t] \in Keys
      /\ \A u \in Threads \ {t} : key'[u] = key[u]
  <2>1. CASE Cleanup(t)
    BY <2>1 DEF Cleanup, Call, Goto, At, CallsTyped
  <2>2. CASE TestExpired(t)
    <3>1. PICK c \in candidates[t] :
            \/ key' = [key EXCEPT ![t] = c[1]]
            \/ key' = key /\ pc'[t] # "remove"
      BY <2>2 DEF TestExpired, Goto, CallsTyped
    <3>2. candidates[t] \subseteq Keys \X (1..created)
      BY DEF CallsTyped
    <3>3. c[1] \in Keys
      BY <3>2
    <3> QED
      BY <3>1, <3>3 DEF CallsTyped
  <2> QED
    BY <2>1, <2>2
<1>4. CallsTyped'
  BY <1>1, <1>2, <1>3 DEF CallsTyped
<1>5. LocalsFit'
  BY <1>1, <1>2, <1>3 DEF CallsTyped, LocalsFit
<1>6. \A u \in Threads, b \in Accs : WillClose(u, b)' <=> WillClose(u, b)
  <2> SUFFICES ASSUME NEW u \in Threads, NEW b \in Accs
               PROVE  WillClose(u, b)' <=> WillClose(u, b)
    OBVIOUS
  <2> QED
    BY <1>1, <1>2 DEF WillClose, CallsTyped
<1>7. HandedOver'
  BY <1>1, <1>6, HandedOverFramed
<1> QED
  BY <1>4, <1>5, <1>7

\* A sweep takes an accumulator out of the map; from then on it has to close it.
LEMMA LifeRemoveKey ==
    ASSUME LifeInv, NEW t \in Threads, RemoveKey(t) PROVE LifeInv'
<1> USE StatefulAssumption DEF LifeInv
<1> DEFINE k == key[t]
           a == accumulators[k]
<1>1. /\ UNCHANGED <<created, candidates, closed, calls, closes>> /\ pc[t] = "remove"
      /\ key' = [key EXCEPT ![t] = NoKey] /\ k \in Keys /\ a \in 0..created
  BY DEF RemoveKey, At, LocalsFit, CallsTyped
<1>2. CASE a = 0
  <2>1. /\ UNCHANGED <<accumulators, acc>>
        /\ pc' = [pc EXCEPT ![t] = "idle"] \/ pc' = [pc EXCEPT ![t] = "sweep"]
    BY <1>2 DEF RemoveKey, Goto, NextCandidate
  <2>2. CallsTyped' /\ LocalsFit'
    BY <1>1, <2>1 DEF CallsTyped, LocalsFit
  <2>3. \A u \in Threads, b \in Accs : WillClose(u, b)' <=> WillClose(u, b)
    <3> SUFFICES ASSUME NEW u \in Threads, NEW b \in Accs
                 PROVE  WillClose(u, b)' <=> WillClose(u, b)
      OBVIOUS
    <3> QED
      BY <1>1, <2>1 DEF WillClose, CallsTyped
  <2> QED
    BY <1>1, <2>1, <2>2, <2>3, HandedOverFramed
<1>3. CASE a # 0
  <2>1. /\ accumulators' = [accumulators EXCEPT ![k] = 0]
        /\ acc' = [acc EXCEPT ![t] = a]
        /\ pc' = [pc EXCEPT ![t] = "close_swept"]
    BY <1>3 DEF RemoveKey, Goto
  <2>2. CallsTyped' /\ LocalsFit'
    BY <1>1, <1>3, <2>1 DEF CallsTyped, LocalsFit
  <2>3. \A u \in Threads, b \in Accs :
          WillClose(u, b)' <=> WillClose(u, b) \/ (u = t /\ b = a)
    <3> SUFFICES ASSUME NEW u \in Threads, NEW b \in Accs
                 PROVE  WillClose(u, b)' <=> WillClose(u, b) \/ (u = t /\ b = a)
      OBVIOUS
    <3> QED
      BY <1>1, <2>1 DEF WillClose, CallsTyped
  <2>4. 1..created \subseteq Accs /\ a \in Accs
    BY <1>1, <1>3 DEF CallsTyped, Accs
  <2>5. ~\E u \in Threads : WillClose(u, a)
    BY <1>1, <2>4 DEF HandedOver
  <2>6. HandedOver'
    <3>1. \A l, m \in Keys : (accumulators[l] = accumulators[m] /\ accumulators[l] # 0)' => l = m
      BY <1>1, <2>1 DEF CallsTyped, HandedOver
    <3>2. \A u, v \in Threads, b \in Accs : (WillClose(u, b) /\ WillClose(v, b))' => u = v
      BY <2>3, <2>5 DEF HandedOver
    <3>3. \A b \in Accs, l \in Keys : accumulators'[l] = b =>
            closes'[b] = 0 /\ \A u \in Threads : ~WillClose(u, b)'
      BY <1>1, <2>1, <2>3 DEF CallsTyped, HandedOver, Accs
    <3>4. \A b \in 1..created' :
            \/ closes'[b] = 1
            \/ \E l \in Keys : accumulators'[l] = b
            \/ \E u \in Threads : WillClose(u, b)'
      BY <1>1, <2>1, <2>3, <2>4 DEF CallsTyped, HandedOver
    <3> QED
      BY <1>1, <2>1, <2>3, <2>4, <3>1, <3>2, <3>3, <3>4 DEF CallsTyped, HandedOver
  <2> QED
    BY <2>2, <2>6
<1> QED
  BY <1>2, <1>3

\* A sweep closes what it took out of the map.
LEMMA LifeCloseSwept ==
    ASSUME LifeInv, NEW t \in Threads, CloseSwept(t) PROVE LifeInv'
<1> USE StatefulAssumption DEF LifeInv
<1>1. /\ UNCHANGED <<accumulators, closed, created, acc, key, candidates, calls>>
      /\ pc[t] = "close_swept" /\ acc[t] \in 1..created
      /\ closes' = [closes EXCEPT ![acc[t]] = @ + 1]
      /\ pc' = [pc EXCEPT ![t] = "idle"] \/ pc' = [pc EXCEPT ![t] = "sweep"]
  <2>1. pc[t] = "close_swept"
    BY DEF CloseSwept, At
  <2>2. acc[t] \in 1..created
    BY <2>1 DEF LocalsFit, CallsTyped
  <2> QED
    BY <2>1, <2>2 DEF CloseSwept, StoreClose, Goto, NextCandidate, manager
<1>2. 1..created \subseteq Accs
  BY DEF CallsTyped, Accs
<1>3. CallsTyped' /\ LocalsFit'
  BY <1>1, <1>2 DEF CallsTyped, LocalsFit
<1>4. \A u \in Threads, b \in Accs : WillClose(u, b)' <=> WillClose(u, b) /\ u # t
  <2> SUFFICES ASSUME NEW u \in Threads, NEW b \in Accs
               PROVE  WillClose(u, b)' <=> WillClose(u, b) /\ u # t
    OBVIOUS
  <2> QED
    BY <1>1 DEF WillClose, CallsTyped
<1>5. \A b \in Accs : WillClose(t, b) <=> b = acc[t]
  BY <1>1 DEF WillClose
<1>6. HandedOver'
  BY <1>1, <1>2, <1>4, <1>5 DEF CallsTyped, HandedOver
<1> QED
  BY <1>3, <1>6

\* Manager::close() takes all accumulators out of the map and has to close them.
LEMMA LifeClose ==
    ASSUME LifeInv, NEW t \in Threads, Close(t) PROVE LifeInv'
<1> USE StatefulAssumption DEF LifeInv
<1>1. /\ UNCHANGED <<created, acc, key, closes>> /\ calls' = calls + 1 /\ calls < MaxOps
      /\ accumulators' = [k \in Keys |-> 0] /\ closed' = TRUE
      /\ candidates' = [candidates EXCEPT ![t] = Held] /\ pc[t] = "idle"
      /\ pc' = [pc EXCEPT ![t] = IF Held = {} THEN "idle" ELSE "closing"]
  BY DEF Close, Call, At, Goto, history
<1>2. /\ Held \subseteq Keys \X (1..created)
      /\ \A k, a : <<k, a>> \in Held <=> k \in Keys /\ a = accumulators[k] /\ a # 0
  BY HeldPairs
<1>3. CallsTyped'
  BY <1>1, <1>2 DEF CallsTyped
<1>4. LocalsFit'
  BY <1>1, <1>2 DEF CallsTyped, LocalsFit, HandedOver
<1>5. 1..created \subseteq Accs
  BY DEF CallsTyped, Accs
<1>6. \A u \in Threads, a \in Accs :
        WillClose(u, a)' <=> WillClose(u, a) \/ (u = t /\ \E k \in Keys : accumulators[k] = a)
  <2> SUFFICES ASSUME NEW u \in Threads, NEW a \in Accs
               PROVE  WillClose(u, a)' <=> WillClose(u, a) \/ (u = t /\ \E k \in Keys : accumulators[k] = a)
    OBVIOUS
  <2>1. CASE u # t
    BY <1>1, <2>1 DEF WillClose, CallsTyped
  <2>2. CASE u = t
    <3>1. candidates'[t] = Held /\ ~WillClose(t, a)
      BY <1>1 DEF CallsTyped, WillClose
    <3>2. WillClose(t, a)' <=> \E k \in Keys : <<k, a>> \in Held
      BY <1>1, <3>1 DEF WillClose, CallsTyped
    <3>3. a # 0
      BY DEF Accs
    <3>4. (\E k \in Keys : <<k, a>> \in Held) <=> \E k \in Keys : accumulators[k] = a
      <4>1. \A k \in Keys : <<k, a>> \in Held <=> a = accumulators[k] /\ a # 0
        BY <1>2
      <4> QED
        BY <3>3, <4>1
    <3> QED
      BY <2>2, <3>1, <3>2, <3>4
  <2> QED
    BY <2>1, <2>2
<1>7. HandedOver'
  <2>1. \A k \in Keys : accumulators'[k] = 0
    BY <1>1
  <2>2. 0 \notin Accs
    BY DEF Accs
  <2>3. \A u, v \in Threads, a \in Accs : (WillClose(u, a) /\ WillClose(v, a))' => u = v
    BY <1>6 DEF HandedOver
  <2>4. \A a \in Accs, u \in Threads : WillClose(u, a)' => closes'[a] = 0
    BY <1>1, <1>6 DEF HandedOver
  <2>5. \A a \in 1..created' : closes'[a] = 1 \/ \E u \in Threads : WillClose(u, a)'
    BY <1>1, <1>5, <1>6 DEF HandedOver
  <2> QED
    BY <1>1, <2>1, <2>2, <2>3, <2>4, <2>5 DEF HandedOver
<1> QED
  BY <1>3, <1>4, <1>7

\* close() closes what it took, one accumulator at a time.
LEMMA LifeCloseDrained ==
    ASSUME LifeInv, NEW t \in Threads, CloseDrained(t) PROVE LifeInv'
<1> USE StatefulAssumption DEF LifeInv
<1>1. PICK c \in candidates[t] :
        /\ closes' = [closes EXCEPT ![c[2]] = @ + 1]
        /\ candidates' = [candidates EXCEPT ![t] = @ \ {c}]
        /\ pc' = [pc EXCEPT ![t] = IF candidates[t] = {c} THEN "idle" ELSE "closing"]
  BY DEF CloseDrained, StoreClose, Goto
<1>2. UNCHANGED <<accumulators, closed, created, acc, key, calls>> /\ pc[t] = "closing"
  BY DEF CloseDrained, At, manager
<1>3. PICK k \in Keys, a \in 1..created : c = <<k, a>>
  <2>1. candidates[t] \subseteq Keys \X (1..created)
    BY DEF CallsTyped
  <2> QED
    BY <2>1
<1>4. closes' = [closes EXCEPT ![a] = @ + 1]
  BY <1>1, <1>3
<1>5. 1..created \subseteq Accs
  BY DEF CallsTyped, Accs
<1>6. CallsTyped'
  BY <1>1, <1>2, <1>4, <1>5 DEF CallsTyped
<1>7. LocalsFit'
  BY <1>1, <1>2 DEF CallsTyped, LocalsFit
<1>8. \A u \in Threads, b \in Accs : WillClose(u, b)' <=> WillClose(u, b) /\ <<u, b>> # <<t, a>>
  <2> SUFFICES ASSUME NEW u \in Threads, NEW b \in Accs
               PROVE  WillClose(u, b)' <=> WillClose(u, b) /\ <<u, b>> # <<t, a>>
    OBVIOUS
  <2>1. CASE u # t
    BY <1>1, <1>2, <2>1 DEF WillClose, CallsTyped
  <2>2. CASE u = t
    <3>1. candidates'[t] = candidates[t] \ {<<k, a>>}
      BY <1>1, <1>3 DEF CallsTyped
    <3>2. \A l \in Keys : <<l, a>> \in candidates[t] => l = k
      BY <1>2, <1>3, <1>5 DEF LocalsFit
    <3>3. WillClose(t, b) <=> \E l \in Keys : <<l, b>> \in candidates[t]
      BY <1>2 DEF WillClose
    <3>4. WillClose(t, b)' <=> \E l \in Keys : <<l, b>> \in candidates[t] \ {<<k, a>>}
      <4>1. CASE candidates[t] = {c}
        BY <1>1, <1>2, <1>3, <3>1, <4>1 DEF WillClose, CallsTyped
      <4>2. CASE candidates[t] # {c}
        BY <1>1, <1>2, <3>1, <4>2 DEF WillClose, CallsTyped
      <4> QED
        BY <4>1, <4>2
    <3> QED
      BY <2>2, <3>2, <3>3, <3>4
  <2> QED
    BY <2>1, <2>2
<1>9. WillClose(t, a)
  BY <1>2, <1>3 DEF WillClose
<1>10. HandedOver'
  BY <1>2, <1>4, <1>5, <1>8, <1>9 DEF CallsTyped, HandedOver
<1> QED
  BY <1>6, <1>7, <1>10

\* Manager::flush() and the passing of time hand over nothing.
LEMMA LifeFlush ==
    ASSUME LifeInv,
           \/ \E t \in Threads, k \in Keys : Flush(t, k)
           \/ \E a \in Accs : Expire(a)
           \/ UNCHANGED vars
    PROVE  LifeInv'
<1> USE StatefulAssumption DEF LifeInv
<1>1. /\ UNCHANGED <<accumulators, closed, created, pc, acc, key, candidates, closes>>
      /\ calls' = calls \/ (calls' = calls + 1 /\ calls < MaxOps)
  BY DEF Flush, Expire, Call, manager, locals, vars, history
<1>2. CallsTyped'
  BY <1>1 DEF CallsTyped
<1>3. LocalsFit'
  BY <1>1 DEF CallsTyped, LocalsFit
<1>4. HandedOver'
  BY <1>1, WillCloseFramed, HandedOverFramed
<1> QED
  BY <1>2, <1>3, <1>4

\* Every step keeps the accounts of who closes what.
LEMMA LifeInductive == LifeInv /\ [Next]_vars => LifeInv'
<1> SUFFICES ASSUME LifeInv, [Next]_vars PROVE LifeInv'
  OBVIOUS
<1>1. ASSUME NEW t \in Threads, NEW k \in Keys, GetOrCreate(t, k) PROVE LifeInv'
  BY <1>1, LifeGetOrCreate
<1>2. ASSUME NEW t \in Threads,
             AppendValue(t) \/ Measure(t) \/ PopOldest(t) \/ ShouldFlush(t)
                \/ FlushTriggered(t) \/ Touch(t)
      PROVE  LifeInv'
  <2>1. UNCHANGED <<manager, acc, key, candidates, calls, closes>>
    BY <1>2 DEF AppendValue, Measure, PopOldest, ShouldFlush, FlushTriggered, Touch, history
  <2>2. pc[t] \in {"append", "measure", "pop", "trigger", "flush", "touch"}
    BY <1>2 DEF AppendValue, Measure, PopOldest, ShouldFlush, FlushTriggered, Touch, At
  <2>3. \E label \in {"measure", "pop", "trigger", "flush", "touch", "idle"} :
          pc' = [pc EXCEPT ![t] = label]
    BY <1>2 DEF AppendValue, Measure, PopOldest, ShouldFlush, FlushTriggered, Touch, Goto
  <2> QED
    BY <2>1, <2>2, <2>3, LifeUntouched
<1>3. ASSUME NEW t \in Threads, Cleanup(t) \/ TestExpired(t) PROVE LifeInv'
  BY <1>3, LifeSweep
<1>4. ASSUME NEW t \in Threads, RemoveKey(t) PROVE LifeInv'
  BY <1>4, LifeRemoveKey
<1>5. ASSUME NEW t \in Threads, CloseSwept(t) PROVE LifeInv'
  BY <1>5, LifeCloseSwept
<1>6. ASSUME NEW t \in Threads, Close(t) PROVE LifeInv'
  BY <1>6, LifeClose
<1>7. ASSUME NEW t \in Threads, CloseDrained(t) PROVE LifeInv'
  BY <1>7, LifeCloseDrained
<1> QED
  BY <1>1, <1>2, <1>3, <1>4, <1>5, <1>6, <1>7, LifeFlush DEF Next

\* A set without elements, or with exactly one, has the size that says so.
LEMMA AtMostOne ==
    ASSUME NEW S, \A x, y \in S : x = y
    PROVE  Cardinality(S) = IF S = {} THEN 0 ELSE 1
<1>1. CASE S = {}
  BY <1>1, FS_EmptySet
<1>2. CASE S # {}
  <2>1. PICK x : S = {x}
    BY <1>2
  <2> QED
    BY <1>2, <2>1, FS_Singleton
<1> QED
  BY <1>1, <1>2

\* Counting says what HandedOver says.
LEMMA LifeCounts == LifeInv => ClosedExactlyOnce
<1> SUFFICES ASSUME LifeInv PROVE ClosedExactlyOnce
  OBVIOUS
<1> USE DEF LifeInv
<1>1. ASSUME NEW a \in 1..created
      PROVE  Cardinality({k \in Keys : accumulators[k] = a}) + Cardinality(Closers(a)) + closes[a] = 1
  <2> DEFINE K == {k \in Keys : accumulators[k] = a}
             T == {t \in Threads : WillClose(t, a)}
  <2>1. a \in Accs /\ a # 0 /\ closes[a] \in Nat
    BY StatefulAssumption DEF CallsTyped, Accs
  <2>2. Closers(a) = T
    <3> SUFFICES ASSUME NEW t \in Threads, pc[t] = "closing"
                 PROVE  (\E c \in candidates[t] : c[2] = a) <=> \E k \in Keys : <<k, a>> \in candidates[t]
      BY DEF Closers, WillClose, At
    <3>1. candidates[t] \subseteq Keys \X (1..created)
      BY DEF CallsTyped
    <3>2. \A c \in candidates[t] : c = <<c[1], c[2]>> /\ c[1] \in Keys
      BY <3>1
    <3> QED
      BY <3>2
  <2>3. Cardinality(K) = IF K = {} THEN 0 ELSE 1
    <3>1. \A k, l \in K : k = l
      BY <2>1 DEF HandedOver
    <3> HIDE DEF K
    <3> QED
      BY <3>1, AtMostOne
  <2>4. Cardinality(T) = IF T = {} THEN 0 ELSE 1
    <3>1. \A t, u \in T : t = u
      BY <2>1 DEF HandedOver
    <3> HIDE DEF T
    <3> QED
      BY <3>1, AtMostOne
  <2>5. K # {} => closes[a] = 0 /\ T = {}
    BY <2>1 DEF HandedOver
  <2>6. T # {} => closes[a] = 0 /\ K = {}
    BY <2>1, <2>5 DEF HandedOver
  <2>7. K = {} /\ T = {} => closes[a] = 1
    BY DEF HandedOver
  <2> HIDE DEF K, T
  <2>8. Cardinality(K) + Cardinality(T) + closes[a] = 1
    BY <2>1, <2>3, <2>4, <2>5, <2>6, <2>7
  <2> QED
    BY <2>2, <2>8 DEF K
<1>2. closed => Held = {}
  BY DEF HandedOver, Held
<1> QED
  BY <1>1, <1>2 DEF ClosedExactlyOnce

\* Every accumulator is closed exactly once, whatever threads append, flush,
\* sweep and close (manager.rs get_or_create(), cleanup_expired(), close()).
THEOREM AccumulatorsClosedOnce == Spec => []ClosedExactlyOnce
<1>1. Init => LifeInv
  BY LifeInit
<1>2. LifeInv /\ [Next]_vars => LifeInv'
  BY LifeInductive
<1> QED
  BY <1>1, <1>2, LifeCounts, PTL DEF Spec

-----------------------------------------------------------------------------

\* A sequence of values stored so far is one of values stored by the next append.
LEMMA StoredGrows ==
    ASSUME NEW n \in Nat, NEW s \in Seq(1..n)
    PROVE  s \in Seq(1..(n + 1)) /\ Append(s, n + 1) \in Seq(1..(n + 1))
<1>1. s \in Seq(1..(n + 1))
  BY SeqMonotonic
<1> QED
  BY <1>1, AppendProperties

\* What the store's lock sections do to its buffers keeps their types.
LEMMA StoreTypes ==
    ASSUME StoresTyped, NEW a \in Accs,
           \/ StoreAppend(a) /\ UNCHANGED <<flushed, dropped>>
           \/ StorePopOldest(a) /\ UNCHANGED <<stored, flushed>>
           \/ StoreFlush(a) /\ UNCHANGED <<stored, dropped>>
           \/ StoreClose(a) /\ UNCHANGED <<stored, flushed>>
    PROVE  StoresTyped'
<1> USE DEF StoresTyped
<1>0. /\ stored \in Nat /\ dropped \in SUBSET (1..stored)
      /\ values \in [Accs -> Seq(1..stored)] /\ flushed \in [Accs -> Seq(1..stored)]
      /\ <<>> \in Seq(1..stored)
  BY EmptySeq
<1>1. CASE StoreAppend(a) /\ UNCHANGED <<flushed, dropped>>
  <2>1. \A s \in Seq(1..stored) :
          s \in Seq(1..(stored + 1)) /\ Append(s, stored + 1) \in Seq(1..(stored + 1))
    BY <1>0, StoredGrows
  <2>2. stored' = stored + 1 /\ values' = [values EXCEPT ![a] = Append(@, stored + 1)]
    BY <1>1 DEF StoreAppend
  <2> QED
    BY <1>0, <1>1, <2>1, <2>2
<1>2. CASE StorePopOldest(a) /\ UNCHANGED <<stored, flushed>>
  <2>1. CASE values[a] = <<>>
    BY <1>0, <1>2, <2>1 DEF StorePopOldest
  <2>2. CASE values[a] # <<>>
    <3>1. Tail(values[a]) \in Seq(1..stored) /\ Head(values[a]) \in 1..stored
      BY <1>0, <2>2, HeadTailProperties
      <3> QED
      BY <1>0, <1>2, <2>2, <3>1 DEF StorePopOldest
  <2> QED
    BY <2>1, <2>2
<1>3. CASE StoreFlush(a) /\ UNCHANGED <<stored, dropped>>
  <2>1. flushed[a] \o values[a] \in Seq(1..stored)
    BY <1>0, ConcatProperties
  <2>2. /\ flushed' = [flushed EXCEPT ![a] = flushed[a] \o values[a]]
        /\ values' = [values EXCEPT ![a] = <<>>]
    BY <1>3 DEF StoreFlush
  <2> QED
    BY <1>0, <1>3, <2>1, <2>2
<1>4. CASE StoreClose(a) /\ UNCHANGED <<stored, flushed>>
  <2>1. ToSet(values[a]) \subseteq 1..stored
    BY <1>0, ElementOfSeq DEF ToSet
  <2> QED
    BY <1>0, <1>4, <2>1 DEF StoreClose
<1> QED
  BY <1>1, <1>2, <1>3, <1>4

\* The stores are typed when a call changes none of them.
LEMMA StoresUntouched ==
    ASSUME StoresTyped, UNCHANGED <<values, stored, flushed, dropped>>
    PROVE  StoresTyped'
BY DEF StoresTyped

\* Storing a value that is larger than all others keeps the order.
LEMMA KeptAppend ==
    ASSUME NEW n \in Nat, NEW f \in Seq(1..n), NEW s \in Seq(1..n), Ascending(f \o s)
    PROVE  /\ Ascending(f \o Append(s, n + 1))
           /\ ToSet(f \o Append(s, n + 1)) = ToSet(f \o s) \cup {n + 1}
<1>1. /\ f \in Seq(Int) /\ s \in Seq(Int) /\ n + 1 \in Int
      /\ \A x \in ToSet(f) \cup ToSet(s) : x < n + 1
  <2>1. ToSet(f) \subseteq 1..n /\ ToSet(s) \subseteq 1..n
    BY ToSetElements
  <2> QED
    BY <2>1, SeqMonotonic
<1>2. Ascending(f) /\ Ascending(s) /\ \A x \in ToSet(f), y \in ToSet(s) : x < y
  BY <1>1, AscendingConcat
<1>3. Append(s, n + 1) \in Seq(Int) /\ ToSet(Append(s, n + 1)) = ToSet(s) \cup {n + 1}
  BY <1>1, AppendElements
<1>4. Ascending(Append(s, n + 1))
  BY <1>1, <1>2, AscendingEnds
<1>5. ToSet(f \o Append(s, n + 1)) = ToSet(f) \cup ToSet(Append(s, n + 1))
  <2> DEFINE u == Append(s, n + 1)
  <2>1. u \in Seq(Int)
    BY <1>3
  <2> HIDE DEF u
  <2>2. ToSet(f \o u) = ToSet(f) \cup ToSet(u)
    BY <1>1, <2>1, ConcatElements
  <2> QED
    BY <2>2 DEF u
<1>6. ToSet(f \o s) = ToSet(f) \cup ToSet(s)
  BY ConcatElements
<1>7. Ascending(f \o Append(s, n + 1))
  BY <1>1, <1>2, <1>3, <1>4, AscendingConcat
<1> QED
  BY <1>3, <1>5, <1>6, <1>7

\* Evicting the oldest buffered value takes exactly that value out.
LEMMA KeptPop ==
    ASSUME NEW n \in Nat, NEW f \in Seq(1..n), NEW s \in Seq(1..n), s # <<>>, Ascending(f \o s)
    PROVE  /\ Ascending(f \o Tail(s))
           /\ ToSet(f \o Tail(s)) = ToSet(f \o s) \ {Head(s)}
           /\ Head(s) \in ToSet(f \o s)
<1>1. f \in Seq(Int) /\ s \in Seq(Int) /\ Tail(s) \in Seq(Int)
  BY SeqMonotonic, HeadTailProperties
<1>2. Ascending(f) /\ Ascending(s) /\ \A x \in ToSet(f), y \in ToSet(s) : x < y
  BY <1>1, AscendingConcat
<1>3. ToSet(s) = ToSet(Tail(s)) \cup {Head(s)} /\ Head(s) \in Int
  BY <1>1, TailElements
<1>4. Ascending(Tail(s)) /\ \A x \in ToSet(Tail(s)) : Head(s) < x
  BY <1>1, <1>2, AscendingEnds
<1>5. /\ ToSet(f \o Tail(s)) = ToSet(f) \cup ToSet(Tail(s))
      /\ ToSet(f \o s) = ToSet(f) \cup ToSet(s)
  <2>1. ToSet(f \o Tail(s)) = ToSet(f) \cup ToSet(Tail(s))
    <3> DEFINE u == Tail(s)
    <3>1. u \in Seq(Int)
      BY <1>1
    <3> HIDE DEF u
    <3>2. ToSet(f \o u) = ToSet(f) \cup ToSet(u)
      BY <1>1, <3>1, ConcatElements
    <3> QED
      BY <3>2 DEF u
  <2>2. ToSet(f \o s) = ToSet(f) \cup ToSet(s)
    BY <1>1, ConcatElements
  <2> QED
    BY <2>1, <2>2
<1>6. Head(s) \notin ToSet(f) /\ Head(s) \notin ToSet(Tail(s))
  <2>1. Head(s) \in ToSet(s)
    BY <1>3
  <2>2. ~(Head(s) < Head(s))
    BY <1>3
  <2> QED
    BY <1>2, <1>4, <2>1, <2>2
<1>7. Ascending(f \o Tail(s))
  BY <1>1, <1>2, <1>3, <1>4, AscendingConcat
<1> QED
  BY <1>3, <1>5, <1>6, <1>7

\* Discarding a buffer takes exactly its values out.
LEMMA KeptClose ==
    ASSUME NEW n \in Nat, NEW f \in Seq(1..n), NEW s \in Seq(1..n), Ascending(f \o s)
    PROVE  /\ Ascending(f \o <<>>)
           /\ ToSet(f \o <<>>) = ToSet(f \o s) \ ToSet(s)
           /\ ToSet(s) \subseteq ToSet(f \o s)
<1>1. f \in Seq(Int) /\ s \in Seq(Int)
  BY SeqMonotonic
<1>2. Ascending(f) /\ \A x \in ToSet(f), y \in ToSet(s) : x < y
  BY <1>1, AscendingConcat
<1>3. ToSet(f \o s) = ToSet(f) \cup ToSet(s) /\ ToSet(f) \subseteq Int
  BY <1>1, ConcatElements, ToSetElements
<1>4. f \o <<>> = f
  BY ConcatEmptySeq
<1>5. ToSet(f) \cap ToSet(s) = {}
  BY <1>2, <1>3
<1> QED
  BY <1>2, <1>3, <1>4, <1>5

\* A flush moves values to the end of what was returned.
LEMMA KeptFlush ==
    ASSUME NEW n \in Nat, NEW f \in Seq(1..n), NEW s \in Seq(1..n)
    PROVE  (f \o s) \o <<>> = f \o s
BY ConcatEmptySeq, ConcatProperties

\* Every lock section of the store keeps each value in one place.
LEMMA StoreOnePlace ==
    ASSUME ValuesInv, NEW a \in Accs,
           \/ StoreAppend(a) /\ UNCHANGED <<flushed, dropped>>
           \/ StorePopOldest(a) /\ UNCHANGED <<stored, flushed>>
           \/ StoreFlush(a) /\ UNCHANGED <<stored, dropped>>
           \/ StoreClose(a) /\ UNCHANGED <<stored, flushed>>
    PROVE  ValuesInv'
<1>0. StoresTyped'
  BY StoreTypes DEF ValuesInv
<1>1. /\ stored \in Nat /\ flushed[a] \in Seq(1..stored) /\ values[a] \in Seq(1..stored)
      /\ Ascending(flushed[a] \o values[a]) /\ \A b \in Accs : ToSet(Kept(b)) \subseteq 1..stored
      /\ dropped \subseteq 1..stored /\ DOMAIN values = Accs /\ DOMAIN flushed = Accs
  <2>1. \A b \in Accs : flushed[b] \in Seq(1..stored) /\ values[b] \in Seq(1..stored)
    BY DEF ValuesInv, StoresTyped
  <2>2. \A b \in Accs : ToSet(Kept(b)) \subseteq 1..stored
    BY <2>1, ConcatProperties, ToSetElements DEF Kept
  <2> QED
    BY <2>1, <2>2 DEF ValuesInv, StoresTyped, OnePlace, Kept
<1>2. CASE StoreAppend(a) /\ UNCHANGED <<flushed, dropped>>
  <2>1. /\ Kept(a)' = flushed[a] \o Append(values[a], stored + 1)
        /\ \A b \in Accs \ {a} : Kept(b)' = Kept(b)
    BY <1>1, <1>2 DEF StoreAppend, Kept
  <2>2. Ascending(Kept(a)') /\ ToSet(Kept(a)') = ToSet(Kept(a)) \cup {stored + 1}
    BY <1>1, <2>1, KeptAppend DEF Kept
  <2>3. stored' = stored + 1 /\ dropped' = dropped
    BY <1>2 DEF StoreAppend
  <2>4. stored + 1 \notin dropped /\ \A b \in Accs : stored + 1 \notin ToSet(Kept(b))
    BY <1>1
  <2>5. OnePlace'
    <3> DEFINE n == stored + 1
    <3> HIDE DEF n
    <3>0. /\ \A b \in Accs \ {a} : Kept(b)' = Kept(b)
          /\ Ascending(Kept(a)') /\ ToSet(Kept(a)') = ToSet(Kept(a)) \cup {n}
          /\ n \notin dropped /\ \A b \in Accs : n \notin ToSet(Kept(b))
          /\ \A v \in 1..stored' : v \in 1..stored \/ v = n
      BY <1>1, <2>1, <2>2, <2>3, <2>4 DEF n
    <3>1. \A b \in Accs : Ascending(Kept(b)')
      BY <3>0 DEF ValuesInv, OnePlace
    <3>2. \A b, c \in Accs : b # c => ToSet(Kept(b)') \cap ToSet(Kept(c)') = {}
      BY <3>0 DEF ValuesInv, OnePlace
    <3>3. \A b \in Accs : ToSet(Kept(b)') \cap dropped' = {}
      BY <2>3, <3>0 DEF ValuesInv, OnePlace
    <3>4. \A v \in 1..stored' : v \in dropped' \/ \E b \in Accs : v \in ToSet(Kept(b)')
      BY <2>3, <3>0 DEF ValuesInv, OnePlace
    <3> QED
      BY <3>1, <3>2, <3>3, <3>4 DEF OnePlace
  <2> QED
    BY <1>0, <2>5 DEF ValuesInv
<1>3. CASE StorePopOldest(a) /\ UNCHANGED <<stored, flushed>>
  <2>1. CASE values[a] = <<>>
    BY <1>0, <1>3, <2>1 DEF StorePopOldest, ValuesInv, OnePlace, Kept
  <2>2. CASE values[a] # <<>>
    <3>1. /\ Kept(a)' = flushed[a] \o Tail(values[a])
          /\ \A b \in Accs \ {a} : Kept(b)' = Kept(b)
          /\ dropped' = dropped \cup {Head(values[a])} /\ stored' = stored
      BY <1>1, <1>3, <2>2 DEF StorePopOldest, Kept
    <3>2. /\ Ascending(Kept(a)') /\ ToSet(Kept(a)') = ToSet(Kept(a)) \ {Head(values[a])}
          /\ Head(values[a]) \in ToSet(Kept(a))
      BY <1>1, <2>2, <3>1, KeptPop DEF Kept
    <3>3. OnePlace'
      <4> DEFINE h == Head(values[a])
      <4> HIDE DEF h
      <4>0. /\ \A b \in Accs \ {a} : Kept(b)' = Kept(b)
            /\ dropped' = dropped \cup {h} /\ stored' = stored
            /\ Ascending(Kept(a)') /\ ToSet(Kept(a)') = ToSet(Kept(a)) \ {h}
            /\ h \in ToSet(Kept(a))
        BY <3>1, <3>2 DEF h
      <4>1. \A b \in Accs : Ascending(Kept(b)')
        BY <4>0 DEF ValuesInv, OnePlace
      <4>2. \A b, c \in Accs : b # c => ToSet(Kept(b)') \cap ToSet(Kept(c)') = {}
        BY <4>0 DEF ValuesInv, OnePlace
      <4>3. \A b \in Accs : ToSet(Kept(b)') \cap dropped' = {}
        BY <4>0 DEF ValuesInv, OnePlace
      <4>4. \A v \in 1..stored' : v \in dropped' \/ \E b \in Accs : v \in ToSet(Kept(b)')
        BY <4>0 DEF ValuesInv, OnePlace
      <4> QED
        BY <4>1, <4>2, <4>3, <4>4 DEF OnePlace
    <3> QED
      BY <1>0, <3>3 DEF ValuesInv
  <2> QED
    BY <2>1, <2>2
<1>4. CASE StoreFlush(a) /\ UNCHANGED <<stored, dropped>>
  <2>1. /\ Kept(a)' = (flushed[a] \o values[a]) \o <<>>
        /\ \A b \in Accs \ {a} : Kept(b)' = Kept(b)
    BY <1>1, <1>4 DEF StoreFlush, Kept
  <2>2. \A b \in Accs : Kept(b)' = Kept(b)
    <3>1. Kept(a)' = Kept(a)
      BY <1>1, <2>1, KeptFlush DEF Kept
    <3> QED
      BY <2>1, <3>1
  <2>3. OnePlace'
    BY <1>4, <2>2 DEF ValuesInv, OnePlace
  <2> QED
    BY <1>0, <2>3 DEF ValuesInv
<1>5. CASE StoreClose(a) /\ UNCHANGED <<stored, flushed>>
  <2>1. /\ Kept(a)' = flushed[a] \o <<>>
        /\ \A b \in Accs \ {a} : Kept(b)' = Kept(b)
        /\ dropped' = dropped \cup ToSet(values[a]) /\ stored' = stored
    BY <1>1, <1>5 DEF StoreClose, Kept
  <2>2. /\ Ascending(Kept(a)') /\ ToSet(Kept(a)') = ToSet(Kept(a)) \ ToSet(values[a])
        /\ ToSet(values[a]) \subseteq ToSet(Kept(a))
    BY <1>1, <2>1, KeptClose DEF Kept
  <2>3. OnePlace'
    <3> DEFINE V == ToSet(values[a])
    <3> HIDE DEF V
    <3>0. /\ \A b \in Accs \ {a} : Kept(b)' = Kept(b)
          /\ dropped' = dropped \cup V /\ stored' = stored
          /\ Ascending(Kept(a)') /\ ToSet(Kept(a)') = ToSet(Kept(a)) \ V
          /\ V \subseteq ToSet(Kept(a))
      BY <2>1, <2>2 DEF V
    <3>1. \A b \in Accs : Ascending(Kept(b)')
      BY <3>0 DEF ValuesInv, OnePlace
    <3>2. \A b, c \in Accs : b # c => ToSet(Kept(b)') \cap ToSet(Kept(c)') = {}
      BY <3>0 DEF ValuesInv, OnePlace
    <3>3. \A b \in Accs : ToSet(Kept(b)') \cap dropped' = {}
      BY <3>0 DEF ValuesInv, OnePlace
    <3>4. \A v \in 1..stored' : v \in dropped' \/ \E b \in Accs : v \in ToSet(Kept(b)')
      BY <3>0 DEF ValuesInv, OnePlace
    <3> QED
      BY <3>1, <3>2, <3>3, <3>4 DEF OnePlace
  <2> QED
    BY <1>0, <2>3 DEF ValuesInv
<1> QED
  BY <1>2, <1>3, <1>4, <1>5

\* No value is kept before the first append.
LEMMA ValuesInit == Init => ValuesInv
<1> SUFFICES ASSUME Init PROVE ValuesInv
  OBVIOUS
<1>1. StoresTyped
  <2>1. <<>> \in Seq(1..0)
    BY EmptySeq
  <2> QED
    BY <2>1 DEF Init, StoresTyped
<1>2. \A a \in Accs : Kept(a) = <<>> \o <<>>
  BY DEF Init, Kept
<1>3. <<>> \o <<>> = <<>> /\ ToSet(<<>>) = {} /\ Ascending(<<>>)
  <2>1. <<>> \in Seq(Int) /\ Len(<<>>) = 0 /\ <<>> \o <<>> = <<>>
    BY EmptySeq, ConcatEmptySeq
  <2>2. ToSet(<<>>) = {}
    BY <2>1, ToSetElements
  <2> QED
    BY <2>1, <2>2 DEF Ascending
<1>4. OnePlace
  BY <1>2, <1>3 DEF Init, OnePlace
<1> QED
  BY <1>1, <1>4 DEF ValuesInv

\* A step changes the store of one accumulator in one lock section, or none.
LEMMA OneStoreSection ==
    ASSUME LifeInv, [Next]_vars
    PROVE  \/ UNCHANGED <<values, stored, flushed, dropped>>
           \/ \E a \in Accs :
                \/ StoreAppend(a) /\ UNCHANGED <<flushed, dropped>>
                \/ StorePopOldest(a) /\ UNCHANGED <<stored, flushed>>
                \/ StoreFlush(a) /\ UNCHANGED <<stored, dropped>>
                \/ StoreClose(a) /\ UNCHANGED <<stored, flushed>>
<1> USE DEF LifeInv
<1>0. 1..created \subseteq Accs
  BY StatefulAssumption DEF CallsTyped, Accs
<1>1. ASSUME NEW t \in Threads, pc[t] \in {"append", "pop", "flush", "close_swept"}
      PROVE  acc[t] \in Accs
  <2>1. acc[t] \in 1..created
    BY <1>1 DEF LocalsFit, CallsTyped
  <2> QED
    BY <1>0, <2>1
<1>2. CASE \E t \in Threads : AppendValue(t) \/ PopOldest(t) \/ FlushTriggered(t) \/ CloseSwept(t)
  BY <1>1, <1>2 DEF AppendValue, PopOldest, FlushTriggered, CloseSwept, At
<1>3. CASE \E t \in Threads : CloseDrained(t)
  <2>1. PICK t \in Threads : CloseDrained(t)
    BY <1>3
  <2>2. PICK c \in candidates[t] : StoreClose(c[2])
    BY <2>1 DEF CloseDrained
  <2>3. candidates[t] \subseteq Keys \X (1..created)
    BY DEF CallsTyped
  <2>4. c[2] \in Accs
    BY <1>0, <2>3
  <2> QED
    BY <2>1, <2>2, <2>4 DEF CloseDrained
<1>4. CASE \E t \in Threads, k \in Keys : Flush(t, k)
  <2>1. PICK t \in Threads, k \in Keys : Flush(t, k)
    BY <1>4
  <2>2. accumulators[k] # 0 => accumulators[k] \in Accs
    <3>1. accumulators[k] \in 0..created
      BY DEF CallsTyped
    <3> QED
      BY <1>0, <3>1
  <2> QED
    BY <2>1, <2>2 DEF Flush
<1>5. CASE \E t \in Threads :
             \/ \E k \in Keys : GetOrCreate(t, k)
             \/ Measure(t) \/ ShouldFlush(t) \/ Touch(t) \/ Cleanup(t) \/ TestExpired(t)
             \/ RemoveKey(t) \/ Close(t)
  BY <1>5 DEF GetOrCreate, Measure, ShouldFlush, Touch, Cleanup, TestExpired, RemoveKey, Close,
              history
<1>6. CASE \E a \in Accs : Expire(a)
  BY <1>6 DEF Expire
<1>7. CASE UNCHANGED vars
  BY <1>7 DEF vars, history
<1> QED
  BY <1>2, <1>3, <1>4, <1>5, <1>6, <1>7 DEF Next

\* Every step keeps each value in one place.
LEMMA ValuesInductive == LifeInv /\ ValuesInv /\ [Next]_vars => ValuesInv'
<1> SUFFICES ASSUME LifeInv, ValuesInv, [Next]_vars PROVE ValuesInv'
  OBVIOUS
<1>1. CASE UNCHANGED <<values, stored, flushed, dropped>>
  BY <1>1, StoresUntouched DEF ValuesInv, OnePlace, Kept
<1> QED
  BY <1>1, OneStoreSection, StoreOnePlace

\* Counting says what OnePlace says.
LEMMA ValuesCounts == ValuesInv => ValuesConserved
<1> SUFFICES ASSUME ValuesInv PROVE ValuesConserved
  OBVIOUS
<1> DEFINE seqs == [a \in Accs |-> flushed[a] \o values[a]]
<1>1. \A a \in Accs : seqs[a] = Kept(a)
  BY DEF Kept
<1>2. \A a \in Accs : DOMAIN Kept(a) = 1..Len(Kept(a))
  <2>1. \A a \in Accs : flushed[a] \in Seq(1..stored) /\ values[a] \in Seq(1..stored)
    BY DEF ValuesInv, StoresTyped
  <2>2. \A a \in Accs : Kept(a) \in Seq(1..stored)
    BY <2>1, ConcatProperties DEF Kept
  <2> QED
    BY <2>2
<1> HIDE DEF seqs
<1>3. \A a \in Accs : \A i, j \in DOMAIN seqs[a] : i < j => seqs[a][i] < seqs[a][j]
  BY <1>1, <1>2 DEF ValuesInv, OnePlace, Ascending
<1>4. ASSUME NEW v \in 1..stored
      PROVE  Cardinality({a \in Accs : v \in ToSet(seqs[a])}) + (IF v \in dropped THEN 1 ELSE 0) = 1
  <2> DEFINE A == {a \in Accs : v \in ToSet(seqs[a])}
  <2>1. \A a \in A : a \in Accs /\ v \in ToSet(Kept(a))
    BY <1>1
  <2>2. \A a, b \in A : a = b
    BY <2>1 DEF ValuesInv, OnePlace
  <2>3. v \in dropped => A = {}
    BY <2>1 DEF ValuesInv, OnePlace
  <2>4. v \notin dropped => A # {}
    BY <1>1 DEF ValuesInv, OnePlace
  <2> HIDE DEF A
  <2>5. Cardinality(A) = IF A = {} THEN 0 ELSE 1
    BY <2>2, AtMostOne
  <2>6. Cardinality(A) + (IF v \in dropped THEN 1 ELSE 0) = 1
    BY <2>3, <2>4, <2>5
  <2> QED
    BY <2>6 DEF A
<1> QED
  BY <1>3, <1>4 DEF ValuesConserved, seqs

\* No value is duplicated, reordered or lost: each one stored is buffered in, or
\* was flushed from, one accumulator, or was evicted or discarded
\* (memory_store.rs append(), pop_oldest(), flush(), close()).
THEOREM ValuesAreConserved == Spec => []ValuesConserved
<1>1. Init => LifeInv /\ ValuesInv
  BY LifeInit, ValuesInit
<1>2. LifeInv /\ ValuesInv /\ [Next]_vars => (LifeInv /\ ValuesInv)'
  BY LifeInductive, ValuesInductive
<1>3. LifeInv /\ ValuesInv => ValuesConserved
  BY ValuesCounts
<1> QED
  BY <1>1, <1>2, <1>3, PTL DEF Spec

-----------------------------------------------------------------------------

\* An append that is past storing its value and has still to act on the limits.
Acting(a, labels) == \E t \in Threads : acc[t] = a /\ pc[t] \in labels

\* Wherever a buffer is over a limit, an append that will act on it is under way:
\* over max_size one that has still to measure, at the threshold one that has
\* still to flush.
LimitsWatched ==
    \A a \in Accs :
        /\ Len(values[a]) > MaxSize => Acting(a, {"measure", "pop"})
        /\ Len(values[a]) >= Threshold => Acting(a, {"measure", "pop", "trigger", "flush"})
\* Who acts on a buffer is decided where the threads are.
LEMMA ActingMoves ==
    ASSUME CallsTyped, NEW t \in Threads, NEW labels, NEW label, NEW b,
           pc' = [pc EXCEPT ![t] = label], UNCHANGED acc
    PROVE  /\ acc[t] = b /\ label \in labels => Acting(b, labels)'
           /\ acc[t] # b \/ pc[t] \notin labels \/ label \in labels
              => (Acting(b, labels) => Acting(b, labels)')
<1>1. /\ \A u \in Threads \ {t} : pc'[u] = pc[u] /\ acc'[u] = acc[u]
      /\ pc'[t] = label /\ acc'[t] = acc[t]
  BY DEF CallsTyped
<1> QED
  BY <1>1 DEF Acting

\* Every step leaves someone to act on a buffer over a limit.
LEMMA LimitsInductive ==
    ASSUME LifeInv, ValuesInv, LimitsWatched, [Next]_vars PROVE LimitsWatched'
<1> USE StatefulAssumption DEF LifeInv
<1> DEFINE over == {"measure", "pop"}
           full == {"measure", "pop", "trigger", "flush"}
<1>1. \A a \in Accs : values[a] \in Seq(1..stored) /\ Len(values[a]) \in Nat
  BY DEF ValuesInv, StoresTyped
<1>2. DOMAIN values = Accs /\ Len(<<>>) = 0 /\ Threshold > 0 /\ Threshold \in Nat /\ MaxSize \in Nat
  BY EmptySeq DEF ValuesInv, StoresTyped
<1>3. \A a \in Accs :
        /\ Len(values[a]) > MaxSize => Acting(a, over)
        /\ Len(values[a]) >= Threshold => Acting(a, full)
  BY DEF LimitsWatched
<1> SUFFICES ASSUME NEW b \in Accs
             PROVE  /\ Len(values'[b]) > MaxSize => Acting(b, over)'
                    /\ Len(values'[b]) >= Threshold => Acting(b, full)'
  BY DEF LimitsWatched
<1>4. ASSUME NEW t \in Threads, NEW label, pc' = [pc EXCEPT ![t] = label], UNCHANGED acc,
             acc[t] # b \/ pc[t] \notin full, values'[b] = values[b] \/ values'[b] = <<>>
      PROVE  /\ Len(values'[b]) > MaxSize => Acting(b, over)'
             /\ Len(values'[b]) >= Threshold => Acting(b, full)'
  <2>1. /\ Acting(b, over) => Acting(b, over)'
        /\ Acting(b, full) => Acting(b, full)'
    BY <1>4, ActingMoves
  <2> QED
    BY <1>2, <1>3, <1>4, <2>1
<1>5. ASSUME NEW t \in Threads, AppendValue(t)
      PROVE  /\ Len(values'[b]) > MaxSize => Acting(b, over)'
             /\ Len(values'[b]) >= Threshold => Acting(b, full)'
  <2>1. /\ pc[t] = "append" /\ pc' = [pc EXCEPT ![t] = "measure"] /\ UNCHANGED acc
        /\ values' = [values EXCEPT ![acc[t]] = Append(@, stored + 1)]
    BY <1>5 DEF AppendValue, StoreAppend, At, Goto
  <2>2. CASE acc[t] = b
    BY <2>1, <2>2, ActingMoves
  <2>3. CASE acc[t] # b
    BY <1>2, <1>4, <2>1, <2>3
  <2> QED
    BY <2>2, <2>3
<1>6. ASSUME NEW t \in Threads, Measure(t)
      PROVE  /\ Len(values'[b]) > MaxSize => Acting(b, over)'
             /\ Len(values'[b]) >= Threshold => Acting(b, full)'
  <2>1. /\ pc[t] = "measure" /\ UNCHANGED <<acc, values>>
        /\ pc' = [pc EXCEPT ![t] = IF Len(values[acc[t]]) > MaxSize THEN "pop" ELSE "trigger"]
    BY <1>6 DEF Measure, At, Goto
  <2>2. CASE acc[t] = b
    <3>1. Acting(b, full)'
      BY <2>1, <2>2, ActingMoves
    <3>2. Len(values[b]) > MaxSize => Acting(b, over)'
      BY <2>1, <2>2, ActingMoves
    <3> QED
      BY <2>1, <3>1, <3>2
  <2>3. CASE acc[t] # b
    BY <1>4, <2>1, <2>3
  <2> QED
    BY <2>2, <2>3
<1>7. ASSUME NEW t \in Threads, PopOldest(t)
      PROVE  /\ Len(values'[b]) > MaxSize => Acting(b, over)'
             /\ Len(values'[b]) >= Threshold => Acting(b, full)'
  <2>1. /\ pc[t] = "pop" /\ UNCHANGED acc
        /\ pc' = [pc EXCEPT ![t] = IF values[acc[t]] = <<>> THEN "trigger" ELSE "measure"]
        /\ values' = IF values[acc[t]] = <<>> THEN values
                     ELSE [values EXCEPT ![acc[t]] = Tail(@)]
    BY <1>7 DEF PopOldest, StorePopOldest, At, Goto
  <2>2. CASE acc[t] = b
    <3>1. Acting(b, full)'
      BY <2>1, <2>2, ActingMoves
    <3>2. values[b] # <<>> => Acting(b, over)'
      BY <2>1, <2>2, ActingMoves
    <3> QED
      BY <1>2, <2>1, <2>2, <3>1, <3>2
  <2>3. CASE acc[t] # b
    <3>1. values'[b] = values[b]
      BY <1>2, <2>1, <2>3
    <3>2. \E label : pc' = [pc EXCEPT ![t] = label]
      BY <2>1
    <3> QED
      BY <1>4, <2>1, <2>3, <3>1, <3>2
  <2> QED
    BY <2>2, <2>3
<1>8. ASSUME NEW t \in Threads, ShouldFlush(t)
      PROVE  /\ Len(values'[b]) > MaxSize => Acting(b, over)'
             /\ Len(values'[b]) >= Threshold => Acting(b, full)'
  <2>1. /\ pc[t] = "trigger" /\ UNCHANGED <<acc, values>>
        /\ \/ pc' = [pc EXCEPT ![t] = "flush"]
           \/ pc' = [pc EXCEPT ![t] = "touch"] /\ Len(values[acc[t]]) < Threshold
    BY <1>8 DEF ShouldFlush, At, Goto
  <2>2. Len(values'[b]) > MaxSize => Acting(b, over)'
    BY <1>3, <2>1, ActingMoves
  <2>3. CASE acc[t] = b
    <3>1. pc' = [pc EXCEPT ![t] = "flush"] => Acting(b, full)'
      BY <2>1, <2>3, ActingMoves
    <3> QED
      BY <1>1, <1>2, <2>1, <2>2, <2>3, <3>1
  <2>4. CASE acc[t] # b
    BY <1>4, <2>1, <2>4
  <2> QED
    BY <2>3, <2>4
<1>9. ASSUME NEW t \in Threads, FlushTriggered(t)
      PROVE  /\ Len(values'[b]) > MaxSize => Acting(b, over)'
             /\ Len(values'[b]) >= Threshold => Acting(b, full)'
  <2>1. /\ pc[t] = "flush" /\ pc' = [pc EXCEPT ![t] = "idle"] /\ UNCHANGED acc
        /\ values' = [values EXCEPT ![acc[t]] = <<>>]
    BY <1>9 DEF FlushTriggered, StoreFlush, At, Goto
  <2>2. CASE acc[t] = b
    BY <1>2, <2>1, <2>2
  <2>3. CASE acc[t] # b
    BY <1>2, <1>4, <2>1, <2>3
  <2> QED
    BY <2>2, <2>3
<1>10. ASSUME NEW t \in Threads,
              Touch(t) \/ Cleanup(t) \/ TestExpired(t) \/ CloseSwept(t) \/ Close(t) \/ CloseDrained(t)
       PROVE  /\ Len(values'[b]) > MaxSize => Acting(b, over)'
              /\ Len(values'[b]) >= Threshold => Acting(b, full)'
  <2>1. UNCHANGED acc /\ pc[t] \notin full
    BY <1>10 DEF Touch, Cleanup, TestExpired, CloseSwept, Close, CloseDrained, Call, At
  <2>2. \E label : pc' = [pc EXCEPT ![t] = label]
    BY <1>10 DEF Touch, Cleanup, TestExpired, CloseSwept, Close, CloseDrained, Goto
  <2>3. values'[b] = values[b] \/ values'[b] = <<>>
    BY <1>2, <1>10 DEF Touch, Cleanup, TestExpired, CloseSwept, Close, CloseDrained, StoreClose
  <2> QED
    BY <1>4, <2>1, <2>2, <2>3
<1>11. ASSUME NEW t \in Threads, RemoveKey(t) \/ \E k \in Keys : GetOrCreate(t, k)
       PROVE  /\ Len(values'[b]) > MaxSize => Acting(b, over)'
              /\ Len(values'[b]) >= Threshold => Acting(b, full)'
  <2>1. pc[t] \notin full /\ UNCHANGED values
    BY <1>11 DEF RemoveKey, GetOrCreate, Call, At
  <2>2. \A u \in Threads \ {t} : pc'[u] = pc[u] /\ acc'[u] = acc[u]
    BY <1>11 DEF RemoveKey, GetOrCreate, Goto, CallsTyped
  <2>3. /\ Acting(b, over) => Acting(b, over)'
        /\ Acting(b, full) => Acting(b, full)'
    BY <2>1, <2>2 DEF Acting
  <2> QED
    BY <1>3, <2>1, <2>3
<1>12. ASSUME \/ \E t \in Threads, k \in Keys : Flush(t, k)
              \/ \E a \in Accs : Expire(a)
              \/ UNCHANGED vars
       PROVE  /\ Len(values'[b]) > MaxSize => Acting(b, over)'
              /\ Len(values'[b]) >= Threshold => Acting(b, full)'
  <2>1. UNCHANGED <<pc, acc>>
    BY <1>12 DEF Flush, Expire, vars, locals
  <2>2. values'[b] = values[b] \/ values'[b] = <<>>
    BY <1>2, <1>12 DEF Flush, StoreFlush, Expire, vars
  <2>3. /\ Acting(b, over)' <=> Acting(b, over)
        /\ Acting(b, full)' <=> Acting(b, full)
    BY <2>1 DEF Acting
  <2> QED
    BY <1>2, <1>3, <2>2, <2>3
<1> QED
  BY <1>5, <1>6, <1>7, <1>8, <1>9, <1>10, <1>11, <1>12 DEF Next

\* Racing appends never leave a buffer over a limit with no append left to act
\* on it (accumulator.rs append(), enforce_max_size(), should_flush()).
THEOREM BuffersWithinLimits == Spec => []QuietWithinLimits
<1> DEFINE Inv == LifeInv /\ ValuesInv /\ LimitsWatched
<1>1. Init => Inv
  <2>1. Init => LimitsWatched
    BY EmptySeq, StatefulAssumption DEF Init, LimitsWatched
  <2> QED
    BY <2>1, LifeInit, ValuesInit
<1>2. Inv /\ [Next]_vars => Inv'
  BY LifeInductive, ValuesInductive, LimitsInductive
<1>3. Inv => QuietWithinLimits
  <2> SUFFICES ASSUME Inv, NEW a \in Accs,
                      \A t \in Threads : pc[t] \in {"measure", "pop", "trigger", "flush"} => acc[t] # a
               PROVE  Len(values[a]) <= MaxSize /\ Len(values[a]) < Threshold
    BY DEF QuietWithinLimits
  <2>1. Len(values[a]) \in Nat
    BY DEF ValuesInv, StoresTyped
  <2>2. ~(Len(values[a]) > MaxSize) /\ ~(Len(values[a]) >= Threshold)
    BY DEF LimitsWatched, Acting
  <2> QED
    BY <2>1, <2>2, StatefulAssumption
<1> QED
  BY <1>1, <1>2, <1>3, PTL DEF Spec

\* Activity changes one flag.
LEMMA ActiveTypes ==
    ASSUME expired \in [Accs -> BOOLEAN], NEW a, Active(a)
    PROVE  expired' \in [Accs -> BOOLEAN]
<1>1. CASE KeepAlive = TRUE
  BY <1>1 DEF Active
<1>2. CASE KeepAlive = FALSE
  BY <1>2 DEF Active
<1> QED
  BY <1>1, <1>2, StatefulAssumption

\* The TTL of an accumulator has elapsed or has not; nothing else is made of it.
LEMMA FlagsInductive ==
    ASSUME LifeInv, closed \in BOOLEAN, expired \in [Accs -> BOOLEAN], [Next]_vars
    PROVE  closed' \in BOOLEAN /\ expired' \in [Accs -> BOOLEAN]
<1>1. closed' = closed \/ closed' = TRUE
  BY DEF Next, GetOrCreate, Flush, AppendValue, Measure, PopOldest, ShouldFlush, FlushTriggered,
         Touch, Cleanup, TestExpired, RemoveKey, CloseSwept, Close, CloseDrained, Expire, vars, manager
<1>2. \/ expired' = expired
      \/ \E a : Active(a)
      \/ \E a \in Accs : expired' = [expired EXCEPT ![a] = TRUE]
  BY DEF Next, GetOrCreate, Flush, AppendValue, Measure, PopOldest, ShouldFlush, FlushTriggered,
         Touch, Cleanup, TestExpired, RemoveKey, CloseSwept, Close, CloseDrained, Expire, vars,
         StoreAppend, StorePopOldest, StoreFlush
<1>3. ASSUME NEW a, Active(a) PROVE expired' \in [Accs -> BOOLEAN]
  BY <1>3, ActiveTypes
<1>4. ASSUME NEW a \in Accs, expired' = [expired EXCEPT ![a] = TRUE]
      PROVE  expired' \in [Accs -> BOOLEAN]
  BY <1>4
<1> QED
  BY <1>1, <1>2, <1>3, <1>4

\* Every variable keeps its type: a key maps to no accumulator or to one created,
\* and only values that were stored are buffered, flushed or dropped.
THEOREM TypeCorrect == Spec => []TypeOK
<1> DEFINE Inv == LifeInv /\ ValuesInv /\ closed \in BOOLEAN /\ expired \in [Accs -> BOOLEAN]
<1>1. Init => Inv
  <2>1. Init => closed \in BOOLEAN /\ expired \in [Accs -> BOOLEAN]
    BY DEF Init
  <2> QED
    BY <2>1, LifeInit, ValuesInit
<1>2. Inv /\ [Next]_vars => Inv'
  BY LifeInductive, ValuesInductive, FlagsInductive
<1>3. Inv => TypeOK
  BY DEF LifeInv, ValuesInv, TypeOK
<1> QED
  BY <1>1, <1>2, <1>3, PTL DEF Spec
=============================================================================
