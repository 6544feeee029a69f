------------------------------ MODULE Stateful ------------------------------
(***************************************************************************)
(* Keyed accumulators of rskit-stateful: Manager (manager.rs), Accumulator *)
(* (accumulator.rs) and MemoryStore (memory_store.rs), used by concurrent  *)
(* threads.  Every lock section is a step: an append stores, measures,     *)
(* evicts, evaluates its triggers and flushes or touches in separate       *)
(* sections, and a sweep tests an accumulator before it removes one.       *)
(*                                                                         *)
(* A value is its place in the order in which values were stored.  Time is *)
(* abstract: the TTL of an accumulator may elapse at any moment, and with  *)
(* keep_alive any activity starts it anew.                                 *)
(***************************************************************************)
EXTENDS Naturals, FiniteSets, Sequences, SequencesExt

CONSTANTS
    Threads,    \* callers
    Keys,       \* K
    Ops,        \* the operations they call
    MaxOps,     \* bound: how many operations are called altogether
    MaxSize,    \* AccumulatorConfig::max_size, counting values
    Threshold,  \* SizeTrigger::threshold
    KeepAlive   \* AccumulatorConfig::keep_alive

ASSUME StatefulAssumption ==
    /\ IsFiniteSet(Threads) /\ IsFiniteSet(Keys)
    /\ Ops \subseteq {"append", "flush", "cleanup_expired", "close"}
    /\ MaxOps \in Nat /\ MaxSize \in Nat /\ Threshold \in Nat \ {0}
    /\ KeepAlive \in BOOLEAN

VARIABLES
    accumulators,  \* ManagerState::accumulators, 0 for a key without one
    closed,        \* ManagerState::closed
    created,       \* how many accumulators were created; they are 1..created
    values,        \* MemoryStore::values of each
    expired,       \* its TTL has elapsed
    pc,            \* where each thread is in its call
    acc,           \* the Arc<Accumulator> an append or a removal works on
    key,           \* the key a sweep is about to remove
    candidates,    \* <<key, accumulator>> a sweep has still to test, a close to close
    calls,         \* number of operations called
    stored,        \* history: number of values stored
    closes,        \* history: how often each accumulator was closed
    flushed,       \* history: what flushes of each accumulator returned, in order
    dropped        \* history: values evicted, or discarded by a close

manager == <<accumulators, closed, created>>
locals == <<pc, acc, key, candidates>>
history == <<stored, closes, flushed, dropped>>
vars == <<manager, values, expired, locals, calls, history>>

Accs == 1..MaxOps  \* every append creates at most one
NoKey == "none"

Init ==
    /\ accumulators = [k \in Keys |-> 0]
    /\ closed = FALSE
    /\ created = 0
    /\ values = [a \in Accs |-> <<>>]
    /\ expired = [a \in Accs |-> FALSE]
    /\ pc = [t \in Threads |-> "idle"]
    /\ acc = [t \in Threads |-> 0]
    /\ key = [t \in Threads |-> NoKey]
    /\ candidates = [t \in Threads |-> {}]
    /\ calls = 0
    /\ stored = 0
    /\ closes = [a \in Accs |-> 0]
    /\ flushed = [a \in Accs |-> <<>>]
    /\ dropped = {}

(***************************************************************************)
(* The store: one lock section each                                        *)
(***************************************************************************)

\* last_activity = now.
Active(a) == expired' = [expired EXCEPT ![a] = IF KeepAlive THEN FALSE ELSE @]

StoreAppend(a) ==
    /\ stored' = stored + 1
    /\ values' = [values EXCEPT ![a] = Append(@, stored + 1)]
    /\ Active(a)

StorePopOldest(a) ==
    IF values[a] = <<>>
    THEN UNCHANGED <<values, expired, dropped>>
    ELSE /\ values' = [values EXCEPT ![a] = Tail(@)]
         /\ dropped' = dropped \cup {Head(values[a])}
         /\ Active(a)

\* Mutant: the values returned stay in the buffer.
StoreFlushKeeps(a) ==
    /\ flushed' = [flushed EXCEPT ![a] = @ \o values[a]]
    /\ UNCHANGED values
    /\ Active(a)

StoreFlush(a) ==
    /\ flushed' = [flushed EXCEPT ![a] = @ \o values[a]]
    /\ values' = [values EXCEPT ![a] = <<>>]
    /\ Active(a)

StoreClose(a) ==
    /\ values' = [values EXCEPT ![a] = <<>>]
    /\ dropped' = dropped \cup ToSet(values[a])
    /\ closes' = [closes EXCEPT ![a] = @ + 1]

(***************************************************************************)
(* Calls                                                                   *)
(***************************************************************************)

Goto(t, label) == pc' = [pc EXCEPT ![t] = label]
At(t, label) == pc[t] = label

Call(t, op) ==
    /\ At(t, "idle") /\ calls < MaxOps /\ op \in Ops
    /\ calls' = calls + 1

\* Manager::append(): get_or_create(), refused once closed.
GetOrCreate(t, k) ==
    /\ Call(t, "append")
    /\ IF closed
       THEN UNCHANGED <<accumulators, created, pc, acc>>
       ELSE LET new == accumulators[k] = 0
                a == IF new THEN created + 1 ELSE accumulators[k]
            IN  /\ accumulators' = [accumulators EXCEPT ![k] = a]
                /\ created' = IF new THEN created + 1 ELSE created
                /\ acc' = [acc EXCEPT ![t] = a]
                /\ Goto(t, "append")
    /\ UNCHANGED <<closed, values, expired, key, candidates, history>>

\* Accumulator::append(), section by section.
AppendValue(t) ==
    /\ At(t, "append")
    /\ StoreAppend(acc[t])
    /\ Goto(t, "measure")
    /\ UNCHANGED <<manager, acc, key, candidates, calls, closes, flushed, dropped>>

\* enforce_max_size(): measure() > max_size, then pop_oldest(), and again.
Measure(t) ==
    /\ At(t, "measure")
    /\ Goto(t, IF Len(values[acc[t]]) > MaxSize THEN "pop" ELSE "trigger")
    /\ UNCHANGED <<manager, values, expired, acc, key, candidates, calls, history>>

PopOldest(t) ==
    /\ At(t, "pop")
    /\ StorePopOldest(acc[t])
    /\ Goto(t, IF values[acc[t]] = <<>> THEN "trigger" ELSE "measure")
    /\ UNCHANGED <<manager, acc, key, candidates, calls, stored, closes, flushed>>

\* Mutant: the size trigger fires above the threshold only.
ShouldFlushAbove(t) ==
    /\ At(t, "trigger")
    /\ \/ Goto(t, "flush")
       \/ Len(values[acc[t]]) <= Threshold /\ Goto(t, "touch")
    /\ UNCHANGED <<manager, values, expired, acc, key, candidates, calls, history>>

\* should_flush(): a SizeTrigger, and a TimeTrigger whose interval may be over.
ShouldFlush(t) ==
    /\ At(t, "trigger")
    /\ \/ Goto(t, "flush")
       \/ Len(values[acc[t]]) < Threshold /\ Goto(t, "touch")
    /\ UNCHANGED <<manager, values, expired, acc, key, candidates, calls, history>>

FlushTriggered(t) ==
    /\ At(t, "flush")
    /\ StoreFlush(acc[t])
    /\ Goto(t, "idle")
    /\ UNCHANGED <<manager, acc, key, candidates, calls, stored, closes, dropped>>

Touch(t) ==
    /\ At(t, "touch")
    /\ Active(acc[t])
    /\ Goto(t, "idle")
    /\ UNCHANGED <<manager, values, acc, key, candidates, calls, history>>

\* Manager::flush(): the manager's lock is held across the store's.
Flush(t, k) ==
    /\ Call(t, "flush")
    /\ IF accumulators[k] = 0
       THEN UNCHANGED <<values, expired, flushed>>
       ELSE StoreFlush(accumulators[k])
    /\ UNCHANGED <<manager, locals, stored, closes, dropped>>

\* The accumulators of the manager, as a sweep or a close copies them.
Held == {<<k, accumulators[k]>> : k \in {k \in Keys : accumulators[k] # 0}}

\* cleanup_expired(): copy the candidates; test one; remove what its key maps to
\* by then; close it.
Cleanup(t) ==
    /\ Call(t, "cleanup_expired")
    /\ candidates' = [candidates EXCEPT ![t] = Held]
    /\ Goto(t, IF Held = {} THEN "idle" ELSE "sweep")
    /\ UNCHANGED <<manager, values, expired, acc, key, history>>

\* Where a loop over candidates goes when one is done.
NextCandidate(t, label) == IF candidates[t] = {} THEN "idle" ELSE label

TestExpired(t) ==
    /\ At(t, "sweep")
    /\ \E c \in candidates[t] :
        /\ candidates' = [candidates EXCEPT ![t] = @ \ {c}]
        /\ IF expired[c[2]]
           THEN /\ key' = [key EXCEPT ![t] = c[1]]
                /\ Goto(t, "remove")
           ELSE /\ Goto(t, IF candidates[t] = {c} THEN "idle" ELSE "sweep")
                /\ UNCHANGED key
    /\ UNCHANGED <<manager, values, expired, acc, calls, history>>

\* Mutant: the sweep closes the accumulator but leaves it in the map.
RemoveKeyNot(t) ==
    /\ At(t, "remove")
    /\ key' = [key EXCEPT ![t] = NoKey]
    /\ acc' = [acc EXCEPT ![t] = accumulators[key[t]]]
    /\ Goto(t, IF accumulators[key[t]] = 0 THEN NextCandidate(t, "sweep") ELSE "close_swept")
    /\ UNCHANGED <<manager, values, expired, candidates, calls, history>>

RemoveKey(t) ==
    /\ At(t, "remove")
    /\ key' = [key EXCEPT ![t] = NoKey]
    /\ LET a == accumulators[key[t]] IN
       IF a = 0
       THEN /\ Goto(t, NextCandidate(t, "sweep"))
            /\ UNCHANGED <<accumulators, acc>>
       ELSE /\ accumulators' = [accumulators EXCEPT ![key[t]] = 0]
            /\ acc' = [acc EXCEPT ![t] = a]
            /\ Goto(t, "close_swept")
    /\ UNCHANGED <<closed, created, values, expired, candidates, calls, stored, closes,
                   flushed, dropped>>

CloseSwept(t) ==
    /\ At(t, "close_swept")
    /\ StoreClose(acc[t])
    /\ Goto(t, NextCandidate(t, "sweep"))
    /\ UNCHANGED <<manager, expired, acc, key, candidates, calls, stored, flushed>>

\* Manager::close(): mark and drain under one lock, close outside it.
Close(t) ==
    /\ Call(t, "close")
    /\ closed' = TRUE
    /\ accumulators' = [k \in Keys |-> 0]
    /\ candidates' = [candidates EXCEPT ![t] = Held]
    /\ Goto(t, IF Held = {} THEN "idle" ELSE "closing")
    /\ UNCHANGED <<created, values, expired, acc, key, history>>

CloseDrained(t) ==
    /\ At(t, "closing")
    /\ \E c \in candidates[t] :
        /\ StoreClose(c[2])
        /\ candidates' = [candidates EXCEPT ![t] = @ \ {c}]
        /\ Goto(t, IF candidates[t] = {c} THEN "idle" ELSE "closing")
    /\ UNCHANGED <<manager, expired, acc, key, calls, stored, flushed>>

\* The TTL of an accumulator elapses.
Expire(a) ==
    /\ a <= created /\ ~expired[a]
    /\ expired' = [expired EXCEPT ![a] = TRUE]
    /\ UNCHANGED <<manager, values, locals, calls, stored, closes, flushed, dropped>>

Next ==
    \/ \E t \in Threads :
        \/ \E k \in Keys : GetOrCreate(t, k) \/ Flush(t, k)
        \/ AppendValue(t) \/ Measure(t) \/ PopOldest(t) \/ ShouldFlush(t)
        \/ FlushTriggered(t) \/ Touch(t)
        \/ Cleanup(t) \/ TestExpired(t) \/ RemoveKey(t) \/ CloseSwept(t)
        \/ Close(t) \/ CloseDrained(t)
    \/ \E a \in Accs : Expire(a)

Spec == Init /\ [][Next]_vars

(***************************************************************************)
(* Properties                                                              *)
(***************************************************************************)

\* The state keeps its types: a key maps to no accumulator or to one created, and
\* what is buffered, flushed or dropped was stored.
CallsTyped ==
    /\ accumulators \in [Keys -> 0..created]
    /\ created \in 0..MaxOps /\ calls \in 0..MaxOps
    /\ closes \in [Accs -> Nat]
    /\ pc \in [Threads -> {"idle", "append", "measure", "pop", "trigger", "flush",
                          "touch", "sweep", "remove", "close_swept", "closing"}]
    /\ acc \in [Threads -> 0..created] /\ key \in [Threads -> Keys \cup {NoKey}]
    /\ candidates \in [Threads -> SUBSET (Keys \X (1..created))]

StoresTyped ==
    /\ stored \in Nat
    /\ values \in [Accs -> Seq(1..stored)] /\ flushed \in [Accs -> Seq(1..stored)]
    /\ dropped \in SUBSET (1..stored)

TypeOK ==
    /\ CallsTyped /\ StoresTyped
    /\ closed \in BOOLEAN /\ expired \in [Accs -> BOOLEAN]

\* Threads that have still to close accumulator a.
Closers(a) ==
    {t \in Threads :
        \/ At(t, "close_swept") /\ acc[t] = a
        \/ At(t, "closing") /\ \E c \in candidates[t] : c[2] = a}

\* Every accumulator is closed exactly once: it is held by the manager, or one
\* sweep or close has taken it and will close it, or it was closed; and a
\* closed manager holds none (manager.rs cleanup_expired(), close()).
ClosedExactlyOnce ==
    /\ \A a \in 1..created :
        Cardinality({k \in Keys : accumulators[k] = a}) + Cardinality(Closers(a)) + closes[a] = 1
    /\ closed => Held = {}

\* No value is duplicated, reordered or lost in between: each value stored is
\* in one buffer, or was returned by one flush, or was evicted or discarded;
\* flushes return the values of an accumulator in the order they were stored
\* (memory_store.rs flush(), pop_oldest(), close()).
ValuesConserved ==
    LET seqs == [a \in Accs |-> flushed[a] \o values[a]]
    IN  /\ \A a \in Accs : \A i, j \in DOMAIN seqs[a] : i < j => seqs[a][i] < seqs[a][j]
        /\ \A v \in 1..stored :
            Cardinality({a \in Accs : v \in ToSet(seqs[a])})
                + (IF v \in dropped THEN 1 ELSE 0) = 1

\* Racing appends never leave a buffer over a limit: when no append to an
\* accumulator is between storing its value and acting on its triggers, its
\* size is at most max_size and below the threshold (accumulator.rs append(),
\* enforce_max_size(), should_flush()).
QuietWithinLimits ==
    \A a \in Accs :
        (\A t \in Threads : pc[t] \in {"measure", "pop", "trigger", "flush"} => acc[t] # a)
        => Len(values[a]) <= MaxSize /\ Len(values[a]) < Threshold
=============================================================================
