---------------------------- MODULE PolicyProofs ----------------------------
(***************************************************************************)
(* Machine-checked proofs about the circuit breaker, for every number of   *)
(* callers and every configuration that CbConfig::validate() accepts, and  *)
(* about the policy stack around it.                                       *)
(*                                                                         *)
(* None of the breaker's properties is inductive on its own.  The          *)
(* invariant that is relates the counters to the state (CountersFit), the  *)
(* timestamp to the time spent open (TimestampFits), each caller's         *)
(* position in execute() to the transition it carries and to its probe     *)
(* (CallersFit), and the slots handed out to the probes they were handed   *)
(* to (SlotsFit).  Under a policy the breaker takes no step that           *)
(* CircuitBreaker does not allow, so what is proved of it holds there too. *)
(***************************************************************************)
EXTENDS Policy, FiniteSetTheorems, SequenceLemmas

(***************************************************************************)
(* The circuit breaker                                                     *)
(***************************************************************************)

USE DEF CbConfigValid

CountersFit ==
    /\ state = "Closed" => failures < MaxFailures
    /\ state = "HalfOpen" => successes < HalfOpenMax /\ probes_ok <= successes

TimestampFits ==
    state = "Open" => last_failure # NoInstant /\ last_failure <= open_for

CallersFit ==
    /\ \A c \in Callers :
         pc[c] \in {"notify_pre", "notify_post"} <=> transition[c] # NoTransition
    /\ \A c \in probe : pc[c] \in {"notify_pre", "calling"}
    /\ probe # {} => state = "HalfOpen"

SlotsFit ==
    state = "HalfOpen" => Cardinality(probe) + probes_ok + probes_lost = half_open_calls

IndInv == TypeOK /\ CountersFit /\ TimestampFits /\ CallersFit /\ SlotsFit

-----------------------------------------------------------------------------

\* The probes form a finite set, and adding or removing one changes its size by
\* at most one.
LEMMA ProbeCardinality ==
    ASSUME probe \in SUBSET Callers, NEW c \in Callers
    PROVE  /\ Cardinality(probe) \in Nat
           /\ c \notin probe => Cardinality(probe \cup {c}) = Cardinality(probe) + 1
           /\ c \in probe => Cardinality(probe \ {c}) = Cardinality(probe) - 1
           /\ c \notin probe => probe \ {c} = probe
           /\ Cardinality({c}) = 1
           /\ Cardinality({}) = 0
<1>1. IsFiniteSet(probe)
  BY FS_Subset, CallersAssumption
<1>2. Cardinality(probe) \in Nat
  BY <1>1, FS_CardinalityType
<1>3. c \notin probe => Cardinality(probe \cup {c}) = Cardinality(probe) + 1
  BY <1>1, FS_AddElement
<1>4. c \in probe => Cardinality(probe \ {c}) = Cardinality(probe) - 1
  BY <1>1, FS_RemoveElement
<1>5. c \notin probe => probe \ {c} = probe
  OBVIOUS
<1>6. Cardinality({c}) = 1 /\ Cardinality({}) = 0
  BY FS_Singleton, FS_EmptySet
<1> QED
  BY <1>2, <1>3, <1>4, <1>5, <1>6

\* A new breaker (Inner::new()) satisfies the invariant.
LEMMA InitEstablishes == Init => IndInv
BY CbConfigAssumption, FS_EmptySet
DEF Init, IndInv, TypeOK, CountersFit, TimestampFits, CallersFit, SlotsFit,
    CbState, NoInstant, NoTransition

\* The pre-call section of execute() preserves the invariant.
LEMMA AdmitPreserves ==
    ASSUME IndInv, NEW c \in Callers, Admit(c) PROVE IndInv'
<1> USE CbConfigAssumption
<1>0. probe \in SUBSET Callers
  BY DEF IndInv, TypeOK
<1>1. CASE AdmitClosed(c)
  BY <1>1 DEF IndInv, TypeOK, CountersFit, TimestampFits, CallersFit, SlotsFit,
     Admit, AdmitClosed, Stay
<1>2. CASE AdmitFirstProbe(c)
  <2>1. <<state, "HalfOpen">> \in Transitions /\ <<state, "HalfOpen">> # NoTransition
    BY <1>2 DEF AdmitFirstProbe, Transitions, CbState, NoTransition
  <2>2. Cardinality({c}) = 1
    BY <1>0, ProbeCardinality
  <2> QED
    BY <1>2, <2>1, <2>2 DEF IndInv, TypeOK, CountersFit, TimestampFits, CallersFit,
       SlotsFit, Admit, AdmitFirstProbe, MoveTo, CbState
<1>3. CASE AdmitProbe(c)
  <2>1. c \notin probe
    BY DEF Admit, IndInv, CallersFit
  <2>2. Cardinality(probe \cup {c}) = Cardinality(probe) + 1 /\ Cardinality(probe) \in Nat
    BY <1>0, <2>1, ProbeCardinality
  <2> QED
    BY <1>3, <2>2 DEF IndInv, TypeOK, CountersFit, TimestampFits, CallersFit,
       SlotsFit, Admit, AdmitProbe, Stay, SlotFree
<1>4. CASE Reject(c)
  BY <1>4 DEF IndInv, TypeOK, CountersFit, TimestampFits, CallersFit, SlotsFit,
     Admit, Reject, inner, history
<1> QED
  BY <1>1, <1>2, <1>3, <1>4 DEF Admit

\* The post-call section preserves the invariant when the operation returned Ok.
LEMMA SucceedPreserves ==
    ASSUME IndInv, NEW c \in Callers, Succeed(c) PROVE IndInv'
<1> USE CbConfigAssumption
<1>0. probe \in SUBSET Callers
  BY DEF IndInv, TypeOK
<1>1. CASE SucceedHalfOpen(c) /\ EnoughSuccesses
  <2>1. <<state, "Closed">> \in Transitions /\ <<state, "Closed">> # NoTransition
    BY <1>1 DEF SucceedHalfOpen, Transitions, CbState, NoTransition
  <2> QED
    BY <1>1, <2>1 DEF IndInv, TypeOK, CountersFit, TimestampFits, CallersFit,
       SlotsFit, Succeed, SucceedHalfOpen, MoveTo, CbState
<1>2. CASE SucceedHalfOpen(c) /\ ~EnoughSuccesses
  <2>1. /\ Cardinality(probe) \in Nat
        /\ c \in probe => Cardinality(probe \ {c}) = Cardinality(probe) - 1
        /\ c \notin probe => probe \ {c} = probe
    BY <1>0, ProbeCardinality
  <2>2. probe' = probe \ {c} /\ probes_ok \in Nat
    BY <1>2 DEF SucceedHalfOpen, IndInv, TypeOK
  <2>3. /\ Cardinality(probe') + probes_ok' = Cardinality(probe) + probes_ok
        /\ probes_ok' \in Nat /\ probes_ok' <= probes_ok + 1
    <3>1. CASE c \in probe
      BY <1>2, <2>1, <2>2, <3>1 DEF SucceedHalfOpen
    <3>2. CASE c \notin probe
      <4>1. probe' = probe
        BY <2>2, <3>2
      <4>2. probes_ok' = probes_ok
        BY <1>2, <2>2, <3>2 DEF SucceedHalfOpen
      <4> QED
        BY <2>1, <2>2, <4>1, <4>2
    <3> QED
      BY <3>1, <3>2
  <2>4. TypeOK' /\ CountersFit'
    BY <1>2, <2>3 DEF IndInv, TypeOK, CountersFit, Succeed, SucceedHalfOpen,
       EnoughSuccesses, Stay
  <2>5. TimestampFits' /\ CallersFit'
    BY <1>2 DEF IndInv, TypeOK, TimestampFits, CallersFit, Succeed,
       SucceedHalfOpen, Stay, Calling
  <2>6. SlotsFit'
    BY <1>2, <2>3 DEF IndInv, SlotsFit, Succeed, SucceedHalfOpen, Stay
  <2> QED
    BY <2>4, <2>5, <2>6 DEF IndInv
<1>3. CASE SucceedClosed(c) \/ SucceedOpen(c)
  BY <1>3 DEF IndInv, TypeOK, CountersFit, TimestampFits, CallersFit, SlotsFit,
     Succeed, SucceedClosed, SucceedOpen, Stay, Calling
<1> QED
  BY <1>1, <1>2, <1>3 DEF Succeed

\* The post-call section preserves the invariant when the operation returned Err.
LEMMA FailPreserves ==
    ASSUME IndInv, NEW c \in Callers, Fail(c) PROVE IndInv'
<1> USE CbConfigAssumption
<1>1. CASE Trips
  <2>1. <<state, "Open">> \in Transitions /\ <<state, "Open">> # NoTransition
    BY <1>1 DEF Trips, Transitions, CbState, NoTransition
  <2> QED
    BY <1>1, <2>1 DEF IndInv, TypeOK, CountersFit, TimestampFits, CallersFit,
       SlotsFit, Fail, MoveTo, CbState, RecordFailureTime, NoInstant, Bump
<1>2. CASE ~Trips
  BY <1>2 DEF IndInv, TypeOK, CountersFit, TimestampFits, CallersFit, SlotsFit,
     Fail, Stay, Trips, RecordFailureTime, NoInstant, Bump, Calling
<1> QED
  BY <1>1, <1>2

\* Delivering the callback preserves the invariant.
LEMMA NotifyPreserves ==
    ASSUME IndInv, NEW c \in Callers, Notify(c) PROVE IndInv'
<1>1. transition[c] \in CbState \X CbState
  BY DEF IndInv, TypeOK, CallersFit, Notify, Transitions
<1>2. delivered' \in [CbState -> Int]
  BY <1>1 DEF IndInv, TypeOK, Notify
<1>3. TypeOK'
  BY <1>2 DEF IndInv, TypeOK, Notify, inner, history
<1>4. CountersFit' /\ TimestampFits' /\ SlotsFit'
  BY DEF IndInv, CountersFit, TimestampFits, SlotsFit, Notify, inner, history
<1>5. CallersFit'
  BY DEF IndInv, TypeOK, CallersFit, Notify, inner, history
<1> QED
  BY <1>3, <1>4, <1>5 DEF IndInv

\* Dropping a call at its await preserves the invariant.
LEMMA DropPreserves ==
    ASSUME IndInv, NEW c \in Callers, Drop(c) PROVE IndInv'
<1>1. /\ Cardinality(probe) \in Nat
      /\ c \in probe => Cardinality(probe \ {c}) = Cardinality(probe) - 1
      /\ c \notin probe => probe \ {c} = probe
  BY ProbeCardinality DEF IndInv, TypeOK
<1>2. /\ probe' = probe \ {c} /\ probes_lost \in Nat /\ probes_ok \in Nat
      /\ UNCHANGED <<state, half_open_calls, probes_ok>>
  BY DEF IndInv, TypeOK, Drop, inner
<1>3. /\ Cardinality(probe') + probes_lost' = Cardinality(probe) + probes_lost
      /\ probes_lost' \in 0..HalfOpenMax
  <2>1. CASE c \in probe
    <3>1. probes_lost' = probes_lost + 1
      BY <1>2, <2>1 DEF Drop
    <3>2. state = "HalfOpen"
      BY <2>1 DEF IndInv, CallersFit, SlotsFit
    <3>3. /\ Cardinality(probe) + probes_ok + probes_lost = half_open_calls
          /\ half_open_calls <= HalfOpenMax /\ half_open_calls \in Nat
          /\ HalfOpenMax \in Nat
      BY <3>2, CbConfigAssumption DEF IndInv, TypeOK, SlotsFit, CbConfigValid
    <3>4. Cardinality(probe') = Cardinality(probe) - 1 /\ Cardinality(probe') \in Nat
      BY <1>1, <1>2, <2>1, FS_CardinalityType, FS_Subset, CallersAssumption
      DEF IndInv, TypeOK
    <3> QED
      BY <1>1, <1>2, <3>1, <3>3, <3>4
  <2>2. CASE c \notin probe
    <3>1. probe' = probe /\ probes_lost' = probes_lost
      BY <1>1, <1>2, <2>2 DEF Drop
    <3> QED
      BY <3>1 DEF IndInv, TypeOK
  <2> QED
    BY <2>1, <2>2
<1>4. TypeOK'
  BY <1>3 DEF IndInv, TypeOK, Drop, inner
<1>5. CountersFit' /\ TimestampFits' /\ CallersFit'
  BY DEF IndInv, TypeOK, CountersFit, TimestampFits, CallersFit, Drop, inner,
     Calling
<1>6. SlotsFit'
  <2>1. CASE state = "HalfOpen"
    <3>1. /\ Cardinality(probe) + probes_ok + probes_lost = half_open_calls
          /\ probes_lost' \in Nat /\ Cardinality(probe') \in Nat
      BY <1>3, <2>1, CbConfigAssumption, FS_CardinalityType, FS_Subset,
         CallersAssumption
      DEF IndInv, TypeOK, SlotsFit, Drop
    <3> QED
      BY <1>1, <1>2, <1>3, <3>1 DEF SlotsFit
  <2>2. CASE state # "HalfOpen"
    BY <1>2, <2>2 DEF IndInv, SlotsFit
  <2> QED
    BY <2>1, <2>2
<1> QED
  BY <1>4, <1>5, <1>6 DEF IndInv

\* reset() preserves the invariant, whatever calls are in flight.
LEMMA ResetPreserves == ASSUME IndInv, Reset PROVE IndInv'
BY CbConfigAssumption
DEF IndInv, TypeOK, CountersFit, TimestampFits, CallersFit, SlotsFit, Reset,
    CbState, NoInstant

\* The passage of time preserves the invariant.
LEMMA TickPreserves == ASSUME IndInv, Tick PROVE IndInv'
BY CbConfigAssumption
DEF IndInv, TypeOK, CountersFit, TimestampFits, CallersFit, SlotsFit, Tick,
    NoInstant, Bump

\* IndInv is inductive: it holds in every reachable state of the breaker.
THEOREM Inductive == Spec => []IndInv
<1>1. IndInv /\ [Next]_vars => IndInv'
  <2> SUFFICES ASSUME IndInv, [Next]_vars PROVE IndInv'
    OBVIOUS
  <2>1. ASSUME NEW c \in Callers,
               Admit(c) \/ Succeed(c) \/ Fail(c) \/ Notify(c) \/ Drop(c)
        PROVE  IndInv'
    BY <2>1, AdmitPreserves, SucceedPreserves, FailPreserves, NotifyPreserves,
       DropPreserves
  <2>2. CASE Reset
    BY <2>2, ResetPreserves
  <2>3. CASE Tick
    BY <2>3, TickPreserves
  <2>4. CASE UNCHANGED vars
    BY <2>4 DEF IndInv, TypeOK, CountersFit, TimestampFits, CallersFit, SlotsFit,
       vars, inner, history
  <2> QED
    BY <2>1, <2>2, <2>3, <2>4 DEF Next
<1> QED
  BY <1>1, InitEstablishes, PTL DEF Spec

-----------------------------------------------------------------------------

\* Every reachable state of Inner and of the callers is well typed: in particular
\* half_open_calls and successes never exceed half_open_max_calls.
THEOREM TypeCorrect == Spec => []TypeOK
BY Inductive, PTL DEF IndInv

\* A closed breaker is always below its failure threshold.
THEOREM ClosedIsBelowThreshold == Spec => []ClosedBelowThreshold
<1>1. IndInv => ClosedBelowThreshold
  BY DEF IndInv, CountersFit, ClosedBelowThreshold
<1> QED
  BY <1>1, Inductive, PTL

\* An open breaker always has a timestamp and so can leave Open.
THEOREM OpenAlwaysCanExpire == Spec => []OpenCanExpire
<1>1. IndInv => OpenCanExpire
  BY DEF IndInv, TimestampFits, OpenCanExpire
<1> QED
  BY <1>1, Inductive, PTL

\* Every probe handed out and not yet recorded is in flight.
LEMMA ProbesAreInFlight == IndInv => ProbesInFlight = probe
BY DEF IndInv, CallersFit, ProbesInFlight

\* However many callers race for the slots, the probes in flight and the probes
\* that succeeded never exceed half_open_max_calls.
THEOREM ProbesAreBounded == Spec => []ProbesBounded
<1>1. IndInv => ProbesBounded
  BY ProbesAreInFlight DEF IndInv, TypeOK, SlotsFit, ProbesBounded
<1> QED
  BY <1>1, Inductive, PTL

\* A half-open breaker that has no slot left, and lost no probe to a dropped
\* future, always has a probe in flight whose result will decide it.
THEOREM SaturatedAlwaysHasProbe ==
    Spec => []SaturatedHasProbe
<1>1. IndInv => SaturatedHasProbe
  <2> SUFFICES ASSUME IndInv, Saturated, probes_lost = 0 PROVE probe # {}
    BY ProbesAreInFlight DEF SaturatedHasProbe
  <2>1. Cardinality(probe) + probes_ok = half_open_calls /\ probes_ok < HalfOpenMax
    BY CbConfigAssumption, FS_CardinalityType, FS_Subset, CallersAssumption
    DEF IndInv, TypeOK, SlotsFit, CountersFit, Saturated
  <2>2. Cardinality(probe) # 0
    BY <2>1, CbConfigAssumption DEF IndInv, TypeOK, Saturated
  <2> QED
    BY <2>2, FS_EmptySet
<1> QED
  BY <1>1, Inductive, PTL

\* Whichever failure opened the breaker, and whichever late failures moved the
\* timestamp, it stays open for at least the timeout.
THEOREM StaysOpenForTimeout == Spec => OpenForTimeout
<1>1. IndInv /\ [Next]_vars
        => [state = "Open" /\ state' = "HalfOpen" => open_for >= Timeout]_vars
  <2> SUFFICES ASSUME IndInv, Next, state = "Open", state' = "HalfOpen"
               PROVE  open_for >= Timeout
    BY DEF vars, inner, history
  <2>1. PICK c \in Callers : AdmitFirstProbe(c)
    BY DEF Next, Admit, AdmitClosed, AdmitProbe, Reject, Succeed, SucceedHalfOpen,
       SucceedClosed, SucceedOpen, Fail, Trips, Stay, Notify, Drop, Reset, Tick,
       inner
  <2> QED
    BY <2>1, CbConfigAssumption
    DEF IndInv, TypeOK, TimestampFits, AdmitFirstProbe, Elapsed, NoInstant
<1> QED
  BY <1>1, Inductive, PTL DEF Spec, OpenForTimeout

-----------------------------------------------------------------------------

\* The callers whose pending callback reports a transition out of s (side 1) or
\* into s (side 2).
Pending(side, s) == {c \in Callers : transition[c] # NoTransition /\ transition[c][side] = s}

One(a, b) == IF a = b THEN 1 ELSE 0

FlowBalanced ==
    \A s \in CbState :
        delivered[s] + Cardinality(Pending(2, s)) - Cardinality(Pending(1, s))
            = One(s, state) - One(s, "Closed")

\* A caller that keeps a transition is one more to report it; one that has
\* reported its transition is one less.
LEMMA PendingCounts ==
    ASSUME TypeOK, NEW c \in Callers, NEW t \in Transitions, NEW side \in {1, 2}, NEW s
    PROVE  /\ Cardinality(Pending(side, s)) \in Nat
           /\ transition[c] = NoTransition /\ transition' = [transition EXCEPT ![c] = t]
              => Cardinality(Pending(side, s)') = Cardinality(Pending(side, s)) + One(t[side], s)
           /\ transition[c] = t /\ transition' = [transition EXCEPT ![c] = NoTransition]
              => Cardinality(Pending(side, s)') = Cardinality(Pending(side, s)) - One(t[side], s)
<1>1. t # NoTransition
  BY DEF Transitions, NoTransition, CbState
<1>2. DOMAIN transition = Callers
  BY DEF TypeOK
<1> DEFINE P == Pending(side, s)
           Q == Pending(side, s)'
<1>3. IsFiniteSet(P) /\ Cardinality(P) \in Nat
  <2>1. P \subseteq Callers
    BY DEF Pending
  <2> QED
    BY <2>1, FS_Subset, FS_CardinalityType, CallersAssumption
<1>4. ASSUME transition[c] = NoTransition, transition' = [transition EXCEPT ![c] = t]
      PROVE  Cardinality(Q) = Cardinality(P) + One(t[side], s)
  <2>1. c \notin P
    BY <1>4 DEF Pending
  <2>2. CASE t[side] = s
    <3>1. Q = P \cup {c}
      BY <1>1, <1>2, <1>4, <2>2 DEF Pending
    <3> HIDE DEF P, Q
    <3> QED
      BY <1>3, <2>1, <2>2, <3>1, FS_AddElement DEF One
  <2>3. CASE t[side] # s
    <3>1. Q = P
      BY <1>1, <1>2, <1>4, <2>3 DEF Pending
    <3> HIDE DEF P, Q
    <3> QED
      BY <1>3, <2>3, <3>1 DEF One
  <2> QED
    BY <2>2, <2>3
<1>5. ASSUME transition[c] = t, transition' = [transition EXCEPT ![c] = NoTransition]
      PROVE  Cardinality(Q) = Cardinality(P) - One(t[side], s)
  <2>1. Q = P \ {c}
    BY <1>2, <1>5 DEF Pending
  <2>2. CASE t[side] = s
    <3>1. c \in P
      BY <1>1, <1>5, <2>2 DEF Pending
    <3> HIDE DEF P, Q
    <3> QED
      BY <1>3, <2>1, <2>2, <3>1, FS_RemoveElement DEF One
  <2>3. CASE t[side] # s
    <3>1. c \notin P
      BY <1>5, <2>3 DEF Pending
    <3>2. Q = P
      BY <2>1, <3>1
    <3> HIDE DEF P, Q
    <3> QED
      BY <1>3, <2>3, <3>2 DEF One
  <2> QED
    BY <2>2, <2>3
<1> QED
  BY <1>3, <1>4, <1>5

\* Every step is a transition of the breaker that a caller keeps, a callback, a
\* reset, or changes nothing the callbacks account for.
LEMMA FlowSteps ==
    ASSUME IndInv, [Next]_vars
    PROVE  \/ UNCHANGED <<state, transition, delivered>>
           \/ /\ UNCHANGED delivered
              /\ \E c \in Callers, to \in CbState \ {state} :
                    /\ transition[c] = NoTransition /\ state' = to
                    /\ transition' = [transition EXCEPT ![c] = <<state, to>>]
           \/ \E c \in Callers : Notify(c)
           \/ Reset
<1>1. ASSUME NEW c \in Callers, pc[c] \in {"idle", "calling"}
      PROVE  transition[c] = NoTransition
  BY <1>1 DEF IndInv, CallersFit
<1>2. CASE \E c \in Callers : Admit(c)
  BY <1>1, <1>2 DEF Admit, AdmitClosed, AdmitFirstProbe, AdmitProbe, Reject, MoveTo, Stay, inner,
                    CbState
<1>3. CASE \E c \in Callers : Succeed(c)
  BY <1>1, <1>3 DEF Succeed, Calling, SucceedHalfOpen, SucceedClosed, SucceedOpen, MoveTo, Stay,
                    CbState
<1>4. CASE \E c \in Callers : Fail(c)
  BY <1>1, <1>4 DEF Fail, Calling, Trips, MoveTo, Stay, CbState
<1>5. CASE \/ \E c \in Callers : Drop(c)
           \/ Tick \/ UNCHANGED vars
  BY <1>5 DEF Drop, Tick, vars, inner
<1> QED
  BY <1>2, <1>3, <1>4, <1>5 DEF Next

\* Every step keeps what was delivered and what is pending in balance with the
\* state.
LEMMA FlowInductive ==
    ASSUME IndInv, FlowBalanced, [Next]_vars PROVE FlowBalanced'
<1> SUFFICES ASSUME NEW s \in CbState
             PROVE  delivered'[s] + Cardinality(Pending(2, s)') - Cardinality(Pending(1, s)')
                        = One(s, state') - One(s, "Closed")
  BY DEF FlowBalanced
<1>0. /\ delivered[s] + Cardinality(Pending(2, s)) - Cardinality(Pending(1, s))
            = One(s, state) - One(s, "Closed")
      /\ delivered \in [CbState -> Int] /\ state \in CbState /\ TypeOK
  BY DEF FlowBalanced, IndInv, TypeOK
<1>1. Cardinality(Pending(1, s)) \in Nat /\ Cardinality(Pending(2, s)) \in Nat
  <2>1. \A side \in {1, 2} : Pending(side, s) \subseteq Callers
    BY DEF Pending
  <2> QED
    BY <2>1, FS_Subset, FS_CardinalityType, CallersAssumption
<1>2. CASE UNCHANGED <<state, transition, delivered>>
  BY <1>0, <1>2 DEF Pending
<1>3. CASE /\ UNCHANGED delivered
           /\ \E c \in Callers, to \in CbState \ {state} :
                /\ transition[c] = NoTransition /\ state' = to
                /\ transition' = [transition EXCEPT ![c] = <<state, to>>]
  <2>1. PICK c \in Callers, to \in CbState \ {state} :
          /\ transition[c] = NoTransition /\ state' = to
          /\ transition' = [transition EXCEPT ![c] = <<state, to>>]
    BY <1>3
  <2>2. <<state, to>> \in Transitions /\ <<state, to>>[1] = state /\ <<state, to>>[2] = to
    BY <1>0 DEF Transitions
  <2>3. /\ Cardinality(Pending(1, s)') = Cardinality(Pending(1, s)) + One(state, s)
        /\ Cardinality(Pending(2, s)') = Cardinality(Pending(2, s)) + One(to, s)
    BY <1>0, <2>1, <2>2, PendingCounts
  <2> QED
    BY <1>0, <1>1, <1>3, <2>1, <2>3 DEF One
<1>4. CASE \E c \in Callers : Notify(c)
  <2>1. PICK c \in Callers : Notify(c)
    BY <1>4
  <2>2. PICK t \in Transitions : transition[c] = t
    BY <2>1 DEF Notify, IndInv, CallersFit, TypeOK
  <2>3. /\ transition' = [transition EXCEPT ![c] = NoTransition] /\ UNCHANGED state
        /\ delivered' = [delivered EXCEPT ![t[1]] = @ - 1, ![t[2]] = @ + 1]
    BY <2>1, <2>2 DEF Notify, inner
  <2>4. t[1] \in CbState /\ t[2] \in CbState /\ t[1] # t[2]
    BY DEF Transitions
  <2>5. /\ Cardinality(Pending(1, s)') = Cardinality(Pending(1, s)) - One(t[1], s)
        /\ Cardinality(Pending(2, s)') = Cardinality(Pending(2, s)) - One(t[2], s)
    BY <1>0, <2>2, <2>3, PendingCounts
  <2>6. delivered'[s] = delivered[s] - One(t[1], s) + One(t[2], s)
    BY <1>0, <2>3, <2>4 DEF One
  <2> QED
    BY <1>0, <1>1, <2>3, <2>5, <2>6 DEF One
<1>5. CASE Reset
  <2>1. /\ state' = "Closed" /\ UNCHANGED transition
        /\ delivered' = [delivered EXCEPT ![state] = @ - 1, !["Closed"] = @ + 1]
    BY <1>5 DEF Reset
  <2>2. delivered'[s] = delivered[s] - One(s, state) + One(s, "Closed")
    BY <1>0, <2>1 DEF One, CbState
  <2>3. Pending(1, s)' = Pending(1, s) /\ Pending(2, s)' = Pending(2, s)
    BY <2>1 DEF Pending
  <2> QED
    BY <1>0, <1>1, <2>1, <2>2, <2>3 DEF One
<1> QED
  BY <1>2, <1>3, <1>4, <1>5, FlowSteps

\* The callbacks delivered, the ones callers have still to deliver and the resets
\* lead from Closed to the breaker's state, in whichever order the callbacks run
\* (circuit_breaker.rs transition(), notify_transition()).
THEOREM CallbacksAccount == Spec => []CallbacksAccountForState
<1>1. Init => FlowBalanced
  <2> SUFFICES ASSUME Init PROVE FlowBalanced
    OBVIOUS
  <2>1. \A side, s : Pending(side, s) = {}
    BY DEF Init, Pending
  <2> QED
    BY <2>1, FS_EmptySet DEF Init, FlowBalanced, One
<1>2. FlowBalanced => CallbacksAccountForState
  <2> SUFFICES ASSUME FlowBalanced PROVE CallbacksAccountForState
    OBVIOUS
  <2>1. \A side, s : Pending(side, s) =
          {c \in {d \in Callers : transition[d] # NoTransition} : transition[c][side] = s}
    BY DEF Pending
  <2> QED
    BY <2>1 DEF FlowBalanced, CallbacksAccountForState, One
<1> QED
  BY <1>1, <1>2, Inductive, FlowInductive, PTL DEF Spec

(***************************************************************************)
(* The policy stack                                                        *)
(***************************************************************************)

\* Every step of a call under a policy is a step of the breaker or leaves it alone.
LEMMA PolicyStepIsBreakerStep == [PolicyNext]_policyVars => [Next]_vars
<1> SUFFICES ASSUME [PolicyNext]_policyVars PROVE [Next]_vars
  OBVIOUS
<1>1. CASE UNCHANGED policyVars
  BY <1>1 DEF policyVars
<1>2. ASSUME NEW c \in Callers,
             \/ Enter(c) \/ WaitExpires(c) \/ Leave(c) \/ AttemptRetried(c)
      PROVE  UNCHANGED vars
  BY <1>2 DEF Enter, WaitExpires, Leave, AttemptRetried
<1>3. ASSUME NEW c \in Callers,
             \/ EnterBreaker(c) \/ CallBack(c) \/ AttemptSucceeds(c)
             \/ AttemptsFail(c) \/ TimeoutElapses(c)
      PROVE  Next
  BY <1>3 DEF EnterBreaker, CallBack, AttemptSucceeds, AttemptsFail, TimeoutElapses, Next
<1>4. ASSUME NEW c \in Callers, DropCall(c)
      PROVE  [Next]_vars
  BY <1>4 DEF DropCall, Next
<1>5. CASE (Reset \/ Tick) /\ UNCHANGED <<bulkhead, stage, attempt>>
  BY <1>5 DEF Next
<1> QED
  BY <1>1, <1>2, <1>3, <1>4, <1>5 DEF PolicyNext

\* The policy stack uses the breaker as its specification allows: it implements
\* the breaker's specification, whatever is dropped, retried or times out.
THEOREM PolicyImplementsBreaker == PolicySpec => Spec
<1>1. PolicyInit => Init
  BY DEF PolicyInit
<1> QED
  BY <1>1, PolicyStepIsBreakerStep, PTL DEF PolicySpec, Spec

\* So under a policy, too, a closed breaker is below its failure threshold, its
\* probes are bounded, one of them is in flight when no slot is left and none was
\* lost, its callbacks account for its state, and it stays open for the timeout.
THEOREM PolicyKeepsBreakerSafe ==
    PolicySpec => /\ [](ClosedBelowThreshold /\ ProbesBounded /\ SaturatedHasProbe
                        /\ CallbacksAccountForState)
                  /\ OpenForTimeout
BY PolicyImplementsBreaker, ClosedIsBelowThreshold, ProbesAreBounded,
   SaturatedAlwaysHasProbe, CallbacksAccount, StaysOpenForTimeout, PTL

-----------------------------------------------------------------------------

HoldStages == {"granted", "in", "breaker", "rejected"}

\* Where a caller is, who holds a permit and who waits for one.  The queue is a
\* queue of distinct callers: without that a caller that leaves it might stay.
BulkheadInv ==
    /\ stage \in [Callers -> {"out", "waiting"} \cup HoldStages]
    /\ waiters \in Seq(Callers) /\ Distinct(waiters)
    /\ permits \in Nat /\ limit \in Nat
    /\ BulkheadSound

\* A breaker step of caller c moves no other caller.
LEMMA BreakerMovesOne ==
    ASSUME IndInv, NEW c \in Callers, Admit(c) \/ Succeed(c) \/ Fail(c) \/ Notify(c) \/ Drop(c)
    PROVE  \A d \in Callers \ {c} : pc'[d] = pc[d]
<1>1. \E next : pc' = [pc EXCEPT ![c] = next] \/ pc' = pc
  BY DEF Admit, AdmitClosed, AdmitFirstProbe, AdmitProbe, Reject, Succeed, SucceedHalfOpen,
         SucceedClosed, SucceedOpen, Fail, Notify, Drop, MoveTo, Stay
<1> QED
  BY <1>1 DEF IndInv, TypeOK

\* Taking or giving a permit changes the number of holders by one.
LEMMA HolderCounts ==
    ASSUME NEW c \in Callers
    PROVE  /\ Cardinality(Holders) \in Nat
           /\ c \notin Holders => Cardinality(Holders \cup {c}) = Cardinality(Holders) + 1
           /\ c \in Holders => Cardinality(Holders \ {c}) = Cardinality(Holders) - 1
           /\ \A d \in Callers \ Holders : c \in Holders =>
                Cardinality((Holders \ {c}) \cup {d}) = Cardinality(Holders)
<1>1. IsFiniteSet(Holders) /\ Cardinality(Holders) \in Nat
  <2>1. Holders \subseteq Callers
    BY DEF Holders
  <2> QED
    BY <2>1, FS_Subset, FS_CardinalityType, CallersAssumption
<1>2. c \notin Holders => Cardinality(Holders \cup {c}) = Cardinality(Holders) + 1
  BY <1>1, FS_AddElement
<1>3. c \in Holders => /\ IsFiniteSet(Holders \ {c})
                       /\ Cardinality(Holders \ {c}) = Cardinality(Holders) - 1
  BY <1>1, FS_RemoveElement
<1>4. ASSUME NEW d \in Callers \ Holders, c \in Holders
      PROVE  Cardinality((Holders \ {c}) \cup {d}) = Cardinality(Holders)
  <2>1. d \notin Holders \ {c}
    OBVIOUS
  <2>2. Cardinality((Holders \ {c}) \cup {d}) = Cardinality(Holders \ {c}) + 1
    BY <1>3, <1>4, <2>1, FS_AddElement
  <2> QED
    BY <1>1, <1>3, <1>4, <2>2
<1> QED
  BY <1>1, <1>2, <1>3, <1>4

\* A caller that gives up its permit hands it to the longest waiter or frees it.
LEMMA GivePermitKeeps ==
    ASSUME BulkheadInv, NEW c \in Callers, c \in Holders, GivePermit(c, "out"), UNCHANGED limit,
           pc'[c] = "idle", \A d \in Callers \ {c} : pc'[d] = pc[d]
    PROVE  BulkheadInv'
<1> USE DEF BulkheadInv, HoldStages
<1>0. stage[c] \in HoldStages
  BY DEF Holders
<1>1. CASE waiters = <<>>
  <2>1. /\ permits' = permits + 1 /\ stage' = [stage EXCEPT ![c] = "out"]
        /\ waiters' = waiters
    BY <1>1 DEF GivePermit, Goto
  <2>2. Holders' = Holders \ {c}
    BY <2>1 DEF Holders
  <2>3. permits' + Cardinality(Holders') = limit'
    BY <2>1, <2>2, HolderCounts DEF BulkheadSound
  <2>4. ToSet(waiters') = {d \in Callers : stage'[d] = "waiting"}
    BY <1>0, <2>1 DEF BulkheadSound
  <2>5. \A d \in Callers : pc'[d] # "idle" => stage'[d] = "breaker"
    BY <2>1 DEF BulkheadSound
  <2> QED
    BY <1>1, <2>1, <2>3, <2>4, <2>5 DEF BulkheadSound
<1>2. CASE waiters # <<>>
  <2> DEFINE h == Head(waiters)
  <2>1. /\ stage' = [stage EXCEPT ![c] = "out", ![h] = "granted"]
        /\ waiters' = Tail(waiters) /\ permits' = permits
    BY <1>2 DEF GivePermit
  <2>2. /\ Tail(waiters) \in Seq(Callers) /\ Distinct(Tail(waiters))
        /\ h \in Callers /\ h \in ToSet(waiters)
        /\ ToSet(Tail(waiters)) = ToSet(waiters) \ {h}
    <3>1. /\ Tail(waiters) \in Seq(Callers) /\ Distinct(Tail(waiters))
          /\ h \in Callers /\ h \in ToSet(waiters) /\ h \notin ToSet(Tail(waiters))
          /\ ToSet(waiters) = ToSet(Tail(waiters)) \cup {h}
      BY <1>2, TailElements
    <3> HIDE DEF h
    <3> QED
      BY <3>1
  <2> HIDE DEF h
  <2>3. stage[h] = "waiting" /\ h # c /\ h \in Callers \ Holders
    BY <1>0, <2>2 DEF BulkheadSound, Holders
  <2>4. Holders' = (Holders \ {c}) \cup {h}
    BY <2>1, <2>2, <2>3 DEF Holders
  <2>5. permits' + Cardinality(Holders') = limit'
    BY <2>1, <2>3, <2>4, HolderCounts DEF BulkheadSound
  <2>6. ToSet(waiters') = {d \in Callers : stage'[d] = "waiting"}
    BY <1>0, <2>1, <2>2, <2>3 DEF BulkheadSound
  <2>7. \A d \in Callers : pc'[d] # "idle" => stage'[d] = "breaker"
    BY <2>1, <2>3 DEF BulkheadSound
  <2>8. permits' = 0
    BY <1>2, <2>1 DEF BulkheadSound
  <2>9. stage' \in [Callers -> {"out", "waiting"} \cup HoldStages]
    BY <2>1
  <2> QED
    BY <2>1, <2>2, <2>5, <2>6, <2>7, <2>8, <2>9 DEF BulkheadSound
<1> QED
  BY <1>1, <1>2

\* A caller whose wait ends leaves the queue without a permit.
LEMMA StopWaitingKeeps ==
    ASSUME BulkheadInv, NEW c \in Callers, stage[c] = "waiting", StopWaiting(c), Goto(c, "out"),
           UNCHANGED <<limit, permits, pc>>
    PROVE  BulkheadInv'
<1> USE DEF BulkheadInv, HoldStages
<1>1. PICK i \in 1..Len(waiters) : waiters[i] = c /\ waiters' = RemoveAt(waiters, i)
  BY DEF StopWaiting
<1>2. /\ waiters' \in Seq(Callers) /\ Distinct(waiters')
      /\ ToSet(waiters') = ToSet(waiters) \ {c}
  BY <1>1, RemoveAtElements
<1>3. stage' = [stage EXCEPT ![c] = "out"]
  BY DEF Goto
<1>4. Holders' = Holders
  BY <1>3 DEF Holders
<1>5. ToSet(waiters') = {d \in Callers : stage'[d] = "waiting"}
  BY <1>2, <1>3 DEF BulkheadSound
<1>6. permits' = 0
  BY <1>1, EmptySeq DEF BulkheadSound
<1>7. \A d \in Callers : pc'[d] # "idle" => stage'[d] = "breaker"
  BY <1>3 DEF BulkheadSound
<1>8. stage' \in [Callers -> {"out", "waiting"} \cup HoldStages]
  BY <1>3
<1> QED
  BY <1>2, <1>4, <1>5, <1>6, <1>7, <1>8 DEF BulkheadSound

\* The first poll of acquire() takes a free permit or queues.
LEMMA EnterKeeps ==
    ASSUME BulkheadInv, NEW c \in Callers, Enter(c) PROVE BulkheadInv'
<1> USE DEF BulkheadInv, HoldStages
<1>0. stage[c] = "out" /\ limit' = limit /\ pc' = pc
  BY DEF Enter, vars
<1>1. CASE permits > 0 /\ permits' = permits - 1 /\ Goto(c, "in") /\ UNCHANGED waiters
  <2>1. stage' = [stage EXCEPT ![c] = "in"]
    BY <1>1 DEF Goto
  <2>2. c \notin Holders /\ Holders' = Holders \cup {c}
    BY <1>0, <2>1 DEF Holders
  <2>3. permits' + Cardinality(Holders') = limit'
    BY <1>0, <1>1, <2>2, HolderCounts DEF BulkheadSound
  <2>4. ToSet(waiters') = {d \in Callers : stage'[d] = "waiting"}
    BY <1>0, <1>1, <2>1 DEF BulkheadSound
  <2>5. \A d \in Callers : pc'[d] # "idle" => stage'[d] = "breaker"
    BY <1>0, <2>1 DEF BulkheadSound
  <2> QED
    BY <1>0, <1>1, <2>1, <2>3, <2>4, <2>5 DEF BulkheadSound
<1>2. CASE /\ permits = 0 /\ waiters' = Append(waiters, c)
           /\ Goto(c, "waiting") /\ UNCHANGED permits
  <2>1. stage' = [stage EXCEPT ![c] = "waiting"]
    BY <1>2 DEF Goto
  <2>2. Holders' = Holders
    BY <1>0, <2>1 DEF Holders
  <2>3. c \notin ToSet(waiters)
    BY <1>0 DEF BulkheadSound
  <2>4. /\ waiters' \in Seq(Callers) /\ Distinct(waiters')
        /\ ToSet(waiters') = ToSet(waiters) \cup {c}
    BY <1>2, <2>3, AppendElements
  <2>5. ToSet(waiters') = {d \in Callers : stage'[d] = "waiting"}
    BY <2>1, <2>4 DEF BulkheadSound
  <2>6. \A d \in Callers : pc'[d] # "idle" => stage'[d] = "breaker"
    BY <1>0, <2>1 DEF BulkheadSound
  <2>7. stage' \in [Callers -> {"out", "waiting"} \cup HoldStages]
    BY <2>1
  <2> QED
    BY <1>0, <1>2, <2>2, <2>4, <2>5, <2>6, <2>7 DEF BulkheadSound
<1> QED
  BY <1>1, <1>2 DEF Enter

\* A caller with a permit goes into the breaker or is rejected by it, and keeps
\* its permit.
LEMMA EnterBreakerKeeps ==
    ASSUME IndInv, BulkheadInv, NEW c \in Callers, EnterBreaker(c) PROVE BulkheadInv'
<1> USE DEF BulkheadInv, HoldStages
<1>1. /\ stage[c] \in HoldStages /\ UNCHANGED <<limit, permits, waiters>>
      /\ stage' = [stage EXCEPT ![c] = IF pc'[c] = "idle" THEN "rejected" ELSE "breaker"]
      /\ \A d \in Callers \ {c} : pc'[d] = pc[d]
  BY BreakerMovesOne DEF EnterBreaker, Goto, bulkhead
<1>2. Holders' = Holders
  BY <1>1 DEF Holders
<1>3. ToSet(waiters') = {d \in Callers : stage'[d] = "waiting"}
  BY <1>1 DEF BulkheadSound
<1>4. \A d \in Callers : pc'[d] # "idle" => stage'[d] = "breaker"
  BY <1>1 DEF BulkheadSound
<1>5. stage' \in [Callers -> {"out", "waiting"} \cup HoldStages]
  BY <1>1
<1> QED
  BY <1>1, <1>2, <1>3, <1>4, <1>5 DEF BulkheadSound

\* Inside the breaker nothing happens to the bulkhead.
LEMMA InsideKeeps ==
    ASSUME BulkheadInv, UNCHANGED <<bulkhead, stage>>,
           \A c \in Callers : pc'[c] = pc[c] \/ pc[c] # "idle"
    PROVE  BulkheadInv'
<1> USE DEF BulkheadInv, bulkhead
<1>1. Holders' = Holders
  BY DEF Holders
<1>2. \A c \in Callers : pc'[c] # "idle" => stage'[c] = "breaker"
  BY DEF BulkheadSound
<1>3. ToSet(waiters') = {d \in Callers : stage'[d] = "waiting"}
  BY DEF BulkheadSound
<1> QED
  BY <1>1, <1>2, <1>3 DEF BulkheadSound

\* Every step of a call keeps the permits accounted for.
LEMMA BulkheadInductive ==
    ASSUME IndInv, BulkheadInv, [PolicyNext]_policyVars PROVE BulkheadInv'
<1>1. ASSUME NEW c \in Callers, Enter(c) \/ EnterBreaker(c) PROVE BulkheadInv'
  BY <1>1, EnterKeeps, EnterBreakerKeeps
<1>2. ASSUME NEW c \in Callers, WaitExpires(c) PROVE BulkheadInv'
  BY <1>2, StopWaitingKeeps DEF WaitExpires, vars
<1>3. ASSUME NEW c \in Callers, Leave(c) PROVE BulkheadInv'
  <2>1. c \in Holders /\ pc[c] = "idle" /\ GivePermit(c, "out") /\ UNCHANGED <<limit, pc>>
    BY <1>3 DEF Leave, Holders, BulkheadInv, BulkheadSound, vars
  <2> QED
    BY <2>1, GivePermitKeeps
<1>4. ASSUME NEW c \in Callers,
             CallBack(c) \/ AttemptSucceeds(c) \/ AttemptsFail(c) \/ TimeoutElapses(c)
      PROVE  BulkheadInv'
  <2>1. /\ Notify(c) \/ Succeed(c) \/ Fail(c)
        /\ UNCHANGED <<bulkhead, stage>>
    BY <1>4 DEF CallBack, AttemptSucceeds, AttemptsFail, TimeoutElapses, InFrame
  <2>2. pc[c] # "idle"
    BY <2>1 DEF Notify, Succeed, Fail, Calling
  <2> QED
    BY <2>1, <2>2, BreakerMovesOne, InsideKeeps
<1>5. ASSUME \/ \E c \in Callers : AttemptRetried(c)
             \/ (Reset \/ Tick) /\ UNCHANGED <<bulkhead, stage, attempt>>
             \/ UNCHANGED policyVars
      PROVE  BulkheadInv'
  <2>1. UNCHANGED <<bulkhead, stage, pc>>
    BY <1>5 DEF AttemptRetried, InFrame, Reset, Tick, policyVars, vars
  <2> QED
    BY <2>1, InsideKeeps
<1>6. ASSUME NEW c \in Callers, DropCall(c) PROVE BulkheadInv'
  <2>1. CASE stage[c] = "waiting" /\ StopWaiting(c) /\ Goto(c, "out") /\ UNCHANGED <<vars, permits>>
    BY <1>6, <2>1, StopWaitingKeeps DEF DropCall, vars
  <2>2. CASE stage[c] = "granted" /\ GivePermit(c, "out") /\ UNCHANGED vars
    <3>1. c \in Holders /\ pc[c] = "idle" /\ UNCHANGED <<limit, pc>>
      BY <1>6, <2>2 DEF DropCall, Holders, BulkheadInv, BulkheadSound, vars
    <3> QED
      BY <2>2, <3>1, GivePermitKeeps
  <2>3. CASE stage[c] = "breaker" /\ Drop(c) /\ GivePermit(c, "out")
    <3>1. c \in Holders /\ pc'[c] = "idle" /\ UNCHANGED limit
      BY <1>6, <2>3 DEF DropCall, Drop, Holders, IndInv, TypeOK
    <3> QED
      BY <2>3, <3>1, BreakerMovesOne, GivePermitKeeps
  <2> QED
    BY <1>6, <2>1, <2>2, <2>3 DEF DropCall
<1> QED
  BY <1>1, <1>2, <1>3, <1>4, <1>5, <1>6 DEF PolicyNext

\* Permits are neither lost nor forged, nobody waits beside a free one, and only
\* a holder is inside the breaker, whether calls return, are rejected, time out or
\* are dropped at any await (bulkhead.rs execute(), policy.rs execute()).
THEOREM BulkheadIsSound == PolicySpec => []BulkheadSound
<1>1. PolicyInit => BulkheadInv
  <2> SUFFICES ASSUME PolicyInit PROVE BulkheadInv
    OBVIOUS
  <2>1. Holders = {} /\ Cardinality(Holders) = 0
    BY FS_EmptySet DEF PolicyInit, Holders
  <2>2. waiters \in Seq(Callers) /\ Distinct(waiters) /\ ToSet(waiters) = {}
    <3>1. waiters = <<>> /\ waiters \in Seq(Callers) /\ Len(waiters) = 0
      BY EmptySeq DEF PolicyInit
    <3> QED
      BY <3>1, ToSetElements DEF Distinct
  <2>3. permits \in Nat /\ limit \in Nat /\ permits = limit
    BY PolicyAssumption DEF PolicyInit
  <2>4. /\ stage \in [Callers -> {"out", "waiting"} \cup HoldStages]
        /\ {c \in Callers : stage[c] = "waiting"} = {}
        /\ \A c \in Callers : pc[c] = "idle"
    BY DEF PolicyInit, Init
  <2> QED
    BY <2>1, <2>2, <2>3, <2>4 DEF PolicyInit, BulkheadInv, BulkheadSound
<1>2. BulkheadInv => BulkheadSound
  BY DEF BulkheadInv
<1> QED
  BY <1>1, <1>2, BulkheadInductive, PolicyImplementsBreaker, Inductive, PTL DEF PolicySpec
=============================================================================
