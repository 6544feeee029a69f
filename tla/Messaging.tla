----------------------------- MODULE Messaging -----------------------------
(***************************************************************************)
(* A batch producer and a managed consumer on one in-memory broker.        *)
(***************************************************************************)
EXTENDS BatchProducer, ManagedConsumer

vars == <<broker, producer, consumer>>

Init == BrokerInit /\ ProducerInit /\ ConsumerInit

Next ==
    \/ ProducerNext /\ UNCHANGED <<cursor, consumer>>
    \/ ConsumerNext /\ UNCHANGED <<log, producer>>

Spec == Init /\ [][Next]_vars

\* The runtime schedules the producer's calls and tasks and fires the timers, and a
\* publish returns.  Nothing is assumed of the loops and their handlers.
FairSpec ==
    /\ Spec
    /\ \A c \in Producers : WF_vars(ProducerStep(c) /\ UNCHANGED <<cursor, consumer>>)
    /\ WF_vars(TimerStep /\ UNCHANGED <<cursor, consumer>>)
    /\ WF_vars(LifeStep /\ UNCHANGED <<log, producer>>)

(***************************************************************************)
(* Properties                                                              *)
(***************************************************************************)

\* Where message m is in sequence s.
At(s, m) == {i \in DOMAIN s : s[i] = m}

\* No message is lost or duplicated between acceptance and its end: an accepted
\* message is in the buffer, in one flusher's batch, in one place of the log,
\* or of a batch that failed or was dropped; a published one waits in the
\* channel, is the one that one loop holds, or has an outcome (batch.rs send(),
\* flush(), the periodic task; consumer.rs recv(); managed_consumer.rs).
MessagesConserved ==
    /\ \A m \in 1..sent :
        Cardinality(At(buffer, m)) + Cardinality(At(log, m))
            + Cardinality({f \in Flushers : Contains(hand[f], m)})
            + (IF m \in lost THEN 1 ELSE 0) = 1
    /\ \A m \in ToSet(log) :
        Cardinality({g \in Loops : held[g] = m})
            + (IF m \in Pending THEN 1 ELSE 0)
            + (IF outcome[m] # "none" THEN 1 ELSE 0) = 1

\* What was closed or stopped is quiet.  After close() returned Ok no message
\* accepted before the call is in the buffer; when that close() had the periodic
\* task to end, the task has ended with nothing in its hands.  A loop that stop()
\* had the handle of is over for good once that stop() has returned.  As long as no
\* stop() was dropped, one loop is up at most, and between two calls is_running()
\* says whether one is: after a dropped stop() neither holds, and a second stop()
\* returns Ok with the first one's loop at work (batch.rs close(),
\* managed_consumer.rs start(), stop(), task.rs shutdown()).
ShutdownQuiet ==
    /\ \A c \in Producers :
        /\ call[c] \in {"closed", "ended"} => \A m \in ToSet(buffer) : m > atClose[c]
        /\ call[c] = "ended" => periodic = "ended" /\ hand[Timer] = <<>>
    /\ \A g \in stopped : loop[g] = "off" /\ held[g] = NoMessage
    /\ ~dropped =>
        /\ \A g, h \in Loops : loop[g] # "off" /\ loop[h] # "off" => g = h
        /\ joining = NoLoop => (running <=> \E g \in Loops : loop[g] # "off")

\* Ok is not reported for nothing: when handle() returned Ok for a message, the
\* handler succeeded with it or the dead-letter queue has it, or that is so of a copy
\* of it.  One case is excepted, and the code has it: a copy failed, was aborted or
\* panicked, or is still being handled; its id is recorded all the same, and the
\* message is taken for its duplicate (dedup.rs, retry.rs, deadletter.rs handle()).
NoSilentLoss ==
    \A m \in Messages : outcome[m] = "ok" =>
        \/ m \in served \cup dead
        \/ \E n \in Messages :
            /\ IdOf[n] = IdOf[m] /\ IdOf[m] # NoId
            /\ \/ n \in served \cup dead
               \/ outcome[n] \in {"err", "aborted", "panicked"}
               \/ \E g \in Loops : held[g] = n /\ loop[g] \in {"call", "err"}

\* Nothing waits forever: the buffer is emptied again and again while the
\* periodic task lives, stop() returns although a handler hangs, and so does
\* close() (batch.rs, managed_consumer.rs, task.rs).
MessagingEnds ==
    /\ buffer # <<>> ~> buffer = <<>> \/ periodic = "ended"
    /\ joining # NoLoop ~> joining = NoLoop
    /\ \A c \in Producers : c \in closing ~> c \notin closing
=============================================================================
