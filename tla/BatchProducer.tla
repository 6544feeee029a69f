--------------------------- MODULE BatchProducer ---------------------------
(***************************************************************************)
(* BatchProducer of rskit-messaging (batch.rs): clients buffer messages;   *)
(* whoever fills the buffer, a client that flushes or closes, and the      *)
(* periodic task each take the whole buffer under its lock and send it     *)
(* outside.  Sending a batch publishes its messages one by one; it may     *)
(* fail on the way, and a client's call may be dropped at any await.       *)
(***************************************************************************)
EXTENDS Broker, FiniteSets, SequencesExt

CONSTANTS
    Producers,  \* clients of the batch producer
    MaxSize     \* BatchConfig::max_size

Timer == "timer"
Flushers == Producers \cup {Timer}

ASSUME BatchAssumption ==
    IsFiniteSet(Producers) /\ Timer \notin Producers /\ MaxSize \in Nat \ {0}

VARIABLES
    buffer,    \* messages accepted and not yet taken
    sent,      \* how many messages were accepted
    hand,      \* the batch each flusher is sending
    call,      \* where each client is in send(), flush() or close()
    closing,   \* clients whose call is close()
    periodic,  \* the background task: "wait", "sending", "ended"
    stopping,  \* its cancellation token
    slot,      \* flush_task is Some
    lost,      \* history: messages of batches that failed or were dropped
    atClose    \* history: how many messages were accepted when close() was called

producer == <<buffer, sent, hand, call, closing, periodic, stopping, slot, lost, atClose>>

ProducerInit ==
    /\ buffer = <<>>
    /\ sent = 0
    /\ hand = [f \in Flushers |-> <<>>]
    /\ call = [c \in Producers |-> "idle"]
    /\ closing = {}
    /\ periodic = "wait"
    /\ stopping = FALSE
    /\ slot = TRUE
    /\ lost = {}
    /\ atClose = [c \in Producers |-> 0]

\* "closed" and "ended": close() returned Ok, without or with the task to end.
Returned == {"idle", "closed", "ended"}
Free(c) == call[c] \in Returned

\* Client c calls an operation, which may be close() and may return at once.
Begin(c, isClose, label) ==
    /\ Free(c)
    /\ call' = [call EXCEPT ![c] = label]
    /\ closing' = IF isClose THEN closing \cup {c} ELSE closing
    /\ atClose' = [atClose EXCEPT ![c] = IF isClose THEN sent ELSE 0]

Goto(c, label) ==
    /\ call' = [call EXCEPT ![c] = label]
    /\ closing' = IF label \in Returned THEN closing \ {c} ELSE closing
    /\ UNCHANGED atClose

\* Mutant: the buffer is copied, not taken.
TakeBufferCopy(f) ==
    /\ hand' = [hand EXCEPT ![f] = buffer]
    /\ UNCHANGED buffer

\* mem::take() under the lock.
TakeBuffer(f) ==
    /\ hand' = [hand EXCEPT ![f] = buffer]
    /\ buffer' = <<>>

\* send(): push, and decide under the same lock whether to flush.
Send(c) ==
    /\ sent < MaxSends
    /\ Begin(c, FALSE, IF Len(buffer) + 1 >= MaxSize THEN "take" ELSE "idle")
    /\ sent' = sent + 1
    /\ buffer' = Append(buffer, sent + 1)
    /\ UNCHANGED <<hand, periodic, stopping, slot, lost, log>>

\* flush() and close() both begin with flush().
CallFlush(c) ==
    /\ \E isClose \in BOOLEAN : Begin(c, isClose, "take")
    /\ UNCHANGED <<buffer, sent, hand, periodic, stopping, slot, lost, log>>

\* What follows flush() in the call that made it.
AfterFlush(c) == IF c \in closing THEN "task" ELSE "idle"

Flush(c) ==
    /\ call[c] = "take"
    /\ TakeBuffer(c)
    /\ Goto(c, IF buffer = <<>> THEN AfterFlush(c) ELSE "sending")
    /\ UNCHANGED <<sent, periodic, stopping, slot, lost, log>>

\* One message of send_batch().
SendNext(c) ==
    /\ call[c] = "sending"
    /\ Publish(Head(hand[c]))
    /\ hand' = [hand EXCEPT ![c] = Tail(@)]
    /\ Goto(c, IF Len(hand[c]) = 1 THEN AfterFlush(c) ELSE "sending")
    /\ UNCHANGED <<buffer, sent, periodic, stopping, slot, lost>>

\* The rest of f's batch is gone.
Lose(f) ==
    /\ lost' = lost \cup ToSet(hand[f])
    /\ hand' = [hand EXCEPT ![f] = <<>>]

\* send_batch() failed: the call returns Err, and close() ends nothing.  The
\* producer behind the trait may fail, the in-memory one does not.
SendFails(c) ==
    /\ call[c] = "sending"
    /\ Lose(c)
    /\ Goto(c, "idle")
    /\ UNCHANGED <<buffer, sent, periodic, stopping, slot, log>>

\* close(): take the task, SpawnedTask::shutdown(): cancel it, wait for it,
\* abort it when the grace period is over.
TakeTask(c) ==
    /\ call[c] = "task"
    /\ Goto(c, IF slot THEN "shutdown" ELSE "closed")
    /\ slot' = FALSE
    /\ stopping' = (stopping \/ slot)
    /\ UNCHANGED <<buffer, sent, hand, periodic, lost, log>>

TaskJoined(c) ==
    /\ call[c] = "shutdown" /\ periodic = "ended"
    /\ Goto(c, "ended")
    /\ UNCHANGED <<buffer, sent, hand, periodic, stopping, slot, lost, log>>

TaskAborted(c) ==
    /\ call[c] = "shutdown" /\ periodic # "ended"
    /\ periodic' = "ended"
    /\ Lose(Timer)
    /\ Goto(c, "ended")
    /\ UNCHANGED <<buffer, sent, stopping, slot, log>>

\* The client drops the future of its call.
DropCall(c) ==
    /\ ~Free(c)
    /\ Lose(c)
    /\ Goto(c, "idle")
    /\ UNCHANGED <<buffer, sent, periodic, stopping, slot, log>>

(***************************************************************************)
(* The periodic task; it sees the token only between two flushes           *)
(***************************************************************************)

Tick ==
    /\ periodic = "wait" /\ buffer # <<>>
    /\ TakeBuffer(Timer)
    /\ periodic' = "sending"
    /\ UNCHANGED <<sent, call, closing, stopping, slot, lost, atClose, log>>

TimerSendNext ==
    /\ periodic = "sending"
    /\ Publish(Head(hand[Timer]))
    /\ hand' = [hand EXCEPT ![Timer] = Tail(@)]
    /\ periodic' = IF Len(hand[Timer]) = 1 THEN "wait" ELSE "sending"
    /\ UNCHANGED <<buffer, sent, call, closing, stopping, slot, lost, atClose>>

\* A failed periodic flush is only logged.
TimerSendFails ==
    /\ periodic = "sending"
    /\ Lose(Timer)
    /\ periodic' = "wait"
    /\ UNCHANGED <<buffer, sent, call, closing, stopping, slot, atClose, log>>

TimerCancelled ==
    /\ periodic = "wait" /\ stopping
    /\ periodic' = "ended"
    /\ UNCHANGED <<buffer, sent, hand, call, closing, stopping, slot, lost, atClose, log>>

ProducerStep(c) ==
    \/ Flush(c) \/ SendNext(c) \/ TakeTask(c) \/ TaskJoined(c) \/ TaskAborted(c)

TimerStep == Tick \/ TimerSendNext \/ TimerCancelled

ProducerNext ==
    \/ \E c \in Producers :
        \/ Send(c) \/ CallFlush(c)
        \/ ProducerStep(c) \/ SendFails(c) \/ DropCall(c)
    \/ TimerStep \/ TimerSendFails
=============================================================================
