-------------------------- MODULE MessagingProofs --------------------------
(***************************************************************************)
(* Machine-checked proofs about the messaging pipeline, for any number of  *)
(* clients and messages, every buffer, channel and window size and every   *)
(* stack of middleware.                                                    *)
(*                                                                         *)
(* PlacesInv says where an accepted message is on the producer's side,     *)
(* ReceiptInv where a published one is on the consumer's side.  Both are   *)
(* pointwise, so that the counting in MessagesConserved comes last.        *)
(* LifeInv says who has the handle of which loop.                          *)
(***************************************************************************)
EXTENDS Messaging, FiniteSetTheorems, SequenceLemmas

ProducerTyped ==
    /\ buffer \in Seq(Messages) /\ log \in Seq(Messages)
    /\ hand \in [Flushers -> Seq(Messages)]
    /\ lost \in SUBSET Messages /\ sent \in 0..MaxSends

\* No place holds a message twice.
NoCopies == Distinct(buffer) /\ Distinct(log) /\ \A f \in Flushers : Distinct(hand[f])

InHand(m) == \E f \in Flushers : m \in ToSet(hand[f])

\* An accepted message is in exactly one place, a message not yet accepted in none.
OnePlace ==
    /\ \A m \in Messages :
        /\ m <= sent <=> m \in ToSet(buffer) \/ m \in ToSet(log) \/ m \in lost \/ InHand(m)
        /\ m \in ToSet(buffer) => m \notin ToSet(log) /\ m \notin lost /\ ~InHand(m)
        /\ m \in ToSet(log) => m \notin lost /\ ~InHand(m)
        /\ m \in lost => ~InHand(m)
    /\ \A m \in Messages : \A f, g \in Flushers :
        m \in ToSet(hand[f]) /\ m \in ToSet(hand[g]) => f = g

\* A batch is in the hands of those who are sending, and of nobody else.
HandsInv ==
    /\ \A c \in Producers : call[c] = "sending" <=> hand[c] # <<>>
    /\ periodic = "sending" <=> hand[Timer] # <<>>

PlacesInv == ProducerTyped /\ NoCopies /\ OnePlace /\ HandsInv

Label == {"idle", "take", "sending", "task", "shutdown", "closed", "ended"}

\* What a close() in progress, past its flush(), has seen out of the buffer.
CloseInv ==
    /\ call \in [Producers -> Label]
    /\ atClose \in [Producers -> 0..MaxSends]
    /\ \A c \in Producers :
        /\ atClose[c] <= sent
        /\ call[c] \notin {"idle", "take"} => \A m \in ToSet(buffer) : m > atClose[c]
        /\ call[c] = "ended" => periodic = "ended"

Busy == {"filter", "call", "ok", "err"}
InHandler == {"call", "ok", "err"}
Where == {"off", "recv", "backoff", "dead"} \cup Busy

\* A loop holds a message exactly when it filters or handles one.
LoopInv ==
    /\ loop \in [Loops -> Where] /\ held \in [Loops -> Messages \cup {NoMessage}]
    /\ \A g \in Loops : held[g] # NoMessage <=> loop[g] \in Busy

\* Who has which handle.  A loop whose handle is in the slot is up and not cancelled,
\* and a stopped one is off.  Without a dropped stop() no other loop is up.
LifeInv ==
    /\ starts \in 0..MaxStarts /\ task \in 0..starts /\ joining \in 0..starts
    /\ cancelled \subseteq 1..starts /\ stopped \subseteq 1..starts
    /\ \A g \in Loops : g > starts => loop[g] = "off"
    /\ task = NoLoop \/ joining = NoLoop
    /\ task # NoLoop => task \notin cancelled /\ loop[task] # "off"
    /\ \A g \in stopped : loop[g] = "off"
    /\ ~dropped =>
        /\ \A g \in Loops : loop[g] # "off" => g = task \/ g = joining
        /\ joining = NoLoop => (running <=> task # NoLoop)

Ending == {"ok", "err", "aborted", "panicked", "dropped", "filtered", "lagged"}

IsHeld(m) == \E g \in Loops : held[g] = m

\* The receiver has passed the messages up to the cursor; each of them is in the hands
\* of one loop or has ended, and none of the others.
ReceiptInv ==
    /\ outcome \in [Messages -> Ending \cup {"none"}] /\ cursor \in 0..Len(log)
    /\ \A g \in Loops : held[g] # NoMessage => held[g] \in ToSet(log)
    /\ \A g, h \in Loops : held[g] = held[h] /\ held[g] # NoMessage => g = h
    /\ \A m \in Messages : m \notin ToSet(log) => outcome[m] = "none"
    /\ \A i \in 1..Len(log) :
        IF i <= cursor THEN IsHeld(log[i]) <=> outcome[log[i]] = "none"
                       ELSE ~IsHeld(log[i]) /\ outcome[log[i]] = "none"

\* How a message may end that was with the handler and did not succeed.
Failed == {"err", "aborted", "panicked"}

\* Deduplication comes before retry, and there is one dedup layer.
DedupFirst ==
    \A i, j \in 1..Len(Stack) : Stack[i] = "dedup" /\ j < i => Stack[j] = "dead_letter"

\* The message loop g holds is past deduplication, and has not succeeded yet.
Inside(g) ==
    \/ loop[g] = "err"
    \/ loop[g] = "call" /\ \A i \in 1..Len(Stack) : Stack[i] = "dedup" => i < layer[g]

\* The handler or the dead-letter queue has n, or n failed, or may still do either.
Accounted(n) ==
    \/ n \in served \cup dead \/ outcome[n] \in Failed
    \/ \E g \in Loops : held[g] = n /\ Inside(g)

\* An id is remembered because of a message that got past deduplication.
Backed(x) == x # NoId /\ \E n \in Messages : IdOf[n] = x /\ Accounted(n)

Explained(m) == m \in served \cup dead \/ Backed(IdOf[m])

\* The position in the stack: at a layer or the handler, or at what a result returns to.
LayerInv ==
    /\ layer \in [Loops -> Nat]
    /\ \A g \in Loops : /\ loop[g] = "call" => layer[g] \in 1..(Len(Stack) + 1)
                        /\ loop[g] \in {"ok", "err"} => layer[g] \in 0..Len(Stack)

SeenInv ==
    /\ seen \in Seq({IdOf[m] : m \in Messages})
    /\ LayerInv
    /\ \A x \in ToSet(seen) : Backed(x)
    /\ \A g \in Loops : loop[g] = "ok" => Explained(held[g])
    /\ \A m \in Messages : outcome[m] = "ok" => Explained(m)

-----------------------------------------------------------------------------
(***************************************************************************)
(* The producer: messages move from place to place                         *)
(***************************************************************************)

LEMMA FlushersTimer == Timer \in Flushers /\ \A c \in Producers : c \in Flushers /\ c # Timer
BY BatchAssumption DEF Flushers

\* The last message of a batch.
LEMMA LastOfBatch ==
    ASSUME NEW s \in Seq(Messages), s # <<>> PROVE Tail(s) = <<>> <=> Len(s) = 1
<1>1. Tail(s) \in Seq(Messages) /\ Len(Tail(s)) = Len(s) - 1 /\ Len(s) \in Nat
  BY TailElements
<1>2. Tail(s) = <<>> <=> Len(Tail(s)) = 0
  BY <1>1, EmptySeq
<1> QED
  BY <1>1, <1>2

\* send() puts a new message into the buffer.
LEMMA PlacesSend ==
    ASSUME ProducerTyped, NoCopies, OnePlace, sent < MaxSends, sent' = sent + 1,
           buffer' = Append(buffer, sent + 1), UNCHANGED <<hand, lost, log>>
    PROVE  ProducerTyped' /\ NoCopies' /\ OnePlace'
<1> DEFINE m == sent + 1
<1>1. m \in Messages /\ m \in Nat /\ sent \in Nat /\ \A n \in Messages : n \in Nat
  BY BrokerAssumption DEF ProducerTyped, Messages
<1>2. m \notin ToSet(buffer) /\ m \notin ToSet(log) /\ m \notin lost /\ ~InHand(m)
  BY <1>1 DEF OnePlace
<1>3. /\ buffer' \in Seq(Messages) /\ ToSet(buffer') = ToSet(buffer) \cup {m}
      /\ Distinct(buffer')
  BY <1>1, <1>2, AppendElements DEF ProducerTyped, NoCopies
<1>4. sent' \in 0..MaxSends
  BY <1>1, BrokerAssumption DEF Messages
<1>5. \A n \in Messages : n <= sent' <=> n <= sent \/ n = m
  BY <1>1
<1>6. \A n : InHand(n)' <=> InHand(n)
  BY DEF InHand
<1> HIDE DEF m
<1> QED
  BY <1>1, <1>2, <1>3, <1>4, <1>5, <1>6 DEF ProducerTyped, NoCopies, OnePlace

\* mem::take() hands the whole buffer to a flusher that had nothing.
LEMMA PlacesTake ==
    ASSUME ProducerTyped, NoCopies, OnePlace, NEW f \in Flushers, hand[f] = <<>>,
           hand' = [hand EXCEPT ![f] = buffer], buffer' = <<>>, UNCHANGED <<sent, lost, log>>
    PROVE  ProducerTyped' /\ NoCopies' /\ OnePlace'
<1>1. buffer' \in Seq(Messages) /\ ToSet(buffer') = {} /\ ToSet(hand[f]) = {} /\ Distinct(buffer')
  <2>1. <<>> \in Seq(Messages) /\ Len(<<>>) = 0
    BY EmptySeq
  <2> QED
    BY <2>1, ToSetElements DEF Distinct
<1>2. hand' \in [Flushers -> Seq(Messages)]
  BY DEF ProducerTyped
<1>3. hand'[f] = buffer /\ \A g \in Flushers \ {f} : hand'[g] = hand[g]
  BY DEF ProducerTyped
<1>4. \A n : InHand(n)' <=> InHand(n) \/ n \in ToSet(buffer)
  BY <1>1, <1>3 DEF InHand
<1>5. ProducerTyped' /\ NoCopies'
  BY <1>1, <1>2, <1>3 DEF ProducerTyped, NoCopies
<1>6. \A n \in Messages :
        /\ n <= sent' <=> n \in ToSet(buffer') \/ n \in ToSet(log') \/ n \in lost' \/ InHand(n)'
        /\ n \in ToSet(buffer') => n \notin ToSet(log') /\ n \notin lost' /\ ~InHand(n)'
        /\ n \in ToSet(log') => n \notin lost' /\ ~InHand(n)'
        /\ n \in lost' => ~InHand(n)'
  BY <1>1, <1>4 DEF OnePlace
<1>7. \A n \in Messages : \A g, h \in Flushers :
        n \in ToSet(hand'[g]) /\ n \in ToSet(hand'[h]) => g = h
  BY <1>3 DEF OnePlace, InHand
<1> QED
  BY <1>5, <1>6, <1>7 DEF OnePlace

\* One message of a batch goes to the broker.
LEMMA PlacesPublish ==
    ASSUME ProducerTyped, NoCopies, OnePlace, NEW f \in Flushers, hand[f] # <<>>,
           hand' = [hand EXCEPT ![f] = Tail(@)], log' = Append(log, Head(hand[f])),
           UNCHANGED <<buffer, sent, lost>>
    PROVE  /\ ProducerTyped' /\ NoCopies' /\ OnePlace'
           /\ Head(hand[f]) \in Messages /\ Head(hand[f]) \notin ToSet(log)
<1> DEFINE m == Head(hand[f])
<1>1. /\ m \in Messages /\ m \in ToSet(hand[f]) /\ Tail(hand[f]) \in Seq(Messages)
      /\ m \notin ToSet(Tail(hand[f])) /\ ToSet(hand[f]) = ToSet(Tail(hand[f])) \cup {m}
      /\ Distinct(Tail(hand[f]))
  BY TailElements DEF ProducerTyped, NoCopies
<1>2. hand'[f] = Tail(hand[f]) /\ \A g \in Flushers \ {f} : hand'[g] = hand[g]
  BY DEF ProducerTyped
<1>3. hand' \in [Flushers -> Seq(Messages)]
  BY <1>1 DEF ProducerTyped
<1> HIDE DEF m
<1>4. m \notin ToSet(buffer) /\ m \notin ToSet(log) /\ m \notin lost
  BY <1>1 DEF OnePlace, InHand
<1>5. log' \in Seq(Messages) /\ ToSet(log') = ToSet(log) \cup {m} /\ Distinct(log')
  <2>1. log' = Append(log, m)
    BY DEF m
  <2> QED
    BY <1>1, <1>4, <2>1, AppendElements DEF ProducerTyped, NoCopies
<1>6. \A n \in Messages : InHand(n)' <=> InHand(n) /\ n # m
  <2>1. \A g \in Flushers \ {f} : m \notin ToSet(hand[g])
    BY <1>1 DEF OnePlace
  <2>2. \A n \in Messages : InHand(n)' => InHand(n) /\ n # m
    BY <1>1, <1>2, <2>1 DEF InHand
  <2>3. \A n \in Messages : InHand(n) /\ n # m => InHand(n)'
    BY <1>1, <1>2 DEF InHand
  <2> QED
    BY <2>2, <2>3
<1>7. ProducerTyped' /\ NoCopies'
  BY <1>1, <1>2, <1>3, <1>5 DEF ProducerTyped, NoCopies
<1>8. \A n \in Messages :
        /\ n <= sent' <=> n \in ToSet(buffer') \/ n \in ToSet(log') \/ n \in lost' \/ InHand(n)'
        /\ n \in ToSet(buffer') => n \notin ToSet(log') /\ n \notin lost' /\ ~InHand(n)'
        /\ n \in ToSet(log') => n \notin lost' /\ ~InHand(n)'
        /\ n \in lost' => ~InHand(n)'
  <2>1. InHand(m)
    BY <1>1 DEF InHand
  <2> QED
    BY <1>4, <1>5, <1>6, <2>1 DEF OnePlace
<1>9. \A n \in Messages : \A g, h \in Flushers :
        n \in ToSet(hand'[g]) /\ n \in ToSet(hand'[h]) => g = h
  BY <1>1, <1>2 DEF OnePlace
<1>10. m = Head(hand[f])
  BY DEF m
<1> QED
  BY <1>1, <1>4, <1>7, <1>8, <1>9, <1>10 DEF OnePlace

\* The rest of a batch is gone.
LEMMA PlacesLose ==
    ASSUME ProducerTyped, NoCopies, OnePlace, NEW f \in Flushers, Lose(f),
           UNCHANGED <<buffer, sent, log>>
    PROVE  ProducerTyped' /\ NoCopies' /\ OnePlace' /\ hand'[f] = <<>>
<1>1. lost' = lost \cup ToSet(hand[f]) /\ hand' = [hand EXCEPT ![f] = <<>>]
  BY DEF Lose
<1>2. <<>> \in Seq(Messages) /\ ToSet(<<>>) = {} /\ Distinct(<<>>)
  <2>1. <<>> \in Seq(Messages) /\ Len(<<>>) = 0
    BY EmptySeq
  <2> QED
    BY <2>1, ToSetElements DEF Distinct
<1>3. hand'[f] = <<>> /\ \A g \in Flushers \ {f} : hand'[g] = hand[g]
  BY <1>1 DEF ProducerTyped
<1>4. hand' \in [Flushers -> Seq(Messages)]
  BY <1>1, <1>2 DEF ProducerTyped
<1>5. ToSet(hand[f]) \subseteq Messages
  BY ToSetElements DEF ProducerTyped
<1>6. \A n \in Messages : InHand(n) <=> InHand(n)' \/ n \in ToSet(hand[f])
  BY <1>2, <1>3 DEF InHand
<1>7. \A n \in Messages : n \in ToSet(hand[f]) => ~InHand(n)' /\ InHand(n)
  BY <1>2, <1>3 DEF InHand, OnePlace
<1>8. ProducerTyped' /\ NoCopies'
  BY <1>1, <1>2, <1>3, <1>4, <1>5 DEF ProducerTyped, NoCopies
<1>9. \A n \in Messages :
        /\ n <= sent' <=> n \in ToSet(buffer') \/ n \in ToSet(log') \/ n \in lost' \/ InHand(n)'
        /\ n \in ToSet(buffer') => n \notin ToSet(log') /\ n \notin lost' /\ ~InHand(n)'
        /\ n \in ToSet(log') => n \notin lost' /\ ~InHand(n)'
        /\ n \in lost' => ~InHand(n)'
  BY <1>1, <1>6, <1>7 DEF OnePlace
<1>10. \A n \in Messages : \A g, h \in Flushers :
        n \in ToSet(hand'[g]) /\ n \in ToSet(hand'[h]) => g = h
  BY <1>2, <1>3 DEF OnePlace
<1> QED
  BY <1>3, <1>8, <1>9, <1>10 DEF OnePlace

LogGrows == log' = log \/ \E m \in Messages : m \notin ToSet(log) /\ log' = Append(log, m)

ProducerKept == PlacesInv' /\ CloseInv' /\ LogGrows

\* A call begins, maybe with a message.
LEMMA BeginKept ==
    ASSUME PlacesInv, CloseInv, NEW c \in Producers, Send(c) \/ CallFlush(c) PROVE ProducerKept
<1> USE DEF PlacesInv
<1>1. /\ call[c] # "sending" /\ UNCHANGED <<hand, periodic, log>>
      /\ \E x \in {"take", "idle"} : call' = [call EXCEPT ![c] = x]
      /\ \E a \in {0, sent} : atClose' = [atClose EXCEPT ![c] = a]
  BY DEF Send, CallFlush, Begin, Free, Returned
<1>2. /\ sent \in Nat /\ sent <= MaxSends /\ MaxSends \in Nat
      /\ \A d \in Producers : atClose[d] \in Nat /\ atClose[d] <= sent
  BY BrokerAssumption DEF ProducerTyped, CloseInv
<1>3. call' \in [Producers -> Label] /\ atClose' \in [Producers -> 0..MaxSends]
  BY <1>1, <1>2 DEF CloseInv, Label
<1>4. /\ call'[c] \in {"take", "idle"} /\ \A d \in Producers \ {c} : call'[d] = call[d]
      /\ \A d \in Producers : atClose'[d] <= sent
      /\ \A d \in Producers \ {c} : atClose'[d] = atClose[d]
  BY <1>1, <1>2 DEF CloseInv
<1>5. HandsInv'
  BY <1>1, <1>4 DEF HandsInv
<1>6. LogGrows
  BY <1>1 DEF LogGrows
<1>7. CASE Send(c)
  <2>1. sent < MaxSends /\ sent' = sent + 1 /\ buffer' = Append(buffer, sent + 1) /\ UNCHANGED lost
    BY <1>7 DEF Send
  <2>2. ProducerTyped' /\ NoCopies' /\ OnePlace'
    BY <1>1, <2>1, PlacesSend
  <2>3. ToSet(buffer') = ToSet(buffer) \cup {sent + 1}
    <3>1. sent + 1 \in Messages
      BY <1>2, <2>1 DEF Messages
    <3> QED
      BY <2>1, <3>1, AppendElements DEF ProducerTyped
  <2>4. \A d \in Producers : atClose'[d] <= sent' /\ sent + 1 > atClose'[d]
    BY <1>2, <1>3, <1>4, <2>1
  <2>5. CloseInv'
    BY <1>1, <1>3, <1>4, <2>3, <2>4 DEF CloseInv
  <2> QED
    BY <1>5, <1>6, <2>2, <2>5 DEF ProducerKept
<1>8. CASE CallFlush(c)
  <2>1. UNCHANGED <<buffer, sent, lost>>
    BY <1>8 DEF CallFlush
  <2>2. ProducerTyped' /\ NoCopies' /\ OnePlace'
    BY <1>1, <2>1 DEF ProducerTyped, NoCopies, OnePlace, InHand
  <2>3. CloseInv'
    BY <1>1, <1>3, <1>4, <2>1 DEF CloseInv
  <2> QED
    BY <1>5, <1>6, <2>2, <2>3 DEF ProducerKept
<1> QED
  BY <1>7, <1>8

\* A client goes on in its call; only taking the buffer leads past "take".
LEMMA GotoKept ==
    ASSUME PlacesInv, CloseInv, NEW c \in Producers, NEW x \in Label, call' = [call EXCEPT ![c] = x],
           UNCHANGED <<sent, atClose>>,
           UNCHANGED buffer \/ buffer' = <<>>,
           call[c] = "take" => buffer' = <<>> \/ x = "idle",
           call[c] = "idle" => x = "idle",
           periodic = "ended" => periodic' = "ended",
           x = "ended" => periodic' = "ended"
    PROVE  CloseInv'
<1>1. call' \in [Producers -> Label] /\ call'[c] = x /\ \A d \in Producers \ {c} : call'[d] = call[d]
  BY DEF CloseInv
<1>2. ToSet(<<>>) = {}
  BY EmptySeq, ToSetElements
<1>3. \A d \in Producers : atClose'[d] <= sent'
  BY DEF CloseInv
<1>4. ASSUME NEW d \in Producers, call'[d] \notin {"idle", "take"}
      PROVE  \A m \in ToSet(buffer') : m > atClose'[d]
  BY <1>1, <1>2, <1>4 DEF CloseInv
<1>5. \A d \in Producers : call'[d] = "ended" => periodic' = "ended"
  BY <1>1 DEF CloseInv
<1> QED
  BY <1>1, <1>3, <1>4, <1>5 DEF CloseInv

\* A client's call takes the buffer, or has nothing to take.
LEMMA FlushKept ==
    ASSUME PlacesInv, CloseInv, NEW c \in Producers, Flush(c) PROVE ProducerKept
<1> USE DEF PlacesInv
<1> DEFINE x == IF buffer = <<>> THEN AfterFlush(c) ELSE "sending"
<1>1. /\ call[c] = "take" /\ hand' = [hand EXCEPT ![c] = buffer] /\ buffer' = <<>>
      /\ call' = [call EXCEPT ![c] = x] /\ UNCHANGED <<sent, atClose, periodic, lost, log>>
  BY DEF Flush, TakeBuffer, Goto
<1>2. x \in Label /\ (x = "sending" <=> buffer # <<>>) /\ x # "ended"
  BY DEF AfterFlush, Label
<1> HIDE DEF x
<1>3. ProducerTyped' /\ NoCopies' /\ OnePlace'
  BY <1>1, FlushersTimer, PlacesTake DEF HandsInv
<1>4. HandsInv'
  <2>1. hand'[c] = buffer /\ \A f \in Flushers \ {c} : hand'[f] = hand[f]
    BY <1>1, FlushersTimer DEF ProducerTyped
  <2>2. call'[c] = x /\ \A d \in Producers \ {c} : call'[d] = call[d]
    BY <1>1 DEF CloseInv
  <2> QED
    BY <1>1, <1>2, <2>1, <2>2, FlushersTimer DEF HandsInv
<1>5. CloseInv'
  BY <1>1, <1>2, GotoKept
<1> QED
  BY <1>1, <1>3, <1>4, <1>5 DEF ProducerKept, LogGrows

\* A client publishes one message of its batch.
LEMMA SendNextKept ==
    ASSUME PlacesInv, CloseInv, NEW c \in Producers, SendNext(c) PROVE ProducerKept
<1> USE DEF PlacesInv
<1> DEFINE x == IF Len(hand[c]) = 1 THEN AfterFlush(c) ELSE "sending"
<1>1. /\ call[c] = "sending" /\ hand' = [hand EXCEPT ![c] = Tail(@)]
      /\ log' = Append(log, Head(hand[c]))
      /\ call' = [call EXCEPT ![c] = x] /\ UNCHANGED <<buffer, sent, atClose, periodic, lost>>
  BY DEF SendNext, Publish, Goto
<1>2. x \in Label /\ (x = "sending" <=> Len(hand[c]) # 1) /\ x # "ended"
  BY DEF AfterFlush, Label
<1> HIDE DEF x
<1>3. hand[c] # <<>> /\ c \in Flushers
  BY <1>1, FlushersTimer DEF HandsInv
<1>4. /\ ProducerTyped' /\ NoCopies' /\ OnePlace'
      /\ Head(hand[c]) \in Messages /\ Head(hand[c]) \notin ToSet(log)
  BY <1>1, <1>3, PlacesPublish
<1>5. HandsInv'
  <2>1. hand'[c] = Tail(hand[c]) /\ \A f \in Flushers \ {c} : hand'[f] = hand[f]
    BY <1>1, <1>3 DEF ProducerTyped
  <2>2. call'[c] = x /\ \A d \in Producers \ {c} : call'[d] = call[d]
    BY <1>1 DEF CloseInv
  <2>3. Tail(hand[c]) = <<>> <=> Len(hand[c]) = 1
    <3>1. hand[c] \in Seq(Messages)
      BY <1>3 DEF ProducerTyped
    <3> QED
      BY <1>3, <3>1, LastOfBatch
  <2> QED
    BY <1>1, <1>2, <2>1, <2>2, <2>3, FlushersTimer DEF HandsInv
<1>6. CloseInv'
  BY <1>1, <1>2, GotoKept
<1> QED
  BY <1>1, <1>4, <1>5, <1>6 DEF ProducerKept, LogGrows

\* A client's batch fails or is dropped with its call.
LEMMA CallLostKept ==
    ASSUME PlacesInv, CloseInv, NEW c \in Producers, SendFails(c) \/ DropCall(c) PROVE ProducerKept
<1> USE DEF PlacesInv
<1>1. /\ Lose(c) /\ call' = [call EXCEPT ![c] = "idle"]
      /\ UNCHANGED <<buffer, sent, atClose, periodic, log>>
  BY DEF SendFails, DropCall, Goto
<1>2. ProducerTyped' /\ NoCopies' /\ OnePlace' /\ hand'[c] = <<>>
  BY <1>1, FlushersTimer, PlacesLose
<1>3. HandsInv'
  <2>1. \A f \in Flushers \ {c} : hand'[f] = hand[f]
    BY <1>1, FlushersTimer DEF ProducerTyped, Lose
  <2>2. call'[c] = "idle" /\ \A d \in Producers \ {c} : call'[d] = call[d]
    BY <1>1 DEF CloseInv
  <2> QED
    BY <1>1, <1>2, <2>1, <2>2, FlushersTimer DEF HandsInv
<1>4. CloseInv'
  BY <1>1, GotoKept DEF Label
<1> QED
  BY <1>1, <1>2, <1>3, <1>4 DEF ProducerKept, LogGrows

\* close() takes the periodic task, joins it or aborts it.
LEMMA TaskKept ==
    ASSUME PlacesInv, CloseInv, NEW c \in Producers, TakeTask(c) \/ TaskJoined(c) \/ TaskAborted(c)
    PROVE  ProducerKept
<1> USE DEF PlacesInv
<1>1. PICK x \in {"shutdown", "closed", "ended"} : call' = [call EXCEPT ![c] = x]
  BY DEF TakeTask, TaskJoined, TaskAborted, Goto
<1>2. /\ call[c] \in {"task", "shutdown"} /\ UNCHANGED <<buffer, sent, atClose, log>>
      /\ periodic = "ended" => periodic' = "ended"
  BY DEF TakeTask, TaskJoined, TaskAborted, Goto
<1>3. call'[c] = x /\ \A d \in Producers \ {c} : call'[d] = call[d]
  BY <1>1 DEF CloseInv
<1>4. CASE TakeTask(c) \/ TaskJoined(c)
  <2>1. UNCHANGED <<hand, lost, periodic>>
    BY <1>4 DEF TakeTask, TaskJoined
  <2>2. x = "ended" => periodic' = "ended"
    <3>1. CASE TakeTask(c)
      <4>1. call' = [call EXCEPT ![c] = IF slot THEN "shutdown" ELSE "closed"]
        BY <3>1 DEF TakeTask, Goto
      <4>2. call'[c] # "ended"
        BY <4>1 DEF CloseInv
      <4> QED
        BY <1>3, <4>2
    <3>2. CASE TaskJoined(c)
      BY <2>1, <3>2 DEF TaskJoined
    <3> QED
      BY <1>4, <3>1, <3>2
  <2>3. ProducerTyped' /\ NoCopies' /\ OnePlace'
    BY <1>2, <2>1 DEF ProducerTyped, NoCopies, OnePlace, InHand
  <2>4. HandsInv'
    BY <1>2, <1>3, <2>1 DEF HandsInv
  <2>5. CloseInv'
    BY <1>1, <1>2, <2>2, GotoKept DEF Label
  <2> QED
    BY <1>2, <2>3, <2>4, <2>5 DEF ProducerKept, LogGrows
<1>5. CASE TaskAborted(c)
  <2>1. periodic' = "ended" /\ Lose(Timer)
    BY <1>5 DEF TaskAborted
  <2>2. ProducerTyped' /\ NoCopies' /\ OnePlace' /\ hand'[Timer] = <<>>
    BY <1>2, <2>1, FlushersTimer, PlacesLose
  <2>3. \A f \in Flushers \ {Timer} : hand'[f] = hand[f]
    BY <2>1, FlushersTimer DEF ProducerTyped, Lose
  <2>4. HandsInv'
    BY <1>2, <1>3, <2>1, <2>2, <2>3, FlushersTimer DEF HandsInv
  <2>5. CloseInv'
    BY <1>1, <1>2, <2>1, GotoKept DEF Label
  <2> QED
    BY <1>2, <2>2, <2>4, <2>5 DEF ProducerKept, LogGrows
<1> QED
  BY <1>4, <1>5

\* The periodic task takes the buffer, publishes, fails or ends.
LEMMA TimerKept ==
    ASSUME PlacesInv, CloseInv, TimerStep \/ TimerSendFails PROVE ProducerKept
<1> USE DEF PlacesInv
<1>1. /\ UNCHANGED <<sent, call, atClose>> /\ periodic # "ended"
      /\ UNCHANGED buffer \/ buffer' = <<>>
  BY DEF TimerStep, TimerSendFails, Tick, TimerSendNext, TimerCancelled, TakeBuffer
<1>2. CloseInv'
  <2>1. ToSet(<<>>) = {}
    BY EmptySeq, ToSetElements
  <2>2. \A c \in Producers : call[c] # "ended"
    BY <1>1 DEF CloseInv
  <2> QED
    BY <1>1, <2>1, <2>2 DEF CloseInv
<1>3. CASE Tick
  <2>1. /\ periodic = "wait" /\ buffer # <<>> /\ hand' = [hand EXCEPT ![Timer] = buffer]
        /\ buffer' = <<>> /\ periodic' = "sending" /\ UNCHANGED <<lost, log>>
    BY <1>3 DEF Tick, TakeBuffer
  <2>2. ProducerTyped' /\ NoCopies' /\ OnePlace'
    BY <1>1, <2>1, FlushersTimer, PlacesTake DEF HandsInv
  <2>3. hand'[Timer] = buffer /\ \A f \in Flushers \ {Timer} : hand'[f] = hand[f]
    BY <2>1, FlushersTimer DEF ProducerTyped
  <2>4. HandsInv'
    BY <1>1, <2>1, <2>3, FlushersTimer DEF HandsInv
  <2> QED
    BY <1>2, <2>1, <2>2, <2>4 DEF ProducerKept, LogGrows
<1>4. CASE TimerSendNext
  <2>1. /\ periodic = "sending" /\ log' = Append(log, Head(hand[Timer]))
        /\ hand' = [hand EXCEPT ![Timer] = Tail(@)] /\ UNCHANGED <<buffer, lost>>
        /\ periodic' = IF Len(hand[Timer]) = 1 THEN "wait" ELSE "sending"
    BY <1>4 DEF TimerSendNext, Publish
  <2>2. hand[Timer] # <<>> /\ hand[Timer] \in Seq(Messages)
    BY <2>1, FlushersTimer DEF HandsInv, ProducerTyped
  <2>3. /\ ProducerTyped' /\ NoCopies' /\ OnePlace'
        /\ Head(hand[Timer]) \in Messages /\ Head(hand[Timer]) \notin ToSet(log)
    BY <1>1, <2>1, <2>2, FlushersTimer, PlacesPublish
  <2>4. hand'[Timer] = Tail(hand[Timer]) /\ \A f \in Flushers \ {Timer} : hand'[f] = hand[f]
    BY <2>1, FlushersTimer DEF ProducerTyped
  <2>5. Tail(hand[Timer]) = <<>> <=> Len(hand[Timer]) = 1
    BY <2>2, LastOfBatch
  <2>6. HandsInv'
    BY <1>1, <2>1, <2>4, <2>5, FlushersTimer DEF HandsInv
  <2> QED
    BY <1>2, <2>1, <2>3, <2>6 DEF ProducerKept, LogGrows
<1>5. CASE TimerSendFails
  <2>1. Lose(Timer) /\ periodic' = "wait" /\ UNCHANGED <<buffer, log>>
    BY <1>5 DEF TimerSendFails
  <2>2. ProducerTyped' /\ NoCopies' /\ OnePlace' /\ hand'[Timer] = <<>>
    BY <1>1, <2>1, FlushersTimer, PlacesLose
  <2>3. \A f \in Flushers \ {Timer} : hand'[f] = hand[f]
    BY <2>1, FlushersTimer DEF ProducerTyped, Lose
  <2>4. HandsInv'
    BY <1>1, <2>1, <2>2, <2>3, FlushersTimer DEF HandsInv
  <2> QED
    BY <1>2, <2>1, <2>2, <2>4 DEF ProducerKept, LogGrows
<1>6. CASE TimerCancelled
  <2>1. /\ periodic = "wait" /\ periodic' = "ended" /\ UNCHANGED <<buffer, hand, lost, log>>
    BY <1>6 DEF TimerCancelled
  <2>2. ProducerTyped' /\ NoCopies' /\ OnePlace' /\ HandsInv'
    BY <1>1, <2>1 DEF ProducerTyped, NoCopies, OnePlace, InHand, HandsInv
  <2> QED
    BY <1>2, <2>1, <2>2 DEF ProducerKept, LogGrows
<1> QED
  BY <1>3, <1>4, <1>5, <1>6 DEF TimerStep

LEMMA ProducerInductive ==
    ASSUME PlacesInv, CloseInv, [Next]_vars PROVE ProducerKept
<1>1. CASE ProducerNext
  BY <1>1, BeginKept, FlushKept, SendNextKept, CallLostKept, TaskKept, TimerKept
  DEF ProducerNext, ProducerStep
<1>2. CASE UNCHANGED <<log, producer>>
  <2>1. PlacesInv'
    BY <1>2 DEF producer, PlacesInv, ProducerTyped, NoCopies, OnePlace, InHand, HandsInv
  <2>2. CloseInv'
    BY <1>2 DEF producer, CloseInv
  <2> QED
    BY <1>2, <2>1, <2>2 DEF ProducerKept, LogGrows
<1> QED
  BY <1>1, <1>2 DEF Next, vars, broker

-----------------------------------------------------------------------------
(***************************************************************************)
(* The consumer: receive, filter, handle, end                              *)
(***************************************************************************)

\* Nothing happens to a message.
Idles ==
    /\ UNCHANGED <<held, outcome, chain, cursor>>
    /\ loop' \in [Loops -> Where]
    /\ \A g \in Loops : loop'[g] = loop[g] \/ (loop[g] \notin Busy /\ loop'[g] \notin Busy)

\* The message in the hands of loop g, if any, ends.
EndsStep(g) ==
    \E what \in Ending : \E s \in {"off", "recv", "dead"} :
        /\ Ends(g, what) /\ Moves(g, s) /\ UNCHANGED cursor
        /\ loop[g] \in {"call", "err"} => what \in Failed
        /\ what = "ok" => loop[g] = "ok"

\* The message in the hands of loop g passes the filter.
Passes(g) ==
    /\ loop[g] = "filter" /\ Moves(g, "call") /\ layer' = [layer EXCEPT ![g] = 1]
    /\ UNCHANGED <<held, outcome, attempt, memory, cursor>>

ChainStep(g) ==
    \/ DedupCall(g) \/ RetryCall(g) \/ RetryErr(g) \/ RetryElapsed(g)
    \/ DeadLetterCall(g) \/ DeadLetterErr(g) \/ PassOn(g) \/ HandlerReturns(g)

LEMMA ChainLoop ==
    ASSUME NEW g \in Loops, ChainStep(g)
    PROVE  loop[g] \in InHandler /\ ChainUnchanged /\ \E s \in InHandler : Moves(g, s)
<1>1. ChainUnchanged
  BY DEF ChainStep, DedupCall, RetryCall, RetryErr, RetryElapsed, DeadLetterCall, DeadLetterErr, PassOn,
         HandlerReturns
<1>2. CASE DedupCall(g)
  BY <1>1, <1>2 DEF DedupCall, Called, ToNext, Return, InHandler
<1>3. CASE \/ RetryCall(g) \/ RetryErr(g) \/ RetryElapsed(g) \/ DeadLetterCall(g) \/ DeadLetterErr(g)
           \/ PassOn(g) \/ HandlerReturns(g)
  BY <1>1, <1>3 DEF RetryCall, RetryErr, RetryElapsed, DeadLetterCall, DeadLetterErr, PassOn, HandlerReturns,
                    Base, Called, Got, ToNext, Return, InHandler
<1> QED
  BY <1>2, <1>3 DEF ChainStep

\* A loop moves.
LEMMA MovesLoop ==
    ASSUME LoopInv, NEW g \in Loops, NEW s \in Where, Moves(g, s)
    PROVE  /\ loop' \in [Loops -> Where] /\ loop'[g] = s
           /\ \A h \in Loops : h # g => loop'[h] = loop[h]
BY DEF LoopInv, Moves

\* The loop that stop() waits for, and the one that start() spawns.
LEMMA LoopNames ==
    ASSUME LifeInv
    PROVE  /\ MaxStarts \in Nat /\ starts \in Nat
           /\ task # NoLoop => task \in Loops
           /\ joining # NoLoop => joining \in Loops
           /\ starts < MaxStarts => /\ starts + 1 \in Loops /\ loop[starts + 1] = "off"
                                   /\ starts + 1 \notin cancelled \cup stopped
                                   /\ starts + 1 # NoLoop /\ starts + 1 # task /\ starts + 1 # joining
BY ConsumerAssumption DEF LifeInv, Loops, NoLoop

\* The kinds of steps of the consumer.
LEMMA ConsumerCases ==
    ASSUME LoopInv, LifeInv, ConsumerNext
    PROVE  Idles \/ \E g \in Loops : EndsStep(g) \/ Passes(g) \/ RecvLagged(g) \/ RecvMessage(g)
                                      \/ ChainStep(g)
<1>1. CASE Start
  <2>1. starts + 1 \in Loops /\ loop[starts + 1] = "off" /\ Moves(starts + 1, "recv")
    BY <1>1, LoopNames DEF Start
  <2>2. UNCHANGED <<held, outcome, chain, cursor>>
    BY <1>1 DEF Start
  <2> QED
    BY <2>1, <2>2, MovesLoop DEF Idles, Where, Busy
<1>2. CASE Stop \/ DropStop
  BY <1>2 DEF Stop, DropStop, Idles, LoopInv
<1>3. CASE StopJoined
  <2>1. joining \in Loops /\ loop[joining] \notin Busy /\ Moves(joining, "off")
    BY <1>3, LoopNames DEF StopJoined, Busy
  <2>2. UNCHANGED <<held, outcome, chain, cursor>>
    BY <1>3 DEF StopJoined, StopReturns
  <2> QED
    BY <2>1, <2>2, MovesLoop DEF Idles, Where, Busy
<1>4. CASE StopAborted
  <2>1. joining \in Loops /\ Moves(joining, "off") /\ Ends(joining, "aborted") /\ UNCHANGED cursor
    BY <1>4, LoopNames DEF StopAborted, StopReturns
  <2>2. EndsStep(joining)
    BY <2>1 DEF EndsStep, Ending, Failed
  <2> QED
    BY <2>1, <2>2
<1>5. ASSUME NEW g \in Loops, RecvError(g) \/ BackoffOver(g) PROVE Idles
  <2>1. PICK s \in {"off", "backoff", "recv"} : Moves(g, s)
    BY <1>5 DEF RecvError, BackoffOver, Fails, LoopExits
  <2>2. loop[g] \notin Busy /\ UNCHANGED <<held, outcome, chain, cursor>>
    BY <1>5 DEF RecvError, BackoffOver, Busy
  <2> QED
    BY <2>1, <2>2, MovesLoop DEF Idles, Where, Busy
<1>6. ASSUME NEW g \in Loops, LoopCancelled(g) \/ RecvTimeout(g) PROVE EndsStep(g)
  BY <1>6 DEF LoopCancelled, RecvTimeout, Fails, LoopExits, EndsStep, Ending
<1>7. ASSUME NEW g \in Loops, Filter(g) PROVE EndsStep(g) \/ Passes(g)
  BY <1>7 DEF Filter, EndsStep, Passes, Ending
<1>8. ASSUME NEW g \in Loops, Handled(g) PROVE EndsStep(g)
  BY <1>8 DEF Handled, EndsStep, Ending, Failed
<1>9. ASSUME NEW g \in Loops, HandlerPanics(g) PROVE EndsStep(g)
  BY <1>9 DEF HandlerPanics, EndsStep, Ending, Failed
<1> QED
  BY <1>1, <1>2, <1>3, <1>4, <1>5, <1>6, <1>7, <1>8, <1>9
  DEF ConsumerNext, LifeStep, LoopStep, ChainStep

LEMMA LoopInductive ==
    ASSUME ProducerTyped, ReceiptInv, LoopInv, LifeInv, [Next]_vars PROVE LoopInv'
<1>1. CASE ConsumerNext
  <2>1. CASE Idles
    BY <2>1 DEF Idles, LoopInv
  <2>2. ASSUME NEW g \in Loops, EndsStep(g) PROVE LoopInv'
    <3>1. PICK s \in {"off", "recv", "dead"} : Moves(g, s) /\ held' = [held EXCEPT ![g] = NoMessage]
      BY <2>2 DEF EndsStep, Ends
    <3> QED
      BY <3>1, MovesLoop DEF LoopInv, Where, Busy
  <2>3. ASSUME NEW g \in Loops, Passes(g) PROVE LoopInv'
    <3>1. Moves(g, "call") /\ loop[g] = "filter" /\ held' = held
      BY <2>3 DEF Passes
    <3> QED
      BY <3>1, MovesLoop DEF LoopInv, Where, Busy
  <2>4. ASSUME NEW g \in Loops, RecvLagged(g) PROVE LoopInv'
    BY <2>4 DEF RecvLagged, LoopInv
  <2>5. ASSUME NEW g \in Loops, RecvMessage(g) PROVE LoopInv'
    <3>1. cursor + 1 \in 1..Len(log) /\ held' = [held EXCEPT ![g] = log[cursor + 1]] /\ Moves(g, "filter")
      BY <2>5 DEF RecvMessage, ReceiptInv, ProducerTyped
    <3>2. log[cursor + 1] \in Messages
      BY <3>1, ElementOfSeq DEF ProducerTyped
    <3>3. NoMessage \notin Messages
      BY DEF Messages, NoMessage
    <3> QED
      BY <3>1, <3>2, <3>3, MovesLoop DEF LoopInv, Where, Busy
  <2>6. ASSUME NEW g \in Loops, ChainStep(g) PROVE LoopInv'
    <3>1. PICK s \in InHandler : Moves(g, s)
      BY <2>6, ChainLoop
    <3>2. loop[g] \in InHandler /\ held' = held
      BY <2>6, ChainLoop DEF ChainUnchanged
    <3> QED
      BY <3>1, <3>2, MovesLoop DEF LoopInv, Where, Busy, InHandler
  <2> QED
    BY <1>1, <2>1, <2>2, <2>3, <2>4, <2>5, <2>6, ConsumerCases
<1>2. CASE UNCHANGED consumer
  BY <1>2 DEF consumer, LoopInv
<1> QED
  BY <1>1, <1>2 DEF Next, vars

\* A loop goes on by itself, and ends only when it is cancelled.
LoopGoesOn(g) ==
    /\ UNCHANGED client /\ loop[g] # "off"
    /\ \E s \in Where : Moves(g, s) /\ (s = "off" => g \in cancelled)
    /\ running' = running \/ g \in cancelled

LEMMA LoopGoes ==
    ASSUME LoopInv, NEW g \in Loops,
           \/ LoopStep(g) \/ RecvTimeout(g) \/ RecvError(g)
           \/ RetryElapsed(g) \/ HandlerReturns(g) \/ HandlerPanics(g)
    PROVE  LoopGoesOn(g)
<1>1. CASE ChainStep(g)
  BY <1>1, ChainLoop DEF ChainUnchanged, lifecycle, client, LoopGoesOn, InHandler, Where, Busy
<1>2. CASE LoopCancelled(g) \/ RecvTimeout(g) \/ RecvError(g)
  BY <1>2 DEF LoopCancelled, RecvTimeout, RecvError, Fails, LoopExits, LoopGoesOn, Where, Busy
<1>3. CASE RecvLagged(g)
  <2>1. loop' = loop /\ loop[g] = "recv" /\ UNCHANGED <<running, client>>
    BY <1>3 DEF RecvLagged, lifecycle
  <2>2. Moves(g, "recv")
    BY <2>1 DEF Moves, LoopInv
  <2> QED
    BY <2>1, <2>2 DEF LoopGoesOn, Where
<1>4. CASE RecvMessage(g) \/ Filter(g) \/ BackoffOver(g) \/ Handled(g) \/ HandlerPanics(g)
  BY <1>4 DEF RecvMessage, Filter, BackoffOver, Handled, HandlerPanics, Base, lifecycle, client, LoopGoesOn,
              Where, Busy
<1> QED
  BY <1>1, <1>2, <1>3, <1>4 DEF LoopStep, ChainStep

LEMMA LifeInductive ==
    ASSUME LoopInv, LifeInv, [Next]_vars PROVE LifeInv'
<1>1. CASE Start
  <2> DEFINE n == starts + 1
  <2>1. /\ joining = NoLoop /\ ~running /\ starts < MaxStarts /\ starts' = n /\ running' = TRUE /\ task' = n
        /\ Moves(n, "recv") /\ UNCHANGED <<joining, cancelled, stopped, dropped>>
    BY <1>1 DEF Start
  <2>2. /\ n \in Loops /\ n # NoLoop /\ n \notin cancelled \cup stopped /\ n \in 0..MaxStarts
        /\ 1..starts \subseteq 1..n /\ n \in 0..n /\ \A g \in Loops : g > n => g > starts /\ g # n
    BY <2>1, LoopNames DEF LifeInv, Loops
  <2> HIDE DEF n
  <2>3. loop'[n] = "recv" /\ \A h \in Loops : h # n => loop'[h] = loop[h]
    BY <2>1, <2>2, MovesLoop DEF Where
  <2>4. joining \in 0..n /\ \A g \in stopped : g \in Loops
    BY <2>1, <2>2, LoopNames DEF LifeInv, Loops, NoLoop
  <2>5. ~dropped => \A g \in Loops : loop[g] = "off"
    BY <2>1, LoopNames DEF LifeInv, Loops, NoLoop
  <2>6. \A g \in stopped : loop'[g] = "off"
    BY <2>2, <2>3, <2>4 DEF LifeInv
  <2>7. ~dropped => \A g \in Loops : loop'[g] # "off" => g = n
    BY <2>3, <2>5
  <2> QED
    BY <2>1, <2>2, <2>3, <2>4, <2>6, <2>7 DEF LifeInv
<1>2. CASE Stop
  <2>1. /\ joining = NoLoop /\ running /\ joining' = task /\ task' = NoLoop
        /\ cancelled' = cancelled \cup ({task} \ {NoLoop}) /\ running' = (task # NoLoop)
        /\ UNCHANGED <<loop, starts, stopped, dropped>>
    BY <1>2 DEF Stop
  <2>2. task # NoLoop => task \in 1..starts
    BY LoopNames DEF LifeInv, NoLoop
  <2>3. 0 \in 0..starts
    BY LoopNames
  <2> QED
    BY <2>1, <2>2, <2>3 DEF LifeInv, NoLoop
<1>3. CASE LifeStep
  <2>1. /\ joining # NoLoop /\ Moves(joining, "off") /\ running' = FALSE
        /\ stopped' = stopped \cup {joining} /\ joining' = NoLoop
        /\ UNCHANGED <<task, cancelled, starts, dropped>>
    BY <1>3 DEF LifeStep, StopJoined, StopAborted, StopReturns
  <2>2. joining \in Loops /\ joining \in 1..starts /\ 0 \in 0..starts /\ task = NoLoop
    BY <2>1, LoopNames DEF LifeInv, NoLoop
  <2>3. loop'[joining] = "off" /\ \A h \in Loops : h # joining => loop'[h] = loop[h]
    BY <2>1, <2>2, MovesLoop DEF Where
  <2>4. \A g \in stopped : g \in Loops
    BY LoopNames DEF LifeInv, Loops
  <2> QED
    BY <2>1, <2>2, <2>3, <2>4 DEF LifeInv, NoLoop
<1>4. CASE DropStop
  <2>1. /\ joining' = NoLoop /\ dropped' = TRUE
        /\ UNCHANGED <<running, task, cancelled, loop, starts, stopped>>
    BY <1>4 DEF DropStop
  <2>2. 0 \in 0..starts
    BY LoopNames
  <2> QED
    BY <2>1, <2>2 DEF LifeInv, NoLoop
<1>5. ASSUME NEW g \in Loops, LoopGoesOn(g) PROVE LifeInv'
  <2>1. PICK s \in Where : Moves(g, s) /\ (s = "off" => g \in cancelled)
    BY <1>5 DEF LoopGoesOn
  <2>2. /\ UNCHANGED <<task, joining, cancelled, starts, stopped, dropped>> /\ loop[g] # "off"
        /\ running' = running \/ g \in cancelled
    BY <1>5 DEF LoopGoesOn, client
  <2>3. loop'[g] = s /\ \A h \in Loops : h # g => loop'[h] = loop[h]
    BY <2>1, MovesLoop
  <2>4. task # NoLoop => task \in Loops
    BY LoopNames
  <2>5. \A h \in stopped : h \in Loops /\ h # g
    BY <2>2, LoopNames DEF LifeInv, Loops
  <2>6. ASSUME ~dropped, joining = NoLoop PROVE running' <=> task # NoLoop
    <3>1. g = task /\ g # NoLoop
      BY <2>2, <2>6 DEF LifeInv, Loops, NoLoop
    <3>2. running' = running
      BY <2>2, <3>1 DEF LifeInv
    <3> QED
      BY <2>6, <3>2 DEF LifeInv
  <2> QED
    BY <2>1, <2>2, <2>3, <2>4, <2>5, <2>6 DEF LifeInv
<1>6. CASE UNCHANGED consumer
  BY <1>6 DEF consumer, LifeInv
<1> QED
  BY <1>1, <1>2, <1>3, <1>4, <1>5, <1>6, LoopGoes DEF Next, ConsumerNext, vars

\* The elements of the log, by their index.
LEMMA LogElements ==
    ASSUME ProducerTyped
    PROVE  /\ Len(log) \in Nat /\ \A i \in 1..Len(log) : log[i] \in Messages /\ log[i] \in ToSet(log)
           /\ \A m : m \in ToSet(log) <=> \E i \in 1..Len(log) : log[i] = m
           /\ ToSet(log) \subseteq Messages /\ NoMessage \notin Messages
<1>1. log \in Seq(Messages) /\ Len(log) \in Nat
  BY DEF ProducerTyped
<1>2. ToSet(log) \subseteq Messages /\ \A m : m \in ToSet(log) <=> \E i \in 1..Len(log) : log[i] = m
  BY <1>1, ToSetElements
<1> QED
  BY <1>1, <1>2 DEF Messages, NoMessage

\* A published message waits in the channel.
LEMMA ReceiptPublish ==
    ASSUME ProducerTyped, ReceiptInv, NEW m \in Messages, m \notin ToSet(log), log' = Append(log, m),
           UNCHANGED <<held, outcome, cursor>>
    PROVE  ReceiptInv'
<1>1. /\ Len(log') = Len(log) + 1 /\ Len(log) \in Nat /\ ToSet(log') = ToSet(log) \cup {m}
      /\ \A i \in 1..Len(log) : log'[i] = log[i]
      /\ log'[Len(log) + 1] = m
  BY AppendElements DEF ProducerTyped
<1>2. cursor \in 0..Len(log) /\ cursor \in 0..Len(log')
  BY <1>1 DEF ReceiptInv
<1>3. ~IsHeld(m) /\ outcome[m] = "none"
  BY LogElements DEF ReceiptInv, IsHeld
<1>4. \A i \in 1..Len(log') : i \in 1..Len(log) \/ (i = Len(log) + 1 /\ ~(i <= cursor))
  BY <1>1, <1>2
<1>5. \A x : IsHeld(x)' <=> IsHeld(x)
  BY DEF IsHeld
<1>6. \A i \in 1..Len(log') :
        IF i <= cursor THEN IsHeld(log'[i]) <=> outcome[log'[i]] = "none"
                       ELSE ~IsHeld(log'[i]) /\ outcome[log'[i]] = "none"
  <2>1. \A i \in 1..Len(log) :
            IF i <= cursor THEN IsHeld(log'[i]) <=> outcome[log'[i]] = "none"
                           ELSE ~IsHeld(log'[i]) /\ outcome[log'[i]] = "none"
    BY <1>1 DEF ReceiptInv
  <2> QED
    BY <1>1, <1>3, <1>4, <2>1
<1>7. \A i \in 1..Len(log') :
        IF i <= cursor' THEN IsHeld(log[i])' <=> outcome'[log'[i]] = "none"
                        ELSE ~IsHeld(log[i])' /\ outcome'[log'[i]] = "none"
  BY <1>6 DEF IsHeld
<1>8. /\ \A g \in Loops : held'[g] # NoMessage => held'[g] \in ToSet(log')
      /\ \A n \in Messages : n \notin ToSet(log') => outcome'[n] = "none"
      /\ \A g, h \in Loops : held'[g] = held'[h] /\ held'[g] # NoMessage => g = h
      /\ outcome' \in [Messages -> Ending \cup {"none"}]
  BY <1>1 DEF ReceiptInv
<1> QED
  BY <1>2, <1>7, <1>8 DEF ReceiptInv

\* The message in the hands of loop g ends.
LEMMA ReceiptEnds ==
    ASSUME ProducerTyped, LoopInv, ReceiptInv, NEW g \in Loops, NEW what \in Ending, Ends(g, what),
           UNCHANGED <<log, cursor>>
    PROVE  /\ ReceiptInv'
           /\ held[g] # NoMessage => outcome'[held[g]] = what /\ held[g] \in Messages
           /\ \A m \in Messages : m # held[g] => outcome'[m] = outcome[m]
           /\ held'[g] = NoMessage /\ \A h \in Loops : h # g => held'[h] = held[h]
<1>1. held'[g] = NoMessage /\ (\A h \in Loops : h # g => held'[h] = held[h]) /\ what # "none"
  BY DEF Ends, Ending, LoopInv
<1>2. \A m \in Messages : IsHeld(m)' <=> IsHeld(m) /\ m # held[g]
  <2>1. \A m \in Messages : m # NoMessage
    BY LogElements
  <2>2. \A m \in Messages, h \in Loops : held[h] = m /\ held[g] = m => h = g
    BY <2>1 DEF ReceiptInv
  <2> QED
    BY <1>1, <2>1, <2>2 DEF IsHeld
<1>3. \A h, k \in Loops : held'[h] = held'[k] /\ held'[h] # NoMessage => h = k
  BY <1>1 DEF ReceiptInv
<1>4. /\ \A h \in Loops : held'[h] # NoMessage => held'[h] \in ToSet(log)
      /\ cursor \in 0..Len(log)
  BY <1>1 DEF ReceiptInv
<1>5. CASE held[g] = NoMessage
  <2>1. outcome' = outcome
    BY <1>5 DEF Ends
  <2>2. \A m \in Messages : m # held[g]
    BY <1>5, LogElements
  <2>3. \A i \in 1..Len(log) :
            IF i <= cursor THEN IsHeld(log[i])' <=> outcome[log[i]] = "none"
                           ELSE ~IsHeld(log[i])' /\ outcome[log[i]] = "none"
    BY <1>2, <2>2, LogElements DEF ReceiptInv
  <2>4. ReceiptInv'
    BY <1>3, <1>4, <2>1, <2>3 DEF ReceiptInv, IsHeld
  <2> QED
    BY <1>1, <1>5, <2>1, <2>4
<1>6. CASE held[g] # NoMessage
  <2>1. held[g] \in Messages /\ held[g] \in ToSet(log)
    BY <1>6, LogElements DEF ReceiptInv
  <2>2. outcome' = [outcome EXCEPT ![held[g]] = what]
    BY <1>6 DEF Ends
  <2>3. outcome' \in [Messages -> Ending \cup {"none"}]
    BY <2>2 DEF ReceiptInv
  <2>4. outcome'[held[g]] = what /\ \A m \in Messages : m # held[g] => outcome'[m] = outcome[m]
    BY <2>1, <2>2 DEF ReceiptInv
  <2>5. IsHeld(held[g])
    BY DEF IsHeld
  <2>6. \A i \in 1..Len(log) :
            IF i <= cursor THEN IsHeld(log[i])' <=> outcome'[log[i]] = "none"
                           ELSE ~IsHeld(log[i])' /\ outcome'[log[i]] = "none"
    <3>1. ASSUME NEW i \in 1..Len(log)
          PROVE  IF i <= cursor THEN IsHeld(log[i])' <=> outcome'[log[i]] = "none"
                                ELSE ~IsHeld(log[i])' /\ outcome'[log[i]] = "none"
      <4>1. /\ log[i] \in Messages
            /\ IF i <= cursor THEN IsHeld(log[i]) <=> outcome[log[i]] = "none"
                              ELSE ~IsHeld(log[i]) /\ outcome[log[i]] = "none"
        BY LogElements DEF ReceiptInv
      <4>2. IsHeld(log[i])' <=> IsHeld(log[i]) /\ log[i] # held[g]
        <5>1. \A m \in Messages : (\E h \in Loops : held'[h] = m) <=> IsHeld(m) /\ m # held[g]
          BY <1>2 DEF IsHeld
        <5> QED
          BY <4>1, <5>1 DEF IsHeld
      <4> QED
        BY <1>1, <2>4, <2>5, <4>1, <4>2
    <3> QED
      BY <3>1
  <2>7. \A m \in Messages : m \notin ToSet(log) => outcome'[m] = "none"
    BY <2>1, <2>4 DEF ReceiptInv
  <2>8. ReceiptInv'
    BY <1>3, <1>4, <2>3, <2>6, <2>7 DEF ReceiptInv, IsHeld
  <2> QED
    BY <1>1, <2>1, <2>4, <2>8
<1> QED
  BY <1>5, <1>6

\* The receiver skips what the channel has overwritten.
LEMMA ReceiptLagged ==
    ASSUME ProducerTyped, Distinct(log), ReceiptInv, NEW g \in Loops, RecvLagged(g), UNCHANGED log
    PROVE  /\ ReceiptInv'
           /\ \A m \in Messages : outcome[m] # "none" => outcome'[m] = outcome[m]
           /\ \A m \in Messages : outcome'[m] # outcome[m] => outcome'[m] = "lagged"
<1> DEFINE n == Len(log) - Capacity
<1>1. /\ held' = held /\ cursor' = n /\ Len(log) - cursor > Capacity
      /\ outcome' = [m \in Messages |-> IF m \in Overwritten THEN "lagged" ELSE outcome[m]]
  BY DEF RecvLagged, Lagging
<1>2. n \in 0..Len(log) /\ cursor \in Nat /\ cursor < n /\ n \in Nat
  BY <1>1, LogElements, BrokerAssumption DEF ReceiptInv
<1> HIDE DEF n
<1>3. \A m : m \in Overwritten <=> \E i \in 1..Len(log) : cursor < i /\ i <= n /\ log[i] = m
  <2>1. Overwritten = {log[i] : i \in cursor + 1 .. n}
    BY DEF Overwritten, n
  <2>2. \A i : i \in cursor + 1 .. n <=> i \in 1..Len(log) /\ cursor < i /\ i <= n
    BY <1>2, LogElements
  <2> QED
    BY <2>1, <2>2
<1>4. \A i \in 1..Len(log) : log[i] \in Overwritten <=> cursor < i /\ i <= n
  BY <1>3 DEF Distinct
<1>5. outcome' \in [Messages -> Ending \cup {"none"}]
  BY <1>1 DEF ReceiptInv, Ending
<1>6. \A m \in Messages : outcome'[m] = IF m \in Overwritten THEN "lagged" ELSE outcome[m]
  BY <1>1
<1>7. \A m \in Messages : m \in Overwritten => outcome[m] = "none" /\ m \in ToSet(log)
  BY <1>2, <1>3, LogElements DEF ReceiptInv
<1>8. \A i \in 1..Len(log) :
          IF i <= n THEN IsHeld(log[i]) <=> outcome'[log[i]] = "none"
                    ELSE ~IsHeld(log[i]) /\ outcome'[log[i]] = "none"
  <2>1. ASSUME NEW i \in 1..Len(log)
        PROVE  IF i <= n THEN IsHeld(log[i]) <=> outcome'[log[i]] = "none"
                         ELSE ~IsHeld(log[i]) /\ outcome'[log[i]] = "none"
    <3>1. CASE i <= cursor
      <4>1. i <= n /\ (IsHeld(log[i]) <=> outcome[log[i]] = "none") /\ log[i] \notin Overwritten
        BY <1>2, <1>4, <3>1 DEF ReceiptInv
      <4> QED
        BY <1>6, <4>1, LogElements
    <3>2. CASE ~(i <= cursor)
      <4>1. ~IsHeld(log[i]) /\ outcome[log[i]] = "none" /\ cursor < i
        BY <1>2, <3>2 DEF ReceiptInv
      <4> QED
        BY <1>4, <1>6, <4>1, LogElements
    <3> QED
      BY <3>1, <3>2
  <2> QED
    BY <2>1
<1>9. \A m \in Messages : m \notin ToSet(log) => outcome'[m] = "none"
  BY <1>6, <1>7 DEF ReceiptInv
<1>10. ReceiptInv'
  BY <1>1, <1>2, <1>5, <1>8, <1>9 DEF ReceiptInv, IsHeld
<1> QED
  BY <1>6, <1>7, <1>10

\* A receiver takes the next message.
LEMMA ReceiptMessage ==
    ASSUME ProducerTyped, Distinct(log), LoopInv, ReceiptInv, NEW g \in Loops, RecvMessage(g),
           UNCHANGED log
    PROVE  ReceiptInv'
<1> DEFINE k == cursor + 1
<1>1. /\ held' = [held EXCEPT ![g] = log[k]] /\ cursor' = k /\ outcome' = outcome /\ cursor < Len(log)
      /\ held[g] = NoMessage
  BY DEF RecvMessage, LoopInv, Busy
<1>2. cursor \in Nat /\ k \in 1..Len(log) /\ k \in 0..Len(log)
  BY <1>1, LogElements DEF ReceiptInv
<1>3. \A i \in 1..Len(log) : (i <= k <=> i <= cursor \/ i = k) /\ ~(k <= cursor)
  BY <1>2
<1> HIDE DEF k
<1>4. /\ held'[g] = log[k] /\ \A h \in Loops : h # g => held'[h] = held[h]
  BY <1>1 DEF LoopInv
<1>5. log[k] \in Messages /\ log[k] \in ToSet(log) /\ log[k] # NoMessage
  BY <1>2, LogElements
<1>6. ~IsHeld(log[k]) /\ outcome[log[k]] = "none"
  BY <1>2, <1>3 DEF ReceiptInv
<1>7. \A i \in 1..Len(log) : log[i] = log[k] <=> i = k
  BY <1>2 DEF Distinct
<1>8. \A m \in Messages : (\E h \in Loops : held'[h] = m) <=> IsHeld(m) \/ m = log[k]
  <2>1. \A m \in Messages : m # NoMessage
    BY LogElements
  <2> QED
    BY <1>1, <1>4, <2>1 DEF IsHeld
<1>9. \A i \in 1..Len(log) :
          IF i <= k THEN (\E h \in Loops : held'[h] = log[i]) <=> outcome[log[i]] = "none"
                    ELSE ~(\E h \in Loops : held'[h] = log[i]) /\ outcome[log[i]] = "none"
  <2>1. ASSUME NEW i \in 1..Len(log)
        PROVE  IF i <= k THEN (\E h \in Loops : held'[h] = log[i]) <=> outcome[log[i]] = "none"
                         ELSE ~(\E h \in Loops : held'[h] = log[i]) /\ outcome[log[i]] = "none"
    <3>1. /\ log[i] \in Messages
          /\ IF i <= cursor THEN IsHeld(log[i]) <=> outcome[log[i]] = "none"
                            ELSE ~IsHeld(log[i]) /\ outcome[log[i]] = "none"
      BY LogElements DEF ReceiptInv
    <3>2. (\E h \in Loops : held'[h] = log[i]) <=> IsHeld(log[i]) \/ i = k
      BY <1>7, <1>8, <3>1
    <3> QED
      BY <1>3, <1>6, <3>1, <3>2
  <2> QED
    BY <2>1
<1>10. /\ \A h \in Loops : held'[h] # NoMessage => held'[h] \in ToSet(log)
       /\ \A h, j \in Loops : held'[h] = held'[j] /\ held'[h] # NoMessage => h = j
  BY <1>4, <1>5, <1>6 DEF ReceiptInv, IsHeld
<1> QED
  BY <1>1, <1>2, <1>9, <1>10 DEF ReceiptInv, IsHeld

LEMMA ReceiptInductive ==
    ASSUME PlacesInv, CloseInv, LoopInv, LifeInv, ReceiptInv, [Next]_vars PROVE ReceiptInv'
<1> USE DEF PlacesInv, NoCopies
<1>1. LogGrows
  BY ProducerInductive DEF ProducerKept
<1>2. CASE ConsumerNext /\ UNCHANGED <<log, producer>>
  <2>1. ASSUME UNCHANGED <<held, outcome, cursor>> PROVE ReceiptInv'
    BY <1>2, <2>1 DEF ReceiptInv, IsHeld
  <2>2. CASE Idles
    BY <2>1, <2>2 DEF Idles
  <2>3. ASSUME NEW g \in Loops, Passes(g) \/ ChainStep(g) PROVE ReceiptInv'
    BY <2>1, <2>3, ChainLoop DEF Passes, ChainUnchanged
  <2>4. ASSUME NEW g \in Loops, EndsStep(g) PROVE ReceiptInv'
    BY <1>2, <2>4, ReceiptEnds DEF EndsStep
  <2>5. ASSUME NEW g \in Loops, RecvLagged(g) \/ RecvMessage(g) PROVE ReceiptInv'
    BY <1>2, <2>5, ReceiptLagged, ReceiptMessage
  <2> QED
    BY <1>2, <2>2, <2>3, <2>4, <2>5, ConsumerCases
<1>3. CASE UNCHANGED <<cursor, consumer>>
  <2>1. UNCHANGED <<held, outcome, cursor>>
    BY <1>3 DEF consumer
  <2>2. CASE UNCHANGED log
    BY <2>1, <2>2 DEF ReceiptInv, IsHeld
  <2>3. CASE \E m \in Messages : m \notin ToSet(log) /\ log' = Append(log, m)
    BY <2>1, <2>3, ReceiptPublish
  <2> QED
    BY <1>1, <2>2, <2>3 DEF LogGrows
<1> QED
  BY <1>2, <1>3 DEF Next, vars, broker

-----------------------------------------------------------------------------
(***************************************************************************)
(* Conservation and quiescence                                             *)
(***************************************************************************)

PipelineInv == PlacesInv /\ CloseInv /\ LoopInv /\ LifeInv /\ ReceiptInv

LEMMA PipelineInit == Init => PipelineInv
<1> SUFFICES ASSUME Init PROVE PipelineInv
  OBVIOUS
<1>1. <<>> \in Seq(Messages) /\ Len(<<>>) = 0 /\ ToSet(<<>>) = {} /\ Distinct(<<>>)
  <2>1. <<>> \in Seq(Messages) /\ Len(<<>>) = 0
    BY EmptySeq
  <2> QED
    BY <2>1, ToSetElements DEF Distinct
<1>2. /\ buffer = <<>> /\ log = <<>> /\ sent = 0 /\ lost = {} /\ periodic = "wait"
      /\ hand = [f \in Flushers |-> <<>>] /\ call = [c \in Producers |-> "idle"]
      /\ atClose = [c \in Producers |-> 0]
  BY DEF Init, BrokerInit, ProducerInit
<1>3. PlacesInv
  <2>1. hand \in [Flushers -> Seq(Messages)] /\ \A f \in Flushers : hand[f] = <<>>
    BY <1>1, <1>2
  <2>2. \A m \in Messages : ~(m <= sent)
    BY <1>2, BrokerAssumption DEF Messages
  <2>3. ProducerTyped /\ NoCopies
    BY <1>1, <1>2, <2>1, BrokerAssumption DEF ProducerTyped, NoCopies
  <2>4. OnePlace
    BY <1>1, <1>2, <2>1, <2>2 DEF OnePlace, InHand
  <2>5. HandsInv
    BY <1>2, <2>1, FlushersTimer DEF HandsInv
  <2> QED
    BY <2>3, <2>4, <2>5 DEF PlacesInv
<1>4. CloseInv
  BY <1>2, BrokerAssumption DEF CloseInv, Label
<1>5. /\ loop = [g \in Loops |-> "off"] /\ held = [g \in Loops |-> NoMessage]
      /\ outcome = [m \in Messages |-> "none"] /\ cursor = 0 /\ starts = 0 /\ task = NoLoop
      /\ joining = NoLoop /\ cancelled = {} /\ stopped = {} /\ ~running
  BY DEF Init, BrokerInit, ConsumerInit
<1>6. LoopInv
  BY <1>5 DEF LoopInv, Where, Busy
<1>7. LifeInv
  BY <1>5, ConsumerAssumption DEF LifeInv, NoLoop
<1>8. ReceiptInv
  BY <1>1, <1>2, <1>5 DEF ReceiptInv
<1> QED
  BY <1>3, <1>4, <1>6, <1>7, <1>8 DEF PipelineInv

LEMMA PipelineInvariant == Spec => []PipelineInv
<1>1. PipelineInv /\ [Next]_vars => PipelineInv'
  BY ProducerInductive, LoopInductive, LifeInductive, ReceiptInductive
  DEF PipelineInv, ProducerKept, PlacesInv
<1> QED
  BY <1>1, PipelineInit, PTL DEF Spec

\* How often a message occurs in a sequence without copies.
LEMMA Occurrences ==
    ASSUME NEW s \in Seq(Messages), Distinct(s), NEW m
    PROVE  Cardinality(At(s, m)) = IF m \in ToSet(s) THEN 1 ELSE 0
<1>1. At(s, m) = {i \in 1..Len(s) : s[i] = m}
  BY DEF At
<1>2. CASE m \in ToSet(s)
  <2>1. PICK i \in 1..Len(s) : s[i] = m
    BY <1>2, ToSetElements
  <2>2. At(s, m) = {i}
    BY <1>1, <2>1 DEF Distinct
  <2> QED
    BY <1>2, <2>2, FS_Singleton
<1>3. CASE m \notin ToSet(s)
  <2>1. At(s, m) = {}
    BY <1>1, <1>3, ToSetElements
  <2> QED
    BY <1>3, <2>1, FS_EmptySet
<1> QED
  BY <1>2, <1>3

\* No message is lost or duplicated between acceptance and its end: whatever clients,
\* the periodic task, close(), the loop and its client do at the same time, and
\* whatever call is dropped, fails or is aborted (batch.rs, managed_consumer.rs).
THEOREM MessagesAreConserved == Spec => []MessagesConserved
<1>1. PipelineInv => MessagesConserved
  <2> SUFFICES ASSUME PlacesInv, LoopInv, ReceiptInv PROVE MessagesConserved
    BY DEF PipelineInv
  <2> USE DEF PlacesInv
  <2>1. ASSUME NEW m \in 1..sent
        PROVE  Cardinality(At(buffer, m)) + Cardinality(At(log, m))
                 + Cardinality({f \in Flushers : Contains(hand[f], m)})
                 + (IF m \in lost THEN 1 ELSE 0) = 1
    <3> DEFINE F == {f \in Flushers : Contains(hand[f], m)}
    <3>1. m \in Messages /\ m <= sent
      BY BrokerAssumption DEF ProducerTyped, Messages
    <3>2. /\ Cardinality(At(buffer, m)) = IF m \in ToSet(buffer) THEN 1 ELSE 0
          /\ Cardinality(At(log, m)) = IF m \in ToSet(log) THEN 1 ELSE 0
      BY Occurrences DEF ProducerTyped, NoCopies
    <3>3. F = {f \in Flushers : m \in ToSet(hand[f])}
      <4>1. \A f \in Flushers : Contains(hand[f], m) <=> m \in ToSet(hand[f])
        BY ToSetElements DEF ProducerTyped, Contains
      <4> QED
        BY <4>1
    <3>4. Cardinality(F) = IF InHand(m) THEN 1 ELSE 0
      <4>1. CASE InHand(m)
        <5>1. PICK f \in Flushers : m \in ToSet(hand[f])
          BY <4>1 DEF InHand
        <5>2. F = {f}
          BY <3>1, <3>3, <5>1 DEF OnePlace
        <5> QED
          BY <4>1, <5>2, FS_Singleton
      <4>2. CASE ~InHand(m)
        <5>1. F = {}
          BY <3>3, <4>2 DEF InHand
        <5> QED
          BY <4>2, <5>1, FS_EmptySet
      <4> QED
        BY <4>1, <4>2
    <3> HIDE DEF F
    <3>5. /\ m \in ToSet(buffer) \/ m \in ToSet(log) \/ m \in lost \/ InHand(m)
          /\ m \in ToSet(buffer) => m \notin ToSet(log) /\ m \notin lost /\ ~InHand(m)
          /\ m \in ToSet(log) => m \notin lost /\ ~InHand(m)
          /\ m \in lost => ~InHand(m)
      BY <3>1 DEF OnePlace
    <3>6. Cardinality(At(buffer, m)) + Cardinality(At(log, m)) + Cardinality(F)
            + (IF m \in lost THEN 1 ELSE 0) = 1
      BY <3>2, <3>4, <3>5
    <3> QED
      BY <3>6 DEF F
  <2>2. ASSUME NEW m \in ToSet(log)
        PROVE  Cardinality({g \in Loops : held[g] = m})
                 + (IF m \in Pending THEN 1 ELSE 0) + (IF outcome[m] # "none" THEN 1 ELSE 0) = 1
    <3> DEFINE G == {g \in Loops : held[g] = m}
    <3>1. PICK i \in 1..Len(log) : log[i] = m
      BY LogElements
    <3>2. m \in Pending <=> ~(i <= cursor)
      <4>1. cursor \in Nat /\ Len(log) \in Nat
        BY LogElements DEF ReceiptInv
      <4>2. m \in Pending <=> \E j \in 1..Len(log) : ~(j <= cursor) /\ log[j] = m
        BY <4>1 DEF Pending
      <4> QED
        BY <3>1, <4>2 DEF NoCopies, Distinct
    <3>3. IF i <= cursor THEN IsHeld(m) <=> outcome[m] = "none"
                         ELSE ~IsHeld(m) /\ outcome[m] = "none"
      BY <3>1 DEF ReceiptInv
    <3>4. Cardinality(G) = IF IsHeld(m) THEN 1 ELSE 0
      <4>1. CASE IsHeld(m)
        <5>1. PICK g \in Loops : held[g] = m
          BY <4>1 DEF IsHeld
        <5>2. G = {g}
          BY <5>1, LogElements DEF ReceiptInv
        <5> QED
          BY <4>1, <5>2, FS_Singleton
      <4>2. CASE ~IsHeld(m)
        <5>1. G = {}
          BY <4>2 DEF IsHeld
        <5> QED
          BY <4>2, <5>1, FS_EmptySet
      <4> QED
        BY <4>1, <4>2
    <3> HIDE DEF G
    <3>5. Cardinality(G) + (IF m \in Pending THEN 1 ELSE 0) + (IF outcome[m] # "none" THEN 1 ELSE 0) = 1
      BY <3>2, <3>3, <3>4
    <3> QED
      BY <3>5 DEF G
  <2> QED
    BY <2>1, <2>2 DEF MessagesConserved
<1> QED
  BY <1>1, PipelineInvariant, PTL

\* A close() that returned Ok has seen out of the buffer every message accepted before
\* it, and the periodic task too if it was the close() that had it to end (a second
\* close(), or one after a dropped close(), finds no task and ends none).  A loop whose
\* handle stop() had is over for good once that stop() has returned; and while no
\* stop() was dropped, at most one loop is up, and is_running() tells (batch.rs
\* close(), managed_consumer.rs start(), stop()).
THEOREM ShutdownIsQuiet == Spec => []ShutdownQuiet
<1>1. PipelineInv => ShutdownQuiet
  <2> SUFFICES ASSUME HandsInv, CloseInv, LoopInv, LifeInv PROVE ShutdownQuiet
    BY DEF PipelineInv, PlacesInv
  <2>1. \A c \in Producers :
          /\ call[c] \in {"closed", "ended"} => \A m \in ToSet(buffer) : m > atClose[c]
          /\ call[c] = "ended" => periodic = "ended" /\ hand[Timer] = <<>>
    BY DEF CloseInv, HandsInv
  <2>2. \A g \in stopped : loop[g] = "off" /\ held[g] = NoMessage
    <3>1. \A g \in stopped : g \in Loops
      BY LoopNames DEF LifeInv, Loops
    <3> QED
      BY <3>1 DEF LifeInv, LoopInv, Busy
  <2>3. ASSUME ~dropped
        PROVE  /\ \A g, h \in Loops : loop[g] # "off" /\ loop[h] # "off" => g = h
               /\ joining = NoLoop => (running <=> \E g \in Loops : loop[g] # "off")
    <3>1. \A g \in Loops : g # NoLoop
      BY DEF Loops, NoLoop
    <3>2. task # NoLoop => task \in Loops
      BY LoopNames
    <3> QED
      BY <2>3, <3>1, <3>2 DEF LifeInv
  <2> QED
    BY <2>1, <2>2, <2>3 DEF ShutdownQuiet
<1> QED
  BY <1>1, PipelineInvariant, PTL

-----------------------------------------------------------------------------
(***************************************************************************)
(* The handler chain: what Ok means                                        *)
(***************************************************************************)

\* What a loop works on has no outcome yet.
LEMMA HeldIsOpen ==
    ASSUME ProducerTyped, LoopInv, ReceiptInv, NEW g \in Loops, held[g] # NoMessage
    PROVE  held[g] \in Messages /\ outcome[held[g]] = "none"
<1>1. PICK i \in 1..Len(log) : log[i] = held[g]
  BY LogElements DEF ReceiptInv
<1>2. IsHeld(log[i])
  BY <1>1 DEF IsHeld
<1> QED
  BY <1>1, <1>2, LogElements DEF ReceiptInv

\* What is accounted for stays so.
AccountsKept ==
    /\ \A n \in Messages : Accounted(n) => Accounted(n)'
    /\ served \subseteq served' /\ dead \subseteq dead'

LEMMA AccountsStay ==
    ASSUME served \subseteq served', dead \subseteq dead',
           \A n \in Messages : outcome[n] # "none" => outcome'[n] = outcome[n],
           \A g \in Loops : Inside(g) => \/ held'[g] = held[g] /\ Inside(g)'
                                       \/ outcome'[held[g]] \in Failed
                                       \/ held[g] \in served' \cup dead'
    PROVE  AccountsKept
<1>1. ASSUME NEW n \in Messages, outcome[n] \in Failed PROVE outcome'[n] \in Failed
  BY <1>1 DEF Failed
<1>2. ASSUME NEW n \in Messages, NEW g \in Loops, held[g] = n, Inside(g)
      PROVE  n \in served' \cup dead' \/ outcome'[n] \in Failed \/ (held'[g] = n /\ Inside(g)')
  BY <1>2
<1>3. ASSUME NEW n \in Messages, Accounted(n) PROVE Accounted(n)'
  <2>1. CASE n \in served \cup dead
    BY <2>1 DEF Accounted
  <2>2. CASE outcome[n] \in Failed
    BY <1>1, <2>2 DEF Accounted
  <2>3. CASE \E g \in Loops : held[g] = n /\ Inside(g)
    BY <1>2, <2>3 DEF Accounted
  <2> QED
    BY <1>3, <2>1, <2>2, <2>3 DEF Accounted
<1> QED
  BY <1>3 DEF AccountsKept

LEMMA ExplainedStay ==
    ASSUME AccountsKept
    PROVE  /\ \A x : Backed(x) => Backed(x)'
           /\ \A m : Explained(m) => Explained(m)'
<1>1. \A x : Backed(x) => Backed(x)'
  BY DEF AccountsKept, Backed
<1> QED
  BY <1>1 DEF AccountsKept, Explained

\* A step that only has to explain what is newly reported, and newly remembered.
LEMMA SeenKept ==
    ASSUME SeenInv, AccountsKept, LayerInv', seen' \in Seq({IdOf[m] : m \in Messages}),
           \A x \in ToSet(seen') : x \in ToSet(seen) \/ Backed(x)',
           \A g \in Loops : loop'[g] = "ok" =>
               (loop[g] = "ok" /\ held'[g] = held[g]) \/ Explained(held[g])',
           \A m \in Messages : outcome'[m] = "ok" =>
               outcome[m] = "ok" \/ \E g \in Loops : held[g] = m /\ loop[g] = "ok"
    PROVE  SeenInv'
<1>1. \A x \in ToSet(seen') : Backed(x)'
  BY ExplainedStay DEF SeenInv
<1>2. \A g \in Loops : loop'[g] = "ok" => Explained(held[g])'
  <2>1. ASSUME NEW g \in Loops, loop[g] = "ok", held'[g] = held[g] PROVE Explained(held[g])'
    <3>1. Explained(held[g])
      BY <2>1 DEF SeenInv
    <3>2. held[g] \in served \cup dead => held[g] \in served' \cup dead'
      BY DEF AccountsKept
    <3>3. Backed(IdOf[held[g]]) => Backed(IdOf[held[g]])'
      BY <2>1, ExplainedStay DEF Backed
    <3> QED
      BY <2>1, <3>1, <3>2, <3>3 DEF Explained
  <2> QED
    BY <2>1
<1>3. \A m \in Messages : outcome'[m] = "ok" => Explained(m)'
  BY ExplainedStay DEF SeenInv
<1> QED
  BY <1>1, <1>2, <1>3 DEF SeenInv

\* A loop that moves without being in the handler, before or after.
LEMMA SeenQuiet ==
    ASSUME LoopInv, SeenInv, UNCHANGED <<layer, seen, served, dead>>,
           \A m \in Messages : outcome[m] # "none" => outcome'[m] = outcome[m],
           \A m \in Messages : outcome'[m] = "ok" => outcome[m] = "ok",
           \A g \in Loops : loop[g] \in InHandler \/ loop'[g] \in InHandler =>
               loop'[g] = loop[g] /\ held'[g] = held[g]
    PROVE  SeenInv'
<1>1. \A g \in Loops : Inside(g) => held'[g] = held[g] /\ Inside(g)'
  BY DEF Inside, InHandler
<1>2. AccountsKept
  BY <1>1, AccountsStay
<1>3. LayerInv'
  BY DEF SeenInv, LayerInv, InHandler
<1>4. seen' \in Seq({IdOf[m] : m \in Messages})
  BY DEF SeenInv
<1>5. \A g \in Loops : loop'[g] = "ok" => loop[g] = "ok" /\ held'[g] = held[g]
  BY DEF InHandler
<1> QED
  BY <1>2, <1>3, <1>4, <1>5, SeenKept

LEMMA SeenEnds ==
    ASSUME ProducerTyped, LoopInv, ReceiptInv, SeenInv, NEW g \in Loops, EndsStep(g), UNCHANGED log
    PROVE  SeenInv'
<1>1. PICK what \in Ending : \E s \in {"off", "recv", "dead"} :
        /\ Ends(g, what) /\ Moves(g, s) /\ UNCHANGED cursor
        /\ loop[g] \in {"call", "err"} => what \in Failed
        /\ what = "ok" => loop[g] = "ok"
  BY DEF EndsStep
<1>2. /\ held[g] # NoMessage => outcome'[held[g]] = what /\ held[g] \in Messages
      /\ \A m \in Messages : m # held[g] => outcome'[m] = outcome[m]
      /\ \A h \in Loops : h # g => held'[h] = held[h]
  BY <1>1, ReceiptEnds
<1>3. UNCHANGED <<seen, served, dead>> /\ layer' = [layer EXCEPT ![g] = 0]
  BY <1>1 DEF Ends, memory
<1>4. loop'[g] \notin InHandler /\ \A h \in Loops : h # g => loop'[h] = loop[h]
  BY <1>1, MovesLoop DEF Where, InHandler
<1>5. layer' \in [Loops -> Nat] /\ \A h \in Loops : h # g => layer'[h] = layer[h]
  BY <1>3 DEF SeenInv, LayerInv
<1>6. \A m \in Messages : outcome[m] # "none" => outcome'[m] = outcome[m]
  <2>1. \A m \in Messages : outcome[m] # "none" => m # held[g]
    BY HeldIsOpen, LogElements
  <2> QED
    BY <1>2, <2>1
<1>7. ASSUME NEW h \in Loops, Inside(h)
      PROVE  \/ held'[h] = held[h] /\ Inside(h)'
             \/ outcome'[held[h]] \in Failed
  <2>1. CASE h = g
    <3>1. loop[g] \in {"call", "err"}
      BY <1>7, <2>1 DEF Inside
    <3>2. held[g] # NoMessage
      BY <3>1 DEF LoopInv, Busy
    <3> QED
      BY <1>1, <1>2, <2>1, <3>1, <3>2
  <2>2. CASE h # g
    BY <1>2, <1>4, <1>5, <1>7, <2>2 DEF Inside
  <2> QED
    BY <2>1, <2>2
<1>8. AccountsKept
  BY <1>3, <1>6, <1>7, AccountsStay
<1>9. LayerInv'
  BY <1>4, <1>5 DEF SeenInv, LayerInv, InHandler
<1>10. \A h \in Loops : loop'[h] = "ok" => loop[h] = "ok" /\ held'[h] = held[h]
  BY <1>2, <1>4 DEF InHandler
<1>11. \A m \in Messages : outcome'[m] = "ok" =>
          outcome[m] = "ok" \/ \E h \in Loops : held[h] = m /\ loop[h] = "ok"
  <2>1. ASSUME NEW m \in Messages, outcome'[m] = "ok", m = held[g] PROVE loop[g] = "ok"
    <3>1. held[g] # NoMessage
      BY <2>1, LogElements
    <3> QED
      BY <1>1, <1>2, <2>1, <3>1
  <2> QED
    BY <1>2, <2>1
<1>12. seen' \in Seq({IdOf[m] : m \in Messages})
  BY <1>3 DEF SeenInv
<1> QED
  BY <1>3, <1>8, <1>9, <1>10, <1>11, <1>12, SeenKept

\* The steps of a chain change nothing of the other loops.
LEMMA ChainOthers ==
    ASSUME LoopInv, LayerInv, NEW g \in Loops, ChainStep(g)
    PROVE  /\ UNCHANGED <<held, outcome>>
           /\ \A h \in Loops : h # g => loop'[h] = loop[h] /\ layer'[h] = layer[h]
<1>1. UNCHANGED <<held, outcome>>
  BY ChainLoop DEF ChainUnchanged
<1>2. \A h \in Loops : h # g => loop'[h] = loop[h]
  <2>1. PICK s \in InHandler : Moves(g, s)
    BY ChainLoop
  <2> QED
    BY <2>1, MovesLoop DEF InHandler, Where, Busy
<1>3. \E k : layer' = [layer EXCEPT ![g] = k]
  <2>1. CASE DedupCall(g)
    BY <2>1 DEF DedupCall, ToNext, Return
  <2>2. CASE ~DedupCall(g)
    BY <2>2 DEF ChainStep, RetryCall, RetryErr, RetryElapsed, DeadLetterCall, DeadLetterErr, PassOn,
                HandlerReturns, ToNext, Return
  <2> QED
    BY <2>1, <2>2
<1> QED
  BY <1>1, <1>2, <1>3 DEF LayerInv

\* What a step of the chain of loop g does to its position.
LEMMA ChainMoves ==
    ASSUME LoopInv, LayerInv, NEW g \in Loops
    PROVE  /\ ToNext(g) => loop'[g] = "call" /\ layer'[g] = layer[g] + 1 /\ layer' \in [Loops -> Nat]
           /\ \A r \in {"ok", "err"} : Return(g, r) => loop'[g] = r /\ layer'[g] = layer[g] - 1
           /\ \A r \in {"ok", "err"} : Return(g, r) /\ layer[g] > 0 => layer' \in [Loops -> Nat]
<1>1. layer[g] \in Nat /\ layer[g] + 1 \in Nat /\ (layer[g] > 0 => layer[g] - 1 \in Nat)
  BY DEF LayerInv
<1>2. \A k : layer' = [layer EXCEPT ![g] = k] => layer'[g] = k /\ (k \in Nat => layer' \in [Loops -> Nat])
  BY DEF LayerInv
<1>3. \A r \in InHandler : Moves(g, r) => loop'[g] = r
  BY DEF LoopInv, Moves
<1>4. ToNext(g) => loop'[g] = "call" /\ layer'[g] = layer[g] + 1 /\ layer' \in [Loops -> Nat]
  BY <1>1, <1>2, <1>3 DEF ToNext, InHandler
<1>5. ASSUME NEW r \in {"ok", "err"}, Return(g, r)
      PROVE  /\ loop'[g] = r /\ layer'[g] = layer[g] - 1
             /\ layer[g] > 0 => layer' \in [Loops -> Nat]
  BY <1>1, <1>2, <1>3, <1>5 DEF Return, InHandler
<1> QED
  BY <1>4, <1>5

\* The positions stay in the stack.
LEMMA LayerKept ==
    ASSUME LoopInv, LayerInv, NEW g \in Loops, ChainStep(g), layer' \in [Loops -> Nat],
           loop'[g] = "call" => layer'[g] \in 1..(Len(Stack) + 1),
           loop'[g] \in {"ok", "err"} => layer'[g] \in 0..Len(Stack)
    PROVE  LayerInv'
BY ChainOthers DEF LayerInv

\* The dedup layer: a remembered id belongs to a message that is accounted for.
LEMMA SeenDedup ==
    ASSUME DedupFirst, ProducerTyped, LoopInv, ReceiptInv, SeenInv, NEW g \in Loops, DedupCall(g)
    PROVE  SeenInv'
<1> DEFINE Ids == {IdOf[m] : m \in Messages}
<1> PICK id : id = IdOf[held[g]]
  OBVIOUS
<1>1. /\ loop[g] = "call" /\ layer[g] \in 1..Len(Stack) /\ Stack[layer[g]] = "dedup" /\ layer[g] \in Nat
      /\ Len(Stack) \in Nat /\ LayerInv /\ ChainStep(g)
  BY ConsumerAssumption DEF DedupCall, Called, SeenInv, LayerInv, ChainStep
<1>2. UNCHANGED <<served, dead>>
  BY DEF DedupCall
<1>3. /\ UNCHANGED <<held, outcome>>
      /\ \A h \in Loops : h # g => loop'[h] = loop[h] /\ layer'[h] = layer[h]
  BY <1>1, ChainOthers
<1>4. held[g] \in Messages
  BY <1>1, HeldIsOpen DEF LoopInv, Busy
<1>5. ~Inside(g)
  BY <1>1 DEF Inside
<1>6. \A h \in Loops : Inside(h) => held'[h] = held[h] /\ Inside(h)'
  BY <1>3, <1>5 DEF Inside
<1>7. AccountsKept
  BY <1>2, <1>3, <1>6, AccountsStay
<1>8. PICK expired \in 0..Len(seen) :
        LET live == SubSeq(seen, expired + 1, Len(seen)) IN
        \/ IdOf[held[g]] = NoId /\ ToNext(g) /\ UNCHANGED seen
        \/ IdOf[held[g]] # NoId /\ Contains(live, IdOf[held[g]]) /\ Return(g, "ok") /\ seen' = live
        \/ IdOf[held[g]] # NoId /\ ToNext(g) /\ seen' = Append(Evicted(live), IdOf[held[g]])
  BY DEF DedupCall
<1> DEFINE live == SubSeq(seen, expired + 1, Len(seen))
<1>9. live \in Seq(Ids) /\ ToSet(live) \subseteq ToSet(seen)
  <2>1. seen \in Seq(Ids) /\ expired + 1 \in Nat \ {0}
    BY DEF SeenInv
  <2> QED
    BY <2>1, SuffixElements
<1>10. \/ id = NoId /\ ToNext(g) /\ UNCHANGED seen
       \/ id # NoId /\ Contains(live, id) /\ Return(g, "ok") /\ seen' = live
       \/ id # NoId /\ ToNext(g) /\ seen' = Append(Evicted(live), id)
  BY <1>8
<1>11. id \in Ids /\ seen \in Seq(Ids)
  BY <1>4 DEF SeenInv
<1>12. Ids = {IdOf[m] : m \in Messages}
  OBVIOUS
<1> HIDE DEF live, Ids
<1>13. CASE Return(g, "ok") /\ id # NoId /\ Contains(live, id) /\ seen' = live
  <2>1. id \in ToSet(seen)
    BY <1>9, <1>13, ToSetElements DEF Contains
  <2>2. Backed(id)
    BY <2>1 DEF SeenInv
  <2>3. Explained(held[g])'
    BY <1>3, <1>7, <1>12, <2>2, ExplainedStay DEF Explained
  <2>4. LayerInv'
    <3>1. /\ loop'[g] = "ok" /\ layer'[g] = layer[g] - 1 /\ layer' \in [Loops -> Nat]
      BY <1>1, <1>13, ChainMoves
    <3> QED
      BY <1>1, <3>1, LayerKept
  <2>5. \A h \in Loops : loop'[h] = "ok" =>
           (loop[h] = "ok" /\ held'[h] = held[h]) \/ Explained(held[h])'
    BY <1>3, <2>3
  <2> QED
    BY <1>3, <1>7, <1>9, <1>12, <1>13, <2>4, <2>5, SeenKept
<1>14. ASSUME ToNext(g), seen' \in Seq(Ids), \A x \in ToSet(seen') : x \in ToSet(seen) \/ Backed(x)'
       PROVE  SeenInv'
  <2>1. /\ loop'[g] = "call" /\ layer'[g] = layer[g] + 1 /\ layer' \in [Loops -> Nat]
    BY <1>1, <1>14, ChainMoves
  <2>2. LayerInv'
    BY <1>1, <2>1, LayerKept
  <2>3. \A h \in Loops : loop'[h] = "ok" => loop[h] = "ok" /\ held'[h] = held[h]
    BY <1>3, <2>1
  <2> QED
    BY <1>3, <1>7, <1>12, <1>14, <2>2, <2>3, SeenKept
<1>15. CASE id = NoId /\ ToNext(g) /\ UNCHANGED seen
  BY <1>11, <1>14, <1>15
<1>16. CASE id # NoId /\ ToNext(g) /\ seen' = Append(Evicted(live), id)
  <2>1. Evicted(live) \in Seq(Ids) /\ ToSet(Evicted(live)) \subseteq ToSet(live)
    <3> DEFINE keep == IF WindowSize = 0 THEN 0 ELSE WindowSize - 1
    <3>1. keep \in Nat /\ Len(live) \in Nat
      BY <1>9, ConsumerAssumption
    <3>2. Evicted(live) = IF Len(live) <= keep THEN live
                          ELSE SubSeq(live, Len(live) - keep + 1, Len(live))
      BY DEF Evicted
    <3> HIDE DEF keep
    <3>3. ~(Len(live) <= keep) => Len(live) - keep + 1 \in Nat \ {0}
      BY <3>1
    <3> QED
      BY <1>9, <3>2, <3>3, SuffixElements
  <2>2. seen' \in Seq(Ids) /\ ToSet(seen') = ToSet(Evicted(live)) \cup {id}
    BY <1>11, <1>16, <2>1, AppendElements
  <2>3. Inside(g)'
    <3>1. \A i \in 1..Len(Stack) : Stack[i] = "dedup" => ~(layer[g] < i)
      BY <1>1 DEF DedupFirst
    <3>2. loop'[g] = "call" /\ layer'[g] = layer[g] + 1
      BY <1>1, <1>16, ChainMoves
    <3> QED
      BY <1>1, <3>1, <3>2 DEF Inside
  <2>4. Backed(id)'
    <3>1. PICK n \in Messages : n = held[g]
      BY <1>4
    <3>2. Accounted(n)'
      BY <1>3, <2>3, <3>1 DEF Accounted
    <3>3. IdOf[n] = id
      BY <3>1
    <3> QED
      BY <1>16, <3>2, <3>3 DEF Backed
  <2>5. \A x \in ToSet(seen') : x \in ToSet(seen) \/ Backed(x)'
    BY <1>9, <2>1, <2>2, <2>4
  <2> QED
    BY <1>14, <1>16, <2>2, <2>5
<1> QED
  BY <1>10, <1>13, <1>15, <1>16

\* The other layers and the handler: Ok only after success or a dead letter, and no
\* way back to a dedup layer.
LEMMA SeenChain ==
    ASSUME DedupFirst, LoopInv, SeenInv, NEW g \in Loops, ChainStep(g), ~DedupCall(g) PROVE SeenInv'
<1>1. UNCHANGED seen
  BY DEF ChainStep, RetryCall, RetryErr, RetryElapsed, DeadLetterCall, DeadLetterErr, PassOn, HandlerReturns,
         memory
<1>2. /\ layer[g] \in Nat /\ Len(Stack) \in Nat /\ LayerInv
      /\ loop[g] = "call" => layer[g] \in 1..(Len(Stack) + 1)
      /\ loop[g] \in {"ok", "err"} => layer[g] \in 0..Len(Stack)
  BY ConsumerAssumption DEF SeenInv, LayerInv
<1>3. /\ UNCHANGED <<held, outcome>>
      /\ \A h \in Loops : h # g => loop'[h] = loop[h] /\ layer'[h] = layer[h]
  BY <1>2, ChainOthers
<1> DEFINE Next1 == /\ loop'[g] = "call" /\ layer'[g] = layer[g] + 1 /\ layer' \in [Loops -> Nat]
                    /\ layer[g] \in 1..Len(Stack)
                    /\ loop[g] = "call" \/ Stack[layer[g]] = "retry"
           Back(r) == loop'[g] = r /\ layer'[g] \in 0..Len(Stack) /\ layer' \in [Loops -> Nat]
<1>4. /\ Next1 \/ Back("err") \/ (Back("ok") /\ (loop[g] = "ok" \/ held[g] \in served' \cup dead'))
      /\ served \subseteq served' /\ dead \subseteq dead'
  <2>1. CASE RetryCall(g) \/ DeadLetterCall(g)
    <3>1. /\ ToNext(g) /\ loop[g] = "call" /\ layer[g] <= Len(Stack) /\ UNCHANGED <<served, dead>>
      BY <2>1 DEF RetryCall, DeadLetterCall, Called, memory
    <3> QED
      BY <1>2, <3>1, ChainMoves
  <2>2. CASE RetryErr(g)
    <3>1. /\ ToNext(g) \/ Return(g, "err")
          /\ loop[g] = "err" /\ layer[g] > 0 /\ Stack[layer[g]] = "retry" /\ UNCHANGED <<served, dead>>
      BY <2>2 DEF RetryErr, Got, memory
    <3> QED
      BY <1>2, <3>1, ChainMoves
  <2>3. CASE RetryElapsed(g)
    <3>1. PICK i \in 1..Len(Stack) : Moves(g, "err") /\ layer' = [layer EXCEPT ![g] = i - 1]
      BY <2>3 DEF RetryElapsed
    <3>2. UNCHANGED <<served, dead>>
      BY <2>3 DEF RetryElapsed, memory
    <3>3. loop'[g] = "err"
      BY <3>1, MovesLoop DEF Where, Busy
    <3>4. layer'[g] = i - 1 /\ i - 1 \in 0..Len(Stack) /\ i - 1 \in Nat
      BY <1>2, <3>1 DEF LayerInv
    <3>5. layer' \in [Loops -> Nat]
      BY <1>2, <3>1, <3>4 DEF LayerInv
    <3> QED
      BY <3>2, <3>3, <3>4, <3>5
  <2>4. CASE DeadLetterErr(g)
    <3>1. /\ loop[g] = "err" /\ layer[g] > 0
          /\ (Return(g, "ok") /\ held[g] \in dead') \/ Return(g, "err")
          /\ dead \subseteq dead' /\ UNCHANGED served
      BY <2>4 DEF DeadLetterErr, Got
    <3> QED
      BY <1>2, <3>1, ChainMoves
  <2>5. CASE PassOn(g)
    <3>1. /\ layer[g] > 0 /\ UNCHANGED <<served, dead>>
          /\ (Return(g, "ok") /\ loop[g] = "ok") \/ (Return(g, "err") /\ loop[g] = "err")
      BY <2>5 DEF PassOn, Got, memory
    <3> QED
      BY <1>2, <3>1, ChainMoves
  <2>6. CASE HandlerReturns(g)
    <3>1. /\ loop[g] = "call" /\ layer[g] = Len(Stack) + 1
          /\ (Return(g, "ok") /\ held[g] \in served') \/ Return(g, "err")
          /\ served \subseteq served' /\ UNCHANGED dead
      BY <2>6 DEF HandlerReturns, Base
    <3> QED
      BY <1>2, <3>1, ChainMoves
  <2> QED
    BY <2>1, <2>2, <2>3, <2>4, <2>5, <2>6 DEF ChainStep
<1>5. LayerInv'
  <2>1. /\ layer' \in [Loops -> Nat]
        /\ loop'[g] = "call" => layer'[g] \in 1..(Len(Stack) + 1)
        /\ loop'[g] \in {"ok", "err"} => layer'[g] \in 0..Len(Stack)
    BY <1>2, <1>4
  <2> QED
    BY <1>2, <2>1, LayerKept
<1>6. Inside(g) => Inside(g)' \/ held[g] \in served' \cup dead'
  <2>1. ASSUME Inside(g), Next1 PROVE Inside(g)'
    <3>1. ASSUME NEW i \in 1..Len(Stack), Stack[i] = "dedup" PROVE i < layer[g] + 1
      <4>1. CASE loop[g] = "call"
        BY <1>2, <2>1, <3>1, <4>1 DEF Inside
      <4>2. CASE Stack[layer[g]] = "retry"
        <5>1. ~(layer[g] < i)
          BY <2>1, <3>1, <4>2 DEF DedupFirst
        <5> QED
          BY <1>2, <5>1
      <4> QED
        BY <2>1, <4>1, <4>2
    <3> QED
      BY <2>1, <3>1 DEF Inside
  <2>2. Back("err") => Inside(g)'
    BY DEF Inside
  <2>3. Inside(g) => loop[g] # "ok"
    BY DEF Inside
  <2> QED
    BY <1>4, <2>1, <2>2, <2>3
<1>7. \A h \in Loops : Inside(h) => \/ held'[h] = held[h] /\ Inside(h)'
                                  \/ held[h] \in served' \cup dead'
  <2>1. \A h \in Loops : h # g /\ Inside(h) => Inside(h)'
    BY <1>3 DEF Inside
  <2> QED
    BY <1>3, <1>6, <2>1
<1>8. AccountsKept
  BY <1>3, <1>4, <1>7, AccountsStay
<1>9. \A h \in Loops : loop'[h] = "ok" =>
         (loop[h] = "ok" /\ held'[h] = held[h]) \/ Explained(held[h])'
  <2>1. held[g] \in served' \cup dead' => Explained(held[g])'
    BY <1>3 DEF Explained
  <2> QED
    BY <1>3, <1>4, <2>1
<1>10. seen' \in Seq({IdOf[m] : m \in Messages})
  BY <1>1 DEF SeenInv
<1> QED
  BY <1>1, <1>3, <1>5, <1>8, <1>9, <1>10, SeenKept

LEMMA SeenInductive ==
    ASSUME DedupFirst, PipelineInv, SeenInv, [Next]_vars PROVE SeenInv'
<1> USE DEF PipelineInv, PlacesInv
<1>1. CASE ConsumerNext /\ UNCHANGED <<log, producer>>
  <2>1. CASE Idles
    <3>1. UNCHANGED <<held, outcome, layer, seen, served, dead>>
      BY <2>1 DEF Idles, chain
    <3>2. \A g \in Loops : loop[g] \in InHandler \/ loop'[g] \in InHandler => loop'[g] = loop[g]
      BY <2>1 DEF Idles, Busy, InHandler
    <3> QED
      BY <3>1, <3>2, SeenQuiet
  <2>2. ASSUME NEW g \in Loops, EndsStep(g) PROVE SeenInv'
    BY <1>1, <2>2, SeenEnds
  <2>3. ASSUME NEW g \in Loops, Passes(g) PROVE SeenInv'
    <3>1. /\ UNCHANGED <<held, outcome, seen, served, dead>> /\ layer' = [layer EXCEPT ![g] = 1]
          /\ loop[g] = "filter" /\ Moves(g, "call")
      BY <2>3 DEF Passes, memory
    <3>2. loop'[g] = "call" /\ \A h \in Loops : h # g => loop'[h] = loop[h]
      BY <3>1, MovesLoop DEF Where, Busy
    <3>3. /\ layer' \in [Loops -> Nat] /\ layer'[g] = 1 /\ \A h \in Loops : h # g => layer'[h] = layer[h]
      BY <3>1 DEF SeenInv, LayerInv
    <3>4. LayerInv'
      <4>1. 1 \in 1..(Len(Stack) + 1)
        BY ConsumerAssumption
      <4> QED
        BY <3>2, <3>3, <4>1 DEF SeenInv, LayerInv
    <3>5. \A h \in Loops : Inside(h) => held'[h] = held[h] /\ Inside(h)'
      BY <3>1, <3>2, <3>3 DEF Inside
    <3>6. AccountsKept
      BY <3>1, <3>5, AccountsStay
    <3>7. seen' \in Seq({IdOf[m] : m \in Messages})
      BY <3>1 DEF SeenInv
    <3>8. \A h \in Loops : loop'[h] = "ok" => loop[h] = "ok" /\ held'[h] = held[h]
      BY <3>1, <3>2
    <3> QED
      BY <3>1, <3>4, <3>6, <3>7, <3>8, SeenKept
  <2>4. ASSUME NEW g \in Loops, RecvLagged(g) PROVE SeenInv'
    <3>1. UNCHANGED <<loop, held, layer, seen, served, dead>>
      BY <2>4 DEF RecvLagged, chain
    <3>2. /\ \A m \in Messages : outcome[m] # "none" => outcome'[m] = outcome[m]
          /\ \A m \in Messages : outcome'[m] # outcome[m] => outcome'[m] = "lagged"
      BY <1>1, <2>4, ReceiptLagged DEF NoCopies
    <3> QED
      BY <3>1, <3>2, SeenQuiet
  <2>5. ASSUME NEW g \in Loops, RecvMessage(g) PROVE SeenInv'
    <3>1. /\ UNCHANGED <<outcome, layer, seen, served, dead>> /\ loop[g] = "recv" /\ Moves(g, "filter")
          /\ held' = [held EXCEPT ![g] = log[cursor + 1]]
      BY <2>5 DEF RecvMessage, chain
    <3>2. loop'[g] = "filter" /\ \A h \in Loops : h # g => loop'[h] = loop[h] /\ held'[h] = held[h]
      BY <3>1, MovesLoop DEF Where, Busy, LoopInv
    <3> QED
      BY <3>1, <3>2, SeenQuiet DEF InHandler
  <2>6. ASSUME NEW g \in Loops, ChainStep(g) PROVE SeenInv'
    BY <2>6, SeenDedup, SeenChain
  <2> QED
    BY <1>1, <2>1, <2>2, <2>3, <2>4, <2>5, <2>6, ConsumerCases
<1>2. CASE UNCHANGED consumer
  BY <1>2 DEF consumer, SeenInv, LayerInv, Backed, Accounted, Inside, Explained
<1> QED
  BY <1>1, <1>2 DEF Next, vars

\* In every stack that deduplicates before it retries, a message whose handle() returned
\* Ok was served or is in the dead-letter queue, or a copy of it was or is; the exception
\* is a message of which a copy failed or is still with the handler, for which dedup
\* answers Ok too although nobody has handled it (dedup.rs, retry.rs, deadletter.rs).
\* With dedup inside retry this is false: the run MessagingRetryDedup shows it.
THEOREM NoMessageSilentlyLost == ASSUME DedupFirst PROVE Spec => []NoSilentLoss
<1> DEFINE LossInv == PipelineInv /\ SeenInv
<1>1. Init => LossInv
  <2> SUFFICES ASSUME Init PROVE SeenInv
    BY PipelineInit
  <2>1. /\ seen = <<>> /\ layer = [g \in Loops |-> 0] /\ loop = [g \in Loops |-> "off"]
        /\ outcome = [m \in Messages |-> "none"]
    BY DEF Init, ConsumerInit
  <2>2. <<>> \in Seq({IdOf[m] : m \in Messages}) /\ ToSet(<<>>) = {}
    BY EmptySeq, ToSetElements
  <2> QED
    BY <2>1, <2>2 DEF SeenInv, LayerInv
<1>2. LossInv /\ [Next]_vars => LossInv'
  <2> SUFFICES ASSUME PipelineInv, SeenInv, [Next]_vars PROVE LossInv'
    OBVIOUS
  <2>1. PipelineInv'
    BY ProducerInductive, LoopInductive, LifeInductive, ReceiptInductive
    DEF PipelineInv, ProducerKept, PlacesInv
  <2>2. SeenInv'
    BY SeenInductive
  <2> QED
    BY <2>1, <2>2
<1>3. LossInv => NoSilentLoss
  BY DEF SeenInv, Explained, Backed, Accounted, Inside, Failed, NoSilentLoss
<1> HIDE DEF LossInv
<1> QED
  BY <1>1, <1>2, <1>3, PTL DEF Spec
=============================================================================
