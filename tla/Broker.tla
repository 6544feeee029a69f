------------------------------- MODULE Broker -------------------------------
(***************************************************************************)
(* The in-memory broker of rskit-messaging (memory/state.rs, consumer.rs): *)
(* a bounded broadcast channel with one receiver.  The recorded history    *)
(* and the set of topic names serve assertions only and are left out.      *)
(* BatchProducer publishes to it, ManagedConsumer receives from it.        *)
(***************************************************************************)
EXTENDS Naturals, Sequences

CONSTANTS
    MaxSends,  \* bound: messages are 1..MaxSends, in the order of acceptance
    Capacity   \* capacity of the broadcast channel

ASSUME BrokerAssumption == MaxSends \in Nat /\ Capacity \in Nat \ {0}

VARIABLES
    log,    \* every message broadcast, in order
    cursor  \* how many of them the receiver has passed

broker == <<log, cursor>>
Messages == 1..MaxSends
NoMessage == 0

BrokerInit == log = <<>> /\ cursor = 0

\* publish(): never fails, with or without receivers.
Publish(m) == log' = Append(log, m)

\* RecvError::Lagged: the channel has overwritten the oldest messages.
Lagging == Len(log) - cursor > Capacity
Overwritten == {log[i] : i \in cursor + 1 .. Len(log) - Capacity}

\* Messages in the channel that the receiver has still to see.
Pending == {log[i] : i \in cursor + 1 .. Len(log)}
=============================================================================
