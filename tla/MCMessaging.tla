---------------------------- MODULE MCMessaging ----------------------------
(* Model-checking instances of the messaging pipeline.                     *)
EXTENDS Messaging, TLC

CONSTANTS p1, p2

\* Two copies of a message.
TwoCopies == <<"a", "a">>
FirstTwo == {1, 2}

\* Two copies of a message, then one for another topic.
Ids == <<"a", "a", NoId>>

DedupOutermost == <<"dedup", "dead_letter", "retry">>
RetryOutermost == <<"retry", "dedup">>
=============================================================================
