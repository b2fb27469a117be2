------------------------ MODULE SubscriptionDelivery ------------------------
(***************************************************************************)
(* What one subscription of a consumer group promises, whatever handles    *)
(* the messages: the committed offset never passes a message that has not  *)
(* been settled, that is handled to its end or dead-lettered.  Offsets     *)
(* count messages from 1; NoOffset is a group that has committed nothing.  *)
(*                                                                         *)
(* The promise starts at `start`, where the group began to read: the end   *)
(* of the topic each time it joins with nothing committed (fromBeginning   *)
(* is false).  What lies before `start` is not promised.                   *)
(***************************************************************************)
EXTENDS Integers

VARIABLES
  length,     \* messages in the topic
  start,      \* the offset the group began to read after
  committed,  \* the committed offset, or NoOffset
  settled     \* the offsets handled or dead-lettered

vars == <<length, start, committed, settled>>

NoOffset == -1

Init == length = 0 /\ start = 0 /\ committed = NoOffset /\ settled = {}

Grow ==
  /\ length' = length + 1
  /\ UNCHANGED <<start, committed, settled>>

(* The group joins with nothing committed and starts at the end.           *)
StartAtEnd ==
  /\ committed = NoOffset
  /\ start' = length
  /\ UNCHANGED <<length, committed, settled>>

Settle ==
  \E o \in start + 1 .. length :
    /\ settled' = settled \cup {o}
    /\ UNCHANGED <<length, start, committed>>

Commit ==
  \E n \in start + 1 .. length :
    /\ n > committed
    /\ start + 1 .. n \subseteq settled
    /\ committed' = n
    /\ UNCHANGED <<length, start, settled>>

Next == Grow \/ StartAtEnd \/ Settle \/ Commit

Spec == Init /\ [][Next]_vars
=============================================================================
