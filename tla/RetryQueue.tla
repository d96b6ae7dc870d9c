----------------------------- MODULE RetryQueue ------------------------------
(***************************************************************************)
(* What the sensor promises of the events it has taken from the reader: a  *)
(* queue in the order of arrival.  Its content is acknowledged as a whole, *)
(* and nothing else leaves it but the oldest events, when there are more   *)
(* than Cap, and no more of them than the queue is over.  It is kept in    *)
(* memory: whatever it has when the process ends is abandoned.             *)
(***************************************************************************)
EXTENDS Naturals, Sequences

CONSTANTS
  Cap,    \* events the queue keeps at most while nothing is acknowledged
  Events  \* events that may arrive

VARIABLES
  open,          \* the process runs
  queue,         \* events the sender answers for, oldest first
  evictions,     \* events given up
  acknowledged   \* events a collector has confirmed

vars == <<open, queue, evictions, acknowledged>>

Init == open = TRUE /\ queue = <<>> /\ evictions = 0 /\ acknowledged = 0

Arrive ==
  /\ open
  /\ \E e \in Events : queue' = Append(queue, e)
  /\ UNCHANGED <<open, evictions, acknowledged>>

Acknowledge ==
  /\ open
  /\ acknowledged' = acknowledged + Len(queue)
  /\ queue' = <<>>
  /\ UNCHANGED <<open, evictions>>

Evict ==
  /\ open /\ Len(queue) > Cap
  /\ queue' = SubSeq(queue, Len(queue) - Cap + 1, Len(queue))
  /\ evictions' = evictions + Len(queue) - Cap
  /\ UNCHANGED <<open, acknowledged>>

Abandon ==
  /\ open /\ open' = FALSE
  /\ queue' = <<>>
  /\ UNCHANGED <<evictions, acknowledged>>

Next == Arrive \/ Acknowledge \/ Evict \/ Abandon

Spec == Init /\ [][Next]_vars
=============================================================================
