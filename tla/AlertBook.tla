----------------------------- MODULE AlertBook ------------------------------
(***************************************************************************)
(* What the alert store promises, whatever transactions, retries, replicas *)
(* and crashes lie underneath: raising an alert is one atomic step that    *)
(* adds to what is on the book, an operator's status change touches the    *)
(* status alone, a kernel deny sets the blocked mark alone, and only       *)
(* resolved alerts past the retention disappear.                           *)
(***************************************************************************)
EXTENDS Alerts

VARIABLE alerts

TypeOK == alerts \in [AlertIds -> Alert]

Init == alerts = [id \in AlertIds |-> NoAlert]

Raise(id, B) ==
  LET incoming == NewAlert(B) IN
  alerts' = [alerts EXCEPT ![id] =
               IF Exists(alerts[id]) THEN MergeIntoAlert(alerts[id], incoming)
                                     ELSE incoming]

SetStatus(id, status) ==
  /\ Exists(alerts[id])
  /\ alerts' = [alerts EXCEPT ![id].status = status]

MarkBlocked(id) ==
  /\ Exists(alerts[id])
  /\ alerts' = [alerts EXCEPT ![id].blocked = TRUE]

\* Time passes: every alert on the book falls behind the retention cutoff.
Age ==
  alerts' = [id \in AlertIds |-> [alerts[id] EXCEPT !.aged = Exists(alerts[id])]]

Prune ==
  alerts' = [id \in AlertIds |-> IF Prunable(alerts[id]) THEN NoAlert ELSE alerts[id]]

Next ==
  \/ \E id \in AlertIds, B \in SUBSET Behaviors : Raise(id, B)
  \/ \E id \in AlertIds, status \in {"acknowledged", "resolved"} : SetStatus(id, status)
  \/ \E id \in AlertIds : MarkBlocked(id)
  \/ Age
  \/ Prune

Spec == Init /\ [][Next]_alerts
=============================================================================
