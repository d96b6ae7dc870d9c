----------------------------- MODULE Enforcement -----------------------------
(***************************************************************************)
(* Enforcement end to end: the collector's manager and one node.  They     *)
(* meet in one place only, the answer to a poll; everything the node does  *)
(* follows from the answers it got, however old they are.                  *)
(***************************************************************************)
EXTENDS EnforceManager, EnforceSensor

VARIABLE sinceOn  \* history: ticks since the collector last had enforcement on

vars == <<manager, sensor, sinceOn>>

\* Bound of sinceOn: an answer of that age no longer matters.
LongAgo == TTL + Timeout + 1

Init == ManagerInit /\ SensorInit /\ sinceOn = LongAgo

Collect ==
  /\ ManagerNext
  /\ sinceOn' = IF enabled \/ enabled' THEN 0 ELSE sinceOn
  /\ UNCHANGED sensor

\* handleEnforceState answers with StateForSensor.
Poll ==
  /\ Answer([on |-> enabled, rev |-> rev, verdicts |-> verdicts])
  /\ UNCHANGED <<manager, sinceOn>>

Elapse ==
  /\ Tick
  /\ sinceOn' = IF enabled THEN 0 ELSE IF sinceOn < LongAgo THEN sinceOn + 1 ELSE LongAgo
  /\ UNCHANGED manager

Node == Work /\ UNCHANGED <<manager, sinceOn>>

Next == Collect \/ Poll \/ Elapse \/ Node

Spec == Init /\ [][Next]_vars

\* Clocks advance, and a request that got no answer in time fails.  Nothing else is
\* granted: the sensor may stop, or no poll succeed any more.
TimelySpec ==
  /\ Spec
  /\ WF_vars(Elapse)
  /\ WF_vars(poll.age = Timeout /\ PollFails /\ UNCHANGED <<manager, sinceOn>>)

\* A sensor that goes on: a thread that can run does, and a mutex is granted to a
\* loop that waits for it.
NodeGoesOn ==
  /\ WF_vars(BeginPoll /\ UNCHANGED <<manager, sinceOn>>)
  /\ SF_vars(SetVerdicts /\ UNCHANGED <<manager, sinceOn>>)
  /\ WF_vars(Reconcile /\ UNCHANGED <<manager, sinceOn>>)

\* Polls succeed again and again.
PollsSucceed == []<><<Receive /\ UNCHANGED <<manager, sinceOn>>>>_vars

-----------------------------------------------------------------------------
\* The kill switch works on its own: whatever polls fail, are late or never
\* sent, and whatever happens to the sensor, no hook denies anything once the
\* collector's switch has been off for TTL and the time an answer may take
\* (enforcePollLoop, SetEnforceDeadline, enforce_active).
KillSwitchHolds == sinceOn >= TTL + Timeout => left = 0

\* No cgroup is denied what its own service was never seen doing: neither what
\* another service did, nor what was made up by mixing policies
\* (RecordBehavior, expandScopedVerdicts, ReconcileEnforcement).
DeniesOwnBehavior ==
  \A e \in deny : e[1] \in armed =>
    \E r \in recorded : r[1] = inMaps.scopes[e[1]] /\ r[2] \in Operation /\ e[2] = DenyKey(r[2])

\* Once the collector's switch stays off, nothing is enforced for good, though no
\* poll may ever succeed again, or be sent ("even if the sensor never polls again",
\* docs/enforcement.md): all it needs is that clocks advance.
OffIsFinal == <>[](~enabled) => <>[](left = 0)

\* When the collector has come to rest, and the scopes have, and polls succeed from
\* time to time, the maps of a node that goes on end up with the collector's
\* verdicts, whichever polls failed on the way and however often the sensor
\* restarted: the revision never hides a change of one collector process
\* (setVerdicts).
NodeFollows ==
  NodeGoesOn /\ PollsSucceed /\ <>[][UNCHANGED scopes]_scopes =>
    <>[](boots = 0 => /\ armed = InScope
                      /\ deny = ExpandScopedVerdicts([scopes |-> scopes, verdicts |-> verdicts]))

\* "Collector down, token failure, runtime off, or sensor exit: deadline lapses,
\* allow within <=10s even if the sensor never polls again"
\* (docs/enforcement.md): TTL after the switch went off nothing is denied.
LapsesWithinTTL == sinceOn > TTL => left = 0

\* "rev short-circuits reconciliation" (docs/research/lsm-enforcement-impl.md):
\* a node that has the collector's revision has its verdicts.
SameRevSameVerdicts ==
  haveRev /\ masterGate /\ nodeRev = rev => nodeVerdicts = verdicts

\* While the collector's process lives, this is so whatever answers are late:
\* verdicts and revision change together and are answered together
\* (RecordBehavior, StateForSensor, setVerdicts).
RevisionIsFaithful == boots = 0 => SameRevSameVerdicts
=============================================================================
