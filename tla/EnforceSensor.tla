---------------------------- MODULE EnforceSensor ----------------------------
(***************************************************************************)
(* Enforcement on a node: the sensor's poll loop and scope loop, the       *)
(* reconciler they share, the loader that writes the kernel's maps, and an *)
(* LSM hook that runs while the maps change.                               *)
(*                                                                         *)
(* The poll loop asks the collector, extends or clears the deadline of the *)
(* kill switch, and hands verdicts of an unknown revision to the           *)
(* reconciler; the scope loop hands it the cgroups in scope.  Either loop  *)
(* then writes the maps, under the reconciler's mutex.  Time is counted in *)
(* ticks.                                                                  *)
(***************************************************************************)
EXTENDS Verdicts, FiniteSets

CONSTANTS
  TTL,           \* ttl of enforcePollLoop, in ticks
  Timeout,       \* Timeout of the http.Client, in ticks
  MapSize,       \* max_entries of each deny map
  CgroupMapSize, \* max_entries of enforced_cgroups
  ScopeChoices,  \* scopes the scope loop may find
  Attempts,      \* (cgroup, operation) pairs the hook runs for
  MaxStarts      \* bound on restarts of the sensor

ASSUME SensorAssumption ==
  /\ TTL \in Nat /\ Timeout \in Nat /\ MapSize \in Nat /\ CgroupMapSize \in Nat
  /\ MaxStarts \in Nat
  /\ ScopeChoices \subseteq Scopes
  /\ Attempts \subseteq Cgroups \X Operation

VARIABLES
  left,      \* ticks to enforce_deadline, 0 when it has lapsed or is 0
  armed,     \* keys of enforced_cgroups
  deny,      \* keys of deny_open, deny_connect and deny_exec
  scopes, nodeVerdicts, nodeRev, haveRev, dirty,  \* enforcementReconciler
  apply,     \* where ReconcileEnforcement is, and which loop called it
  poll,      \* where the poll loop is
  hook,      \* one call of an LSM hook
  inMaps,    \* history: the policy the deny maps were last reconciled with
  starts     \* restarts so far

reconciler == <<scopes, nodeVerdicts, nodeRev, haveRev, dirty>>
sensor == <<left, armed, deny, reconciler, apply, poll, hook, inMaps, starts>>

Target == [scopes |-> scopes, verdicts |-> nodeVerdicts]

\* An answer of GET /v1/enforce/state.
NoAnswer == [on |-> FALSE, rev |-> 0, verdicts |-> NoVerdicts]

\* "locking": the deadline is written, the reconciler is not called yet.
NoPoll == [pc |-> "idle", age |-> 0, answer |-> NoAnswer]

MapOrder == <<"open", "connect", "exec">>

NoApply == [pc |-> "idle", map |-> 1, by |-> "scope"]

NoHook == [pc |-> "none"]

Starting ==
  /\ left = 0 /\ armed = {} /\ deny = {}
  /\ scopes = NoScopes /\ nodeVerdicts = NoVerdicts
  /\ nodeRev = 0 /\ haveRev = FALSE /\ dirty = TRUE
  /\ apply = NoApply /\ poll = NoPoll /\ hook = NoHook
  /\ inMaps = NoPolicy

SensorInit == Starting /\ starts = 0

-----------------------------------------------------------------------------
(* The hook.                                                               *)

\* Policy p denies operation op in cgroup c.
Explains(p, c, op) == LookedUp(op) \cap KeysOf(p, c) # {}

\* enforce_active.
HookEnter(c, op) ==
  /\ hook.pc = "none"
  /\ left > 0
  /\ hook' = [pc |-> "active", cgroup |-> c, op |-> op, denied |-> FALSE,
              lawful |-> Explains(inMaps, c, op) \/ Explains(Target, c, op)]
  /\ UNCHANGED <<left, armed, deny, reconciler, apply, poll, inMaps, starts>>

\* enforced_cgroup.
HookScope ==
  /\ hook.pc = "active"
  /\ hook' = IF hook.cgroup \in armed THEN [hook EXCEPT !.pc = "scoped"] ELSE NoHook
  /\ UNCHANGED <<left, armed, deny, reconciler, apply, poll, inMaps, starts>>

HookLookup ==
  LET hit == <<hook.cgroup, hook.op>> \in deny IN
  /\ hook.pc = "scoped"
  /\ hook' = [hook EXCEPT !.denied = hit,
                !.pc = IF hook.op.hook = "connect" /\ ~hit THEN "anyport" ELSE "done"]
  /\ UNCHANGED <<left, armed, deny, reconciler, apply, poll, inMaps, starts>>

\* The second lookup of enforce_socket_connect.
HookLookupAnyPort ==
  /\ hook.pc = "anyport"
  /\ hook' = [hook EXCEPT !.pc = "done", !.denied = <<hook.cgroup, AnyPort(hook.op)>> \in deny]
  /\ UNCHANGED <<left, armed, deny, reconciler, apply, poll, inMaps, starts>>

\* Without scratch space or a path it can render, a hook allows.
HookGivesUp ==
  /\ hook.pc = "scoped"
  /\ hook' = NoHook
  /\ UNCHANGED <<left, armed, deny, reconciler, apply, poll, inMaps, starts>>

HookReturn ==
  /\ hook.pc = "done"
  /\ hook' = NoHook
  /\ UNCHANGED <<left, armed, deny, reconciler, apply, poll, inMaps, starts>>

\* A policy decided while the hook runs may be the one it denies by.
HookSees(p) ==
  IF hook.pc = "none" THEN hook
  ELSE [hook EXCEPT !.lawful = @ \/ Explains(p, hook.cgroup, hook.op)]

-----------------------------------------------------------------------------
(* The reconciler and the loader.                                          *)

Unlocked == apply.pc = "idle"

\* applyLocked: nothing is written unless dirty.
StartApply(by) == apply' = IF dirty' THEN [pc |-> "disarm", map |-> 1, by |-> by] ELSE NoApply

\* Mutant: new scopes make nothing dirty.
SetScopesClean(new) ==
  /\ Unlocked
  /\ scopes' = new
  /\ dirty' = dirty
  /\ StartApply("scope")
  /\ hook' = HookSees([Target EXCEPT !.scopes = new])
  /\ UNCHANGED <<left, armed, deny, nodeVerdicts, nodeRev, haveRev, poll, inMaps, starts>>

\* setScopes.
SetScopes(new) ==
  /\ Unlocked
  /\ scopes' = new
  /\ dirty' = (dirty \/ new # scopes)
  /\ StartApply("scope")
  /\ hook' = HookSees([Target EXCEPT !.scopes = new])
  /\ UNCHANGED <<left, armed, deny, nodeVerdicts, nodeRev, haveRev, poll, inMaps, starts>>

\* setVerdicts, by the poll loop: a revision it has is not looked at again.
SetVerdicts ==
  LET a == poll.answer
      new == ~haveRev \/ nodeRev # a.rev
  IN
  /\ poll.pc = "locking"
  /\ Unlocked
  /\ nodeRev' = a.rev
  /\ haveRev' = TRUE
  /\ nodeVerdicts' = IF new THEN a.verdicts ELSE nodeVerdicts
  /\ dirty' = (dirty \/ new)
  /\ StartApply("poll")
  /\ poll' = NoPoll
  /\ hook' = HookSees([Target EXCEPT !.verdicts = nodeVerdicts'])
  /\ UNCHANGED <<left, armed, deny, scopes, inMaps, starts>>

\* Mutant: the cgroups stay armed while the maps change.
StayArmed ==
  /\ apply.pc = "disarm"
  /\ apply' = [apply EXCEPT !.pc = "put"]
  /\ UNCHANGED <<left, armed, deny, reconciler, poll, hook, inMaps, starts>>

\* reconcileEnforcedCgroups(nil).
Disarm ==
  /\ apply.pc = "disarm"
  /\ armed' = {}
  /\ apply' = [apply EXCEPT !.pc = "put"]
  /\ UNCHANGED <<left, deny, reconciler, poll, hook, inMaps, starts>>

OfMap(entries, map) == {e \in entries : e[2].hook = map}

CurrentMap == MapOrder[apply.map]

WantedOfMap == OfMap(ExpandScopedVerdicts(Target), CurrentMap)

FullOfMap == OfMap(deny, CurrentMap) \cup WantedOfMap

\* The Puts of reconcileDenyOpen, reconcileDenyConnect and reconcileDenyExec:
\* they come before the deletions, so old and new keys share the map.
PutVerdicts ==
  /\ apply.pc = "put"
  /\ Cardinality(FullOfMap) <= MapSize
  /\ deny' = deny \cup WantedOfMap
  /\ apply' = [apply EXCEPT !.pc = "delete"]
  /\ UNCHANGED <<left, armed, reconciler, poll, hook, inMaps, starts>>

\* A map fills up after some of the Puts, which come in any order.
PutFails ==
  /\ apply.pc = "put"
  /\ Cardinality(FullOfMap) > MapSize
  /\ \E part \in SUBSET WantedOfMap :
       /\ Cardinality(OfMap(deny, CurrentMap) \cup part) = MapSize
       /\ deny' = deny \cup part
  /\ apply' = NoApply
  /\ UNCHANGED <<left, armed, reconciler, poll, hook, inMaps, starts>>

\* Mutant: keys the policy no longer has are kept.
DeleteNothing ==
  /\ apply.pc = "delete"
  /\ IF apply.map < Len(MapOrder)
     THEN apply' = [apply EXCEPT !.pc = "put", !.map = @ + 1] /\ UNCHANGED inMaps
     ELSE apply' = [apply EXCEPT !.pc = "arm"] /\ inMaps' = Target
  /\ UNCHANGED <<left, armed, deny, reconciler, poll, hook, starts>>

\* The deletions; the last map is followed by reconcileEnforcedCgroups(scopes).
DeleteMissing ==
  /\ apply.pc = "delete"
  /\ deny' = deny \ (OfMap(deny, CurrentMap) \ WantedOfMap)
  /\ IF apply.map < Len(MapOrder)
     THEN apply' = [apply EXCEPT !.pc = "put", !.map = @ + 1] /\ UNCHANGED inMaps
     ELSE apply' = [apply EXCEPT !.pc = "arm"] /\ inMaps' = Target
  /\ UNCHANGED <<left, armed, reconciler, poll, hook, starts>>

InScope == {c \in Cgroups : scopes[c] # NoService}

Arm ==
  /\ apply.pc = "arm"
  /\ Cardinality(InScope) <= CgroupMapSize
  /\ armed' = InScope
  /\ dirty' = FALSE
  /\ apply' = NoApply
  /\ UNCHANGED <<left, deny, scopes, nodeVerdicts, nodeRev, haveRev, poll, hook, inMaps, starts>>

\* Mutant: an apply that failed counts as done.
ArmFailsClean ==
  /\ apply.pc = "arm"
  /\ Cardinality(InScope) > CgroupMapSize
  /\ \E part \in SUBSET InScope : Cardinality(part) = CgroupMapSize /\ armed' = part
  /\ dirty' = FALSE
  /\ apply' = NoApply
  /\ UNCHANGED <<left, deny, scopes, nodeVerdicts, nodeRev, haveRev, poll, hook, inMaps, starts>>

\* enforced_cgroups fills up.
ArmFails ==
  /\ apply.pc = "arm"
  /\ Cardinality(InScope) > CgroupMapSize
  /\ \E part \in SUBSET InScope : Cardinality(part) = CgroupMapSize /\ armed' = part
  /\ apply' = NoApply
  /\ UNCHANGED <<left, deny, reconciler, poll, hook, inMaps, starts>>

-----------------------------------------------------------------------------
(* The poll loop, and time.                                                *)

\* The loop polls again when the last poll, its writes included, is over.
BeginPoll ==
  /\ poll.pc = "idle"
  /\ Unlocked \/ apply.by = "scope"
  /\ poll' = [NoPoll EXCEPT !.pc = "sent"]
  /\ UNCHANGED <<left, armed, deny, reconciler, apply, hook, inMaps, starts>>

\* handleEnforceState: the collector takes its state and answers.
Answer(a) ==
  /\ poll.pc = "sent"
  /\ poll' = [poll EXCEPT !.pc = "answered", !.answer = a]
  /\ UNCHANGED <<left, armed, deny, reconciler, apply, hook, inMaps, starts>>

\* No connection, a timeout, another status than 200, a body that does not
\* decode: nothing is written.
PollFails ==
  /\ poll.pc \in {"sent", "answered"}
  /\ poll' = NoPoll
  /\ UNCHANGED <<left, armed, deny, reconciler, apply, hook, inMaps, starts>>

\* Mutant: any answer extends the deadline.
ReceiveAlways ==
  /\ poll.pc = "answered"
  /\ left' = TTL
  /\ poll' = [poll EXCEPT !.pc = "locking", !.age = 0]
  /\ UNCHANGED <<armed, deny, reconciler, apply, hook, inMaps, starts>>

\* The deadline counts from the arrival of the answer.
Receive ==
  /\ poll.pc = "answered"
  /\ left' = IF poll.answer.on THEN TTL ELSE 0
  /\ poll' = [poll EXCEPT !.pc = "locking", !.age = 0]
  /\ UNCHANGED <<armed, deny, reconciler, apply, hook, inMaps, starts>>

\* The client gives up on a request within Timeout.
Tick ==
  /\ poll.pc \in {"sent", "answered"} => poll.age < Timeout
  /\ left' = IF left > 0 THEN left - 1 ELSE 0
  /\ poll' = IF poll.pc \in {"sent", "answered"} THEN [poll EXCEPT !.age = @ + 1] ELSE poll
  /\ UNCHANGED <<armed, deny, reconciler, apply, hook, inMaps, starts>>

\* Maps and programs die with the sensor's process; the loops start anew.
SensorRestart ==
  /\ starts < MaxStarts
  /\ starts' = starts + 1
  /\ left' = 0 /\ armed' = {} /\ deny' = {}
  /\ scopes' = NoScopes /\ nodeVerdicts' = NoVerdicts
  /\ nodeRev' = 0 /\ haveRev' = FALSE /\ dirty' = TRUE
  /\ apply' = NoApply /\ poll' = NoPoll /\ hook' = NoHook
  /\ inMaps' = NoPolicy

Reconcile == Disarm \/ PutVerdicts \/ PutFails \/ DeleteMissing \/ Arm \/ ArmFails

\* Everything but the answer of the collector and the passing of time.
Work ==
  \/ \E at \in Attempts : HookEnter(at[1], at[2])
  \/ HookScope \/ HookLookup \/ HookLookupAnyPort \/ HookGivesUp \/ HookReturn
  \/ \E new \in ScopeChoices : SetScopes(new)
  \/ SetVerdicts
  \/ Reconcile
  \/ BeginPoll \/ PollFails \/ Receive
  \/ SensorRestart
=============================================================================
