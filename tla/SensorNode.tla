----------------------------- MODULE SensorNode -----------------------------
(***************************************************************************)
(* A node by itself, with any collector: what it promises whatever answers *)
(* it gets, in whatever order.                                             *)
(***************************************************************************)
EXTENDS EnforceSensor

CONSTANT Answers  \* answers a collector may give

AnswerSet == [on : BOOLEAN, rev : Nat, verdicts : [Services -> VerdictSet]]

ASSUME AnswerAssumption == Answers \subseteq AnswerSet

Next ==
  \/ \E a \in Answers : Answer(a)
  \/ Work
  \/ Tick

Spec == SensorInit /\ [][Next]_sensor

\* A thread that can run does, the reconciler's mutex is granted to a loop that
\* waits for it, and the scope loop comes back every five seconds.
FairSpec ==
  /\ Spec
  /\ WF_sensor(Reconcile)
  /\ SF_sensor(SetVerdicts)
  /\ SF_sensor(\E new \in ScopeChoices : SetScopes(new))

HookCall ==
  [pc : {"active", "scoped", "anyport", "done"}, cgroup : Cgroups, op : Operation,
   denied : BOOLEAN, lawful : BOOLEAN]

HookType == {NoHook} \cup HookCall

ReconcilerTypeOK ==
  /\ scopes \in Scopes
  /\ nodeVerdicts \in [Services -> VerdictSet]
  /\ nodeRev \in Nat
  /\ haveRev \in BOOLEAN
  /\ dirty \in BOOLEAN

TypeOK ==
  /\ left \in 0..TTL
  /\ armed \subseteq Cgroups
  /\ deny \subseteq Cgroups \X Operation
  /\ ReconcilerTypeOK
  /\ apply \in [pc : {"idle", "disarm", "put", "delete", "arm"}, map : 1..3, by : {"poll", "scope"}]
  /\ poll \in [pc : {"idle", "sent", "answered", "locking"}, age : 0..Timeout,
               answer : AnswerSet]
  /\ hook \in HookType
  /\ inMaps \in Policies
  /\ starts \in 0..MaxStarts

-----------------------------------------------------------------------------
\* The keys that cgroup c has in the deny maps.
KeysIn(c) == {e[2] : e \in {d \in deny : d[1] = c}}

\* Two services on a node never get each other's verdicts, and a failed or
\* interrupted update leaves no mixture behind: an armed cgroup has exactly the
\* keys of one policy, the last one the maps were reconciled with
\* (ReconcileEnforcement, reconcileEnforcedCgroups).
ArmedAgree == \A c \in armed : KeysIn(c) = KeysOf(inMaps, c)

\* A hook takes several steps, and the maps change under it: it may have found
\* its cgroup armed before another scope was set.  What it denies is still
\* denied by a policy that was in the maps or decided while it ran.
DenialExplained == hook.pc = "done" /\ hook.denied => hook.lawful

\* What the sensor was told is in the maps unless it still means to write it: an
\* apply that fails or never began is not forgotten (applyLocked's dirty).
CleanIsApplied ==
  ~dirty => /\ inMaps = Target
            /\ armed = InScope
            /\ deny = ExpandScopedVerdicts(Target)

\* A verdict bites: the operation it was compiled from is looked up under a key
\* that its cgroup has ("no hashed keys anywhere [...] Keys are the literal
\* bytes", docs/research/lsm-enforcement-impl.md).
VerdictsBite ==
  \A c \in armed : \A v \in inMaps.verdicts[inMaps.scopes[c]].deny :
    LookedUp(v) \cap KeysIn(c) # {}

\* The policy to write is within the limits of the maps.
Fits ==
  /\ \A h \in 1..3 : Cardinality(OfMap(ExpandScopedVerdicts(Target), MapOrder[h])) <= MapSize
  /\ Cardinality(InScope) <= CgroupMapSize

\* "Sensors reconcile their maps to the received set (add missing, delete
\* removed)" (docs/research/lsm-enforcement-impl.md), again after a failure: a
\* policy that fits the maps does not stay unwritten.
FittingIsApplied == []<>(~dirty \/ ~Fits)

\* The maps as ScopedPolicy sees them: an entry counts in an armed cgroup only.
Effective == [c \in Cgroups |-> IF c \in armed THEN KeysIn(c) ELSE {}]

Promise == INSTANCE ScopedPolicy WITH decided <- Target, effective <- Effective

\* One policy replaces another as a whole, or the node fails open.
ReplacesAtomically == Promise!Spec
=============================================================================
