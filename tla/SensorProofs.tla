----------------------------- MODULE SensorProofs -----------------------------
(***************************************************************************)
(* Theorems about a node with any collector: the maps replace one policy   *)
(* by another as a whole, whatever fails, and no hook denies without a     *)
(* policy that says so.  The argument is an invariant on where             *)
(* ReconcileEnforcement stands: cgroups are armed only while the deny maps *)
(* hold one whole policy.                                                  *)
(***************************************************************************)
EXTENDS SensorNode, TLAPS

-----------------------------------------------------------------------------
(* Keys and entries.                                                       *)

\* A deny key is an operation.
LEMMA DenyKeyType == ASSUME NEW v \in Operation PROVE DenyKey(v) \in Operation
<1>1. CASE v.hook = "connect"
  <2>1. v \in [hook : {"connect"}, arg : Addrs \X Ports]
    BY <1>1 DEF Operation
  <2>2. To4[v.arg[1]] \in Addrs /\ v.arg[2] \in Ports
    BY <2>1, VerdictAssumption
  <2>3. DenyKey(v) = [v EXCEPT !.arg = <<To4[v.arg[1]], v.arg[2]>>]
    BY <1>1 DEF DenyKey
  <2>4. DenyKey(v) \in [hook : {"connect"}, arg : Addrs \X Ports]
    BY <2>1, <2>2, <2>3
  <2> QED
    BY <2>4 DEF Operation
<1>2. CASE v.hook # "connect"
  BY <1>2 DEF DenyKey
<1> QED
  BY <1>1, <1>2

\* A policy has operations for keys.
LEMMA KeysType ==
  ASSUME NEW p \in Policies, NEW c \in Cgroups
  PROVE  KeysOf(p, c) \subseteq Operation
<1>1. CASE p.scopes[c] = NoService
  BY <1>1 DEF KeysOf
<1>2. CASE p.scopes[c] # NoService
  <2>1. p.scopes[c] \in Services
    BY <1>2 DEF Policies, Scopes
  <2>2. p.verdicts[p.scopes[c]].deny \subseteq Operation
    BY <2>1 DEF Policies, VerdictSet
  <2> QED
    BY <1>2, <2>2, DenyKeyType DEF KeysOf
<1> QED
  BY <1>1, <1>2

\* The entries of the deny maps, one by one.
LEMMA EntryOf ==
  ASSUME NEW p, NEW e
  PROVE  e \in ExpandScopedVerdicts(p) <=>
           \E c \in Cgroups : \E k \in KeysOf(p, c) : e = <<c, k>>
BY DEF ExpandScopedVerdicts

\* The entries of a policy have the type.
LEMMA EntriesType ==
  ASSUME NEW p \in Policies
  PROVE  ExpandScopedVerdicts(p) \subseteq Cgroups \X Operation
BY EntryOf, KeysType

\* No scopes and no verdicts make a policy, one without entries.
LEMMA NoPolicyType == NoPolicy \in Policies /\ ExpandScopedVerdicts(NoPolicy) = {}
<1>1. NoPolicy \in Policies
  BY DEF NoPolicy, Policies, NoScopes, Scopes, NoVerdicts, VerdictSet
<1>2. \A c \in Cgroups : KeysOf(NoPolicy, c) = {}
  BY DEF KeysOf, NoPolicy, NoScopes
<1> QED
  BY <1>1, <1>2, EntryOf

\* Maps that hold the entries of a policy give each cgroup its keys.
LEMMA KeysOfEntries ==
  ASSUME deny = ExpandScopedVerdicts(inMaps), NEW c \in Cgroups
  PROVE  KeysIn(c) = KeysOf(inMaps, c)
<1>1. \A k : k \in KeysIn(c) <=> <<c, k>> \in deny
  BY EntryOf DEF KeysIn
<1>2. \A k : <<c, k>> \in deny <=> k \in KeysOf(inMaps, c)
  BY EntryOf
<1> QED
  BY <1>1, <1>2

-----------------------------------------------------------------------------
(* The invariant.                                                          *)

\* The hook names of the maps tell all entries apart.
LEMMA ThreeMaps ==
  /\ DOMAIN MapOrder = 1..3 /\ Len(MapOrder) = 3
  /\ \A op \in Operation : \E m \in 1..3 : op.hook = MapOrder[m]
  /\ \A m, n \in 1..3 : MapOrder[m] = MapOrder[n] => m = n
BY DEF MapOrder, Operation

Wanted == ExpandScopedVerdicts(Target)

\* The maps before the current one are written.
WrittenUpTo(m) == \A n \in 1..(m - 1) : OfMap(deny, MapOrder[n]) = OfMap(Wanted, MapOrder[n])

\* Where ReconcileEnforcement stands.
WhileApplying ==
  /\ apply.pc # "idle" => dirty
  /\ apply.pc = "disarm" => apply.map = 1
  /\ apply.pc \in {"put", "delete", "arm"} => armed = {}
  /\ apply.pc \in {"put", "delete"} => WrittenUpTo(apply.map)
  /\ apply.pc = "delete" => WantedOfMap \subseteq deny
  /\ apply.pc = "arm" => deny = Wanted /\ inMaps = Target

\* Cgroups are armed only while the maps hold one whole policy.
ArmedWhole == armed # {} => deny = ExpandScopedVerdicts(inMaps)

\* Whatever a hook may still find is explained.
HookInv ==
  hook.pc \in {"active", "scoped", "anyport"} =>
    /\ Explains(inMaps, hook.cgroup, hook.op) => hook.lawful
    /\ Explains(Target, hook.cgroup, hook.op) => hook.lawful
    /\ hook.pc \in {"scoped", "anyport"} =>
         \A k \in LookedUp(hook.op) : <<hook.cgroup, k>> \in deny => hook.lawful
    /\ hook.pc = "anyport" => hook.op.hook = "connect"

SensorInv ==
  /\ WhileApplying
  /\ ArmedWhole
  /\ CleanIsApplied
  /\ HookInv
  /\ DenialExplained

-----------------------------------------------------------------------------
(* Types.                                                                  *)

\* Where a poll and an apply may be.
PollType == [pc : {"idle", "sent", "answered", "locking"}, age : 0..Timeout, answer : AnswerSet]

ApplyType ==
  [pc : {"idle", "disarm", "put", "delete", "arm"}, map : 1..3, by : {"poll", "scope"}]

\* The records the steps start from have their types.
LEMMA StartTypes == NoPoll \in PollType /\ NoApply \in ApplyType /\ NoHook.pc = "none"
<1>1. NoAnswer \in AnswerSet
  BY DEF NoAnswer, AnswerSet, NoVerdicts, VerdictSet
<1>2. 0 \in 0..Timeout
  BY SensorAssumption
<1> QED
  BY <1>1, <1>2 DEF NoPoll, PollType, NoApply, ApplyType, NoHook

\* The reconciler starts without scopes and verdicts.
LEMMA FirstPolicy == NoScopes \in Scopes /\ NoVerdicts \in [Services -> VerdictSet]
BY DEF NoScopes, Scopes, NoVerdicts, VerdictSet

\* A step of the hook keeps its type.
LEMMA HookTypeKept ==
  ASSUME hook \in HookType, NEW p
  PROVE  HookSees(p) \in HookType
<1>1. CASE hook.pc = "none"
  BY <1>1 DEF HookSees
<1>2. CASE hook.pc # "none"
  <2>1. hook \in HookCall
    BY <1>2 DEF HookType, NoHook
  <2>2. (hook.lawful \/ Explains(p, hook.cgroup, hook.op)) \in BOOLEAN
    BY <2>1 DEF Explains
  <2>3. HookSees(p) = [hook EXCEPT !.lawful = hook.lawful \/ Explains(p, hook.cgroup, hook.op)]
    BY <1>2, <2>1 DEF HookSees
  <2> QED
    BY <2>1, <2>2, <2>3 DEF HookType, HookCall
<1> QED
  BY <1>1, <1>2

\* Every variable of a node keeps its type, whatever the collector answers.
THEOREM SensorTypeCorrect == Spec => []TypeOK
<1> USE SensorAssumption, AnswerAssumption
<1>1. SensorInit => TypeOK
  <2> SUFFICES ASSUME SensorInit PROVE TypeOK
    OBVIOUS
  <2>1. /\ left \in 0..TTL /\ armed \subseteq Cgroups /\ deny \subseteq Cgroups \X Operation
        /\ starts \in 0..MaxStarts
    BY DEF SensorInit, Starting
  <2>2. ReconcilerTypeOK
    BY FirstPolicy DEF SensorInit, Starting, ReconcilerTypeOK
  <2>3. apply \in ApplyType /\ poll \in PollType /\ hook \in HookType
    BY StartTypes DEF SensorInit, Starting, HookType
  <2>4. inMaps \in Policies
    BY NoPolicyType DEF SensorInit, Starting
  <2> QED
    BY <2>1, <2>2, <2>3, <2>4 DEF TypeOK, ApplyType, PollType
<1>2. TypeOK /\ [Next]_sensor => TypeOK'
  <2> SUFFICES ASSUME TypeOK, [Next]_sensor PROVE TypeOK'
    OBVIOUS
  <2>0. /\ left \in 0..TTL /\ armed \subseteq Cgroups /\ deny \subseteq Cgroups \X Operation
        /\ scopes \in Scopes /\ nodeVerdicts \in [Services -> VerdictSet] /\ nodeRev \in Nat
        /\ haveRev \in BOOLEAN /\ dirty \in BOOLEAN
        /\ apply \in ApplyType /\ poll \in PollType /\ hook \in HookType
        /\ inMaps \in Policies /\ starts \in 0..MaxStarts
    BY DEF TypeOK, ReconcilerTypeOK, ApplyType, PollType
  <2>1. ASSUME /\ left' \in 0..TTL /\ armed' \subseteq Cgroups
               /\ deny' \subseteq Cgroups \X Operation
               /\ scopes' \in Scopes /\ nodeVerdicts' \in [Services -> VerdictSet]
               /\ nodeRev' \in Nat /\ haveRev' \in BOOLEAN /\ dirty' \in BOOLEAN
               /\ apply' \in ApplyType /\ poll' \in PollType /\ hook' \in HookType
               /\ inMaps' \in Policies /\ starts' \in 0..MaxStarts
        PROVE  TypeOK'
    BY <2>1 DEF TypeOK, ReconcilerTypeOK, ApplyType, PollType
  <2>2. Target \in Policies /\ ExpandScopedVerdicts(Target) \subseteq Cgroups \X Operation
    <3>1. Target \in Policies
      BY <2>0 DEF Target, Policies
    <3> QED
      BY <3>1, EntriesType
  <2>3. WantedOfMap \subseteq Cgroups \X Operation
    BY <2>2 DEF WantedOfMap, OfMap
  <2>4. ASSUME NEW at \in Attempts, HookEnter(at[1], at[2])
        PROVE  TypeOK'
    <3>1. at[1] \in Cgroups /\ at[2] \in Operation
      OBVIOUS
    <3>2. (Explains(inMaps, at[1], at[2]) \/ Explains(Target, at[1], at[2])) \in BOOLEAN
      BY DEF Explains
    <3>3. hook' \in HookType
      BY <2>4, <3>1, <3>2 DEF HookEnter, HookType, HookCall
    <3> QED
      BY <2>0, <2>1, <2>4, <3>3 DEF HookEnter, reconciler
  <2>5. CASE HookScope \/ HookLookup \/ HookLookupAnyPort \/ HookGivesUp \/ HookReturn
    <3>1. hook' \in HookType
      <4>1. CASE hook' = NoHook
        BY <4>1 DEF HookType
      <4>2. CASE hook.pc = "active" /\ hook' = [hook EXCEPT !.pc = "scoped"]
        BY <2>0, <4>2 DEF HookType, NoHook, HookCall
      <4>3. CASE HookLookup \/ HookLookupAnyPort
        <5>1. /\ (<<hook.cgroup, hook.op>> \in deny) \in BOOLEAN
              /\ (<<hook.cgroup, AnyPort(hook.op)>> \in deny) \in BOOLEAN
          OBVIOUS
        <5>2. hook \in HookCall
          BY <2>0, <4>3 DEF HookLookup, HookLookupAnyPort, HookType, NoHook
        <5> QED
          BY <4>3, <5>1, <5>2 DEF HookLookup, HookLookupAnyPort, HookType, HookCall
      <4> QED
        BY <2>5, <4>1, <4>2, <4>3 DEF HookScope, HookGivesUp, HookReturn
    <3> QED
      BY <2>0, <2>1, <2>5, <3>1
      DEF HookScope, HookLookup, HookLookupAnyPort, HookGivesUp, HookReturn, reconciler
  <2>6. ASSUME NEW new \in ScopeChoices, SetScopes(new)
        PROVE  TypeOK'
    <3>1. new \in Scopes /\ dirty' \in BOOLEAN
      BY <2>0, <2>6 DEF SetScopes
    <3>2. apply' \in ApplyType
      BY <2>6, StartTypes DEF SetScopes, StartApply, ApplyType
    <3>3. hook' \in HookType
      BY <2>0, <2>6, HookTypeKept DEF SetScopes
    <3> QED
      BY <2>0, <2>1, <2>6, <3>1, <3>2, <3>3 DEF SetScopes
  <2>7. CASE SetVerdicts
    <3>1. poll.answer \in AnswerSet
      BY <2>0 DEF PollType
    <3>2. /\ nodeVerdicts' \in [Services -> VerdictSet] /\ nodeRev' \in Nat
          /\ haveRev' \in BOOLEAN /\ dirty' \in BOOLEAN
      BY <2>0, <2>7, <3>1 DEF SetVerdicts, AnswerSet
    <3>3. apply' \in ApplyType
      BY <2>7, StartTypes DEF SetVerdicts, StartApply, ApplyType
    <3>4. hook' \in HookType
      BY <2>0, <2>7, HookTypeKept DEF SetVerdicts
    <3> QED
      BY <2>0, <2>1, <2>7, <3>2, <3>3, <3>4, StartTypes DEF SetVerdicts
  <2>8. CASE Disarm \/ PutVerdicts \/ PutFails \/ DeleteMissing \/ Arm \/ ArmFails
    <3>1. apply' \in ApplyType
      <4>1. CASE DeleteMissing /\ apply.map < Len(MapOrder)
        <5>1. apply.map + 1 \in 1..3
          BY <2>0, <4>1, ThreeMaps DEF ApplyType
        <5> QED
          BY <2>0, <4>1, <5>1 DEF DeleteMissing, ApplyType
      <4>2. CASE DeleteMissing /\ ~(apply.map < Len(MapOrder))
        BY <2>0, <4>2 DEF DeleteMissing, ApplyType
      <4>3. CASE Disarm \/ PutVerdicts
        BY <2>0, <4>3 DEF Disarm, PutVerdicts, ApplyType
      <4> QED
        BY <2>8, <4>1, <4>2, <4>3, StartTypes DEF PutFails, Arm, ArmFails
    <3>2. deny' \subseteq Cgroups \X Operation
      BY <2>0, <2>3, <2>8 DEF Disarm, PutVerdicts, PutFails, DeleteMissing, Arm, ArmFails
    <3>3. armed' \subseteq Cgroups
      BY <2>0, <2>8 DEF Disarm, PutVerdicts, PutFails, DeleteMissing, Arm, ArmFails, InScope
    <3>4. inMaps' \in Policies
      BY <2>0, <2>2, <2>8 DEF Disarm, PutVerdicts, PutFails, DeleteMissing, Arm, ArmFails
    <3>5. /\ left' = left /\ scopes' = scopes /\ nodeVerdicts' = nodeVerdicts
          /\ nodeRev' = nodeRev /\ haveRev' = haveRev /\ dirty' \in BOOLEAN
          /\ poll' = poll /\ hook' = hook /\ starts' = starts
      BY <2>0, <2>8
      DEF Disarm, PutVerdicts, PutFails, DeleteMissing, Arm, ArmFails, reconciler
    <3> QED
      BY <2>0, <2>1, <3>1, <3>2, <3>3, <3>4, <3>5
  <2>9. ASSUME \/ BeginPoll \/ PollFails \/ Receive \/ Tick
               \/ \E a \in Answers : Answer(a)
        PROVE  TypeOK'
    <3>1. /\ armed' = armed /\ deny' = deny /\ scopes' = scopes
          /\ nodeVerdicts' = nodeVerdicts /\ nodeRev' = nodeRev /\ haveRev' = haveRev
          /\ dirty' = dirty /\ apply' = apply /\ hook' = hook /\ inMaps' = inMaps
          /\ starts' = starts
      BY <2>9 DEF BeginPoll, PollFails, Receive, Tick, Answer, reconciler
    <3>2. left' \in 0..TTL
      <4>1. CASE Receive
        BY <2>0, <4>1 DEF Receive
      <4>2. CASE Tick
        BY <2>0, <4>2 DEF Tick
      <4> QED
        BY <2>0, <2>9, <4>1, <4>2 DEF BeginPoll, PollFails, Answer
    <3>3. poll' \in PollType
      <4>1. CASE BeginPoll
        BY <4>1, StartTypes DEF BeginPoll, PollType
      <4>2. CASE PollFails
        BY <4>2, StartTypes DEF PollFails
      <4>3. CASE Receive
        <5>1. 0 \in 0..Timeout
          OBVIOUS
        <5> QED
          BY <2>0, <4>3, <5>1 DEF Receive, PollType
      <4>4. CASE Tick
        <5>1. CASE poll.pc \in {"sent", "answered"}
          <6>1. poll.age + 1 \in 0..Timeout
            BY <2>0, <4>4, <5>1 DEF Tick, PollType
          <6> QED
            BY <2>0, <4>4, <5>1, <6>1 DEF Tick, PollType
        <5>2. CASE poll.pc \notin {"sent", "answered"}
          BY <2>0, <4>4, <5>2 DEF Tick
        <5> QED
          BY <5>1, <5>2
      <4>5. ASSUME NEW a \in Answers, Answer(a)
            PROVE  poll' \in PollType
        BY <2>0, <4>5 DEF Answer, PollType
      <4> QED
        BY <2>9, <4>1, <4>2, <4>3, <4>4, <4>5
    <3> QED
      BY <2>0, <2>1, <3>1, <3>2, <3>3
  <2>10. CASE SensorRestart
    <3>1. /\ left' \in 0..TTL /\ armed' \subseteq Cgroups
          /\ deny' \subseteq Cgroups \X Operation /\ starts' \in 0..MaxStarts
      BY <2>0, <2>10 DEF SensorRestart
    <3>2. /\ scopes' \in Scopes /\ nodeVerdicts' \in [Services -> VerdictSet]
          /\ nodeRev' \in Nat /\ haveRev' \in BOOLEAN /\ dirty' \in BOOLEAN
      BY <2>10, FirstPolicy DEF SensorRestart
    <3>3. apply' \in ApplyType /\ poll' \in PollType /\ hook' \in HookType
      BY <2>10, StartTypes DEF SensorRestart, HookType
    <3>4. inMaps' \in Policies
      BY <2>10, NoPolicyType DEF SensorRestart
    <3> QED
      BY <2>1, <3>1, <3>2, <3>3, <3>4
  <2>11. CASE UNCHANGED sensor
    BY <2>0, <2>1, <2>11 DEF sensor, reconciler
  <2> QED
    BY <2>4, <2>5, <2>6, <2>7, <2>8, <2>9, <2>10, <2>11 DEF Next, Work, Reconcile
<1> QED
  BY <1>1, <1>2, PTL DEF Spec

-----------------------------------------------------------------------------
(* The invariant holds.                                                    *)

\* A lookup that hits an entry of a policy is explained by it.
LEMMA HitExplained ==
  ASSUME NEW p, NEW c, NEW op, NEW k \in LookedUp(op), <<c, k>> \in ExpandScopedVerdicts(p)
  PROVE  Explains(p, c, op)
BY EntryOf DEF Explains

\* What the reconciliation and the hook do not touch leaves the invariant alone.
LEMMA Untouched ==
  ASSUME SensorInv,
         UNCHANGED <<armed, deny, scopes, nodeVerdicts, dirty, apply, hook, inMaps>>
  PROVE  SensorInv'
<1>1. Target' = Target /\ InScope' = InScope
  BY DEF Target, InScope
<1>2. Wanted' = Wanted
  BY <1>1 DEF Wanted, ExpandScopedVerdicts, KeysOf, DenyKey
<1>3. WantedOfMap' = WantedOfMap
  BY <1>1 DEF WantedOfMap, OfMap, CurrentMap, MapOrder
<1>4. WhileApplying'
  BY <1>1, <1>2, <1>3 DEF SensorInv, WhileApplying, WrittenUpTo
<1>5. ArmedWhole'
  BY DEF SensorInv, ArmedWhole
<1>6. CleanIsApplied'
  BY <1>1 DEF SensorInv, CleanIsApplied
<1>7. HookInv' /\ DenialExplained'
  BY <1>1 DEF SensorInv, HookInv, DenialExplained
<1> QED
  BY <1>4, <1>5, <1>6, <1>7 DEF SensorInv

\* The steps of the hook.
LEMMA HookKeeps ==
  ASSUME TypeOK, SensorInv,
         \/ \E at \in Attempts : HookEnter(at[1], at[2])
         \/ HookScope \/ HookLookup \/ HookLookupAnyPort \/ HookGivesUp \/ HookReturn
  PROVE  SensorInv'
<1>1. UNCHANGED <<armed, deny, scopes, nodeVerdicts, dirty, apply, inMaps>>
  BY DEF HookEnter, HookScope, HookLookup, HookLookupAnyPort, HookGivesUp, HookReturn, reconciler
<1>2. Target' = Target /\ InScope' = InScope /\ Wanted' = Wanted
  BY <1>1 DEF Target, InScope, Wanted, ExpandScopedVerdicts, KeysOf
<1>3. WhileApplying' /\ ArmedWhole' /\ CleanIsApplied'
  BY <1>1, <1>2
  DEF SensorInv, WhileApplying, WrittenUpTo, WantedOfMap, OfMap, CurrentMap, MapOrder,
      ArmedWhole, CleanIsApplied
<1>4. HookInv' /\ DenialExplained'
  <2>1. ASSUME hook' = NoHook
        PROVE  HookInv' /\ DenialExplained'
    BY <2>1, StartTypes DEF HookInv, DenialExplained
  <2>2. ASSUME NEW at \in Attempts, HookEnter(at[1], at[2])
        PROVE  HookInv' /\ DenialExplained'
    <3>1. hook' = [pc |-> "active", cgroup |-> at[1], op |-> at[2], denied |-> FALSE,
                   lawful |-> Explains(inMaps, at[1], at[2]) \/ Explains(Target, at[1], at[2])]
      BY <2>2 DEF HookEnter
    <3> QED
      BY <1>1, <1>2, <3>1 DEF HookInv, DenialExplained
  <2>3. ASSUME hook.pc # "none"
        PROVE  hook \in HookCall
    BY <2>3 DEF TypeOK, HookType, NoHook
  <2>4. CASE HookScope
    <3>1. CASE hook.cgroup \notin armed
      BY <2>1, <2>4, <3>1 DEF HookScope
    <3>2. CASE hook.cgroup \in armed
      <4>1. hook.pc = "active" /\ hook' = [hook EXCEPT !.pc = "scoped"]
        BY <2>4, <3>2 DEF HookScope
      <4>2. /\ hook'.pc = "scoped" /\ hook'.cgroup = hook.cgroup /\ hook'.op = hook.op
            /\ hook'.lawful = hook.lawful
        BY <2>3, <4>1
      <4>3. /\ Explains(inMaps, hook.cgroup, hook.op) => hook.lawful
            /\ Explains(Target, hook.cgroup, hook.op) => hook.lawful
        BY <4>1 DEF SensorInv, HookInv
      <4>4. deny = ExpandScopedVerdicts(inMaps)
        BY <3>2 DEF SensorInv, ArmedWhole
      <4>5. \A k \in LookedUp(hook.op) : <<hook.cgroup, k>> \in deny => hook.lawful
        BY <4>3, <4>4, HitExplained
      <4> QED
        BY <1>1, <1>2, <4>2, <4>3, <4>5 DEF HookInv, DenialExplained
    <3> QED
      BY <3>1, <3>2
  <2>5. CASE HookLookup \/ HookLookupAnyPort
    <3>1. hook.pc \in {"scoped", "anyport"}
      BY <2>5 DEF HookLookup, HookLookupAnyPort
    <3>2. \A k \in LookedUp(hook.op) : <<hook.cgroup, k>> \in deny => hook.lawful
      BY <3>1 DEF SensorInv, HookInv
    <3>3. /\ hook'.cgroup = hook.cgroup /\ hook'.op = hook.op /\ hook'.lawful = hook.lawful
          /\ hook'.pc \in {"anyport", "done"}
          /\ hook'.pc = "anyport" => hook.op.hook = "connect"
          /\ hook'.pc = "done" /\ hook'.denied =>
               \E k \in LookedUp(hook.op) : <<hook.cgroup, k>> \in deny
      <4>1. CASE HookLookup
        <5>1. hook.op \in LookedUp(hook.op)
          BY DEF LookedUp
        <5> QED
          BY <2>3, <3>1, <4>1, <5>1 DEF HookLookup, HookCall
      <4>2. CASE HookLookupAnyPort
        <5>1. AnyPort(hook.op) \in LookedUp(hook.op)
          BY <4>2 DEF LookedUp, HookLookupAnyPort, SensorInv, HookInv
        <5> QED
          BY <2>3, <3>1, <4>2, <5>1 DEF HookLookupAnyPort, HookCall
      <4> QED
        BY <2>5, <4>1, <4>2
    <3>4. /\ Explains(inMaps, hook.cgroup, hook.op) => hook.lawful
          /\ Explains(Target, hook.cgroup, hook.op) => hook.lawful
      BY <3>1 DEF SensorInv, HookInv
    <3> QED
      BY <1>1, <1>2, <3>2, <3>3, <3>4 DEF HookInv, DenialExplained
  <2> QED
    BY <2>1, <2>2, <2>4, <2>5 DEF HookGivesUp, HookReturn
<1> QED
  BY <1>3, <1>4 DEF SensorInv

\* A hook under way sees the policy that is decided.
LEMMA HookSeesDecided ==
  ASSUME TypeOK, SensorInv, inMaps' = inMaps, deny' = deny, hook' = HookSees(Target')
  PROVE  HookInv' /\ DenialExplained'
<1>1. CASE hook.pc = "none"
  <2>1. hook'.pc = "none"
    BY <1>1 DEF HookSees
  <2> QED
    BY <2>1 DEF HookInv, DenialExplained
<1>2. CASE hook.pc # "none"
  <2>1. hook \in HookCall
    BY <1>2 DEF TypeOK, HookType, NoHook
  <2>2. /\ hook'.pc = hook.pc /\ hook'.cgroup = hook.cgroup /\ hook'.op = hook.op
        /\ hook'.denied = hook.denied
        /\ hook'.lawful <=> hook.lawful \/ Explains(Target', hook.cgroup, hook.op)
    BY <1>2, <2>1 DEF HookSees, HookCall
  <2> QED
    BY <2>2 DEF SensorInv, HookInv, DenialExplained
<1> QED
  BY <1>1, <1>2

\* A loop decides another policy, or the same one again.
LEMMA DecideKeeps ==
  ASSUME TypeOK, SensorInv, (\E new \in ScopeChoices : SetScopes(new)) \/ SetVerdicts
  PROVE  SensorInv'
<1>1. /\ apply.pc = "idle"
      /\ armed' = armed /\ deny' = deny /\ inMaps' = inMaps
  BY DEF SetScopes, SetVerdicts, Unlocked
<1>2. hook' = HookSees(Target')
  <2>1. ASSUME NEW new \in ScopeChoices, SetScopes(new)
        PROVE  hook' = HookSees(Target')
    <3>1. [Target EXCEPT !.scopes = new] = Target'
      BY <2>1 DEF SetScopes, Target
    <3> QED
      BY <2>1, <3>1 DEF SetScopes
  <2>2. ASSUME SetVerdicts
        PROVE  hook' = HookSees(Target')
    <3>1. [Target EXCEPT !.verdicts = nodeVerdicts'] = Target'
      BY <2>2 DEF SetVerdicts, Target
    <3> QED
      BY <2>2, <3>1 DEF SetVerdicts
  <2> QED
    BY <2>1, <2>2
<1>3. /\ dirty => dirty'
      /\ ~dirty' => scopes' = scopes /\ nodeVerdicts' = nodeVerdicts
  BY DEF SetScopes, SetVerdicts
<1>4. \/ dirty' /\ apply'.pc = "disarm" /\ apply'.map = 1
      \/ ~dirty' /\ apply'.pc = "idle"
  <2>1. ASSUME NEW by, StartApply(by)
        PROVE  \/ dirty' /\ apply'.pc = "disarm" /\ apply'.map = 1
               \/ ~dirty' /\ apply'.pc = "idle"
    BY <2>1 DEF StartApply, NoApply
  <2> QED
    BY <2>1 DEF SetScopes, SetVerdicts
<1>5. WhileApplying'
  BY <1>4 DEF WhileApplying
<1>6. ArmedWhole'
  BY <1>1 DEF SensorInv, ArmedWhole
<1>7. CleanIsApplied'
  BY <1>1, <1>3 DEF SensorInv, CleanIsApplied, Target, InScope
<1> QED
  BY <1>1, <1>2, <1>5, <1>6, <1>7, HookSeesDecided DEF SensorInv

\* What the Puts of a map add leaves the other maps as they are.
LEMMA PutsStayInMap ==
  ASSUME TypeOK, SensorInv, apply.pc = "put",
         NEW part \in SUBSET WantedOfMap, deny' = deny \cup part
  PROVE  \A n \in 1..(apply.map - 1) : OfMap(deny', MapOrder[n]) = OfMap(deny, MapOrder[n])
<1>1. apply.map \in 1..3
  BY DEF TypeOK
<1>2. \A n \in 1..(apply.map - 1) : MapOrder[n] # MapOrder[apply.map]
  BY <1>1, ThreeMaps
<1> QED
  BY <1>2 DEF OfMap, WantedOfMap, CurrentMap

\* The steps of ReconcileEnforcement leave the hook's part of the invariant.
LEMMA WritesExplained ==
  ASSUME TypeOK, SensorInv, hook' = hook, Target' = Target,
         inMaps' \in {inMaps, Target},
         deny' \subseteq deny \cup Wanted
  PROVE  HookInv' /\ DenialExplained'
<1>1. ASSUME NEW k \in LookedUp(hook.op),
             hook.pc \in {"scoped", "anyport"}, <<hook.cgroup, k>> \in deny'
      PROVE  hook.lawful
  <2>1. CASE <<hook.cgroup, k>> \in deny
    BY <1>1, <2>1 DEF SensorInv, HookInv
  <2>2. CASE <<hook.cgroup, k>> \in Wanted
    <3>1. Explains(Target, hook.cgroup, hook.op)
      BY <1>1, <2>2, HitExplained DEF Wanted
    <3> QED
      BY <1>1, <3>1 DEF SensorInv, HookInv
  <2> QED
    BY <1>1, <2>1, <2>2
<1> QED
  BY <1>1 DEF SensorInv, HookInv, DenialExplained

\* Policies that agree in scopes and verdicts are one target.
LEMMA SameTarget ==
  ASSUME scopes' = scopes, nodeVerdicts' = nodeVerdicts
  PROVE  Target' = Target /\ Wanted' = Wanted /\ InScope' = InScope
BY DEF Target, Wanted, InScope, ExpandScopedVerdicts, KeysOf

\* The steps of ReconcileEnforcement.
LEMMA ReconcileKeeps == ASSUME TypeOK, SensorInv, Reconcile PROVE SensorInv'
<1>1. /\ scopes' = scopes /\ nodeVerdicts' = nodeVerdicts /\ hook' = hook
      /\ Target' = Target /\ Wanted' = Wanted /\ InScope' = InScope
  <2>1. scopes' = scopes /\ nodeVerdicts' = nodeVerdicts /\ hook' = hook
    BY DEF Reconcile, Disarm, PutVerdicts, PutFails, DeleteMissing, Arm, ArmFails, reconciler
  <2> QED
    BY <2>1, SameTarget
<1>2. apply.map \in 1..3 /\ dirty \in BOOLEAN /\ apply \in ApplyType
  BY DEF TypeOK, ReconcilerTypeOK, ApplyType
<1>3. dirty
  BY DEF SensorInv, WhileApplying, Reconcile, Disarm, PutVerdicts, PutFails, DeleteMissing,
         Arm, ArmFails
<1>4. WantedOfMap \subseteq Wanted
  BY DEF WantedOfMap, OfMap, Wanted
<1>5. CASE Disarm
  <2>1. /\ armed' = {} /\ deny' = deny /\ inMaps' = inMaps /\ dirty' = dirty
        /\ apply'.pc = "put" /\ apply'.map = apply.map
    BY <1>2, <1>5 DEF Disarm, reconciler, ApplyType
  <2>2. apply.map = 1
    BY <1>5 DEF Disarm, SensorInv, WhileApplying
  <2>3. WhileApplying'
    BY <1>3, <2>1, <2>2 DEF WhileApplying, WrittenUpTo
  <2>4. HookInv' /\ DenialExplained'
    BY <1>1, <2>1, WritesExplained
  <2> QED
    BY <1>3, <2>1, <2>3, <2>4 DEF SensorInv, ArmedWhole, CleanIsApplied
<1>6. CASE PutVerdicts
  <2>1. /\ armed' = armed /\ deny' = deny \cup WantedOfMap /\ inMaps' = inMaps
        /\ dirty' = dirty /\ apply.pc = "put"
        /\ apply'.pc = "delete" /\ apply'.map = apply.map
    BY <1>2, <1>6 DEF PutVerdicts, reconciler, ApplyType
  <2>2. armed = {} /\ WrittenUpTo(apply.map)
    BY <2>1 DEF SensorInv, WhileApplying
  <2>3. \A n \in 1..(apply.map - 1) : OfMap(deny', MapOrder[n]) = OfMap(Wanted, MapOrder[n])
    BY <2>1, <2>2, PutsStayInMap DEF WrittenUpTo
  <2>4. WantedOfMap' = WantedOfMap
    BY <1>1, <2>1 DEF WantedOfMap, Wanted, CurrentMap, MapOrder, OfMap
  <2>5. WrittenUpTo(apply.map)'
    BY <1>1, <2>1, <2>3 DEF WrittenUpTo, OfMap, MapOrder
  <2>6. WhileApplying'
    BY <1>3, <2>1, <2>2, <2>4, <2>5 DEF WhileApplying, WrittenUpTo
  <2>7. HookInv' /\ DenialExplained'
    BY <1>1, <1>4, <2>1, WritesExplained
  <2> QED
    BY <1>3, <2>1, <2>2, <2>6, <2>7 DEF SensorInv, ArmedWhole, CleanIsApplied
<1>7. CASE PutFails
  <2>1. PICK part \in SUBSET WantedOfMap : deny' = deny \cup part
    BY <1>7 DEF PutFails
  <2>2. /\ armed' = armed /\ inMaps' = inMaps /\ dirty' = dirty /\ apply.pc = "put"
        /\ apply'.pc = "idle"
    BY <1>7 DEF PutFails, reconciler, NoApply
  <2>3. armed = {}
    BY <2>2 DEF SensorInv, WhileApplying
  <2>4. WhileApplying'
    BY <2>2 DEF WhileApplying
  <2>5. HookInv' /\ DenialExplained'
    BY <1>1, <1>4, <2>1, <2>2, WritesExplained
  <2> QED
    BY <1>3, <2>2, <2>3, <2>4, <2>5 DEF SensorInv, ArmedWhole, CleanIsApplied
<1>8. CASE DeleteMissing
  <2>1. /\ armed' = armed /\ dirty' = dirty /\ apply.pc = "delete"
        /\ deny' = deny \ (OfMap(deny, CurrentMap) \ WantedOfMap)
    BY <1>8 DEF DeleteMissing, reconciler
  <2>2. armed = {} /\ WrittenUpTo(apply.map) /\ WantedOfMap \subseteq deny
    BY <2>1 DEF SensorInv, WhileApplying
  <2>3. \A n \in 1..apply.map : {e \in deny' : e[2].hook = MapOrder[n]} = OfMap(Wanted, MapOrder[n])
    <3> SUFFICES ASSUME NEW n \in 1..apply.map
                 PROVE  {e \in deny' : e[2].hook = MapOrder[n]} = OfMap(Wanted, MapOrder[n])
      OBVIOUS
    <3>1. CASE n = apply.map
      BY <2>1, <2>2, <3>1 DEF OfMap, WantedOfMap, CurrentMap, Wanted
    <3>2. CASE n # apply.map
      <4>1. n \in 1..(apply.map - 1) /\ n \in 1..3
        BY <1>2, <3>2
      <4>2. OfMap(deny, MapOrder[n]) = OfMap(Wanted, MapOrder[n])
        BY <2>2, <4>1 DEF WrittenUpTo
      <4>3. MapOrder[n] # MapOrder[apply.map]
        BY <1>2, <3>2, <4>1, ThreeMaps
      <4> QED
        BY <2>1, <4>2, <4>3 DEF OfMap, CurrentMap
    <3> QED
      BY <3>1, <3>2
  <2>4. deny' \subseteq deny
    BY <2>1
  <2>5. CASE apply.map < Len(MapOrder)
    <3>1. /\ apply'.pc = "put" /\ apply'.map = apply.map + 1 /\ inMaps' = inMaps
      BY <1>2, <1>8, <2>5 DEF DeleteMissing, ApplyType
    <3>2. \A n \in 1..(apply'.map - 1) : {e \in deny' : e[2].hook = MapOrder[n]} = OfMap(Wanted, MapOrder[n])
      BY <1>2, <2>3, <3>1 DEF ApplyType
    <3>3. WhileApplying'
      BY <1>1, <1>3, <2>1, <2>2, <3>1, <3>2 DEF WhileApplying, WrittenUpTo, OfMap, MapOrder
    <3>4. HookInv' /\ DenialExplained'
      BY <1>1, <2>4, <3>1, WritesExplained
    <3> QED
      BY <1>3, <2>1, <2>2, <3>3, <3>4 DEF SensorInv, ArmedWhole, CleanIsApplied
  <2>6. CASE ~(apply.map < Len(MapOrder))
    <3>1. apply'.pc = "arm" /\ inMaps' = Target
      BY <1>2, <1>8, <2>6 DEF DeleteMissing, ApplyType
    <3>2. apply.map = 3
      BY <1>2, <2>6, ThreeMaps
    <3>3. Wanted \subseteq Cgroups \X Operation /\ deny' \subseteq Cgroups \X Operation
      <4>1. Target \in Policies
        BY DEF Target, Policies, TypeOK, ReconcilerTypeOK
      <4> QED
        BY <2>4, <4>1, EntriesType DEF Wanted, TypeOK
    <3>4. \A e \in Cgroups \X Operation : \E n \in 1..3 : e[2].hook = MapOrder[n]
      BY ThreeMaps
    <3>5. deny' = Wanted
      BY <2>3, <3>2, <3>3, <3>4 DEF OfMap
    <3>6. WhileApplying'
      BY <1>1, <1>3, <2>1, <2>2, <3>1, <3>5 DEF WhileApplying
    <3>7. HookInv' /\ DenialExplained'
      BY <1>1, <2>4, <3>1, WritesExplained
    <3> QED
      BY <1>3, <2>1, <2>2, <3>6, <3>7 DEF SensorInv, ArmedWhole, CleanIsApplied
  <2> QED
    BY <2>5, <2>6
<1>9. CASE Arm
  <2>1. /\ armed' = InScope /\ dirty' = FALSE /\ apply' = NoApply /\ deny' = deny
        /\ inMaps' = inMaps /\ apply.pc = "arm"
    BY <1>9 DEF Arm
  <2>2. deny = Wanted /\ inMaps = Target
    BY <2>1 DEF SensorInv, WhileApplying
  <2>3. WhileApplying'
    BY <2>1 DEF WhileApplying, NoApply
  <2>4. ArmedWhole'
    BY <2>1, <2>2 DEF ArmedWhole, Wanted
  <2>5. CleanIsApplied'
    BY <1>1, <2>1, <2>2 DEF CleanIsApplied, Wanted
  <2>6. HookInv' /\ DenialExplained'
    BY <1>1, <2>1, WritesExplained
  <2> QED
    BY <2>3, <2>4, <2>5, <2>6 DEF SensorInv
<1>10. CASE ArmFails
  <2>1. /\ dirty' = dirty /\ apply' = NoApply /\ deny' = deny
        /\ inMaps' = inMaps /\ apply.pc = "arm"
    BY <1>10 DEF ArmFails, reconciler
  <2>2. deny = Wanted /\ inMaps = Target
    BY <2>1 DEF SensorInv, WhileApplying
  <2>3. WhileApplying' /\ ArmedWhole' /\ CleanIsApplied'
    BY <1>3, <2>1, <2>2 DEF WhileApplying, NoApply, ArmedWhole, CleanIsApplied, Wanted
  <2>4. HookInv' /\ DenialExplained'
    BY <1>1, <2>1, WritesExplained
  <2> QED
    BY <2>3, <2>4 DEF SensorInv
<1> QED
  BY <1>5, <1>6, <1>7, <1>8, <1>9, <1>10 DEF Reconcile

\* A sensor that starts holds no policy and has everything to write.
LEMMA StartKeeps ==
  /\ SensorInit => SensorInv
  /\ SensorRestart => SensorInv'
<1>1. SensorInit => SensorInv
  BY NoPolicyType, StartTypes
  DEF SensorInit, Starting, SensorInv, WhileApplying, ArmedWhole, CleanIsApplied, HookInv,
      DenialExplained, NoApply
<1>2. ASSUME SensorRestart PROVE SensorInv'
  <2>1. /\ armed' = {} /\ dirty' = TRUE /\ apply'.pc = "idle" /\ hook'.pc = "none"
    BY <1>2 DEF SensorRestart, NoApply, NoHook
  <2> QED
    BY <2>1 DEF SensorInv, WhileApplying, ArmedWhole, CleanIsApplied, HookInv, DenialExplained
<1> QED
  BY <1>1, <1>2

\* The invariant is one.
THEOREM SensorInvariant == Spec => []SensorInv
<1>1. SensorInit => SensorInv
  BY StartKeeps
<1>2. TypeOK /\ SensorInv /\ [Next]_sensor => SensorInv'
  <2> SUFFICES ASSUME TypeOK, SensorInv, [Next]_sensor PROVE SensorInv'
    OBVIOUS
  <2>1. ASSUME \/ BeginPoll \/ PollFails \/ Receive \/ Tick
               \/ \E a \in Answers : Answer(a)
               \/ UNCHANGED sensor
        PROVE  UNCHANGED <<armed, deny, scopes, nodeVerdicts, dirty, apply, hook, inMaps>>
    BY <2>1 DEF BeginPoll, PollFails, Receive, Tick, Answer, sensor, reconciler
  <2> QED
    BY <2>1, Untouched, HookKeeps, DecideKeeps, ReconcileKeeps, StartKeeps DEF Next, Work
<1> QED
  BY <1>1, <1>2, SensorTypeCorrect, PTL DEF Spec

-----------------------------------------------------------------------------
(* What follows from it.                                                   *)

\* An armed cgroup has exactly the keys of the policy the maps were last
\* reconciled with: no other service's, no mixture of an old and a new policy
\* (ReconcileEnforcement).
THEOREM Isolation == Spec => []ArmedAgree
<1>1. TypeOK /\ SensorInv => ArmedAgree
  <2> SUFFICES ASSUME TypeOK, SensorInv, NEW c \in armed
               PROVE  KeysIn(c) = KeysOf(inMaps, c)
    BY DEF ArmedAgree
  <2>1. c \in Cgroups /\ deny = ExpandScopedVerdicts(inMaps)
    BY DEF TypeOK, SensorInv, ArmedWhole
  <2> QED
    BY <2>1, KeysOfEntries
<1> QED
  BY <1>1, SensorTypeCorrect, SensorInvariant, PTL

\* A hook that is overtaken by a reconciliation denies nothing that no policy of
\* its time denies (file_open, socket_connect, bprm_check_security).
THEOREM NoUnlawfulDenial == Spec => []DenialExplained
<1>1. SensorInv => DenialExplained
  BY DEF SensorInv
<1> QED
  BY <1>1, SensorInvariant, PTL

\* A reconciler that is not dirty has written what it was told (applyLocked).
THEOREM NothingForgotten == Spec => []CleanIsApplied
<1>1. SensorInv => CleanIsApplied
  BY DEF SensorInv
<1> QED
  BY <1>1, SensorInvariant, PTL

-----------------------------------------------------------------------------
(* The maps implement the policy ScopedPolicy describes.                   *)

\* Without armed cgroups nothing is enforced.
LEMMA NothingArmed == ASSUME armed = {} PROVE Effective = [c \in Cgroups |-> {}]
BY DEF Effective

\* A cgroup is enforced as the policy in the maps says, or not at all.
LEMMA EffectiveIs ==
  ASSUME TypeOK, SensorInv
  PROVE  Effective = [c \in Cgroups |-> IF c \in armed THEN KeysOf(inMaps, c) ELSE {}]
<1>1. \A c \in armed : KeysIn(c) = KeysOf(inMaps, c)
  BY KeysOfEntries DEF TypeOK, SensorInv, ArmedWhole
<1> QED
  BY <1>1 DEF Effective

\* What leaves maps and cgroups alone leaves what is enforced alone.
LEMMA SameEffective ==
  ASSUME armed' = armed, deny' = deny
  PROVE  Effective' = Effective
BY DEF Effective, KeysIn

\* ScopedPolicy has policies and keys from the same definitions.
LEMMA SamePolicies ==
  /\ Promise!NoPolicy = NoPolicy
  /\ Promise!Policies = Policies
  /\ \A p, c : Promise!KeysOf(p, c) = KeysOf(p, c)
<1>1. Promise!NoPolicy = NoPolicy
  BY DEF Promise!NoPolicy, NoPolicy, Promise!NoScopes, NoScopes, Promise!NoVerdicts, NoVerdicts
<1>2. Promise!Policies = Policies
  BY DEF Promise!Policies, Policies, Promise!Scopes, Scopes, Promise!VerdictSet, VerdictSet,
         Promise!Behaviors, Behaviors, Promise!Operation, Operation
<1>3. \A v : Promise!DenyKey(v) = DenyKey(v)
  BY DEF Promise!DenyKey, DenyKey
<1>4. \A p, c : Promise!KeysOf(p, c) = KeysOf(p, c)
  BY <1>3 DEF Promise!KeysOf, KeysOf
<1> QED
  BY <1>1, <1>2, <1>4

\* One policy replaces another as a whole, or the node fails open
\* (ReconcileEnforcement's comment): every step of a node is a step of
\* ScopedPolicy or changes nothing of it.
THEOREM Replacement == Spec => ReplacesAtomically
<1>1. SensorInit => Promise!Init
  BY NothingArmed, SamePolicies DEF SensorInit, Starting, Promise!Init, Target, NoPolicy
<1>2. TypeOK /\ SensorInv /\ TypeOK' /\ SensorInv' /\ [Next]_sensor
        => [Promise!Next]_(Promise!policy)
  <2> SUFFICES ASSUME TypeOK, SensorInv, TypeOK', SensorInv', [Next]_sensor
               PROVE  Promise!Next \/ (Target' = Target /\ Effective' = Effective)
    BY DEF Promise!policy
  <2>1. CASE (\E new \in ScopeChoices : SetScopes(new)) \/ SetVerdicts
    <3>1. Effective' = Effective
      BY <2>1, SameEffective DEF SetScopes, SetVerdicts
    <3>2. Target' \in Policies
      BY DEF Target, Policies, TypeOK, ReconcilerTypeOK
    <3> QED
      BY <3>1, <3>2, SamePolicies DEF Promise!Next, Promise!Decide
  <2>2. CASE Reconcile
    <3>1. Target' = Target
      BY <2>2
      DEF Reconcile, Disarm, PutVerdicts, PutFails, DeleteMissing, Arm, ArmFails, reconciler,
          Target
    <3>2. CASE Disarm
      <4>1. Effective' = [c \in Cgroups |-> {}]
        BY <3>2 DEF Disarm, Effective
      <4> QED
        BY <3>1, <4>1 DEF Promise!Next, Promise!FailOpen
    <3>3. CASE PutVerdicts \/ PutFails \/ DeleteMissing
      <4>1. armed = {} /\ armed' = {}
        BY <3>3 DEF SensorInv, WhileApplying, PutVerdicts, PutFails, DeleteMissing
      <4>2. Effective' = Effective
        BY <4>1 DEF Effective
      <4> QED
        BY <3>1, <4>2
    <3>4. CASE Arm \/ ArmFails
      <4>1. inMaps = Target /\ deny = Wanted /\ armed = {} /\ deny' = deny /\ inMaps' = inMaps
        BY <3>4 DEF SensorInv, WhileApplying, Arm, ArmFails, reconciler
      <4>2. Effective = [c \in Cgroups |-> {}]
        BY <4>1, NothingArmed
      <4>3. \A c \in Cgroups : KeysIn(c) = KeysOf(Target, c)
        BY <4>1, KeysOfEntries DEF Wanted
      <4>4. \A c \in Cgroups : KeysIn(c)' = KeysIn(c)
        BY <4>1 DEF KeysIn
      <4>5. Effective' = [c \in Cgroups |-> IF c \in armed' THEN KeysOf(Target, c)
                                                            ELSE Effective[c]]
        BY <4>2, <4>3, <4>4 DEF Effective
      <4>6. armed' \in SUBSET Cgroups
        BY DEF TypeOK
      <4>7. \A c \in Cgroups : Effective[c] \in {{}, KeysOf(Target, c)}
        BY <4>2
      <4> QED
        BY <3>1, <4>5, <4>6, <4>7, SamePolicies DEF Promise!Next, Promise!Enforce
    <3> QED
      BY <2>2, <3>2, <3>3, <3>4 DEF Reconcile
  <2>3. CASE SensorRestart
    <3>1. Target' = NoPolicy
      BY <2>3 DEF SensorRestart, Target, NoPolicy
    <3>2. Effective' = [c \in Cgroups |-> {}]
      BY <2>3 DEF SensorRestart, Effective
    <3> QED
      BY <3>1, <3>2, SamePolicies DEF Promise!Next, Promise!Die
  <2>4. CASE \/ \E at \in Attempts : HookEnter(at[1], at[2])
             \/ HookScope \/ HookLookup \/ HookLookupAnyPort \/ HookGivesUp \/ HookReturn
             \/ BeginPoll \/ PollFails \/ Receive \/ Tick
             \/ \E a \in Answers : Answer(a)
             \/ UNCHANGED sensor
    <3>1. armed' = armed /\ deny' = deny /\ scopes' = scopes /\ nodeVerdicts' = nodeVerdicts
      BY <2>4
      DEF HookEnter, HookScope, HookLookup, HookLookupAnyPort, HookGivesUp, HookReturn, BeginPoll, PollFails,
          Receive, Tick, Answer, sensor, reconciler
    <3> QED
      BY <3>1, SameEffective DEF Target
  <2> QED
    BY <2>1, <2>2, <2>3, <2>4 DEF Next, Work
<1> QED
  BY <1>1, <1>2, SensorTypeCorrect, SensorInvariant, PTL DEF Spec, ReplacesAtomically, Promise!Spec
=============================================================================
