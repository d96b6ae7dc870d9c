-------------------------- MODULE EnforcementProofs --------------------------
(***************************************************************************)
(* Theorems about the collector's manager, and about manager and node      *)
(* together, for all services, rules, callers, failures and restarts.      *)
(***************************************************************************)
EXTENDS Enforcement, TLAPS

-----------------------------------------------------------------------------
(* The manager.                                                            *)

\* What CompileVerdicts returns is a set of verdicts.
LEMMA CompiledType ==
  ASSUME NEW R, NEW B \in SUBSET Behaviors
  PROVE  CompileVerdicts(R, B) \in VerdictSet
BY DEF CompileVerdicts, VerdictSet, Behaviors

\* Merging keeps the type.
LEMMA MergedType ==
  ASSUME NEW v \in VerdictSet, NEW w \in VerdictSet
  PROVE  MergeVerdictSets(v, w) \in VerdictSet
BY DEF MergeVerdictSets, VerdictSet

\* No verdicts have the type, and are those of no behaviors.
LEMMA NoVerdictsType ==
  /\ NoVerdicts \in [Services -> VerdictSet]
  /\ \A R : \A s \in Services : NoVerdicts[s] = CompileVerdicts(R, NoBehaviors[s])
BY DEF NoVerdicts, VerdictSet, CompileVerdicts, NoBehaviors

\* Where a call may be.
CallType == [pc : {"idle", "switch", "persist"}, on : BOOLEAN, rev : Nat]

\* No behaviors, and no call under way, have the type.
LEMMA EmptyTypes ==
  /\ NoBehaviors \in [Services -> SUBSET Behaviors]
  /\ NoCall \in CallType
  /\ [c \in Callers |-> NoCall] \in [Callers -> CallType]
BY DEF NoBehaviors, NoCall, CallType

\* Every variable of the manager keeps its type (internal/enforce/state.go).
THEOREM ManagerTypeCorrect == ManagerSpec => []ManagerTypeOK
<1> USE ManagerAssumption
<1>1. ManagerInit => ManagerTypeOK
  <2> SUFFICES ASSUME ManagerInit PROVE ManagerTypeOK
    OBVIOUS
  <2>1. masterGate \in BOOLEAN /\ rules \in SUBSET Behaviors
    BY DEF ManagerInit
  <2>2. enabled \in BOOLEAN /\ dbEnabled \in BOOLEAN
    BY DEF ManagerInit
  <2>3. rev \in Nat /\ dbRev \in Nat
    BY DEF ManagerInit
  <2>4. boots \in 0..MaxBoots /\ recorded \subseteq Services \X Behaviors
    BY DEF ManagerInit
  <2>5. /\ verdicts \in [Services -> VerdictSet]
        /\ behaviors \in [Services -> SUBSET Behaviors]
        /\ call \in [Callers -> CallType]
    BY NoVerdictsType, EmptyTypes DEF ManagerInit
  <2> QED
    BY <2>1, <2>2, <2>3, <2>4, <2>5 DEF ManagerTypeOK, CallType
<1>2. ManagerTypeOK /\ [ManagerNext]_manager => ManagerTypeOK'
  <2> SUFFICES ASSUME ManagerTypeOK, [ManagerNext]_manager PROVE ManagerTypeOK'
    OBVIOUS
  <2> USE DEF ManagerTypeOK
  <2>1. ASSUME NEW c \in Callers, NEW s \in Services, NEW b \in rules, RecordBehavior(c, s, b)
        PROVE  ManagerTypeOK'
    <3>1. b \in Behaviors
      OBVIOUS
    <3>2. MergeVerdictSets(verdicts[s], CompileVerdicts(rules, {b})) \in VerdictSet
      BY <3>1, CompiledType, MergedType
    <3>3. verdicts' \in [Services -> VerdictSet]
      BY <2>1, <3>2 DEF RecordBehavior
    <3>4. behaviors' \in [Services -> SUBSET Behaviors]
      BY <2>1, <3>1 DEF RecordBehavior
    <3>5. rev' \in Nat
      BY <2>1 DEF RecordBehavior, NextRev
    <3>7. [NoCall EXCEPT !.pc = "persist", !.rev = rev'] \in CallType
      BY <3>5 DEF NoCall, CallType
    <3>8. call' \in [Callers -> CallType]
      BY <2>1, <3>7 DEF RecordBehavior, CallType
    <3>6. recorded' \subseteq Services \X Behaviors
      BY <2>1, <3>1 DEF RecordBehavior
    <3> QED
      BY <2>1, <3>3, <3>4, <3>5, <3>6, <3>8 DEF RecordBehavior, CallType
  <2>2. ASSUME NEW c \in Callers, NEW on \in BOOLEAN, SetEnabled(c, on)
        PROVE  ManagerTypeOK'
    BY <2>2 DEF SetEnabled, NoCall
  <2>3. ASSUME NEW c \in Callers, Switch(c)
        PROVE  ManagerTypeOK'
    <3>1. verdicts' \in [Services -> VerdictSet]
      BY <2>3, NoVerdictsType, CompiledType DEF Switch, Recompute
    <3>2. rev' \in Nat
      BY <2>3 DEF Switch, Recompute, NextRev
    <3>3. call' \in [Callers -> CallType]
      BY <2>3, <3>2 DEF Switch, NoCall, CallType
    <3> QED
      BY <2>3, <3>1, <3>2, <3>3 DEF Switch, CallType
  <2>4. ASSUME NEW c \in Callers, PersistRev(c)
        PROVE  ManagerTypeOK'
    BY <2>4 DEF PersistRev, NoCall
  <2>5. CASE Restart
    <3>1. PICK gate \in Gates, R \in RuleSets :
            \E on \in BOOLEAN, r \in Nat : Starts(gate, on, r, R)
      BY <2>5 DEF Restart
    <3>2. PICK on \in BOOLEAN, r \in Nat : Starts(gate, on, r, R)
      BY <3>1
    <3>3. gate \in BOOLEAN /\ R \in SUBSET Behaviors
      OBVIOUS
    <3>4. masterGate' \in BOOLEAN /\ enabled' \in BOOLEAN /\ rules' \in SUBSET Behaviors
      BY <3>2, <3>3 DEF Starts
    <3>5. rev' \in Nat
      BY <3>2 DEF Starts
    <3>6. /\ verdicts' \in [Services -> VerdictSet]
          /\ behaviors' \in [Services -> SUBSET Behaviors]
          /\ call' \in [Callers -> CallType]
      BY <3>2, NoVerdictsType, EmptyTypes DEF Starts
    <3>7. dbRev' \in Nat /\ dbEnabled' \in BOOLEAN /\ boots' \in 0..MaxBoots
      BY <2>5, <3>5 DEF Restart
    <3>8. recorded' \subseteq Services \X Behaviors
      BY <2>5 DEF Restart
    <3> QED
      BY <3>4, <3>5, <3>6, <3>7, <3>8 DEF CallType
  <2>6. CASE UNCHANGED manager
    BY <2>6 DEF manager
  <2> QED
    BY <2>1, <2>2, <2>3, <2>4, <2>5, <2>6 DEF ManagerNext
<1> QED
  BY <1>1, <1>2, PTL DEF ManagerSpec

\* Extending verdicts one behavior at a time gives what compiling all of them
\* gives, service by service (RecordBehavior, recomputeLocked).
THEOREM ExtendedIsCompiled == ManagerSpec => []VerdictsAreCompiled
<1> USE ManagerAssumption
<1>1. ManagerInit => VerdictsAreCompiled
  BY NoVerdictsType DEF ManagerInit, VerdictsAreCompiled
<1>2. ManagerTypeOK /\ VerdictsAreCompiled /\ [ManagerNext]_manager => VerdictsAreCompiled'
  <2> SUFFICES ASSUME ManagerTypeOK, VerdictsAreCompiled, [ManagerNext]_manager
               PROVE  VerdictsAreCompiled'
    OBVIOUS
  <2> USE DEF VerdictsAreCompiled
  <2>1. ASSUME NEW c \in Callers, NEW s \in Services, NEW b \in rules, RecordBehavior(c, s, b)
        PROVE  VerdictsAreCompiled'
    <3> SUFFICES ASSUME masterGate, NEW t \in Services
                 PROVE  verdicts'[t] = CompileVerdicts(rules, behaviors'[t])
      BY <2>1 DEF RecordBehavior
    <3>1. CASE t = s
      <4>1. verdicts'[s] = MergeVerdictSets(verdicts[s], CompileVerdicts(rules, {b}))
        BY <2>1 DEF RecordBehavior, ManagerTypeOK
      <4>2. behaviors'[s] = behaviors[s] \cup {b}
        BY <2>1 DEF RecordBehavior, ManagerTypeOK
      <4>3. verdicts[s] = CompileVerdicts(rules, behaviors[s])
        OBVIOUS
      <4>4. MergeVerdictSets(CompileVerdicts(rules, behaviors[s]), CompileVerdicts(rules, {b}))
              = CompileVerdicts(rules, behaviors[s] \cup {b})
        BY DEF CompileVerdicts, MergeVerdictSets
      <4> QED
        BY <3>1, <4>1, <4>2, <4>3, <4>4
    <3>2. CASE t # s
      BY <2>1, <3>2 DEF RecordBehavior, ManagerTypeOK
    <3> QED
      BY <3>1, <3>2
  <2>2. ASSUME NEW c \in Callers, NEW on \in BOOLEAN, SetEnabled(c, on)
        PROVE  VerdictsAreCompiled'
    BY <2>2 DEF SetEnabled
  <2>3. ASSUME NEW c \in Callers, Switch(c)
        PROVE  VerdictsAreCompiled'
    BY <2>3 DEF Switch, Recompute
  <2>4. ASSUME NEW c \in Callers, PersistRev(c)
        PROVE  VerdictsAreCompiled'
    BY <2>4 DEF PersistRev
  <2>5. CASE Restart
    BY <2>5, NoVerdictsType DEF Restart, Starts
  <2>6. CASE UNCHANGED manager
    BY <2>6 DEF manager
  <2> QED
    BY <2>1, <2>2, <2>3, <2>4, <2>5, <2>6 DEF ManagerNext
<1> QED
  BY <1>1, <1>2, ManagerTypeCorrect, PTL DEF ManagerSpec

\* As long as the process lives, a revision names one set of verdicts
\* (RecordBehavior, SetEnabled).
THEOREM RevisionNamesVerdicts == ManagerSpec => RevNamesVerdicts
<1> USE ManagerAssumption
<1>1. ManagerTypeOK /\ [ManagerNext]_manager
        => [boots' = boots /\ masterGate /\ verdicts' # verdicts => rev' > rev]_manager
  <2> SUFFICES ASSUME ManagerTypeOK, ManagerNext, boots' = boots, masterGate, verdicts' # verdicts
               PROVE  rev' > rev
    OBVIOUS
  <2>1. rev \in Nat
    BY DEF ManagerTypeOK
  <2>2. ASSUME NEW c \in Callers, NEW s \in Services, NEW b \in rules, RecordBehavior(c, s, b)
        PROVE  rev' > rev
    BY <2>1, <2>2 DEF RecordBehavior, NextRev
  <2>3. ASSUME NEW c \in Callers, Switch(c)
        PROVE  rev' > rev
    BY <2>1, <2>3 DEF Switch, Recompute, NextRev
  <2>4. ASSUME NEW c \in Callers, NEW on \in BOOLEAN, SetEnabled(c, on) \/ PersistRev(c)
        PROVE  FALSE
    BY <2>4 DEF SetEnabled, PersistRev
  <2>5. ASSUME Restart
        PROVE  FALSE
    <3>1. boots' = boots + 1
      BY <2>5, Zenon DEF Restart
    <3>2. boots \in Nat
      BY DEF ManagerTypeOK
    <3> QED
      BY <3>1, <3>2
  <2> QED
    BY <2>2, <2>3, <2>4, <2>5 DEF ManagerNext
<1> QED
  BY <1>1, ManagerTypeCorrect, PTL DEF ManagerSpec, RevNamesVerdicts

-----------------------------------------------------------------------------
(* The kill switch.                                                        *)

\* The poll under way has its type, and so have the deadline and its age.
AnswerType == [on : BOOLEAN, rev : Nat, verdicts : [Services -> VerdictSet]]

PollType ==
  [pc : {"idle", "sent", "answered", "locking"}, age : 0..Timeout, answer : AnswerType]

ClockType == left \in Nat /\ sinceOn \in 0..LongAgo /\ poll \in PollType

\* An answer that says on is no older than the request, and the deadline it
\* leads to lies TTL after its arrival.
ClockInv ==
  /\ ClockType
  /\ enabled => sinceOn = 0
  /\ poll.pc = "answered" /\ poll.answer.on => sinceOn <= poll.age
  /\ left > 0 => sinceOn + left <= TTL + Timeout

\* The manager takes no notice of the node.
LEMMA ManagerWithin == Spec => ManagerSpec
<1>1. Init => ManagerInit
  BY DEF Init
<1>2. [Next]_vars => [ManagerNext]_manager
  BY DEF Next, vars, Collect, Poll, Elapse, Node
<1> QED
  BY <1>1, <1>2, PTL DEF Spec, ManagerSpec

\* No poll and no answer have the type.
LEMMA NoPollType == NoPoll \in PollType
BY NoVerdictsType, SensorAssumption DEF NoPoll, NoAnswer, PollType, AnswerType

\* The deadline is never further away than the last answer that said on allows.
LEMMA ClockInvariant == Spec => []ClockInv
<1> USE SensorAssumption
<1>1. Init => ClockInv
  <2> SUFFICES ASSUME Init PROVE ClockInv
    OBVIOUS
  <2>1. left = 0 /\ poll = NoPoll /\ sinceOn = LongAgo /\ ~enabled
    BY DEF Init, ManagerInit, SensorInit, Starting
  <2>2. ClockType
    BY <2>1, NoPollType DEF ClockType, LongAgo
  <2>3. poll.pc = "idle"
    BY <2>1 DEF NoPoll
  <2> QED
    BY <2>1, <2>2, <2>3 DEF ClockInv
<1>2. ManagerTypeOK /\ ClockInv /\ [Next]_vars => ClockInv'
  <2> SUFFICES ASSUME ManagerTypeOK, ClockInv, [Next]_vars PROVE ClockInv'
    OBVIOUS
  <2>0. /\ left \in Nat /\ sinceOn \in 0..LongAgo /\ poll \in PollType
        /\ poll.age \in 0..Timeout /\ LongAgo \in Nat
    BY DEF ClockInv, ClockType, PollType, LongAgo
  <2>1. CASE Collect
    <3>1. left' = left /\ poll' = poll
      BY <2>1 DEF Collect, sensor
    <3>2. sinceOn' = IF enabled \/ enabled' THEN 0 ELSE sinceOn
      BY <2>1 DEF Collect
    <3> QED
      BY <2>0, <3>1, <3>2 DEF ClockInv, ClockType
  <2>2. CASE Poll
    <3>1. [on |-> enabled, rev |-> rev, verdicts |-> verdicts] \in AnswerType
      BY DEF ManagerTypeOK, AnswerType
    <3>2. /\ poll' = [poll EXCEPT !.pc = "answered",
                       !.answer = [on |-> enabled, rev |-> rev, verdicts |-> verdicts]]
          /\ left' = left /\ sinceOn' = sinceOn /\ enabled' = enabled
      BY <2>2 DEF Poll, Answer, manager
    <3>3. poll' \in PollType /\ poll'.age = poll.age /\ poll'.answer.on = enabled
      BY <2>0, <3>1, <3>2 DEF PollType
    <3> QED
      BY <2>0, <3>2, <3>3 DEF ClockInv, ClockType
  <2>3. CASE Elapse
    <3>1. /\ left' = IF left > 0 THEN left - 1 ELSE 0
          /\ sinceOn' = IF enabled THEN 0 ELSE IF sinceOn < LongAgo THEN sinceOn + 1 ELSE LongAgo
          /\ enabled' = enabled
      BY <2>3 DEF Elapse, Tick, manager
    <3>2. left' \in Nat /\ sinceOn' \in 0..LongAgo
      BY <2>0, <3>1
    <3>3. CASE poll.pc \in {"sent", "answered"}
      <4>1. poll.age < Timeout /\ poll' = [poll EXCEPT !.age = @ + 1]
        BY <2>3, <3>3 DEF Elapse, Tick
      <4>2. /\ poll' \in PollType /\ poll'.pc = poll.pc /\ poll'.answer = poll.answer
            /\ poll'.age = poll.age + 1
        BY <2>0, <4>1 DEF PollType
      <4> QED
        BY <2>0, <3>1, <3>2, <4>1, <4>2 DEF ClockInv, ClockType, LongAgo
    <3>4. CASE poll.pc \notin {"sent", "answered"}
      <4>1. poll' = poll
        BY <2>3, <3>4 DEF Elapse, Tick
      <4> QED
        BY <2>0, <3>1, <3>2, <3>4, <4>1 DEF ClockInv, ClockType, LongAgo
    <3> QED
      BY <3>3, <3>4
  <2>4. CASE Node
    <3>1. sinceOn' = sinceOn /\ enabled' = enabled
      BY <2>4 DEF Node, manager
    <3>2. CASE left' = left /\ poll' = poll
      BY <2>0, <3>1, <3>2 DEF ClockInv, ClockType
    <3>3. CASE BeginPoll
      <4>1. left' = left /\ poll' = [NoPoll EXCEPT !.pc = "sent"]
        BY <3>3 DEF BeginPoll
      <4>2. poll' \in PollType /\ poll'.pc = "sent"
        BY <4>1, NoPollType DEF PollType
      <4> QED
        BY <2>0, <3>1, <4>1, <4>2 DEF ClockInv, ClockType
    <3>4. CASE poll' = NoPoll /\ left' \in {0, left}
      <4>1. poll'.pc = "idle" /\ poll' \in PollType
        BY <3>4, NoPollType DEF NoPoll
      <4>2. left' \in Nat /\ (left' > 0 => left' = left)
        BY <2>0, <3>4
      <4> QED
        BY <2>0, <3>1, <4>1, <4>2 DEF ClockInv, ClockType
    <3>5. CASE Receive
      <4>1. poll.pc = "answered" /\ left' = IF poll.answer.on THEN TTL ELSE 0
        BY <3>5 DEF Receive
      <4>2. poll' = [poll EXCEPT !.pc = "locking", !.age = 0]
        BY <3>5 DEF Receive
      <4>3. poll.answer.on \in BOOLEAN
        BY <2>0 DEF PollType, AnswerType
      <4>0. 0 \in 0..Timeout /\ TTL \in Nat /\ Timeout \in Nat
        OBVIOUS
      <4>4. poll' \in PollType
        BY <2>0, <4>0, <4>2 DEF PollType
      <4>5. poll'.pc = "locking"
        BY <2>0, <4>2 DEF PollType
      <4>6. CASE poll.answer.on
        BY <2>0, <3>1, <4>0, <4>1, <4>4, <4>5, <4>6 DEF ClockInv, ClockType
      <4>7. CASE ~poll.answer.on
        BY <2>0, <3>1, <4>1, <4>4, <4>5, <4>7 DEF ClockInv, ClockType
      <4> QED
        BY <4>6, <4>7
    <3>6. \/ left' = left /\ poll' = poll
          \/ BeginPoll
          \/ poll' = NoPoll /\ left' \in {0, left}
          \/ Receive
      BY <2>4 DEF Node, Work, HookEnter, HookScope, HookLookup, HookLookupAnyPort,
                  HookGivesUp, HookReturn,
                  SetScopes, SetVerdicts, Reconcile, Disarm, PutVerdicts, PutFails,
                  DeleteMissing, Arm, ArmFails, PollFails, SensorRestart
    <3> QED
      BY <3>2, <3>3, <3>4, <3>5, <3>6
  <2>5. CASE UNCHANGED vars
    BY <2>5 DEF vars, manager, sensor, ClockInv, ClockType
  <2> QED
    BY <2>1, <2>2, <2>3, <2>4, <2>5 DEF Next
<1> QED
  BY <1>1, <1>2, ManagerWithin, ManagerTypeCorrect, PTL DEF Spec

\* Whatever polls fail, are late or never sent, TTL and the time an answer may
\* take after the switch went off no hook denies anything (enforcePollLoop,
\* enforce_active).
THEOREM KillSwitch == Spec => []KillSwitchHolds
<1>1. ClockInv => KillSwitchHolds
  BY SensorAssumption DEF ClockInv, ClockType, KillSwitchHolds
<1> QED
  BY <1>1, ClockInvariant, PTL

-----------------------------------------------------------------------------
(* Revisions, as far as the first process of the collector lives.          *)

\* A revision and verdicts that were the collector's at some time.
WasCurrent(r, v) == r <= rev /\ (r = rev => v = verdicts)

\* What is under way to the node, and what the node has, was the collector's.
RevInv ==
  boots = 0 /\ masterGate =>
    /\ poll.pc \in {"answered", "locking"} =>
         WasCurrent(poll.answer.rev, poll.answer.verdicts)
    /\ haveRev => nodeRev \in Nat /\ WasCurrent(nodeRev, nodeVerdicts)

\* What was current stays so: the revision grows when the verdicts change.
LEMMA CurrentOnce ==
  ASSUME ManagerTypeOK, ManagerNext, boots' = 0
  PROVE  /\ boots = 0 /\ masterGate' = masterGate
         /\ masterGate => \A r \in Nat : \A v : WasCurrent(r, v) => WasCurrent(r, v)'
<1>1. rev \in Nat /\ boots \in Nat
  BY ManagerAssumption DEF ManagerTypeOK
<1>2. ~Restart
  <2> SUFFICES ASSUME Restart PROVE FALSE OBVIOUS
  <2>1. boots' = boots + 1
    BY Zenon DEF Restart
  <2> QED BY <1>1, <2>1
<1>3. PICK c \in Callers :
        \/ \E s \in Services, b \in rules : RecordBehavior(c, s, b)
        \/ \E on \in BOOLEAN : SetEnabled(c, on)
        \/ Switch(c)
        \/ PersistRev(c)
  BY <1>2 DEF ManagerNext
<1>4. CASE \E s \in Services, b \in rules : RecordBehavior(c, s, b)
  <2>1. rev' = rev + 1 /\ UNCHANGED <<boots, masterGate>>
    BY <1>4 DEF RecordBehavior, NextRev
  <2> QED BY <1>1, <2>1 DEF WasCurrent
<1>5. CASE Switch(c)
  <2>1. UNCHANGED <<boots, masterGate>> /\ (masterGate => rev' = rev + 1)
    BY <1>5 DEF Switch, Recompute, NextRev
  <2> QED BY <1>1, <2>1 DEF WasCurrent
<1>6. CASE (\E on \in BOOLEAN : SetEnabled(c, on)) \/ PersistRev(c)
  <2>1. UNCHANGED <<boots, masterGate, rev, verdicts>>
    BY <1>6 DEF SetEnabled, PersistRev
  <2> QED BY <2>1 DEF WasCurrent
<1> QED BY <1>3, <1>4, <1>5, <1>6

\* While the collector's first process lives, a node that has its revision has its
\* verdicts, whatever answers are late or lost and however often the sensor
\* restarts (RecordBehavior, StateForSensor, setVerdicts).
THEOREM RevisionFaithful == Spec => []RevisionIsFaithful
<1>1. Init => RevInv
  BY DEF Init, SensorInit, Starting, NoPoll, RevInv
<1>2. ManagerTypeOK /\ ClockInv /\ RevInv /\ [Next]_vars => RevInv'
  <2> SUFFICES ASSUME ManagerTypeOK, ClockInv, RevInv, [Next]_vars, boots' = 0, masterGate'
               PROVE  RevInv'
    BY DEF RevInv
  <2>0. poll \in PollType /\ rev \in Nat
    BY DEF ClockInv, ClockType, ManagerTypeOK
  <2>1. CASE Collect
    <3>1. boots = 0 /\ masterGate /\ \A r \in Nat : \A v : WasCurrent(r, v) => WasCurrent(r, v)'
      BY <2>1, CurrentOnce DEF Collect
    <3>2. UNCHANGED <<poll, haveRev, nodeRev, nodeVerdicts>>
      BY <2>1 DEF Collect, sensor, reconciler
    <3>3. poll.answer.rev \in Nat
      BY <2>0 DEF PollType, AnswerType
    <3>4. /\ poll.pc \in {"answered", "locking"} => WasCurrent(poll.answer.rev, poll.answer.verdicts)
          /\ haveRev => nodeRev \in Nat /\ WasCurrent(nodeRev, nodeVerdicts)
      BY <3>1 DEF RevInv
    <3>5. poll.pc \in {"answered", "locking"} => WasCurrent(poll.answer.rev, poll.answer.verdicts)'
      BY <3>1, <3>2, <3>3, <3>4 DEF WasCurrent
    <3>6. haveRev => WasCurrent(nodeRev, nodeVerdicts)'
      BY <3>1, <3>2, <3>4 DEF WasCurrent
    <3> QED BY <3>2, <3>4, <3>5, <3>6 DEF RevInv
  <2>2. CASE ~Collect
    <3>1. UNCHANGED <<boots, masterGate, rev, verdicts>>
      BY <2>2 DEF Next, Poll, Elapse, Node, vars, manager
    <3>2. /\ poll.pc \in {"answered", "locking"} => WasCurrent(poll.answer.rev, poll.answer.verdicts)
          /\ haveRev => nodeRev \in Nat /\ WasCurrent(nodeRev, nodeVerdicts)
      BY <3>1 DEF RevInv
    <3>3. CASE Poll
      <4>1. /\ poll' = [poll EXCEPT !.pc = "answered",
                         !.answer = [on |-> enabled, rev |-> rev, verdicts |-> verdicts]]
            /\ UNCHANGED <<haveRev, nodeRev, nodeVerdicts>>
        BY <3>3 DEF Poll, Answer, reconciler
      <4>2. poll'.answer.rev = rev /\ poll'.answer.verdicts = verdicts
        BY <2>0, <4>1 DEF PollType
      <4> QED BY <2>0, <3>1, <3>2, <4>1, <4>2 DEF WasCurrent, RevInv
    <3>4. CASE poll'.pc \notin {"answered", "locking"} /\ UNCHANGED <<haveRev, nodeRev, nodeVerdicts>>
      BY <3>1, <3>2, <3>4 DEF WasCurrent, RevInv
    <3>5. CASE UNCHANGED <<haveRev, nodeRev, nodeVerdicts>> /\ poll'.answer = poll.answer
               /\ (poll'.pc \in {"answered", "locking"} => poll.pc \in {"answered", "locking"})
      BY <3>1, <3>2, <3>5 DEF WasCurrent, RevInv
    <3>6. CASE SetVerdicts
      <4>1. /\ poll.pc = "locking" /\ poll' = NoPoll /\ nodeRev' = poll.answer.rev
            /\ nodeVerdicts' = IF ~haveRev \/ nodeRev # poll.answer.rev
                               THEN poll.answer.verdicts ELSE nodeVerdicts
        BY <3>6 DEF SetVerdicts
      <4>2. nodeRev' \in Nat /\ poll'.pc = "idle"
        BY <2>0, <4>1 DEF PollType, AnswerType, NoPoll
      <4>3. WasCurrent(nodeRev', nodeVerdicts')
        BY <3>2, <4>1 DEF WasCurrent
      <4> QED BY <3>1, <4>2, <4>3 DEF WasCurrent, RevInv
    <3>7. CASE SensorRestart
      BY <3>7 DEF SensorRestart, NoPoll, RevInv
    <3>8. CASE Elapse
      <4>1. poll' = poll \/ poll' = [poll EXCEPT !.age = @ + 1]
        BY <3>8 DEF Elapse, Tick
      <4>2. poll'.pc = poll.pc /\ poll'.answer = poll.answer
        BY <2>0, <4>1 DEF PollType
      <4> QED BY <3>5, <3>8, <4>2 DEF Elapse, Tick, reconciler
    <3>9. CASE Receive
      <4>1. poll.pc = "answered" /\ poll' = [poll EXCEPT !.pc = "locking", !.age = 0]
        BY <3>9 DEF Receive
      <4>2. poll'.answer = poll.answer
        BY <2>0, <4>1 DEF PollType
      <4> QED BY <3>5, <3>9, <4>1, <4>2 DEF Receive, reconciler
    <3>10. CASE BeginPoll \/ PollFails
      <4>1. poll'.pc \notin {"answered", "locking"}
        BY <3>10 DEF BeginPoll, PollFails, NoPoll
      <4> QED BY <3>4, <3>10, <4>1 DEF BeginPoll, PollFails, reconciler
    <3>11. CASE UNCHANGED <<poll, haveRev, nodeRev, nodeVerdicts>>
      BY <3>5, <3>11
    <3>12. \/ Poll \/ SetVerdicts \/ SensorRestart \/ Elapse \/ Receive \/ BeginPoll \/ PollFails
           \/ UNCHANGED <<poll, haveRev, nodeRev, nodeVerdicts>>
      BY <2>2 DEF Next, Node, Work, HookEnter, HookScope, HookLookup, HookLookupAnyPort,
                  HookGivesUp, HookReturn, SetScopes, Reconcile, Disarm, PutVerdicts, PutFails,
                  DeleteMissing, Arm, ArmFails, vars, sensor, reconciler
    <3> QED
      BY <3>3, <3>6, <3>7, <3>8, <3>9, <3>10, <3>11, <3>12
  <2> QED BY <2>1, <2>2
<1>3. RevInv => RevisionIsFaithful
  BY DEF RevInv, RevisionIsFaithful, SameRevSameVerdicts, WasCurrent
<1> QED
  BY <1>1, <1>2, <1>3, ManagerWithin, ManagerTypeCorrect, ClockInvariant, PTL DEF Spec

-----------------------------------------------------------------------------
(* The node of the composition is a node with any collector, so what         *)
(* SensorProofs shows of one holds here.                                     *)

Sensor == INSTANCE SensorProofs WITH Answers <- AnswerType

\* The policies and the keys are the same.
LEMMA SameTarget ==
  /\ Target = Sensor!Target
  /\ ExpandScopedVerdicts(Target) = Sensor!ExpandScopedVerdicts(Target)
  /\ \A p, c, op : Explains(p, c, op) <=> Sensor!Explains(p, c, op)
  /\ \A p, c : KeysOf(p, c) = Sensor!KeysOf(p, c)
BY DEF Target, Sensor!Target, ExpandScopedVerdicts, Sensor!ExpandScopedVerdicts,
       Explains, Sensor!Explains, LookedUp, Sensor!LookedUp, AnyPort, Sensor!AnyPort,
       KeysOf, Sensor!KeysOf, DenyKey, Sensor!DenyKey

\* What a hook does here it does there.
LEMMA SameHook ==
  ASSUME NEW c, NEW op
  PROVE  /\ HookEnter(c, op) => Sensor!HookEnter(c, op)
         /\ HookScope => Sensor!HookScope
         /\ HookLookup => Sensor!HookLookup
         /\ HookLookupAnyPort => Sensor!HookLookupAnyPort
         /\ HookGivesUp => Sensor!HookGivesUp
         /\ HookReturn => Sensor!HookReturn
<1>1. HookEnter(c, op) => Sensor!HookEnter(c, op)
  BY SameTarget DEF HookEnter, Sensor!HookEnter, reconciler, Sensor!reconciler
<1>2. HookLookupAnyPort => Sensor!HookLookupAnyPort
  BY DEF HookLookupAnyPort, Sensor!HookLookupAnyPort, AnyPort, Sensor!AnyPort,
         reconciler, Sensor!reconciler
<1>3. HookScope => Sensor!HookScope
  BY DEF HookScope, Sensor!HookScope, NoHook, Sensor!NoHook, reconciler, Sensor!reconciler
<1>4. HookLookup => Sensor!HookLookup
  BY DEF HookLookup, Sensor!HookLookup, reconciler, Sensor!reconciler
<1>5. HookGivesUp => Sensor!HookGivesUp
  BY DEF HookGivesUp, Sensor!HookGivesUp, NoHook, Sensor!NoHook, reconciler, Sensor!reconciler
<1>6. HookReturn => Sensor!HookReturn
  BY DEF HookReturn, Sensor!HookReturn, NoHook, Sensor!NoHook, reconciler, Sensor!reconciler
<1> QED BY <1>1, <1>2, <1>3, <1>4, <1>5, <1>6

\* What the reconciler and the loader do here they do there.
LEMMA SameReconcile == Reconcile => Sensor!Reconcile
<1>1. /\ reconciler = Sensor!reconciler /\ NoApply = Sensor!NoApply /\ MapOrder = Sensor!MapOrder
      /\ InScope = Sensor!InScope /\ CurrentMap = Sensor!CurrentMap
  BY DEF reconciler, Sensor!reconciler, NoApply, Sensor!NoApply, MapOrder, Sensor!MapOrder,
         InScope, Sensor!InScope, CurrentMap, Sensor!CurrentMap
<1>2. \A E, m : OfMap(E, m) = Sensor!OfMap(E, m)
  BY DEF OfMap, Sensor!OfMap
<1>3. WantedOfMap = Sensor!WantedOfMap /\ FullOfMap = Sensor!FullOfMap
  BY <1>1, <1>2, SameTarget DEF WantedOfMap, Sensor!WantedOfMap, FullOfMap, Sensor!FullOfMap
<1>0. \A S : Cardinality(S) = Sensor!Cardinality(S)
  BY DEF Cardinality, Sensor!Cardinality
<1>4. Disarm => Sensor!Disarm
  BY DEF Disarm, Sensor!Disarm, reconciler, Sensor!reconciler
<1>5. PutVerdicts => Sensor!PutVerdicts
  BY <1>0, <1>3 DEF PutVerdicts, Sensor!PutVerdicts, reconciler, Sensor!reconciler
<1>6. PutFails => Sensor!PutFails
  BY <1>0, <1>1, <1>2, <1>3 DEF PutFails, Sensor!PutFails, reconciler, Sensor!reconciler
<1>7. DeleteMissing => Sensor!DeleteMissing
  BY <1>1, <1>2, <1>3, SameTarget DEF DeleteMissing, Sensor!DeleteMissing, reconciler, Sensor!reconciler
<1>8. Arm => Sensor!Arm
  BY <1>0, <1>1 DEF Arm, Sensor!Arm
<1>9. ArmFails => Sensor!ArmFails
  BY <1>0, <1>1 DEF ArmFails, Sensor!ArmFails, reconciler, Sensor!reconciler
<1> QED BY <1>4, <1>5, <1>6, <1>7, <1>8, <1>9 DEF Reconcile, Sensor!Reconcile

\* What the loops do here they do there.
LEMMA SameLoops ==
  /\ \A new : SetScopes(new) => Sensor!SetScopes(new)
  /\ SetVerdicts => Sensor!SetVerdicts
  /\ BeginPoll \/ PollFails \/ Receive => Sensor!BeginPoll \/ Sensor!PollFails \/ Sensor!Receive
  /\ SensorRestart => Sensor!SensorRestart
  /\ Tick => Sensor!Tick
  /\ \A a : Answer(a) => Sensor!Answer(a)
<1>1. /\ reconciler = Sensor!reconciler /\ NoApply = Sensor!NoApply /\ NoPoll = Sensor!NoPoll
      /\ NoHook = Sensor!NoHook /\ NoPolicy = Sensor!NoPolicy /\ NoScopes = Sensor!NoScopes
      /\ NoVerdicts = Sensor!NoVerdicts
  BY DEF reconciler, Sensor!reconciler, NoApply, Sensor!NoApply, NoPoll, Sensor!NoPoll,
         NoAnswer, Sensor!NoAnswer, NoHook, Sensor!NoHook, NoPolicy, Sensor!NoPolicy,
         NoScopes, Sensor!NoScopes, NoVerdicts, Sensor!NoVerdicts
<1>2. \A p : HookSees(p) = Sensor!HookSees(p)
  BY SameTarget DEF HookSees, Sensor!HookSees
<1>3. ASSUME NEW new PROVE SetScopes(new) => Sensor!SetScopes(new)
  BY <1>1, <1>2, SameTarget
     DEF SetScopes, Sensor!SetScopes, StartApply, Sensor!StartApply, Unlocked, Sensor!Unlocked
<1>4. SetVerdicts => Sensor!SetVerdicts
  BY <1>1, <1>2, SameTarget
     DEF SetVerdicts, Sensor!SetVerdicts, StartApply, Sensor!StartApply, Unlocked, Sensor!Unlocked
<1>5. BeginPoll => Sensor!BeginPoll
  BY <1>1 DEF BeginPoll, Sensor!BeginPoll, Unlocked, Sensor!Unlocked, reconciler, Sensor!reconciler
<1>6. PollFails => Sensor!PollFails
  BY <1>1 DEF PollFails, Sensor!PollFails, reconciler, Sensor!reconciler
<1>7. Receive => Sensor!Receive
  BY DEF Receive, Sensor!Receive, reconciler, Sensor!reconciler
<1>8. SensorRestart => Sensor!SensorRestart
  BY <1>1 DEF SensorRestart, Sensor!SensorRestart
<1>9. Tick => Sensor!Tick
  BY DEF Tick, Sensor!Tick, reconciler, Sensor!reconciler
<1>10. ASSUME NEW a PROVE Answer(a) => Sensor!Answer(a)
  BY DEF Answer, Sensor!Answer, reconciler, Sensor!reconciler
<1> QED BY <1>3, <1>4, <1>5, <1>6, <1>7, <1>8, <1>9, <1>10

\* Manager and node together implement the node with any collector: the collector
\* gives one of the answers that may be given (handleEnforceState).
THEOREM NodeOfAnyCollector == Spec => Sensor!Spec
<1>1. Init => Sensor!SensorInit
  BY DEF Init, SensorInit, Sensor!SensorInit, Starting, Sensor!Starting, NoApply, Sensor!NoApply,
         NoPoll, Sensor!NoPoll, NoAnswer, Sensor!NoAnswer, NoHook, Sensor!NoHook,
         NoPolicy, Sensor!NoPolicy, NoScopes, Sensor!NoScopes, NoVerdicts, Sensor!NoVerdicts
<1>2. ManagerTypeOK /\ [Next]_vars => [Sensor!Next]_(Sensor!sensor)
  <2> SUFFICES ASSUME ManagerTypeOK, [Next]_vars PROVE Sensor!Next \/ UNCHANGED Sensor!sensor
    OBVIOUS
  <2>1. sensor = Sensor!sensor /\ sensor' = Sensor!sensor'
    BY DEF sensor, Sensor!sensor, reconciler, Sensor!reconciler
  <2>2. CASE Collect \/ UNCHANGED vars
    BY <2>1, <2>2 DEF Collect, vars
  <2>3. CASE Poll
    <3>1. [on |-> enabled, rev |-> rev, verdicts |-> verdicts] \in AnswerType
      BY DEF ManagerTypeOK, AnswerType
    <3> QED BY <2>3, <3>1, SameLoops DEF Poll, Sensor!Next
  <2>4. CASE Elapse
    BY <2>4, SameLoops DEF Elapse, Sensor!Next
  <2>5. CASE Node
    <3>1. Work
      BY <2>5 DEF Node
    <3>2. Sensor!Work
      BY <3>1, SameHook, SameReconcile, SameLoops DEF Work, Sensor!Work
    <3> QED BY <3>2 DEF Sensor!Next
  <2> QED BY <2>2, <2>3, <2>4, <2>5 DEF Next
<1> QED
  BY <1>1, <1>2, ManagerWithin, ManagerTypeCorrect, PTL DEF Spec, Sensor!Spec

\* Verdicts that deny each service only what it was recorded doing.
Own(v) == \A s \in Services : \A b \in v[s].deny : b \in Operation /\ <<s, b>> \in recorded

\* Wherever verdicts are on their way into the maps, they are such.
OwnInv ==
  /\ \A s \in Services : \A b \in behaviors[s] : <<s, b>> \in recorded
  /\ Own(verdicts) /\ Own(poll.answer.verdicts) /\ Own(nodeVerdicts) /\ Own(inMaps.verdicts)

\* The manager compiles what was recorded, for the service it was recorded of.
LEMMA ManagerOwn ==
  ASSUME ManagerTypeOK, [ManagerNext]_manager,
         \A s \in Services : \A b \in behaviors[s] : <<s, b>> \in recorded,
         Own(verdicts)
  PROVE  /\ recorded \subseteq recorded'
         /\ \A s \in Services : \A b \in behaviors'[s] : <<s, b>> \in recorded'
         /\ Own(verdicts)'
<1>1. ASSUME NEW c \in Callers, NEW s \in Services, NEW b \in rules, RecordBehavior(c, s, b)
      PROVE  /\ recorded \subseteq recorded'
             /\ \A t \in Services : \A d \in behaviors'[t] : <<t, d>> \in recorded'
             /\ Own(verdicts)'
  <2>1. /\ behaviors' = [behaviors EXCEPT ![s] = @ \cup {b}]
        /\ verdicts' = [verdicts EXCEPT ![s] = MergeVerdictSets(@, CompileVerdicts(rules, {b}))]
        /\ recorded' = recorded \cup {<<s, b>>}
    BY <1>1 DEF RecordBehavior
  <2>2. /\ \A t \in Services \ {s} : behaviors'[t] = behaviors[t] /\ verdicts'[t] = verdicts[t]
        /\ behaviors'[s] = behaviors[s] \cup {b}
        /\ verdicts'[s] = MergeVerdictSets(verdicts[s], CompileVerdicts(rules, {b}))
    BY <2>1 DEF ManagerTypeOK
  <2>3. verdicts'[s].deny = verdicts[s].deny \cup ({b} \cap rules \cap Operation)
    BY <2>2 DEF MergeVerdictSets, CompileVerdicts
  <2>4. \A t \in Services : \A d \in behaviors'[t] : <<t, d>> \in recorded'
    BY <2>1, <2>2
  <2>5. Own(verdicts)'
    BY <2>1, <2>2, <2>3 DEF Own
  <2> QED BY <2>1, <2>4, <2>5
<1>2. ASSUME NEW c \in Callers, Switch(c)
      PROVE  UNCHANGED <<behaviors, recorded>> /\ Own(verdicts)'
  <2>1. UNCHANGED <<behaviors, recorded>>
    BY <1>2 DEF Switch
  <2>2. \A s \in Services : verdicts'[s].deny \subseteq behaviors[s] \cap Operation
    BY <1>2 DEF Switch, Recompute, CompileVerdicts, NoVerdicts
  <2> QED BY <2>1, <2>2 DEF Own
<1>3. ASSUME Restart
      PROVE  recorded' = recorded /\ behaviors' = NoBehaviors /\ Own(verdicts)'
  <2>1. recorded' = recorded /\ behaviors' = NoBehaviors /\ verdicts' = NoVerdicts
    BY <1>3 DEF Restart, Starts
  <2> QED BY <2>1 DEF Own, NoVerdicts
<1>4. ASSUME UNCHANGED <<behaviors, verdicts, recorded>> PROVE Own(verdicts)'
  BY <1>4 DEF Own
<1>5. \/ \E c \in Callers, s \in Services, b \in rules : RecordBehavior(c, s, b)
      \/ \E c \in Callers : Switch(c)
      \/ Restart
      \/ UNCHANGED <<behaviors, verdicts, recorded>>
  BY DEF ManagerNext, SetEnabled, PersistRev, manager
<1> QED BY <1>1, <1>2, <1>3, <1>4, <1>5 DEF NoBehaviors

\* What was recorded stays recorded.
LEMMA OwnStays ==
  ASSUME NEW v, recorded \subseteq recorded', Own(v)
  PROVE  \A s \in Services : \A b \in v[s].deny : b \in Operation /\ <<s, b>> \in recorded'
BY DEF Own

\* No cgroup is denied what its own service was never seen doing, whatever the
\* rules, the scopes, the failures of writes and polls, and the restarts of either
\* side (RecordBehavior, expandScopedVerdicts, ReconcileEnforcement).
THEOREM OwnBehaviorOnly == Spec => []DeniesOwnBehavior
<1>1. Init => OwnInv
  <2> SUFFICES ASSUME Init PROVE OwnInv OBVIOUS
  <2>1. verdicts = NoVerdicts /\ behaviors = NoBehaviors
    BY DEF Init, ManagerInit
  <2>2. nodeVerdicts = NoVerdicts /\ poll.answer.verdicts = NoVerdicts /\ inMaps.verdicts = NoVerdicts
    BY DEF Init, SensorInit, Starting, NoPoll, NoAnswer, NoPolicy
  <2>3. Own(NoVerdicts)
    BY DEF Own, NoVerdicts
  <2> QED BY <2>1, <2>2, <2>3 DEF OwnInv, NoBehaviors
<1>2. ManagerTypeOK /\ ClockInv /\ OwnInv /\ [Next]_vars => OwnInv'
  <2> SUFFICES ASSUME ManagerTypeOK, ClockInv, OwnInv, [Next]_vars PROVE OwnInv'
    OBVIOUS
  <2>1. [ManagerNext]_manager
    BY DEF Next, vars, Collect, Poll, Elapse, Node
  <2>2. /\ recorded \subseteq recorded'
        /\ \A s \in Services : \A b \in behaviors'[s] : <<s, b>> \in recorded'
        /\ Own(verdicts)'
    BY <2>1, ManagerOwn DEF OwnInv
  <2>3. poll \in PollType
    BY DEF ClockInv, ClockType
  <2>4. poll'.answer.verdicts \in {poll.answer.verdicts, verdicts, NoVerdicts}
    <3>1. \/ poll' = poll \/ poll' = [poll EXCEPT !.age = @ + 1]
          \/ poll' = [poll EXCEPT !.pc = "locking", !.age = 0]
          \/ poll' = NoPoll \/ poll' = [NoPoll EXCEPT !.pc = "sent"]
          \/ poll' = [poll EXCEPT !.pc = "answered",
                       !.answer = [on |-> enabled, rev |-> rev, verdicts |-> verdicts]]
      BY DEF Next, vars, Collect, Poll, Answer, Elapse, Tick, Node, Work, HookEnter, HookScope,
             HookLookup, HookLookupAnyPort, HookGivesUp, HookReturn, SetScopes, SetVerdicts,
             Reconcile, Disarm, PutVerdicts, PutFails, DeleteMissing, Arm, ArmFails, BeginPoll,
             PollFails, Receive, SensorRestart, sensor
    <3>2. NoPoll.answer.verdicts = NoVerdicts
      BY DEF NoPoll, NoAnswer
    <3>3. [NoPoll EXCEPT !.pc = "sent"].answer = NoPoll.answer
      BY DEF NoPoll
    <3>4. /\ [poll EXCEPT !.age = @ + 1].answer = poll.answer
          /\ [poll EXCEPT !.pc = "locking", !.age = 0].answer = poll.answer
          /\ [poll EXCEPT !.pc = "answered",
                !.answer = [on |-> enabled, rev |-> rev, verdicts |-> verdicts]].answer.verdicts = verdicts
      BY <2>3 DEF PollType
    <3> QED BY <3>1, <3>2, <3>3, <3>4
  <2>5. nodeVerdicts' \in {nodeVerdicts, poll.answer.verdicts, NoVerdicts}
    BY DEF Next, vars, Collect, Poll, Answer, Elapse, Tick, Node, Work, HookEnter, HookScope,
           HookLookup, HookLookupAnyPort, HookGivesUp, HookReturn, SetScopes, SetVerdicts,
           Reconcile, Disarm, PutVerdicts, PutFails, DeleteMissing, Arm, ArmFails, BeginPoll,
           PollFails, Receive, SensorRestart, sensor, reconciler
  <2>6. inMaps'.verdicts \in {inMaps.verdicts, nodeVerdicts, NoVerdicts}
    <3>1. inMaps' \in {inMaps, Target, NoPolicy}
      BY DEF Next, vars, Collect, Poll, Answer, Elapse, Tick, Node, Work, HookEnter, HookScope,
             HookLookup, HookLookupAnyPort, HookGivesUp, HookReturn, SetScopes, SetVerdicts,
             Reconcile, Disarm, PutVerdicts, PutFails, DeleteMissing, Arm, ArmFails, BeginPoll,
             PollFails, Receive, SensorRestart, sensor
    <3> QED BY <3>1 DEF Target, NoPolicy
  <2>7. Own(NoVerdicts)
    BY DEF Own, NoVerdicts
  <2>8. \A v \in {verdicts, poll.answer.verdicts, nodeVerdicts, inMaps.verdicts, NoVerdicts} :
          \A s \in Services : \A b \in v[s].deny : b \in Operation /\ <<s, b>> \in recorded'
    BY <2>2, <2>7, OwnStays DEF OwnInv
  <2> QED BY <2>2, <2>4, <2>5, <2>6, <2>8 DEF OwnInv, Own
<1>3. Sensor!TypeOK /\ Sensor!ArmedAgree /\ OwnInv => DeniesOwnBehavior
  <2> SUFFICES ASSUME Sensor!TypeOK, Sensor!ArmedAgree, OwnInv, NEW e \in deny, e[1] \in armed
               PROVE  \E r \in recorded : r[1] = inMaps.scopes[e[1]] /\ r[2] \in Operation
                                            /\ e[2] = DenyKey(r[2])
    BY DEF DeniesOwnBehavior
  <2>1. e[1] \in Cgroups /\ inMaps.scopes \in Scopes
    BY DEF Sensor!TypeOK, Sensor!Policies, Sensor!Scopes, Scopes
  <2>2. e[2] \in Sensor!KeysIn(e[1])
    BY DEF Sensor!KeysIn
  <2>3. e[2] \in KeysOf(inMaps, e[1])
    BY <2>2, SameTarget DEF Sensor!ArmedAgree
  <2>4. inMaps.scopes[e[1]] # NoService
    BY <2>3 DEF KeysOf
  <2>5. inMaps.scopes[e[1]] \in Services
    BY <2>1, <2>4 DEF Scopes
  <2>6. PICK v \in inMaps.verdicts[inMaps.scopes[e[1]]].deny : e[2] = DenyKey(v)
    BY <2>3, <2>4 DEF KeysOf
  <2>7. v \in Operation /\ <<inMaps.scopes[e[1]], v>> \in recorded
    BY <2>5, <2>6 DEF OwnInv, Own
  <2> QED BY <2>6, <2>7
<1>4. Sensor!VerdictAssumption
  BY VerdictAssumption DEF Sensor!VerdictAssumption
<1>5. Sensor!SensorAssumption
  BY SensorAssumption DEF Sensor!SensorAssumption, Scopes, Sensor!Scopes, Operation, Sensor!Operation
<1>6. Sensor!AnswerAssumption
  BY DEF Sensor!AnswerAssumption, AnswerType, Sensor!AnswerSet, VerdictSet, Sensor!VerdictSet,
         Operation, Sensor!Operation, Behaviors, Sensor!Behaviors
<1>7. Sensor!Spec => []Sensor!TypeOK
  BY <1>4, <1>5, <1>6, Sensor!SensorTypeCorrect
<1>8. Sensor!Spec => []Sensor!ArmedAgree
  BY <1>4, <1>5, <1>6, Sensor!Isolation
<1> QED
  BY <1>1, <1>2, <1>3, <1>7, <1>8, NodeOfAnyCollector, ManagerWithin, ManagerTypeCorrect, ClockInvariant,
     PTL DEF Spec
=============================================================================
