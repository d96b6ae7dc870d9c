--------------------------- MODULE EnforceManager ----------------------------
(***************************************************************************)
(* enforce.Manager, the collector's side of enforcement: which block-rule  *)
(* behaviors it has been told of, the verdicts it compiled from them, the  *)
(* revision that names them for the sensors, and the runtime switch.  The  *)
(* switch and the revision are persisted; the behaviors are not.           *)
(*                                                                         *)
(* Each call runs in the goroutine of a request.  The mutex covers the     *)
(* change in memory; the statements on the database run outside of it.     *)
(***************************************************************************)
EXTENDS Verdicts, FiniteSets

CONSTANTS
  Callers,     \* goroutines that call the manager
  RuleSets,    \* rule files an operator may start the collector with: for
               \* each the behaviors its block rules match
  Gates,       \* values of -enforce-enabled
  MaxTracked,  \* maxTrackedBehaviors
  StoreFails,  \* may statements of the manager fail?
  MaxRev,      \* bound on revisions
  MaxBoots     \* bound on restarts

ASSUME ManagerAssumption ==
  /\ RuleSets # {} /\ RuleSets \subseteq SUBSET Behaviors
  /\ Gates # {} /\ Gates \subseteq BOOLEAN
  /\ MaxTracked \in Nat /\ MaxRev \in Nat /\ MaxBoots \in Nat
  /\ StoreFails \in BOOLEAN

VARIABLES
  masterGate, enabled, rev, verdicts, behaviors, rules,  \* fields of Manager
  dbEnabled, dbRev,  \* the row of table enforce_state
  call,              \* where the call of each goroutine is
  boots,             \* restarts so far
  recorded           \* history: all the behaviors ever recorded

manager == <<masterGate, enabled, rev, verdicts, behaviors, rules, dbEnabled, dbRev,
             call, boots, recorded>>

\* A call is done ("idle"), inside SetEnabled between the database and the
\* memory ("switch"), or about to persist a revision ("persist").
NoCall == [pc |-> "idle", on |-> FALSE, rev |-> 0]

NoBehaviors == [s \in Services |-> {}]

Tracked == UNION {{s} \X behaviors[s] : s \in Services}

\* NewManager and SetRules on the row they find, as newCollectorServer calls
\* them: no behavior is known, so the verdicts are empty.
Starts(gate, on, r, R) ==
  /\ masterGate' = gate
  /\ enabled' = (on /\ gate)
  /\ rev' = IF gate THEN r + 1 ELSE r
  /\ behaviors' = NoBehaviors
  /\ verdicts' = NoVerdicts
  /\ rules' = R
  /\ call' = [c \in Callers |-> NoCall]

ManagerInit ==
  /\ masterGate \in Gates
  /\ enabled = FALSE
  /\ rev = IF masterGate THEN 1 ELSE 0
  /\ behaviors = NoBehaviors
  /\ verdicts = NoVerdicts
  /\ rules \in RuleSets
  /\ dbEnabled = FALSE
  /\ dbRev \in IF StoreFails THEN {0, rev} ELSE {rev}
  /\ call = [c \in Callers |-> NoCall]
  /\ boots = 0
  /\ recorded = {}

\* Mutant: the verdicts change under the revision the sensors have.
SameRev == rev

\* Any change of the verdicts is a new revision.
NextRev == rev + 1

RecordBehavior(c, s, b) ==
  /\ call[c].pc = "idle"
  /\ rev < MaxRev
  /\ b \in rules \ behaviors[s]  \* matchesBlockRuleLocked
  /\ Cardinality(Tracked) < MaxTracked
  /\ behaviors' = [behaviors EXCEPT ![s] = @ \cup {b}]
  /\ verdicts' = [verdicts EXCEPT ![s] = MergeVerdictSets(@, CompileVerdicts(rules, {b}))]
  /\ rev' = NextRev
  /\ call' = [call EXCEPT ![c] = [NoCall EXCEPT !.pc = "persist", !.rev = rev']]
  /\ recorded' = recorded \cup {<<s, b>>}
  /\ UNCHANGED <<masterGate, enabled, rules, dbEnabled, dbRev, boots>>

\* recomputeLocked; without the master gate the revision stays.
Recompute ==
  /\ verdicts' = IF masterGate THEN [s \in Services |-> CompileVerdicts(rules, behaviors[s])]
                 ELSE NoVerdicts
  /\ rev' = IF masterGate THEN NextRev ELSE rev

\* SetEnabled up to its statement; it is refused when the gate is off.
SetEnabled(c, on) ==
  /\ call[c].pc = "idle"
  /\ rev < MaxRev
  /\ on => masterGate
  /\ dbEnabled' = on
  /\ call' = [call EXCEPT ![c] = [NoCall EXCEPT !.pc = "switch", !.on = on]]
  /\ UNCHANGED <<masterGate, enabled, rev, verdicts, behaviors, rules, dbRev, boots, recorded>>

\* The rest of SetEnabled, under the mutex.
Switch(c) ==
  /\ call[c].pc = "switch"
  /\ enabled' = call[c].on
  /\ Recompute
  /\ call' = [call EXCEPT ![c] = [NoCall EXCEPT !.pc = "persist", !.rev = rev']]
  /\ UNCHANGED <<masterGate, behaviors, rules, dbEnabled, dbRev, boots, recorded>>

\* persistRev drops the error of its statement.
PersistRev(c) ==
  /\ call[c].pc = "persist"
  /\ \/ dbRev' = call[c].rev
     \/ StoreFails /\ UNCHANGED dbRev
  /\ call' = [call EXCEPT ![c] = NoCall]
  /\ UNCHANGED <<masterGate, enabled, rev, verdicts, behaviors, rules, dbEnabled, boots, recorded>>

\* The process ends, whatever its calls were doing, and another one starts.
\* NewManager takes a row it cannot read for a disabled one of revision 0.
Restart ==
  /\ boots < MaxBoots
  /\ boots' = boots + 1
  /\ \E gate \in Gates, R \in RuleSets :
       \/ Starts(gate, dbEnabled, dbRev, R)
       \/ StoreFails /\ Starts(gate, FALSE, 0, R)
  /\ \/ dbRev' = rev'
     \/ StoreFails /\ UNCHANGED dbRev
  /\ UNCHANGED <<dbEnabled, recorded>>

ManagerNext ==
  \/ \E c \in Callers :
       \/ \E s \in Services, b \in rules : RecordBehavior(c, s, b)
       \/ \E on \in BOOLEAN : SetEnabled(c, on)
       \/ Switch(c)
       \/ PersistRev(c)
  \/ Restart

ManagerSpec == ManagerInit /\ [][ManagerNext]_manager

ManagerTypeOK ==
  /\ masterGate \in BOOLEAN /\ enabled \in BOOLEAN /\ dbEnabled \in BOOLEAN
  /\ rev \in Nat /\ dbRev \in Nat /\ boots \in 0..MaxBoots
  /\ verdicts \in [Services -> VerdictSet]
  /\ behaviors \in [Services -> SUBSET Behaviors]
  /\ rules \in SUBSET Behaviors
  /\ call \in [Callers -> [pc : {"idle", "switch", "persist"}, on : BOOLEAN, rev : Nat]]
  /\ recorded \subseteq Services \X Behaviors

-----------------------------------------------------------------------------
Settled == \A c \in Callers : call[c].pc = "idle"

\* Extending the verdicts by one behavior at a time and compiling them anew give
\* the same, and no service gets what another one showed (RecordBehavior,
\* recomputeLocked).
VerdictsAreCompiled ==
  masterGate => \A s \in Services : verdicts[s] = CompileVerdicts(rules, behaviors[s])

\* As long as the process lives, a revision names one set of verdicts: they
\* change under the mutex, and the revision with them.
RevNamesVerdicts ==
  [][boots' = boots /\ masterGate /\ verdicts' # verdicts => rev' > rev]_manager

\* When no call runs, the switch in memory is the persisted one: "Runtime
\* switch - goodmanctl enforce on (persisted in the collector"
\* (docs/enforcement.md).
SwitchIsPersisted == Settled => enabled = (dbEnabled /\ masterGate)

\* What was recorded stays denied, so that "the second attempt inside a scoped
\* cgroup is denied by the kernel" (docs/enforcement.md).
RecordedStaysDenied ==
  \A r \in recorded : r[2] \in rules \cap Operation => r[2] \in verdicts[r[1]].deny
=============================================================================
