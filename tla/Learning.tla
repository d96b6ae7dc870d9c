------------------------------ MODULE Learning ------------------------------
(***************************************************************************)
(* fingerprint.Engine.ingestGroup as it runs inside the transaction of one *)
(* row: the loop of mergeEvents takes the events of a group one by one,    *)
(* keeps a statistic per behavior, and the row is promoted at the end when *)
(* it qualifies.  DriftPipeline takes a whole group in one step, from what *)
(* the group adds up to; here the loop is shown to do just that.           *)
(***************************************************************************)
EXTENDS Fingerprints, FiniteSetsExt, Sequences

CONSTANTS
  Times,      \* timestamps of events
  MaxEvents,  \* bound on the events of a group
  MaxGroups   \* bound on the groups merged

ASSUME LearningAssumption ==
  /\ Times \subseteq Nat \ {0}
  /\ MaxEvents \in Nat \ {0}
  /\ MaxGroups \in Nat

VARIABLES
  stats,      \* fingerprint.Behaviors; a count of 0 stands for no entry
  obs, first, last, baseline,   \* the other fields of the fingerprint
  events,     \* events of the group merged so far
  fresh,      \* FreshBehaviors of the group, in order
  promoted,   \* JustPromoted
  merging,    \* the loop is running
  groups,     \* groups begun
  before      \* history, read by the property only: the row as the group found it

vars == <<stats, obs, first, last, baseline, events, fresh, promoted, merging,
          groups, before>>

Event == [behavior : Behaviors, time : Times]
NoStat == [count |-> 0, first |-> 0, last |-> 0]

Known(b) == stats[b].count > 0

\* The row as DriftPipeline has it.
TheRow ==
  [behaviors |-> {b \in Behaviors : Known(b)}, obs |-> obs, first |-> first,
   last |-> last, baseline |-> baseline,
   origin |-> IF groups = 0 \/ (groups = 1 /\ merging) THEN "none" ELSE "local"]

Init ==
  /\ stats = [b \in Behaviors |-> NoStat]
  /\ obs = 0 /\ first = 0 /\ last = 0 /\ baseline = FALSE
  /\ events = <<>> /\ fresh = <<>>
  /\ promoted = FALSE /\ merging = FALSE
  /\ groups = 0
  /\ before = NoRow

BeginGroup ==
  /\ ~merging /\ groups < MaxGroups
  /\ merging' = TRUE
  /\ groups' = groups + 1
  /\ events' = <<>> /\ fresh' = <<>> /\ promoted' = FALSE
  /\ before' = TheRow
  /\ UNCHANGED <<stats, obs, first, last, baseline>>

\* The statistic of a behavior after one more event that shows it.
Touched(stat, e) ==
  [count |-> stat.count + 1,
   first |-> IF stat.count = 0 THEN e.time ELSE stat.first,
   last  |-> Later(stat.last, e.time)]

\* Mutant: FirstSeen is the time of the first event that arrived.
FirstArrived(e) == IF first = 0 THEN e.time ELSE first

\* FirstSeen after event e.
FirstOf(e) == IF first = 0 \/ e.time < first THEN e.time ELSE first

IsFresh(b) == ~Known(b)

\* The loop body of mergeEvents.
MergeEvent(e) ==
  /\ merging /\ Len(events) < MaxEvents
  /\ events' = Append(events, e)
  /\ fresh' = IF IsFresh(e.behavior) THEN Append(fresh, e.behavior) ELSE fresh
  /\ stats' = [stats EXCEPT ![e.behavior] = Touched(@, e)]
  /\ obs' = obs + 1
  /\ last' = Later(last, e.time)
  /\ first' = FirstOf(e)
  /\ UNCHANGED <<baseline, promoted, merging, groups, before>>

\* The end of ingestGroup's callback; a group is never empty.
EndGroup ==
  /\ merging /\ events # <<>>
  /\ merging' = FALSE
  /\ promoted' = (~baseline /\ Qualifies(TheRow))
  /\ baseline' = (baseline \/ Qualifies(TheRow))
  /\ UNCHANGED <<stats, obs, first, last, events, fresh, groups, before>>

Next == BeginGroup \/ (\E e \in Event : MergeEvent(e)) \/ EndGroup

Spec == Init /\ [][Next]_vars

TypeOK ==
  /\ stats \in [Behaviors -> [count : Nat, first : Nat, last : Nat]]
  /\ obs \in Nat /\ first \in Nat /\ last \in Nat
  /\ events \in Seq(Event) /\ fresh \in Seq(Behaviors)
  /\ baseline \in BOOLEAN /\ promoted \in BOOLEAN /\ merging \in BOOLEAN
  /\ groups \in 0..MaxGroups
  /\ before \in Row

-----------------------------------------------------------------------------
\* What a nonempty group of events adds up to.
GroupOf(es) ==
  LET times == {es[i].time : i \in 1..Len(es)} IN
  [behaviors |-> {es[i].behavior : i \in 1..Len(es)}, count |-> Len(es),
   first |-> Min(times), last |-> Max(times)]

\* The statistics of the behaviors account for every event: their counts add up
\* to ObsCount, none began before FirstSeen, the latest ended at LastSeen.
StatsAddUp ==
  LET known == {b \in Behaviors : Known(b)} IN
  /\ MapThenSumSet(LAMBDA b : stats[b].count, known) = obs
  /\ known # {} => /\ first <= Min({stats[b].first : b \in known})
                   /\ last = Max({stats[b].last : b \in known})

\* The loop gives the row, the fresh behaviors, each reported once, and the
\* promotion that the group as a whole gives, in whatever order the events come,
\* with statistics that account for it (mergeEvents, ingestGroup).
LoopIsMerge ==
  /\ StatsAddUp
  /\ ~merging /\ groups > 0 =>
       LET g == GroupOf(events) IN
       /\ TheRow = Learn(before, g)
       /\ {fresh[i] : i \in 1..Len(fresh)} = Fresh(before, g)
       /\ \A i, j \in 1..Len(fresh) : fresh[i] = fresh[j] => i = j
       /\ promoted = JustPromoted(before, g)
=============================================================================
