--------------------------- MODULE LearningProofs ---------------------------
(***************************************************************************)
(* The loop of mergeEvents, event by event, gives what DriftPipeline takes *)
(* in one step: for every window, every set of behaviors and timestamps,   *)
(* and groups of any number of events in any order.                        *)
(***************************************************************************)
EXTENDS Learning, FoldProofs, SequenceTheorems

Stats == [Behaviors -> [count : Nat, first : Nat, last : Nat]]

KnownBehaviors == {b \in Behaviors : Known(b)}

-----------------------------------------------------------------------------
(* Counts that add up.                                                     *)

\* How many events the statistics st of behaviors S account for.
CountSum(st, S) == MapThenSumSet(LAMBDA b : st[b].count, S)

\* One more behavior, in the form the folds take.
Counts(st) == [p \in Behaviors \X Nat |-> st[p[1]].count + p[2]]

\* F is the sum over each subset of S.
Sums(st, S, F) ==
  /\ CountSum(st, S) = F[S]
  /\ \A s \in SUBSET S : F[s] \in Nat /\ \A x \in s : F[s] = st[x].count + F[s \ {x}]

\* The sum over a finite set is the fold of Counts.
LEMMA SumIsFold ==
  ASSUME NEW st \in Stats, NEW S \in SUBSET Behaviors, IsFiniteSet(S),
         NEW F, IsFold(F, S, 0, Counts(st))
  PROVE  Sums(st, S, F)
<1>0. \A x \in Behaviors : st[x].count \in Nat
  BY DEF Stats
<1>1. \A x \in Behaviors, r \in Nat :
        Counts(st)[<<x, r>>] = st[x].count + r /\ st[x].count + r \in Nat
  BY <1>0 DEF Counts
<1>2. Commutes(Counts(st), Behaviors, Nat)
  <2>1. Counts(st) \in [Behaviors \X Nat -> Nat]
    BY <1>0 DEF Counts
  <2>2. ASSUME NEW x \in Behaviors, NEW y \in Behaviors, NEW r \in Nat
        PROVE  Counts(st)[<<x, Counts(st)[<<y, r>>]>>] = Counts(st)[<<y, Counts(st)[<<x, r>>]>>]
    BY <1>0, <1>1
  <2> QED BY <2>1, <2>2 DEF Commutes
<1>3. TakesAny(F, S, Nat, Counts(st))
  <2>1. 0 \in Nat
    OBVIOUS
  <2> QED BY <1>2, <2>1, FoldTakes
<1>4. ASSUME NEW s \in SUBSET S
      PROVE  F[s] \in Nat /\ \A x \in s : F[s] = st[x].count + F[s \ {x}]
  <2>1. \A x \in s : s \ {x} \in SUBSET S /\ F[s \ {x}] \in Nat /\ x \in Behaviors
    BY <1>3 DEF TakesAny
  <2> QED BY <1>1, <1>3, <2>1 DEF TakesAny
<1>5. F = [s \in SUBSET S |-> IF s = {} THEN 0 ELSE st[First(s)].count + F[s \ {First(s)}]]
  <2>1. F = [s \in SUBSET S |-> IF s = {} THEN 0 ELSE Counts(st)[<<First(s), F[s \ {First(s)}]>>]]
    BY DEF IsFold
  <2>2. ASSUME NEW s \in SUBSET S, s # {}
        PROVE  F[s] = st[First(s)].count + F[s \ {First(s)}]
    <3>1. First(s) \in s
      BY <2>2 DEF First
    <3> QED BY <1>4, <3>1
  <2>3. F[{}] = 0
    BY <2>1
  <2> DEFINE E == [s \in SUBSET S |-> IF s = {} THEN 0
                                     ELSE st[First(s)].count + F[s \ {First(s)}]]
  <2>4. \A s \in SUBSET S : F[s] = E[s]
    BY <2>2, <2>3
  <2>5. F = [s \in SUBSET S |-> F[s]]
    BY <2>1
  <2>6. E = [s \in SUBSET S |-> E[s]]
    OBVIOUS
  <2> HIDE DEF E
  <2>7. F = E
    BY <2>4, <2>5, <2>6
  <2> QED BY <2>7 DEF E
<1> DEFINE Q(it) == it = [s \in SUBSET S |-> IF s = {} THEN 0
                                            ELSE st[First(s)].count + it[s \ {First(s)}]]
           H == CHOOSE it : Q(it)
<1>6. CountSum(st, S) = H[S]
  BY DEF CountSum, MapThenSumSet, MapThenFoldSet, First
<1>7. Q(H)
  <2>1. Q(F)
    BY <1>5
  <2> HIDE DEF Q
  <2> QED BY <2>1
<1>8. H[S] = F[S]
  <2>1. H[{}] = 0 /\ F[{}] = 0
    BY <1>5, <1>7
  <2>2. \A s \in SUBSET S : s # {} =>
          /\ H[s] = st[First(s)].count + H[s \ {First(s)}]
          /\ F[s] = st[First(s)].count + F[s \ {First(s)}]
    BY <1>5, <1>7
  <2> HIDE DEF H, Q
  <2>3. \A s \in SUBSET S : F[s] = H[s]
    BY <2>1, <2>2, FoldsAgree
  <2> QED BY <2>3
<1> QED BY <1>4, <1>6, <1>8 DEF Sums

\* It is a number, none of no behavior, and any behavior adds its count.
LEMMA SumTakes ==
  ASSUME NEW st \in Stats, NEW S \in SUBSET Behaviors, IsFiniteSet(S)
  PROVE  /\ CountSum(st, {}) = 0
         /\ CountSum(st, S) \in Nat
         /\ \A x \in S : CountSum(st, S) = st[x].count + CountSum(st, S \ {x})
<1>1. PICK F : IsFold(F, S, 0, Counts(st))
  BY FoldExists
<1>2. \A T \in SUBSET S : CountSum(st, T) = F[T]
  <2> SUFFICES ASSUME NEW T \in SUBSET S PROVE CountSum(st, T) = F[T]
    OBVIOUS
  <2>1. IsFiniteSet(T) /\ T \in SUBSET Behaviors
    BY FS_Subset
  <2>2. PICK H : IsFold(H, T, 0, Counts(st))
    BY <2>1, FoldExists
  <2>3. CountSum(st, T) = H[T]
    BY <2>1, <2>2, SumIsFold DEF Sums
  <2>4. F[T] = H[T]
    BY <1>1, <2>2, FoldsMeet
  <2> QED BY <2>3, <2>4
<1>3. Sums(st, S, F)
  BY <1>1, SumIsFold
<1>4. F[{}] = 0
  BY <1>1 DEF IsFold
<1>5. F[S] \in Nat /\ \A x \in S : F[S] = st[x].count + F[S \ {x}]
  BY <1>3 DEF Sums
<1> QED BY <1>2, <1>4, <1>5

\* Statistics with the same counts have the same sum.
LEMMA SumOfSame ==
  ASSUME NEW st \in Stats, NEW ut \in Stats, NEW S \in SUBSET Behaviors, IsFiniteSet(S),
         \A x \in S : ut[x].count = st[x].count
  PROVE  CountSum(ut, S) = CountSum(st, S)
<1>1. PICK F : IsFold(F, S, 0, Counts(st))
  BY FoldExists
<1>2. PICK G : IsFold(G, S, 0, Counts(ut))
  BY FoldExists
<1>3. Sums(st, S, F) /\ Sums(ut, S, G)
  BY <1>1, <1>2, SumIsFold
<1>4. F[{}] = G[{}]
  BY <1>1, <1>2 DEF IsFold
<1>5. ASSUME NEW s \in SUBSET S, s # {}, F[s \ {First(s)}] = G[s \ {First(s)}]
      PROVE  F[s] = G[s]
  <2>1. First(s) \in s /\ First(s) \in S
    BY <1>5 DEF First
  <2>2. F[s] = st[First(s)].count + F[s \ {First(s)}]
    BY <1>3, <2>1 DEF Sums
  <2>3. G[s] = ut[First(s)].count + G[s \ {First(s)}]
    BY <1>3, <2>1 DEF Sums
  <2> QED BY <1>5, <2>1, <2>2, <2>3
<1>6. \A s \in SUBSET S : s # {} /\ F[s \ {First(s)}] = G[s \ {First(s)}] => F[s] = G[s]
  BY <1>5
<1>7. \A s \in SUBSET S : F[s] = G[s]
  BY <1>4, <1>6, FoldsAgree
<1>8. F[S] = G[S]
  BY <1>7
<1> QED BY <1>3, <1>8 DEF Sums

\* One more event counts one.
LEMMA OneMore ==
  ASSUME NEW st \in Stats, NEW ut \in Stats, NEW S \in SUBSET Behaviors, IsFiniteSet(S),
         NEW x \in Behaviors, x \notin S => st[x].count = 0,
         ut[x].count = st[x].count + 1,
         \A y \in S \ {x} : ut[y].count = st[y].count
  PROVE  /\ IsFiniteSet(S \cup {x})
         /\ CountSum(ut, S \cup {x}) = CountSum(st, S) + 1
<1> DEFINE R == S \ {x}
<1>1. /\ IsFiniteSet(S \cup {x}) /\ S \cup {x} \in SUBSET Behaviors
      /\ (S \cup {x}) \ {x} = R
      /\ IsFiniteSet(R) /\ R \in SUBSET Behaviors
  BY FS_AddElement, FS_RemoveElement
<1>2. CountSum(ut, S \cup {x}) = ut[x].count + CountSum(ut, R)
  <2>1. x \in S \cup {x}
    OBVIOUS
  <2> HIDE DEF R
  <2> QED BY <1>1, <2>1, SumTakes
<1>3. CountSum(ut, R) = CountSum(st, R) /\ CountSum(st, R) \in Nat
  <2>1. \A y \in R : ut[y].count = st[y].count
    OBVIOUS
  <2> HIDE DEF R
  <2> QED BY <1>1, <2>1, SumOfSame, SumTakes
<1>4. CountSum(st, S) = st[x].count + CountSum(st, R)
  <2>1. CASE x \in S
    BY <2>1, SumTakes
  <2>2. CASE x \notin S
    <3>1. R = S /\ st[x].count = 0
      BY <2>2
    <3> HIDE DEF R
    <3> QED BY <1>3, <3>1
  <2> QED BY <2>1, <2>2
<1>5. st[x].count \in Nat
  BY DEF Stats
<1> HIDE DEF R
<1> QED BY <1>1, <1>2, <1>3, <1>4, <1>5

-----------------------------------------------------------------------------
(* What a group adds up to.                                                *)

ShownBy(es) == {es[i].behavior : i \in 1..Len(es)}
TimesOf(es) == {es[i].time : i \in 1..Len(es)}

\* g is what the events es add up to.
AddsUpTo(es, g) ==
  /\ g.behaviors = ShownBy(es) /\ g.count = Len(es)
  /\ g.first \in TimesOf(es) /\ \A t \in TimesOf(es) : g.first <= t
  /\ g.last \in TimesOf(es) /\ \A t \in TimesOf(es) : t <= g.last

\* The times of events are numbers.
LEMMA TimesAreNumbers ==
  ASSUME NEW es \in Seq(Event)
  PROVE  TimesOf(es) \subseteq Nat
<1>1. \A i \in 1..Len(es) : es[i] \in Event
  BY ElementOfSeq
<1>2. \A e \in Event : e.time \in Nat
  BY LearningAssumption DEF Event
<1> QED BY <1>1, <1>2 DEF TimesOf

\* Then it is the group of the events.
LEMMA GroupIsUnique ==
  ASSUME NEW es \in Seq(Event), NEW g \in Group, AddsUpTo(es, g)
  PROVE  g = GroupOf(es)
<1>1. TimesOf(es) \subseteq Nat
  BY TimesAreNumbers
<1>2. Min(TimesOf(es)) = g.first
  <2>1. \A x \in TimesOf(es) : (\A t \in TimesOf(es) : x =< t) => x = g.first
    BY <1>1 DEF AddsUpTo, Group
  <2> QED BY <2>1 DEF AddsUpTo, Min
<1>3. Max(TimesOf(es)) = g.last
  <2>1. \A x \in TimesOf(es) : (\A t \in TimesOf(es) : x >= t) => x = g.last
    BY <1>1 DEF AddsUpTo, Group
  <2>2. \A t \in TimesOf(es) : g.last >= t
    BY <1>1 DEF AddsUpTo, Group
  <2> QED BY <2>1, <2>2 DEF AddsUpTo, Max
<1>4. GroupOf(es) = [behaviors |-> ShownBy(es), count |-> Len(es),
                     first |-> Min(TimesOf(es)), last |-> Max(TimesOf(es))]
  BY DEF GroupOf, ShownBy, TimesOf
<1>5. g = [behaviors |-> g.behaviors, count |-> g.count, first |-> g.first, last |-> g.last]
  BY DEF Group
<1> QED BY <1>2, <1>3, <1>4, <1>5 DEF AddsUpTo

\* The group of one event, and of one event more.
OfOne(e) == [behaviors |-> {e.behavior}, count |-> 1, first |-> e.time, last |-> e.time]
With(g, e) == [behaviors |-> g.behaviors \cup {e.behavior}, count |-> g.count + 1,
               first |-> Earlier(g.first, e.time), last |-> Later(g.last, e.time)]

\* One event is a group, and with one more event a group stays one.
LEMMA EventTypes ==
  ASSUME NEW e \in Event
  PROVE  /\ e.behavior \in Behaviors /\ e.time \in Nat \ {0}
         /\ OfOne(e) \in Group
         /\ \A g \in Group : With(g, e) \in Group
<1>1. e.behavior \in Behaviors /\ e.time \in Nat \ {0}
  BY LearningAssumption DEF Event
<1>2. OfOne(e) \in Group
  BY <1>1 DEF OfOne, Group
<1>3. ASSUME NEW g \in Group PROVE With(g, e) \in Group
  BY <1>1 DEF With, Group, Earlier, Later
<1> QED BY <1>1, <1>2, <1>3

\* The behaviors and times of one event more.
LEMMA AppendShows ==
  ASSUME NEW es \in Seq(Event), NEW e \in Event
  PROVE  /\ Append(es, e) \in Seq(Event) /\ Len(Append(es, e)) = Len(es) + 1
         /\ ShownBy(Append(es, e)) = ShownBy(es) \cup {e.behavior}
         /\ TimesOf(Append(es, e)) = TimesOf(es) \cup {e.time}
<1>1. /\ Append(es, e) \in Seq(Event) /\ Len(Append(es, e)) = Len(es) + 1
      /\ \A i \in 1..Len(es) : Append(es, e)[i] = es[i]
      /\ Append(es, e)[Len(es) + 1] = e
  BY AppendProperties
<1>2. 1..(Len(es) + 1) = (1..Len(es)) \cup {Len(es) + 1}
  OBVIOUS
<1> QED BY <1>1, <1>2 DEF ShownBy, TimesOf

\* The first event adds up to a group of one.
LEMMA OneAddsUp ==
  ASSUME NEW es \in Seq(Event), es = <<>>, NEW e \in Event
  PROVE  AddsUpTo(Append(es, e), OfOne(e))
<1>1. ShownBy(es) = {} /\ TimesOf(es) = {} /\ Len(es) = 0
  BY DEF ShownBy, TimesOf
<1> DEFINE fs == Append(es, e)
           g == OfOne(e)
<1>2. /\ Len(fs) = Len(es) + 1
      /\ ShownBy(fs) = ShownBy(es) \cup {e.behavior} /\ TimesOf(fs) = TimesOf(es) \cup {e.time}
  BY AppendShows
<1>3. ShownBy(fs) = {e.behavior} /\ Len(fs) = 1 /\ \A t : t \in TimesOf(fs) <=> t = e.time
  BY <1>1, <1>2
<1>4. g.behaviors = {e.behavior} /\ g.count = 1 /\ g.first = e.time /\ g.last = e.time
  BY DEF OfOne
<1>5. e.time <= e.time
  BY EventTypes
<1> HIDE DEF fs, g
<1>6. g.behaviors = ShownBy(fs)
  BY <1>3, <1>4, Zenon
<1>7. AddsUpTo(fs, g)
  BY <1>3, <1>4, <1>5, <1>6 DEF AddsUpTo
<1> QED BY <1>7 DEF fs, g

\* With one more event a sequence adds up to its group with that event.
LEMMA OneMoreAddsUp ==
  ASSUME NEW es \in Seq(Event), NEW e \in Event, NEW g \in Group, AddsUpTo(es, g)
  PROVE  AddsUpTo(Append(es, e), With(g, e))
<1>1. TimesOf(es) \subseteq Nat /\ e.time \in Nat
  BY EventTypes, TimesAreNumbers
<1>2. /\ Earlier(g.first, e.time) \in TimesOf(es) \cup {e.time}
      /\ \A t \in TimesOf(es) \cup {e.time} : Earlier(g.first, e.time) <= t
  BY <1>1 DEF AddsUpTo, Earlier, Group
<1>3. /\ Later(g.last, e.time) \in TimesOf(es) \cup {e.time}
      /\ \A t \in TimesOf(es) \cup {e.time} : t <= Later(g.last, e.time)
  BY <1>1 DEF AddsUpTo, Later, Group
<1> QED BY <1>2, <1>3, AppendShows DEF AddsUpTo, With

-----------------------------------------------------------------------------
(* Types.                                                                  *)

\* The fields of the fingerprint make a row.
LEMMA TheRowType ==
  ASSUME TypeOK
  PROVE  TheRow \in Row
<1>1. KnownBehaviors \in SUBSET Behaviors
  BY DEF KnownBehaviors
<1> QED BY <1>1 DEF TheRow, TypeOK, Row, Origins, KnownBehaviors

\* The statistics after one more event: its own is touched, and no other.
LEMMA TouchedStats ==
  ASSUME TypeOK, NEW e \in Event, MergeEvent(e)
  PROVE  /\ stats \in Stats /\ stats' \in Stats
         /\ stats'[e.behavior].count = stats[e.behavior].count + 1
         /\ stats'[e.behavior].first =
              (IF stats[e.behavior].count = 0 THEN e.time ELSE stats[e.behavior].first)
         /\ stats'[e.behavior].last = Later(stats[e.behavior].last, e.time)
         /\ \A b \in Behaviors : b # e.behavior => stats'[b] = stats[b]
<1>1. stats \in Stats /\ e.behavior \in Behaviors /\ e.time \in Nat
  BY EventTypes DEF TypeOK, Stats
<1>2. Touched(stats[e.behavior], e) \in [count : Nat, first : Nat, last : Nat]
  BY <1>1 DEF Touched, Later, Stats
<1>3. stats' = [stats EXCEPT ![e.behavior] = Touched(stats[e.behavior], e)]
  BY DEF MergeEvent
<1> QED BY <1>1, <1>2, <1>3 DEF Stats, Touched

\* Types, for every bound.
THEOREM LearningTypes == Spec => []TypeOK
<1>1. Init => TypeOK
  <2>1. NoRow \in Row /\ NoStat \in [count : Nat, first : Nat, last : Nat]
    BY DEF NoRow, Row, Origins, NoStat
  <2>2. <<>> \in Seq(Event) /\ <<>> \in Seq(Behaviors) /\ 0 \in 0..MaxGroups
    BY LearningAssumption
  <2> SUFFICES ASSUME Init PROVE TypeOK
    OBVIOUS
  <2>3. stats \in [Behaviors -> [count : Nat, first : Nat, last : Nat]]
    BY <2>1 DEF Init
  <2>4. events \in Seq(Event) /\ fresh \in Seq(Behaviors)
    BY <2>2 DEF Init
  <2>5. baseline \in BOOLEAN /\ promoted \in BOOLEAN /\ merging \in BOOLEAN
    BY DEF Init
  <2>6. obs \in Nat /\ first \in Nat /\ last \in Nat /\ groups \in 0..MaxGroups /\ before \in Row
    BY <2>1, <2>2 DEF Init
  <2> QED BY <2>3, <2>4, <2>5, <2>6 DEF TypeOK
<1>2. TypeOK /\ [Next]_vars => TypeOK'
  <2> SUFFICES ASSUME TypeOK, [Next]_vars PROVE TypeOK'
    OBVIOUS
  <2>1. CASE BeginGroup
    <3>1. groups' \in 0..MaxGroups
      BY <2>1, LearningAssumption DEF BeginGroup, TypeOK
    <3>2. before' \in Row
      BY <2>1, TheRowType DEF BeginGroup
    <3>3. events' \in Seq(Event) /\ fresh' \in Seq(Behaviors)
      BY <2>1 DEF BeginGroup
    <3> QED BY <2>1, <3>1, <3>2, <3>3 DEF BeginGroup, TypeOK
  <2>2. ASSUME NEW e \in Event, MergeEvent(e) PROVE TypeOK'
    <3>1. stats' \in Stats
      BY <2>2, TouchedStats
    <3>2. e.time \in Nat /\ e.behavior \in Behaviors
      BY EventTypes
    <3>3. events' \in Seq(Event) /\ fresh' \in Seq(Behaviors)
      BY <2>2, <3>2, AppendProperties DEF MergeEvent, TypeOK
    <3>4. obs' \in Nat /\ first' \in Nat /\ last' \in Nat
      BY <2>2, <3>2 DEF MergeEvent, TypeOK, FirstOf, Later
    <3> QED BY <2>2, <3>1, <3>3, <3>4 DEF MergeEvent, TypeOK, Stats
  <2>3. CASE EndGroup
    BY <2>3 DEF EndGroup, TypeOK, Qualifies
  <2>4. CASE UNCHANGED vars
    BY <2>4 DEF vars, TypeOK
  <2> QED BY <2>1, <2>2, <2>3, <2>4 DEF Next
<1> QED BY <1>1, <1>2, PTL DEF Spec

-----------------------------------------------------------------------------
(* The statistics.                                                         *)

\* What StatsAddUp says, with a behavior for the least and the greatest time; a row
\* has a first time when it knows a behavior, and no latest one before.
StatsInv ==
  /\ IsFiniteSet(KnownBehaviors)
  /\ CountSum(stats, KnownBehaviors) = obs
  /\ first = 0 <=> KnownBehaviors = {}
  /\ KnownBehaviors = {} => last = 0
  /\ \A b \in Behaviors : stats[b].last <= last
  /\ \A b \in KnownBehaviors : first <= stats[b].first
  /\ KnownBehaviors # {} =>
       /\ \E b \in KnownBehaviors : stats[b].last = last
       /\ \E b \in KnownBehaviors : \A c \in KnownBehaviors : stats[b].first <= stats[c].first

\* An event makes its behavior known, and no other.
LEMMA KnownGrows ==
  ASSUME TypeOK, NEW e \in Event, MergeEvent(e)
  PROVE  KnownBehaviors' = KnownBehaviors \cup {e.behavior}
<1>1. /\ stats'[e.behavior].count > 0 /\ e.behavior \in Behaviors
      /\ \A b \in Behaviors : b # e.behavior => stats'[b] = stats[b]
  BY TouchedStats, EventTypes DEF Stats
<1> QED BY <1>1 DEF KnownBehaviors, Known

\* One more event leaves statistics that add up (mergeEvents).
LEMMA StatsInvStep ==
  ASSUME TypeOK, StatsInv, NEW e \in Event, MergeEvent(e)
  PROVE  StatsInv'
<1> DEFINE x == e.behavior
           S == KnownBehaviors
           t == e.time
<1>1. /\ stats \in Stats /\ stats' \in Stats
      /\ stats'[x].count = stats[x].count + 1
      /\ stats'[x].first = (IF stats[x].count = 0 THEN t ELSE stats[x].first)
      /\ stats'[x].last = Later(stats[x].last, t)
      /\ \A b \in Behaviors : b # x => stats'[b] = stats[b]
  BY TouchedStats
<1>2. S \in SUBSET Behaviors /\ x \in Behaviors /\ t \in Nat \ {0}
  BY EventTypes DEF KnownBehaviors
<1>3. x \in S <=> stats[x].count # 0
  BY <1>1, <1>2 DEF KnownBehaviors, Known, Stats
<1>4. S' = S \cup {x}
  BY KnownGrows
<1>5. obs' = obs + 1 /\ last' = Later(last, t) /\ first' = FirstOf(e)
  BY DEF MergeEvent
<1>6. /\ first \in Nat /\ last \in Nat
      /\ \A b \in Behaviors : stats[b].first \in Nat /\ stats[b].last \in Nat
  BY <1>1 DEF TypeOK, Stats
<1> HIDE DEF x, S, t
<1>7. IsFiniteSet(S') /\ CountSum(stats', S') = obs'
  <2>1. \A y \in S \ {x} : stats'[y].count = stats[y].count
    BY <1>1, <1>2
  <2>2. x \notin S => stats[x].count = 0
    BY <1>3
  <2>3. IsFiniteSet(S) /\ CountSum(stats, S) = obs
    BY DEF StatsInv, S
  <2>4. IsFiniteSet(S \cup {x}) /\ CountSum(stats', S \cup {x}) = CountSum(stats, S) + 1
    BY <1>1, <1>2, <2>1, <2>2, <2>3, OneMore
  <2> QED BY <1>4, <1>5, <2>3, <2>4
<1>8. /\ first' # 0 /\ first' <= t /\ S' # {}
      /\ S # {} => first' <= first
  BY <1>2, <1>4, <1>5, <1>6 DEF FirstOf, StatsInv, S, t
<1>9. \A b \in Behaviors : stats'[b].last <= last'
  BY <1>1, <1>2, <1>5, <1>6 DEF StatsInv, Later
<1>10. \A b \in S' : first' <= stats'[b].first
  <2>1. ASSUME NEW b \in S', b # x PROVE first' <= stats'[b].first
    <3>1. b \in S /\ stats'[b] = stats[b] /\ first <= stats[b].first /\ b \in Behaviors
      BY <1>1, <1>2, <1>4, <2>1 DEF StatsInv, S
    <3>2. first' <= first /\ first' \in Nat
      BY <1>2, <1>5, <1>6, <1>8, <3>1 DEF FirstOf, t
    <3> QED BY <1>6, <3>1, <3>2
  <2>2. first' <= stats'[x].first
    <3>1. CASE x \in S
      <4>1. first <= stats[x].first /\ stats'[x].first = stats[x].first
        BY <1>1, <1>3, <3>1 DEF StatsInv, S
      <4>2. first' <= first /\ first' \in Nat
        BY <1>2, <1>5, <1>6, <1>8, <3>1 DEF FirstOf, t
      <4> QED BY <1>2, <1>6, <4>1, <4>2
    <3>2. CASE x \notin S
      BY <1>1, <1>3, <1>8, <3>2
    <3> QED BY <3>1, <3>2
  <2> QED BY <2>1, <2>2
<1>11. \E b \in S' : stats'[b].last = last'
  <2>1. CASE last < t
    <3>1. stats[x].last <= last
      BY <1>2 DEF StatsInv
    <3>2. stats'[x].last = t /\ last' = t
      BY <1>1, <1>2, <1>5, <1>6, <2>1, <3>1 DEF Later
    <3> QED BY <1>4, <3>2
  <2>2. CASE ~(last < t)
    <3>1. last' = last /\ S # {}
      BY <1>2, <1>5, <2>2 DEF Later, StatsInv, S, t
    <3>2. PICK b \in S : stats[b].last = last
      BY <3>1 DEF StatsInv, S
    <3>3. stats'[b].last = last
      BY <1>1, <1>2, <2>2, <3>2 DEF Later
    <3> QED BY <1>4, <3>1, <3>3
  <2> QED BY <2>1, <2>2
<1>12. \E b \in S' : \A c \in S' : stats'[b].first <= stats'[c].first
  <2>1. CASE S = {}
    <3>1. S' = {x} /\ stats'[x].first = t
      BY <1>1, <1>3, <1>4, <2>1
    <3> QED BY <1>2, <3>1
  <2>2. CASE S # {}
    <3>1. PICK b \in S : \A c \in S : stats[b].first <= stats[c].first
      BY <2>2 DEF StatsInv, S
    <3>2. \A c \in S : stats'[c].first = stats[c].first
      BY <1>1, <1>2, <1>3
    <3>3. CASE stats[b].first <= stats'[x].first
      BY <1>4, <3>1, <3>2, <3>3
    <3>4. CASE ~(stats[b].first <= stats'[x].first)
      <4>1. stats'[x].first \in Nat /\ stats[b].first \in Nat /\ \A c \in S : stats[c].first \in Nat
        BY <1>1, <1>2 DEF Stats
      <4>2. \A c \in S : stats'[x].first <= stats'[c].first
        BY <3>1, <3>2, <3>4, <4>1
      <4> QED BY <1>4, <4>1, <4>2
    <3> QED BY <3>3, <3>4
  <2> QED BY <2>1, <2>2
<1> QED BY <1>7, <1>8, <1>9, <1>10, <1>11, <1>12 DEF StatsInv, S

\* However many behaviors and events there are, the statistics account for them.
LEMMA StatsInvariant == Spec => []StatsInv
<1>1. Init => StatsInv
  <2> SUFFICES ASSUME Init PROVE StatsInv
    OBVIOUS
  <2>1. stats = [b \in Behaviors |-> NoStat] /\ NoStat \in [count : Nat, first : Nat, last : Nat]
    BY DEF Init, NoStat
  <2>2. stats \in Stats /\ KnownBehaviors = {} /\ \A b \in Behaviors : stats[b].last = 0
    BY <2>1 DEF Stats, KnownBehaviors, Known, NoStat
  <2>3. IsFiniteSet({}) /\ CountSum(stats, {}) = 0
    BY <2>2, FS_EmptySet, SumTakes
  <2> QED BY <2>2, <2>3 DEF Init, StatsInv
<1>2. TypeOK /\ StatsInv /\ [Next]_vars => StatsInv'
  <2>1. ASSUME StatsInv, UNCHANGED <<stats, obs, first, last>> PROVE StatsInv'
    BY <2>1 DEF StatsInv, KnownBehaviors, Known
  <2>2. BeginGroup \/ EndGroup \/ UNCHANGED vars => UNCHANGED <<stats, obs, first, last>>
    BY DEF BeginGroup, EndGroup, vars
  <2> QED BY <2>1, <2>2, StatsInvStep DEF Next
<1> QED BY <1>1, <1>2, LearningTypes, PTL DEF Spec

\* That is what StatsAddUp says.
LEMMA StatsInvSays ==
  ASSUME TypeOK, StatsInv
  PROVE  StatsAddUp
<1> DEFINE S == KnownBehaviors
           F == {stats[b].first : b \in S}
           L == {stats[b].last : b \in S}
<1>1. MapThenSumSet(LAMBDA b : stats[b].count, S) = obs
  BY DEF StatsInv, CountSum
<1>2. ASSUME S # {} PROVE first <= Min(F) /\ last = Max(L)
  <2>0. S \in SUBSET Behaviors /\ \A b \in Behaviors : stats[b].first \in Nat /\ stats[b].last \in Nat
    BY DEF KnownBehaviors, TypeOK
  <2>1. /\ \E m \in F : \A y \in F : m =< y
        /\ \A m \in F : first <= m
    BY <1>2 DEF StatsInv
  <2>2. /\ last \in L /\ \A y \in L : last >= y
        /\ \A m \in L : (\A y \in L : m >= y) => m = last
    <3>1. last \in L /\ \A y \in L : y <= last
      BY <1>2, <2>0 DEF StatsInv
    <3>2. last \in Nat /\ L \subseteq Nat
      BY <2>0 DEF TypeOK
    <3> HIDE DEF L
    <3> QED BY <3>1, <3>2
  <2> HIDE DEF F, L
  <2> QED BY <2>1, <2>2 DEF Min, Max
<1> QED BY <1>1, <1>2 DEF StatsAddUp, KnownBehaviors

-----------------------------------------------------------------------------
(* The loop.                                                               *)

\* The row holds what row has, but for its baseline mark and its origin.
SameObservations(row) ==
  /\ KnownBehaviors = row.behaviors /\ obs = row.obs
  /\ first = row.first /\ last = row.last

\* While the loop runs, and until the next group, the row is the one the group found
\* with what the events so far add up to.
RowSoFar ==
  /\ events = <<>> => SameObservations(before)
  /\ events # <<>> => \E g \in Group :
       AddsUpTo(events, g) /\ SameObservations(MergeGroup(before, g))

\* Each behavior the group was first to show is reported once.
FreshSoFar ==
  /\ {fresh[i] : i \in 1..Len(fresh)} = ShownBy(events) \ before.behaviors
  /\ \A i, j \in 1..Len(fresh) : fresh[i] = fresh[j] => i = j

\* Where the loop stands: what it leaves alone, and what its end has done.
Stands ==
  /\ merging => groups > 0 /\ baseline = before.baseline
  /\ groups > 0 => before.origin = IF groups = 1 THEN "none" ELSE "local"
  /\ ~merging /\ groups > 0 =>
       /\ events # <<>>
       /\ promoted = (~before.baseline /\ Qualifies(TheRow))
       /\ baseline = (before.baseline \/ Qualifies(TheRow))

LoopInv == groups > 0 => RowSoFar /\ FreshSoFar /\ Stands

\* The row as the group found it has what the row has.
LEMMA BeginIsEmpty ==
  ASSUME TypeOK, LoopInv, BeginGroup
  PROVE  LoopInv'
<1>1. /\ before' = TheRow /\ events' = <<>> /\ fresh' = <<>> /\ merging' = TRUE
      /\ groups' = groups + 1 /\ groups \in Nat /\ ~merging
      /\ UNCHANGED <<stats, obs, first, last, baseline>>
  BY LearningAssumption DEF BeginGroup, TypeOK
<1>2. RowSoFar'
  BY <1>1 DEF RowSoFar, SameObservations, KnownBehaviors, Known, TheRow
<1>3. FreshSoFar'
  <2>1. Len(fresh') = 0 /\ ShownBy(events') = {}
    BY <1>1 DEF ShownBy
  <2> QED BY <2>1 DEF FreshSoFar
<1>4. Stands'
  BY <1>1 DEF Stands, TheRow
<1> QED BY <1>2, <1>3, <1>4 DEF LoopInv

\* One event more, on the row and in the sum.
LEMMA MergesOneMore ==
  ASSUME TypeOK, groups > 0, RowSoFar, NEW e \in Event, MergeEvent(e)
  PROVE  RowSoFar'
<1>0. /\ before' = before /\ events' = Append(events, e) /\ events' # <<>>
      /\ obs' = obs + 1 /\ last' = Later(last, e.time) /\ first' = FirstOf(e)
      /\ KnownBehaviors' = KnownBehaviors \cup {e.behavior}
      /\ events \in Seq(Event)
  <2>1. events \in Seq(Event) /\ events' = Append(events, e)
    BY DEF MergeEvent, TypeOK
  <2>2. events' # <<>>
    BY <2>1, AppendProperties
  <2> QED BY <2>1, <2>2, KnownGrows DEF MergeEvent
<1>1. /\ before \in Row /\ e.time \in Nat \ {0}
      /\ before.obs \in Nat /\ before.first \in Nat /\ before.last \in Nat
  BY EventTypes DEF TypeOK, Row
<1>2. SUFFICES \E g \in Group : AddsUpTo(events', g) /\ SameObservations(MergeGroup(before, g))'
  BY <1>0 DEF RowSoFar
<1>3. CASE events = <<>>
  <2> DEFINE g == OfOne(e)
  <2>1. g \in Group /\ AddsUpTo(events', g)
    BY <1>0, <1>3, EventTypes, OneAddsUp
  <2>2. SameObservations(before)
    BY <1>3 DEF RowSoFar
  <2>3. /\ g.behaviors = {e.behavior} /\ g.count = 1 /\ g.first = e.time /\ g.last = e.time
    BY DEF OfOne
  <2> HIDE DEF g
  <2>4. SameObservations(MergeGroup(before, g))'
    BY <1>0, <1>1, <2>2, <2>3 DEF SameObservations, MergeGroup, Earlier, FirstOf
  <2> QED BY <2>1, <2>4
<1>4. CASE events # <<>>
  <2>1. PICK h \in Group : AddsUpTo(events, h) /\ SameObservations(MergeGroup(before, h))
    BY <1>4 DEF RowSoFar
  <2> DEFINE g == With(h, e)
  <2>2. g \in Group /\ AddsUpTo(events', g)
    BY <1>0, <2>1, EventTypes, OneMoreAddsUp
  <2>3. /\ g.behaviors = h.behaviors \cup {e.behavior} /\ g.count = h.count + 1
        /\ g.first = Earlier(h.first, e.time) /\ g.last = Later(h.last, e.time)
    BY DEF With
  <2>4. h.count \in Nat /\ h.first \in Nat \ {0} /\ h.last \in Nat \ {0}
    BY DEF Group
  <2> HIDE DEF g
  <2>5. /\ KnownBehaviors = before.behaviors \cup h.behaviors /\ obs = before.obs + h.count
        /\ first = (IF before.first = 0 THEN h.first ELSE Earlier(before.first, h.first))
        /\ last = Later(before.last, h.last)
    BY <2>1 DEF SameObservations, MergeGroup
  <2>6. KnownBehaviors' = before.behaviors \cup g.behaviors
    BY <1>0, <2>3, <2>5
  <2>7. obs' = before.obs + g.count
    <3>1. obs' = obs + 1 /\ obs = before.obs + h.count /\ g.count = h.count + 1
      BY <1>0, <2>3, <2>5
    <3> QED BY <1>1, <2>4, <3>1
  <2>8. first' = (IF before.first = 0 THEN g.first ELSE Earlier(before.first, g.first))
    <3>1. first' = (IF first = 0 THEN e.time ELSE Earlier(first, e.time))
      <4>1. first' = (IF first = 0 \/ e.time < first THEN e.time ELSE first)
        BY <1>0 DEF FirstOf
      <4>2. first \in Nat /\ e.time \in Nat
        BY <1>1 DEF TypeOK
      <4> QED BY <4>1, <4>2 DEF Earlier
    <3>2. g.first = Earlier(h.first, e.time)
      BY <2>3
    <3>3. first = (IF before.first = 0 THEN h.first ELSE Earlier(before.first, h.first))
      BY <2>5
    <3>4. CASE before.first = 0
      <4>1. first # 0
        BY <2>4, <3>3, <3>4
      <4> QED BY <3>1, <3>2, <3>3, <3>4, <4>1
    <3>5. CASE before.first # 0
      <4>1. first = Earlier(before.first, h.first) /\ first # 0
        BY <1>1, <2>4, <3>3, <3>5 DEF Earlier
      <4>2. first' = Earlier(Earlier(before.first, h.first), e.time)
        BY <3>1, <4>1
      <4>3. Earlier(Earlier(before.first, h.first), e.time)
              = Earlier(before.first, Earlier(h.first, e.time))
        BY <1>1, <2>4 DEF Earlier
      <4> QED BY <3>2, <3>5, <4>2, <4>3
    <3> QED BY <3>4, <3>5
  <2>9. last' = Later(before.last, g.last)
    BY <1>0, <1>1, <2>3, <2>4, <2>5 DEF Later
  <2>10. SameObservations(MergeGroup(before, g))'
    BY <1>0, <2>6, <2>7, <2>8, <2>9 DEF SameObservations, MergeGroup
  <2> QED BY <2>2, <2>10
<1> QED BY <1>3, <1>4

\* A behavior is fresh when neither the row nor the group so far has shown it.
LEMMA ReportsOneMore ==
  ASSUME TypeOK, groups > 0, RowSoFar, FreshSoFar, NEW e \in Event, MergeEvent(e)
  PROVE  FreshSoFar'
<1>0. /\ events \in Seq(Event) /\ fresh \in Seq(Behaviors)
      /\ events' = Append(events, e) /\ before' = before /\ e.behavior \in Behaviors
      /\ fresh' = (IF Known(e.behavior) THEN fresh ELSE Append(fresh, e.behavior))
  BY EventTypes DEF MergeEvent, TypeOK, IsFresh
<1>1. ShownBy(events') = ShownBy(events) \cup {e.behavior}
  BY <1>0, AppendShows
<1>2. KnownBehaviors = before.behaviors \cup ShownBy(events)
  <2>1. events = <<>> => ShownBy(events) = {}
    BY DEF ShownBy
  <2>2. ASSUME NEW g \in Group, AddsUpTo(events, g), SameObservations(MergeGroup(before, g))
        PROVE  KnownBehaviors = before.behaviors \cup ShownBy(events)
    BY <2>2 DEF AddsUpTo, SameObservations, MergeGroup
  <2> QED BY <2>1, <2>2 DEF RowSoFar, SameObservations
<1>3. Known(e.behavior) <=> e.behavior \in before.behaviors \cup ShownBy(events)
  BY <1>0, <1>2 DEF KnownBehaviors
<1>4. CASE Known(e.behavior)
  BY <1>0, <1>1, <1>3, <1>4 DEF FreshSoFar
<1>5. CASE ~Known(e.behavior)
  <2> DEFINE fs == Append(fresh, e.behavior)
  <2>1. /\ Len(fs) = Len(fresh) + 1 /\ Len(fresh) \in Nat
        /\ \A i \in 1..Len(fresh) : fs[i] = fresh[i]
        /\ fs[Len(fresh) + 1] = e.behavior
    BY <1>0, AppendProperties, LenProperties
  <2>2. e.behavior \notin {fresh[i] : i \in 1..Len(fresh)}
    BY <1>3, <1>5 DEF FreshSoFar
  <2> HIDE DEF fs
  <2>3. {fs[i] : i \in 1..Len(fs)} = {fresh[i] : i \in 1..Len(fresh)} \cup {e.behavior}
    <3>1. 1..Len(fs) = (1..Len(fresh)) \cup {Len(fresh) + 1}
      BY <2>1
    <3> QED BY <2>1, <3>1
  <2>4. \A i, j \in 1..Len(fs) : fs[i] = fs[j] => i = j
    <3>1. \A i \in 1..Len(fs) : i \in 1..Len(fresh) \/ i = Len(fresh) + 1
      BY <2>1
    <3>2. \A i, j \in 1..Len(fresh) : fresh[i] = fresh[j] => i = j
      BY DEF FreshSoFar
    <3> QED BY <2>1, <2>2, <3>1, <3>2
  <2>5. fresh' = fs
    BY <1>0, <1>5 DEF fs
  <2> QED BY <1>0, <1>1, <1>3, <1>5, <2>3, <2>4, <2>5 DEF FreshSoFar
<1> QED BY <1>4, <1>5

\* The invariant of the loop.
LEMMA LoopInvariant == Spec => []LoopInv
<1>1. Init => LoopInv
  BY DEF Init, LoopInv
<1>2. TypeOK /\ LoopInv /\ [Next]_vars => LoopInv'
  <2> SUFFICES ASSUME TypeOK, LoopInv, [Next]_vars PROVE LoopInv'
    OBVIOUS
  <2>1. CASE BeginGroup
    BY <2>1, BeginIsEmpty
  <2>2. ASSUME NEW e \in Event, MergeEvent(e), groups > 0 PROVE LoopInv'
    <3>1. RowSoFar' /\ FreshSoFar'
      BY <2>2, MergesOneMore, ReportsOneMore DEF LoopInv
    <3>2. Stands'
      BY <2>2 DEF MergeEvent, LoopInv, Stands
    <3> QED BY <3>1, <3>2 DEF LoopInv
  <2>3. CASE EndGroup /\ groups > 0
    <3>1. RowSoFar' /\ FreshSoFar'
      BY <2>3 DEF EndGroup, LoopInv, RowSoFar, FreshSoFar, SameObservations, KnownBehaviors, Known
    <3>2. Stands'
      <4>1. Qualifies(TheRow)' <=> Qualifies(TheRow)
        BY <2>3 DEF EndGroup, Qualifies, TheRow
      <4>2. baseline \in BOOLEAN /\ merging /\ baseline = before.baseline
        BY <2>3 DEF EndGroup, LoopInv, Stands, TypeOK
      <4>3. promoted' = (~baseline /\ Qualifies(TheRow)) /\ baseline' = (baseline \/ Qualifies(TheRow))
        BY <2>3 DEF EndGroup
      <4> QED BY <2>3, <4>1, <4>2, <4>3 DEF EndGroup, LoopInv, Stands
    <3> QED BY <3>1, <3>2 DEF LoopInv
  <2>4. CASE UNCHANGED vars
    BY <2>4 DEF vars, LoopInv, RowSoFar, FreshSoFar, Stands, SameObservations, KnownBehaviors,
       Known, TheRow
  <2>5. CASE groups' = groups /\ ~(groups > 0)
    BY <2>5 DEF LoopInv
  <2>6. ~BeginGroup => groups' = groups
    BY DEF Next, MergeEvent, EndGroup, vars
  <2> QED BY <2>1, <2>2, <2>3, <2>4, <2>5, <2>6 DEF Next
<1> QED BY <1>1, <1>2, LearningTypes, PTL DEF Spec

\* At the end of a group the row is what the group makes of it.
LEMMA LoopInvSays ==
  ASSUME TypeOK, LoopInv, ~merging, groups > 0
  PROVE  /\ TheRow = Learn(before, GroupOf(events))
         /\ {fresh[i] : i \in 1..Len(fresh)} = Fresh(before, GroupOf(events))
         /\ \A i, j \in 1..Len(fresh) : fresh[i] = fresh[j] => i = j
         /\ promoted = JustPromoted(before, GroupOf(events))
<1>1. events # <<>> /\ events \in Seq(Event)
  BY DEF LoopInv, Stands, TypeOK
<1>2. PICK g \in Group : AddsUpTo(events, g) /\ SameObservations(MergeGroup(before, g))
  BY <1>1 DEF LoopInv, RowSoFar
<1>3. GroupOf(events) = g
  BY <1>1, <1>2, GroupIsUnique
<1> DEFINE m == MergeGroup(before, g)
<1>4. /\ KnownBehaviors = m.behaviors /\ obs = m.obs /\ first = m.first /\ last = m.last
      /\ m.baseline = before.baseline /\ m.origin = "local"
      /\ m = [behaviors |-> m.behaviors, obs |-> m.obs, first |-> m.first, last |-> m.last,
              baseline |-> m.baseline, origin |-> m.origin]
  BY <1>2 DEF SameObservations, MergeGroup, LoopInv, Stands
<1>5. /\ TheRow = [behaviors |-> KnownBehaviors, obs |-> obs, first |-> first, last |-> last,
                   baseline |-> baseline, origin |-> "local"]
  BY DEF TheRow, KnownBehaviors
<1>6. Qualifies(TheRow) <=> Qualifies(m)
  BY <1>4, <1>5 DEF Qualifies
<1>7. /\ promoted = (~before.baseline /\ Qualifies(TheRow))
      /\ baseline = (before.baseline \/ Qualifies(TheRow))
  BY DEF LoopInv, Stands
<1> HIDE DEF m
<1>8. TheRow = [m EXCEPT !.baseline = baseline]
  BY <1>4, <1>5
<1>9. TheRow = Learn(before, g)
  <2>1. baseline = (m.baseline \/ Qualifies(m))
    BY <1>4, <1>6, <1>7
  <2> QED BY <1>8, <2>1 DEF Learn, m
<1>10. promoted = JustPromoted(before, g)
  BY <1>6, <1>7 DEF JustPromoted, m
<1>11. {fresh[i] : i \in 1..Len(fresh)} = Fresh(before, g)
  BY <1>2 DEF LoopInv, FreshSoFar, Fresh, AddsUpTo
<1>12. \A i, j \in 1..Len(fresh) : fresh[i] = fresh[j] => i = j
  BY DEF LoopInv, FreshSoFar
<1> QED BY <1>3, <1>9, <1>10, <1>11, <1>12

\* mergeEvents takes a group as DriftPipeline does in one step: the row, the fresh
\* behaviors, each reported once, and the promotion do not depend on the order of
\* the events, and the statistics account for every one (mergeEvents, ingestGroup).
THEOREM LoopMerges == Spec => []LoopIsMerge
<1>1. TypeOK /\ StatsInv /\ LoopInv => LoopIsMerge
  BY StatsInvSays, LoopInvSays DEF LoopIsMerge
<1> QED BY <1>1, LearningTypes, StatsInvariant, LoopInvariant, PTL
=============================================================================
