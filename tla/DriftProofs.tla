----------------------------- MODULE DriftProofs ----------------------------
(***************************************************************************)
(* What DriftPipeline does to its two tables, for every value of its       *)
(* constants.                                                              *)
(*                                                                         *)
(* The fingerprints: the types; who writes whose memory; that rows grow,   *)
(* are promoted when they earned it and are not lost to imports; that an   *)
(* acknowledged batch is stored; that concurrent ingests converge.         *)
(*                                                                         *)
(* The alerts: the transactions of store.UpsertAlert, interleaved with     *)
(* each other, with operators, with the retention loop, with failures and  *)
(* crashes, amount to one atomic step of AlertBook per alert raised, and   *)
(* the create race needs at most one retry.  Blocked marks come from       *)
(* denies and drift alerts from drift; drift reaches its alert, alerts     *)
(* reach the notifier, and what is new to a subject is drift or alerted    *)
(* on.                                                                     *)
(***************************************************************************)
EXTENDS DriftProperties, FoldProofs, SequenceTheorems

\* There is a key and an alert identity to fill unused fields with.
LEMMA PlaceholderTypes ==
  /\ NoKey \in Keys
  /\ NoId \in AlertIds
<1>1. PICK s \in Subjects, v \in Versions : TRUE
  BY PipelineAssumption
<1>2. <<s, v>> \in Keys
  BY DEF Keys
<1>3. <<s, v, v>> \in AlertIds
  BY DEF AlertIds
<1>4. NoKey \in Keys
  BY <1>2 DEF NoKey
<1>5. NoId \in AlertIds
  BY <1>3 DEF NoId
<1> QED BY <1>4, <1>5

\* The empty values of the tables and of a handler's memory have their types.
LEMMA EmptyTypes ==
  /\ NoRow \in Row
  /\ NoAlert \in Alert
  /\ NoJob \in Job
<1>1. NoRow \in Row
  BY DEF NoRow, Row, Origins
<1>2. NoAlert \in Alert
  BY DEF NoAlert, Alert, Statuses
<1>3. NoJob \in Job
  BY <1>1, <1>2, PlaceholderTypes DEF NoJob, Job, PCs, MaxAttempts
<1> QED BY <1>1, <1>2, <1>3

\* Merging a group into a row gives a row, and reports behaviors.
LEMMA LearnType ==
  ASSUME NEW row \in Row, NEW g \in Group
  PROVE  /\ Learn(row, g) \in Row
         /\ Fresh(row, g) \in SUBSET Behaviors
         /\ JustPromoted(row, g) \in BOOLEAN
<1>1. MergeGroup(row, g) \in Row
  BY DEF MergeGroup, Row, Group, Later, Earlier, Origins
<1>2. Qualifies(MergeGroup(row, g)) \in BOOLEAN
  BY DEF Qualifies
<1>3. Learn(row, g) \in Row
  BY <1>1, <1>2 DEF Learn, Row
<1>4. Fresh(row, g) \in SUBSET Behaviors
  BY DEF Fresh, Group
<1>5. JustPromoted(row, g) \in BOOLEAN
  BY DEF JustPromoted, Row
<1> QED BY <1>3, <1>4, <1>5

\* Raising and merging alerts gives alerts.
LEMMA AlertTypes ==
  /\ \A B \in SUBSET Behaviors : NewAlert(B) \in Alert
  /\ \A a, b \in Alert : MergeIntoAlert(a, b) \in Alert
<1>1. \A B \in SUBSET Behaviors : NewAlert(B) \in Alert
  BY DEF NewAlert, Alert, Statuses
<1>2. \A a, b \in Alert : MergeIntoAlert(a, b) \in Alert
  BY DEF MergeIntoAlert, Alert, Statuses
<1> QED BY <1>1, <1>2

\* The groups and denies of a batch have their types.
LEMMA BatchTypes ==
  ASSUME NEW b \in Batches \cup {NoBatch}
  PROVE  /\ DOMAIN b.groups \in SUBSET Keys
         /\ \A k \in DOMAIN b.groups : b.groups[k] \in Group
         /\ b.denied \in Seq(Subjects \X Behaviors)
<1>1. CASE b \in Batches
  BY <1>1, PipelineAssumption DEF IsBatch
<1>2. CASE b = NoBatch
  BY <1>2 DEF NoBatch
<1> QED BY <1>1, <1>2

\* RecordBehavior keeps the type of what the replicas track.
LEMMA TrackType ==
  ASSUME NEW h \in Handlers, NEW s \in Subjects, NEW B \in SUBSET Behaviors,
         tracked \in [Replicas -> SUBSET (Subjects \X Behaviors)], Track(h, s, B)
  PROVE  tracked' \in [Replicas -> SUBSET (Subjects \X Behaviors)]
<1>1. ReplicaOf[h] \in Replicas
  BY PipelineAssumption
<1>2. {s} \X (B \cap BlockRule) \in SUBSET (Subjects \X Behaviors)
  OBVIOUS
<1> QED BY <1>1, <1>2 DEF Track

\* The places of a handler's program and the attempts it counts.
LEMMA PlaceTypes ==
  /\ {"idle", "work", "mergeTx", "upsert", "upsertTx", "deny", "record"} \subseteq PCs
  /\ 0 \in 0..MaxAttempts /\ 1 \in 0..MaxAttempts
  /\ \A n \in 0..MaxAttempts : n # MaxAttempts => n + 1 \in 0..MaxAttempts
BY DEF PCs, MaxAttempts

\* A handler whose memory changes to something of its type keeps the type of all.
LEMMA JobType ==
  ASSUME job \in [Handlers -> Job], NEW h \in Handlers, NEW j \in Job,
         job' = [job EXCEPT ![h] = j]
  PROVE  job' \in [Handlers -> Job]
OBVIOUS

\* What a handler still has to merge are groups of its batch, and the group it is
\* merging is one of them.  TypeOK is inductive only together with this: the group
\* CommitMerge looks up in the batch must be there.
MergesItsBatch ==
  \A h \in Handlers :
    /\ job[h].todo \subseteq DOMAIN job[h].batch.groups
    /\ job[h].pc = "mergeTx" => job[h].key \in job[h].todo

TypeInv == TypeOK /\ MergesItsBatch

\* The group a handler is merging is a group, and the row it writes a row.
LEMMA MergingType ==
  ASSUME TypeInv, NEW h \in Handlers, job[h].pc = "mergeTx"
  PROVE  /\ job[h].key \in Keys /\ job[h].read \in Row
         /\ job[h].batch.groups[job[h].key] \in Group
         /\ Learn(job[h].read, job[h].batch.groups[job[h].key]) \in Row
<1>1. job[h].key \in Keys /\ job[h].read \in Row /\ job[h].batch \in Batches \cup {NoBatch}
  BY DEF TypeInv, TypeOK, Job
<1>2. job[h].key \in DOMAIN job[h].batch.groups
  BY DEF TypeInv, MergesItsBatch
<1>3. job[h].batch.groups[job[h].key] \in Group
  BY <1>1, <1>2, BatchTypes
<1>4. Learn(job[h].read, job[h].batch.groups[job[h].key]) \in Row
  BY <1>1, <1>3, LearnType
<1> QED BY <1>1, <1>3, <1>4

\* CommitMerge keeps the types: the row it writes is a row, the update it appends
\* is an update.
LEMMA CommitMergeType ==
  ASSUME TypeInv, NEW h \in Handlers, CommitMerge(h)
  PROVE  TypeOK'
<1> DEFINE k == job[h].key
           g == job[h].batch.groups[k]
           row == Learn(job[h].read, g)
           update == [key |-> k, fresh |-> Fresh(job[h].read, g), baseline |-> row.baseline,
                      promoted |-> JustPromoted(job[h].read, g)]
<1> USE DEF TypeInv
<1>1. job[h].pc = "mergeTx"
  BY DEF CommitMerge
<1>2. k \in Keys /\ job[h].read \in Row /\ g \in Group /\ row \in Row
  BY <1>1, MergingType
<1>3. Fresh(job[h].read, g) \in SUBSET Behaviors /\ JustPromoted(job[h].read, g) \in BOOLEAN
  BY <1>2, LearnType
<1>4. update \in Update
  BY <1>2, <1>3 DEF Update, Row
<1>5. Append(job[h].updates, update) \in Seq(Update)
  BY <1>4 DEF TypeOK, Job
<1>6. job' \in [Handlers -> Job]
  <2> HIDE DEF update
  <2>1. job' = [job EXCEPT ![h].pc = "work", ![h].todo = @ \ {k},
                           ![h].read = NoRow, ![h].key = NoKey,
                           ![h].updates = Append(@, update)]
    BY DEF CommitMerge, update
  <2>2. job[h] \in Job /\ job \in [Handlers -> Job]
    BY DEF TypeOK
  <2>3. job[h].todo \ {k} \in SUBSET Keys
    BY <2>2 DEF Job
  <2> DEFINE j == [job[h] EXCEPT !.pc = "work", !.todo = @ \ {k}, !.read = NoRow,
                                 !.key = NoKey, !.updates = Append(@, update)]
  <2>4. j \in Job
    BY <2>2, <2>3, <1>5, EmptyTypes, PlaceholderTypes, PlaceTypes DEF Job
  <2>5. job' = [job EXCEPT ![h] = j]
    BY <2>1, <2>2
  <2> QED BY <2>2, <2>4, <2>5, JobType
<1>7. Written(k, row) \in Row
  BY <1>2 DEF Written, Row, TypeOK
<1>8. fps' \in [Keys -> Row]
  BY <1>2, <1>7 DEF CommitMerge, TypeOK
<1>9. g.behaviors \in SUBSET Behaviors
  BY <1>2 DEF Group
<1>10. learned' \in [Keys -> SUBSET Behaviors]
  BY <1>2, <1>9 DEF CommitMerge, TypeOK
<1>11. drift' \subseteq Keys \X Behaviors
  BY <1>2, <1>9 DEF CommitMerge, TypeOK, Fresh
<1>12. novel' \subseteq Subjects \X Behaviors
  <2>1. k[1] \in Subjects
    BY <1>2 DEF Keys
  <2>2. Unseen(k[1], g.behaviors) \in SUBSET Behaviors
    BY <1>9 DEF Unseen
  <2>3. novel' \subseteq novel \cup ({k[1]} \X Unseen(k[1], g.behaviors))
    BY DEF CommitMerge
  <2> QED BY <2>1, <2>2, <2>3 DEF TypeOK
<1> QED BY <1>6, <1>8, <1>10, <1>11, <1>12 DEF CommitMerge, TypeOK

\* The first update a handler has left is an update; so is each of the others.
LEMMA HeadUpdate ==
  ASSUME TypeOK, NEW h \in Handlers, job[h].updates # <<>>
  PROVE  Head(job[h].updates) \in Update /\ Tail(job[h].updates) \in Seq(Update)
BY HeadTailProperties DEF TypeOK, Job

\* The same for its denies.
LEMMA HeadDeny ==
  ASSUME TypeOK, NEW h \in Handlers, job[h].denials # <<>>
  PROVE  /\ Head(job[h].denials) \in Subjects \X Behaviors
         /\ Tail(job[h].denials) \in Seq(Subjects \X Behaviors)
BY HeadTailProperties DEF TypeOK, Job

\* Emit hands UpsertAlert an alert.
LEMMA EmitType ==
  ASSUME TypeOK, NEW h \in Handlers, job[h].updates # <<>>,
         NEW id \in AlertIds, NEW B \in SUBSET Behaviors, Emit(h, id, B)
  PROVE  job' \in [Handlers -> Job]
<1>1. Tail(job[h].updates) \in Seq(Update)
  BY HeadUpdate
<1>2. NewAlert(B) \in Alert
  BY AlertTypes
<1> DEFINE j == [job[h] EXCEPT !.updates = Tail(@), !.pc = "upsert", !.id = id,
                               !.alert = NewAlert(B), !.attempts = 1]
<1>3. job[h] \in Job /\ job \in [Handlers -> Job]
  BY DEF TypeOK
<1>4. j \in Job
  BY <1>1, <1>2, <1>3, PlaceTypes DEF Job
<1>5. job' = [job EXCEPT ![h] = j]
  BY <1>3 DEF Emit
<1> QED BY <1>3, <1>4, <1>5, JobType

\* A handler that raises nothing only drops the update.
LEMMA NoAlertType ==
  ASSUME TypeOK, NEW h \in Handlers, job[h].updates # <<>>, NoAlertFor(h)
  PROVE  job' \in [Handlers -> Job]
<1> DEFINE j == [job[h] EXCEPT !.updates = Tail(@)]
<1>1. job[h] \in Job /\ job \in [Handlers -> Job] /\ Tail(job[h].updates) \in Seq(Update)
  BY HeadUpdate DEF TypeOK
<1>2. j \in Job
  BY <1>1 DEF Job
<1>3. job' = [job EXCEPT ![h] = j]
  BY <1>1 DEF NoAlertFor
<1> QED BY <1>1, <1>2, <1>3, JobType

\* React keeps the types, whichever trigger it pulls.
LEMMA ReactType ==
  ASSUME TypeOK, NEW h \in Handlers, React(h)
  PROVE  TypeOK'
<1> DEFINE u == Head(job[h].updates)
<1>1. job[h].updates # <<>>
  BY DEF React, Reacting
<1>2. u \in Update /\ Tail(job[h].updates) \in Seq(Update)
  BY <1>1, HeadUpdate
<1>3. u.key \in Keys /\ u.fresh \in SUBSET Behaviors
  BY <1>2 DEF Update
<1>4. u.key[1] \in Subjects /\ u.key[2] \in Versions
  BY <1>3 DEF Keys
<1>5. NoAlertFor(h) => job' \in [Handlers -> Job]
  BY <1>1, NoAlertType
<1>6. BaselineDrift(h, u) => job' \in [Handlers -> Job]
  <2>1. <<u.key[1], u.key[2], u.key[2]>> \in AlertIds
    BY <1>4 DEF AlertIds
  <2> QED BY <2>1, <1>1, <1>3, EmitType DEF BaselineDrift
<1>7. VersionDrift(h, u) => job' \in [Handlers -> Job]
  <2> SUFFICES ASSUME NEW base \in LatestBaselines(u.key[1], u.key[2]),
                      LET new == u.fresh \ fps[<<u.key[1], base>>].behaviors IN
                      IF new = {} THEN NoAlertFor(h) ELSE Emit(h, <<u.key[1], base, u.key[2]>>, new)
               PROVE  job' \in [Handlers -> Job]
    BY DEF VersionDrift
  <2>1. <<u.key[1], base, u.key[2]>> \in AlertIds
    BY <1>4 DEF AlertIds, LatestBaselines, Baselines
  <2>2. (u.fresh \ fps[<<u.key[1], base>>].behaviors) \in SUBSET Behaviors
    BY <1>3
  <2> QED BY <2>1, <2>2, <1>1, <1>5, EmitType
<1>8. FirstSighting(h, u) => job' \in [Handlers -> Job]
  <2>1. <<u.key[1], NoVersion, u.key[2]>> \in AlertIds
    BY <1>4 DEF AlertIds
  <2>2. (u.fresh \cap AlwaysOn) \in SUBSET Behaviors
    BY <1>3
  <2> QED BY <2>1, <2>2, <1>1, <1>5, EmitType DEF FirstSighting
<1>9. job' \in [Handlers -> Job]
  BY <1>5, <1>6, <1>7, <1>8 DEF React
<1>10. tracked' \in [Replicas -> SUBSET (Subjects \X Behaviors)]
  BY <1>3, <1>4, TrackType DEF React, TypeOK
<1> QED BY <1>9, <1>10 DEF React, TypeOK, history

\* ReactDenied keeps the types.
LEMMA ReactDeniedType ==
  ASSUME TypeOK, NEW h \in Handlers, ReactDenied(h)
  PROVE  TypeOK'
<1> DEFINE d == Head(job[h].denials)
<1>1. d \in Subjects \X Behaviors /\ Tail(job[h].denials) \in Seq(Subjects \X Behaviors)
  BY HeadDeny DEF ReactDenied, Denying
<1>2. tracked' \in [Replicas -> SUBSET (Subjects \X Behaviors)]
  <2>1. d[1] \in Subjects /\ {d[2]} \in SUBSET Behaviors
    BY <1>1
  <2> QED BY <2>1, TrackType DEF ReactDenied, TypeOK
<1>3. ASSUME job' = [job EXCEPT ![h].denials = Tail(@)]
      PROVE  job' \in [Handlers -> Job]
  <2> DEFINE j == [job[h] EXCEPT !.denials = Tail(@)]
  <2>1. job[h] \in Job /\ job \in [Handlers -> Job]
    BY DEF TypeOK
  <2>2. j \in Job
    BY <2>1, <1>1 DEF Job
  <2>3. job' = [job EXCEPT ![h] = j]
    BY <2>1, <1>3
  <2> QED BY <2>1, <2>2, <2>3, JobType
<1>4. ASSUME NEW id \in Unblocked(d[1], d[2]),
             job' = [job EXCEPT ![h].denials = Tail(@), ![h].pc = "deny", ![h].id = id]
      PROVE  job' \in [Handlers -> Job]
  <2>1. id \in AlertIds
    BY DEF Unblocked
  <2> DEFINE j == [job[h] EXCEPT !.denials = Tail(@), !.pc = "deny", !.id = id]
  <2>2. job[h] \in Job /\ job \in [Handlers -> Job]
    BY DEF TypeOK
  <2>3. j \in Job
    BY <2>1, <2>2, <1>1, PlaceTypes DEF Job
  <2>4. job' = [job EXCEPT ![h] = j]
    BY <2>2, <1>4
  <2> QED BY <2>2, <2>3, <2>4, JobType
<1>5. job' \in [Handlers -> Job]
  BY <1>3, <1>4 DEF ReactDenied
<1> QED BY <1>2, <1>5 DEF ReactDenied, TypeOK, history

\* One more failure keeps the count in its bound.
LEMMA FaultType ==
  ASSUME TypeOK
  PROVE  /\ \A kind \in {"store", "timeout", "crash"} : Fault(kind) => faults' \in 0..MaxFaults
         /\ \A h \in Handlers : StatementFails(h) => faults' \in 0..MaxFaults
BY PipelineAssumption DEF Fault, StatementFails, TypeOK

\* Failures keep the types.
LEMMA FailureType ==
  ASSUME TypeOK, Failure
  PROVE  TypeOK'
<1>1. ASSUME NEW h \in Handlers, IngestFails(h) PROVE TypeOK'
  BY <1>1, EmptyTypes, FaultType DEF IngestFails, Ended, TypeOK, history
<1>2. ASSUME NEW h \in Handlers, CompareFails(h) PROVE TypeOK'
  <2> DEFINE u == Head(job[h].updates)
  <2>1. u \in Update /\ Tail(job[h].updates) \in Seq(Update)
    BY <1>2, HeadUpdate DEF CompareFails, Reacting
  <2>2. u.key[1] \in Subjects /\ u.fresh \in SUBSET Behaviors
    BY <2>1 DEF Update, Keys
  <2>3. job' \in [Handlers -> Job]
    BY <1>2, NoAlertType DEF CompareFails, Reacting
  <2>4. tracked' \in [Replicas -> SUBSET (Subjects \X Behaviors)]
    BY <1>2, <2>2, TrackType DEF CompareFails, TypeOK
  <2> QED BY <1>2, <2>3, <2>4, FaultType DEF CompareFails, TypeOK, history
<1>3. ASSUME NEW h \in Handlers, FindFails(h) PROVE TypeOK'
  <2> DEFINE d == Head(job[h].denials)
  <2>1. d \in Subjects \X Behaviors /\ Tail(job[h].denials) \in Seq(Subjects \X Behaviors)
    BY <1>3, HeadDeny DEF FindFails, Denying
  <2>2. d[1] \in Subjects /\ {d[2]} \in SUBSET Behaviors
    BY <2>1
  <2>3. job' \in [Handlers -> Job]
    <3> DEFINE j == [job[h] EXCEPT !.denials = Tail(@)]
    <3>1. job[h] \in Job /\ job \in [Handlers -> Job]
      BY DEF TypeOK
    <3>2. j \in Job
      BY <3>1, <2>1 DEF Job
    <3>3. job' = [job EXCEPT ![h] = j]
      BY <3>1, <1>3 DEF FindFails
    <3> QED BY <3>1, <3>2, <3>3, JobType
  <2>4. tracked' \in [Replicas -> SUBSET (Subjects \X Behaviors)]
    BY <1>3, <2>2, TrackType DEF FindFails, TypeOK
  <2> QED BY <1>3, <2>3, <2>4, FaultType DEF FindFails, TypeOK, history
<1>4. ASSUME NEW h \in Handlers, AlertFails(h) PROVE TypeOK'
  <2>1. job' \in [Handlers -> Job]
    <3> DEFINE j == [job[h] EXCEPT !.pc = "work", !.id = NoId, !.alert = NoAlert,
                                   !.holds = FALSE, !.attempts = 0]
    <3>1. job[h] \in Job /\ job \in [Handlers -> Job]
      BY DEF TypeOK
    <3>2. j \in Job
      BY <3>1, EmptyTypes, PlaceholderTypes, PlaceTypes DEF Job
    <3>3. job' = [job EXCEPT ![h] = j]
      BY <3>1, <1>4 DEF AlertFails
    <3> QED BY <3>1, <3>2, <3>3, JobType
  <2> QED BY <1>4, <2>1, FaultType DEF AlertFails, TypeOK, history
<1>5. ASSUME NEW h \in Handlers, ClientTimeout(h) PROVE TypeOK'
  BY <1>5, FaultType DEF ClientTimeout, TypeOK, history
<1>6. ASSUME NEW r \in Replicas, Crash(r) PROVE TypeOK'
  BY <1>6, EmptyTypes, FaultType DEF Crash, Ended, TypeOK, history
<1> QED BY <1>1, <1>2, <1>3, <1>4, <1>5, <1>6 DEF Failure

\* Operators and the retention loop keep the types.
LEMMA OperatorType ==
  ASSUME TypeOK, OperatorStep
  PROVE  TypeOK'
<1>1. ASSUME NEW id \in AlertIds, NEW status \in {"acknowledged", "resolved"},
             SetAlertStatus(id, status)
      PROVE  TypeOK'
  <2>1. alerts' \in [AlertIds -> Alert]
    BY <1>1 DEF SetAlertStatus, TypeOK, Alert, Statuses
  <2> QED BY <1>1, <2>1 DEF SetAlertStatus, TypeOK, history
<1>2. ASSUME AgeAlerts PROVE TypeOK'
  <2>1. \A id \in AlertIds : [alerts[id] EXCEPT !.aged = Exists(alerts[id])] \in Alert
    BY DEF TypeOK, Alert, Exists
  <2>2. alerts' \in [AlertIds -> Alert]
    BY <1>2, <2>1 DEF AgeAlerts
  <2> QED BY <1>2, <2>2 DEF AgeAlerts, TypeOK, history
<1>3. ASSUME PruneResolvedAlerts PROVE TypeOK'
  <2>1. alerts' \in [AlertIds -> Alert]
    BY <1>3, EmptyTypes DEF PruneResolvedAlerts, TypeOK
  <2> QED BY <1>3, <2>1 DEF PruneResolvedAlerts, TypeOK, history
<1>4. ASSUME NEW e \in Imports, BeginImport(e) PROVE TypeOK'
  <2>1. e \in Import
    BY PipelineAssumption
  <2>2. Outcome(e, fps[e.key]) \in Outcomes
    BY DEF Outcome, Outcomes
  <2>3. imp.count + 1 \in 0..MaxImports
    BY <1>4, PipelineAssumption DEF BeginImport, TypeOK
  <2>4. imp' \in [pc : {"idle", "write"}, entry : Import, outcome : Outcomes,
                  kept : BOOLEAN, count : 0..MaxImports]
    BY <1>4, <2>1, <2>2, <2>3 DEF BeginImport
  <2> QED BY <1>4, <2>4 DEF BeginImport, TypeOK, history
<1>5. ASSUME CommitImport PROVE TypeOK'
  <2>1. imp.entry.key \in Keys /\ imp.entry.row \in Row
    BY DEF TypeOK, Import
  <2>2. [imp.entry.row EXCEPT !.baseline = TRUE, !.origin = "imported"] \in Row
    BY <2>1 DEF Row, Origins
  <2>3. fps' \in [Keys -> Row]
    BY <1>5, <2>1, <2>2 DEF CommitImport, TypeOK
  <2>4. imp' \in [pc : {"idle", "write"}, entry : Import, outcome : Outcomes,
                  kept : BOOLEAN, count : 0..MaxImports]
    BY <1>5 DEF CommitImport, TypeOK
  <2> QED BY <1>5, <2>3, <2>4 DEF CommitImport, TypeOK, history
<1> QED BY <1>1, <1>2, <1>3, <1>4, <1>5 DEF OperatorStep

\* The steps a handler takes once its merges are done, and what they leave alone.
AfterMerge(h) ==
  \/ React(h) \/ CompareFails(h)
  \/ BeginUpsert(h) \/ CommitUpsert(h) \/ RetryUpsert(h) \/ RecordAlert(h)
  \/ ReactDenied(h) \/ FindFails(h) \/ BlockAlert(h) \/ AlertFails(h)

SameMerge(g) ==
  /\ job'[g].batch = job[g].batch /\ job'[g].todo = job[g].todo
  /\ job'[g].key = job[g].key /\ job'[g].read = job[g].read
  /\ job'[g].pc = "mergeTx" <=> job[g].pc = "mergeTx"

\* No merge of any handler is touched by what follows the merges of another.
LEMMA AfterMergeFrame ==
  ASSUME TypeOK, NEW h \in Handlers, AfterMerge(h), NEW g \in Handlers
  PROVE  SameMerge(g)
<1>1. job[h] \in Job /\ job \in [Handlers -> Job]
  BY DEF TypeOK
<1>2. ASSUME job[h].pc = "work", NoAlertFor(h) PROVE SameMerge(g)
  BY <1>1, <1>2 DEF NoAlertFor, SameMerge, Job
<1>3. ASSUME job[h].pc = "work", NEW id, NEW B, Emit(h, id, B) PROVE SameMerge(g)
  BY <1>1, <1>3 DEF Emit, SameMerge, Job
<1>4. CASE React(h)
  <2>1. job[h].pc = "work"
    BY <1>4 DEF React, Reacting
  <2>2. NoAlertFor(h) \/ \E id, B : Emit(h, id, B)
    BY <1>4 DEF React, BaselineDrift, VersionDrift, FirstSighting
  <2> QED BY <2>1, <2>2, <1>2, <1>3
<1>5. CASE CompareFails(h)
  BY <1>2, <1>5 DEF CompareFails, Reacting
<1>6. CASE BeginUpsert(h)
  BY <1>1, <1>6 DEF BeginUpsert, SameMerge, Job
<1>7. CASE CommitUpsert(h)
  BY <1>1, <1>7 DEF CommitUpsert, SameMerge, Job
<1>8. CASE RetryUpsert(h)
  BY <1>1, <1>8 DEF RetryUpsert, SameMerge, Job
<1>9. CASE RecordAlert(h)
  BY <1>1, <1>9 DEF RecordAlert, SameMerge, Job
<1>10. CASE ReactDenied(h)
  <2>1. job[h].pc = "work"
    BY <1>10 DEF ReactDenied, Denying
  <2>2. ASSUME job' = [job EXCEPT ![h].denials = Tail(@)] PROVE SameMerge(g)
    BY <1>1, <2>1, <2>2 DEF SameMerge, Job
  <2>3. ASSUME NEW id, job' = [job EXCEPT ![h].denials = Tail(@), ![h].pc = "deny", ![h].id = id]
        PROVE  SameMerge(g)
    BY <1>1, <2>1, <2>3 DEF SameMerge, Job
  <2> QED BY <1>10, <2>2, <2>3 DEF ReactDenied
<1>11. CASE FindFails(h)
  BY <1>1, <1>11 DEF FindFails, Denying, SameMerge, Job
<1>12. CASE BlockAlert(h)
  BY <1>1, <1>12 DEF BlockAlert, SameMerge, Job
<1>13. CASE AlertFails(h)
  BY <1>1, <1>13 DEF AlertFails, SameMerge, Job
<1> QED BY <1>4, <1>5, <1>6, <1>7, <1>8, <1>9, <1>10, <1>11, <1>12, <1>13 DEF AfterMerge

\* No step makes a handler merge what is not in its batch.
LEMMA MergesItsBatchStep == TypeInv /\ [Next]_vars => MergesItsBatch'
<1> SUFFICES ASSUME TypeInv, [Next]_vars, NEW g \in Handlers
             PROVE  /\ job'[g].todo \subseteq DOMAIN job'[g].batch.groups
                    /\ job'[g].pc = "mergeTx" => job'[g].key \in job'[g].todo
  BY DEF MergesItsBatch
<1> DEFINE P(j) == /\ j.todo \subseteq DOMAIN j.batch.groups
                   /\ j.pc = "mergeTx" => j.key \in j.todo
<1>1. P(job[g]) /\ job[g] \in Job /\ job \in [Handlers -> Job]
  BY DEF TypeInv, TypeOK, MergesItsBatch
<1>2. P(NoJob)
  BY DEF NoJob
<1>3. ASSUME NEW h \in Handlers, NEW b \in Batches, Deliver(h, b) PROVE P(job'[g])
  BY <1>1, <1>3 DEF Deliver, NoJob
<1>4. ASSUME NEW h \in Handlers, NEW k \in Keys, BeginMerge(h, k) PROVE P(job'[g])
  BY <1>1, <1>4 DEF BeginMerge, Job
<1>5. ASSUME NEW h \in Handlers, CommitMerge(h) PROVE P(job'[g])
  BY <1>1, <1>5 DEF CommitMerge, Job
<1>6. ASSUME SameMerge(g) PROVE P(job'[g])
  BY <1>1, <1>6 DEF SameMerge
<1>7. ASSUME NEW h \in Handlers, AfterMerge(h) PROVE P(job'[g])
  BY <1>6, <1>7, AfterMergeFrame DEF TypeInv
<1>9. ASSUME NEW H \in SUBSET Handlers, Ended(H) PROVE P(job'[g])
  BY <1>1, <1>2, <1>9 DEF Ended
<1>10. ASSUME NEW h \in Handlers, Respond(h) \/ IngestFails(h) PROVE P(job'[g])
  BY <1>9, <1>10 DEF Respond, IngestFails
<1>12. ASSUME NEW r \in Replicas, Crash(r) PROVE P(job'[g])
  BY <1>9, <1>12 DEF Crash
<1>13. ASSUME UNCHANGED job PROVE P(job'[g])
  BY <1>1, <1>13
<1>14. OperatorStep => UNCHANGED job
  BY DEF OperatorStep, SetAlertStatus, AgeAlerts, PruneResolvedAlerts, BeginImport, CommitImport
<1>15. \A h \in Handlers : ClientTimeout(h) => UNCHANGED job
  BY DEF ClientTimeout
<1>16. P(job'[g])
  BY <1>3, <1>4, <1>5, <1>7, <1>10, <1>12, <1>13, <1>14, <1>15
     DEF Next, HandlerStep, Failure, AfterMerge, vars
<1> QED BY <1>16

\* The invariant that makes the types inductive.
THEOREM TypeInvariant == Spec => []TypeInv
<1>1. Init => TypeInv
  <2> SUFFICES ASSUME Init PROVE TypeInv
    OBVIOUS
  <2>1. imp \in [pc : {"idle", "write"}, entry : Import, outcome : Outcomes,
                 kept : BOOLEAN, count : 0..MaxImports]
    BY PlaceholderTypes, EmptyTypes, PipelineAssumption DEF Init, NoImport, Import, Outcomes
  <2>2. TypeOK
    BY <2>1, EmptyTypes, PipelineAssumption DEF Init, TypeOK
  <2>3. MergesItsBatch
    BY DEF Init, MergesItsBatch, NoJob
  <2> QED BY <2>2, <2>3 DEF TypeInv
<1>2. TypeInv /\ [Next]_vars => TypeOK'
  <2> SUFFICES ASSUME TypeInv, [Next]_vars PROVE TypeOK'
    OBVIOUS
  <2> USE DEF TypeInv
  <2>1. ASSUME NEW h \in Handlers, NEW b \in Batches, Deliver(h, b) PROVE TypeOK'
    <3> DEFINE j == [NoJob EXCEPT !.pc = "work", !.batch = b,
                                  !.todo = DOMAIN b.groups, !.denials = b.denied]
    <3>1. DOMAIN b.groups \in SUBSET Keys /\ b.denied \in Seq(Subjects \X Behaviors)
      BY BatchTypes
    <3>2. j \in Job
      BY <3>1, EmptyTypes DEF Job, PCs
    <3>3. job' \in [Handlers -> Job]
      BY <2>1, <3>2 DEF Deliver, TypeOK
    <3> QED BY <2>1, <3>3 DEF Deliver, TypeOK, history
  <2>2. ASSUME NEW h \in Handlers, Respond(h) PROVE TypeOK'
    <3>1. job' \in [Handlers -> Job]
      BY <2>2, EmptyTypes DEF Respond, Ended, TypeOK
    <3> QED BY <2>2, <3>1 DEF Respond, TypeOK, history
  <2>3. ASSUME NEW h \in Handlers, NEW k \in Keys, BeginMerge(h, k) PROVE TypeOK'
    <3>1. job' \in [Handlers -> Job]
      <4>0. fps[k] \in Row
        BY DEF TypeOK
      <4> DEFINE j == [job[h] EXCEPT !.pc = "mergeTx", !.key = k, !.read = fps[k]]
      <4>1. job[h] \in Job /\ job \in [Handlers -> Job]
        BY DEF TypeOK
      <4>2. j \in Job
        BY <4>1, <4>0, PlaceTypes DEF Job
      <4>3. job' = [job EXCEPT ![h] = j]
        BY <4>1, <2>3 DEF BeginMerge
      <4> QED BY <4>1, <4>2, <4>3, JobType
    <3> QED BY <2>3, <3>1 DEF BeginMerge, TypeOK, history
  <2>4. ASSUME NEW h \in Handlers, CommitMerge(h) PROVE TypeOK'
    BY <2>4, CommitMergeType
  <2>5. ASSUME NEW h \in Handlers, React(h) PROVE TypeOK'
    BY <2>5, ReactType
  <2>6. ASSUME NEW h \in Handlers, BeginUpsert(h) PROVE TypeOK'
    <3>1. job[h].id \in AlertIds /\ job[h].alert \in Alert
      BY DEF TypeOK, Job
    <3>2. MergeIntoAlert(alerts[job[h].id], job[h].alert) \in Alert
      BY <3>1, AlertTypes DEF TypeOK
    <3>3. Exists(alerts[job[h].id]) \in BOOLEAN
      BY DEF Exists
    <3>4. job' \in [Handlers -> Job]
      <4> DEFINE j == [job[h] EXCEPT !.pc = "upsertTx", !.holds = Exists(alerts[job[h].id]),
           !.alert = IF Exists(alerts[job[h].id]) THEN MergeIntoAlert(alerts[job[h].id], @) ELSE @]
      <4>1. job[h] \in Job /\ job \in [Handlers -> Job]
        BY DEF TypeOK
      <4>2. j \in Job
        BY <4>1, <3>1, <3>2, <3>3, PlaceTypes DEF Job
      <4>3. job' = [job EXCEPT ![h] = j]
        BY <4>1, <2>6 DEF BeginUpsert
      <4> QED BY <4>1, <4>2, <4>3, JobType
    <3> QED BY <2>6, <3>4 DEF BeginUpsert, TypeOK, history
  <2>7. ASSUME NEW h \in Handlers, CommitUpsert(h) PROVE TypeOK'
    <3>1. job[h].id \in AlertIds /\ job[h].alert \in Alert
      BY DEF TypeOK, Job
    <3>2. job' \in [Handlers -> Job]
      <4> DEFINE j == [job[h] EXCEPT !.pc = "record", !.holds = FALSE, !.attempts = 0]
      <4>1. job[h] \in Job /\ job \in [Handlers -> Job]
        BY DEF TypeOK
      <4>2. j \in Job
        BY <4>1, PlaceTypes DEF Job
      <4>3. job' = [job EXCEPT ![h] = j]
        BY <4>1, <2>7 DEF CommitUpsert
      <4> QED BY <4>1, <4>2, <4>3, JobType
    <3>3. alerts' \in [AlertIds -> Alert]
      BY <2>7, <3>1 DEF CommitUpsert, TypeOK
    <3>4. raised' \in [AlertIds -> SUBSET Behaviors]
      BY <2>7, <3>1 DEF CommitUpsert, TypeOK, Alert
    <3> QED BY <2>7, <3>2, <3>3, <3>4 DEF CommitUpsert, TypeOK
  <2>8. ASSUME NEW h \in Handlers, RetryUpsert(h) PROVE TypeOK'
    <3>1. job' \in [Handlers -> Job]
      <4> DEFINE j == [job[h] EXCEPT !.pc = IF job[h].attempts = MaxAttempts THEN "record" ELSE "upsert",
           !.attempts = IF job[h].attempts = MaxAttempts THEN 0 ELSE @ + 1]
      <4>1. job[h] \in Job /\ job \in [Handlers -> Job]
        BY DEF TypeOK
      <4>2. j \in Job
        BY <4>1, PlaceTypes DEF Job
      <4>3. job' = [job EXCEPT ![h] = j]
        BY <4>1, <2>8 DEF RetryUpsert
      <4> QED BY <4>1, <4>2, <4>3, JobType
    <3> QED BY <2>8, <3>1 DEF RetryUpsert, TypeOK, history
  <2>9. ASSUME NEW h \in Handlers, RecordAlert(h) PROVE TypeOK'
    <3>1. job[h].id \in AlertIds /\ job[h].alert \in Alert
      BY DEF TypeOK, Job
    <3>2. job[h].id[1] \in Subjects /\ job[h].alert.behaviors \in SUBSET Behaviors
      BY <3>1 DEF AlertIds, Alert
    <3>3. job' \in [Handlers -> Job]
      <4> DEFINE j == [job[h] EXCEPT !.pc = "work", !.id = NoId, !.alert = NoAlert]
      <4>1. job[h] \in Job /\ job \in [Handlers -> Job]
        BY DEF TypeOK
      <4>2. j \in Job
        BY <4>1, PlaceholderTypes, EmptyTypes, PlaceTypes DEF Job
      <4>3. job' = [job EXCEPT ![h] = j]
        BY <4>1, <2>9 DEF RecordAlert
      <4> QED BY <4>1, <4>2, <4>3, JobType
    <3>4. tracked' \in [Replicas -> SUBSET (Subjects \X Behaviors)]
      BY <2>9, <3>2, TrackType DEF RecordAlert, TypeOK
    <3> QED BY <2>9, <3>1, <3>3, <3>4 DEF RecordAlert, TypeOK, history
  <2>10. ASSUME NEW h \in Handlers, ReactDenied(h) PROVE TypeOK'
    BY <2>10, ReactDeniedType
  <2>11. ASSUME NEW h \in Handlers, BlockAlert(h) PROVE TypeOK'
    <3>1. job' \in [Handlers -> Job]
      <4> DEFINE j == [job[h] EXCEPT !.pc = "record"]
      <4>1. job[h] \in Job /\ job \in [Handlers -> Job]
        BY DEF TypeOK
      <4>2. j \in Job
        BY <4>1, PlaceTypes DEF Job
      <4>3. job' = [job EXCEPT ![h] = j]
        BY <4>1, <2>11 DEF BlockAlert
      <4> QED BY <4>1, <4>2, <4>3, JobType
    <3>2. alerts' \in [AlertIds -> Alert]
      <4>1. job[h].id \in AlertIds /\ alerts \in [AlertIds -> Alert]
        BY DEF TypeOK, Job
      <4>2. [alerts[job[h].id] EXCEPT !.blocked = TRUE] \in Alert
        BY <4>1 DEF Alert
      <4> QED BY <2>11, <4>1, <4>2 DEF BlockAlert
    <3> QED BY <2>11, <3>1, <3>2 DEF BlockAlert, TypeOK, history
  <2>12. CASE Failure
    BY <2>12, FailureType
  <2>13. CASE OperatorStep
    BY <2>13, OperatorType
  <2>14. CASE UNCHANGED vars
    BY <2>14 DEF vars, history, TypeOK
  <2> QED
    BY <2>1, <2>2, <2>3, <2>4, <2>5, <2>6, <2>7, <2>8, <2>9, <2>10, <2>11, <2>12, <2>13, <2>14
       DEF Next, HandlerStep
<1>3. TypeInv /\ [Next]_vars => MergesItsBatch'
  BY MergesItsBatchStep
<1>4. TypeInv /\ [Next]_vars => TypeInv'
  BY <1>2, <1>3 DEF TypeInv
<1> QED BY <1>1, <1>4, PTL DEF Spec

\* Every variable keeps its type, whatever is delivered, fails or crashes.
THEOREM TypeCorrect == Spec => []TypeOK
<1>1. TypeInv => TypeOK
  BY DEF TypeInv
<1> QED BY <1>1, TypeInvariant, PTL

-----------------------------------------------------------------------------
(* Who does what to whose memory.                                          *)

\* The steps that change the memory of handler h and of no other.
Steps(h) ==
  \/ \E b \in Batches : Deliver(h, b)
  \/ HandlerStep(h)
  \/ IngestFails(h) \/ CompareFails(h) \/ FindFails(h) \/ AlertFails(h)

\* The steps that change the memory of no handler.
Outside == OperatorStep \/ (\E h \in Handlers : ClientTimeout(h)) \/ UNCHANGED vars

\* Every step is one of some handler, a failure, or one of nobody's handler.
LEMMA WhoSteps ==
  ASSUME [Next]_vars
  PROVE  \/ \E h \in Handlers : Steps(h)
         \/ \E r \in Replicas : Crash(r)
         \/ Outside
BY DEF Next, Failure, Steps, Outside

\* What operators and the retention loop do leaves the handlers alone.
LEMMA OutsideKeepsJobs ==
  ASSUME Outside
  PROVE  job' = job
<1>1. OperatorStep => job' = job
  BY DEF OperatorStep, SetAlertStatus, AgeAlerts, PruneResolvedAlerts, BeginImport, CommitImport
<1>2. \A h \in Handlers : ClientTimeout(h) => job' = job
  BY DEF ClientTimeout
<1> QED BY <1>1, <1>2 DEF Outside, vars

\* A crash empties the memory of the handlers of the replica, and of no other.
LEMMA CrashEmpties ==
  ASSUME NEW r \in Replicas, Crash(r), NEW g \in Handlers
  PROVE  job'[g] = job[g] \/ job'[g] = NoJob
BY DEF Crash, Ended

\* React either raises nothing or hands a new alert to UpsertAlert.
LEMMA ReactEmits ==
  ASSUME TypeOK, NEW h \in Handlers, React(h)
  PROVE  NoAlertFor(h) \/ \E id \in AlertIds : \E B \in SUBSET Behaviors : Emit(h, id, B)
<1> DEFINE u == Head(job[h].updates)
           Goal == NoAlertFor(h) \/ \E id \in AlertIds : \E B \in SUBSET Behaviors : Emit(h, id, B)
<1>1. u \in Update
  BY HeadUpdate DEF React, Reacting
<1>2. u.key[1] \in Subjects /\ u.key[2] \in Versions /\ u.fresh \in SUBSET Behaviors
  BY <1>1 DEF Update, Keys
<1>3. BaselineDrift(h, u) => Goal
  <2>1. <<u.key[1], u.key[2], u.key[2]>> \in AlertIds
    BY <1>2 DEF AlertIds
  <2> QED BY <2>1, <1>2 DEF BaselineDrift
<1>4. VersionDrift(h, u) => Goal
  <2> SUFFICES ASSUME NEW base \in LatestBaselines(u.key[1], u.key[2]),
                      LET new == u.fresh \ fps[<<u.key[1], base>>].behaviors IN
                      IF new = {} THEN NoAlertFor(h) ELSE Emit(h, <<u.key[1], base, u.key[2]>>, new)
               PROVE  Goal
    BY DEF VersionDrift
  <2>1. <<u.key[1], base, u.key[2]>> \in AlertIds
    BY <1>2 DEF AlertIds, LatestBaselines, Baselines
  <2>2. (u.fresh \ fps[<<u.key[1], base>>].behaviors) \in SUBSET Behaviors
    BY <1>2
  <2> QED BY <2>1, <2>2
<1>5. FirstSighting(h, u) => Goal
  <2>1. <<u.key[1], NoVersion, u.key[2]>> \in AlertIds
    BY <1>2 DEF AlertIds
  <2>2. (u.fresh \cap AlwaysOn) \in SUBSET Behaviors
    BY <1>2
  <2> QED BY <2>1, <2>2 DEF FirstSighting
<1> QED BY <1>3, <1>4, <1>5 DEF React

\* ReactDenied drops the deny, and may have found an alert to mark.
LEMMA ReactDeniedMoves ==
  ASSUME NEW h \in Handlers, ReactDenied(h)
  PROVE  \/ job' = [job EXCEPT ![h].denials = Tail(@)]
         \/ \E id \in AlertIds :
              job' = [job EXCEPT ![h].denials = Tail(@), ![h].pc = "deny", ![h].id = id]
BY DEF ReactDenied, Unblocked

\* While one handler steps the others keep what they have.
LEMMA OthersKeep ==
  ASSUME TypeOK, NEW h \in Handlers, Steps(h), NEW g \in Handlers, g # h
  PROVE  job'[g] = job[g]
<1> USE DEF TypeOK
<1>1. CASE \E b \in Batches : Deliver(h, b)
  BY <1>1 DEF Deliver
<1>2. CASE \E k \in Keys : BeginMerge(h, k)
  BY <1>2 DEF BeginMerge
<1>3. CASE CommitMerge(h)
  BY <1>3 DEF CommitMerge
<1>4. CASE React(h)
  <2>1. ASSUME NoAlertFor(h) PROVE job'[g] = job[g]
    BY <2>1 DEF NoAlertFor
  <2>2. ASSUME NEW id \in AlertIds, NEW B \in SUBSET Behaviors, Emit(h, id, B) PROVE job'[g] = job[g]
    BY <2>2 DEF Emit
  <2> QED BY <1>4, <2>1, <2>2, ReactEmits
<1>5. CASE BeginUpsert(h) \/ CommitUpsert(h) \/ RetryUpsert(h) \/ RecordAlert(h)
  BY <1>5 DEF BeginUpsert, CommitUpsert, RetryUpsert, RecordAlert
<1>6. CASE ReactDenied(h)
  BY <1>6, ReactDeniedMoves
<1>7. CASE BlockAlert(h)
  BY <1>7 DEF BlockAlert
<1>8. CASE Respond(h) \/ IngestFails(h)
  BY <1>8 DEF Respond, IngestFails, Ended
<1>9. CASE CompareFails(h) \/ FindFails(h) \/ AlertFails(h)
  BY <1>9 DEF CompareFails, NoAlertFor, FindFails, AlertFails
<1> QED
  BY <1>1, <1>2, <1>3, <1>4, <1>5, <1>6, <1>7, <1>8, <1>9 DEF Steps, HandlerStep

\* A handler that does not step keeps what it has, or loses all of it.
LEMMA Waits ==
  ASSUME TypeOK, [Next]_vars, NEW h \in Handlers, ~Steps(h)
  PROVE  job'[h] = job[h] \/ job'[h] = NoJob
<1>1. ASSUME NEW g \in Handlers, Steps(g) PROVE job'[h] = job[h]
  BY <1>1, OthersKeep
<1>2. ASSUME NEW r \in Replicas, Crash(r) PROVE job'[h] = job[h] \/ job'[h] = NoJob
  BY <1>2, CrashEmpties
<1>3. ASSUME Outside PROVE job'[h] = job[h]
  BY <1>3, OutsideKeepsJobs
<1> QED BY <1>1, <1>2, <1>3, WhoSteps
-----------------------------------------------------------------------------
(* The rows of fingerprints.                                               *)

\* No import can slip between the two statements of a merge: there is only one
\* connection, or nobody imports.
NoImportRace == Dialect = "sqlite" \/ MaxImports = 0

\* One transaction at a time merges into a row (pg_advisory_xact_lock).
KeyLocksExclude ==
  \A g, h \in Handlers :
    job[g].pc = "mergeTx" /\ job[h].pc = "mergeTx" /\ job[g].key = job[h].key => g = h

\* What a transaction has read is what the row is, but for one case: where it
\* found no row there was none to lock, and an import has put one there since.
ReadsStand ==
  \A h \in Handlers : job[h].pc = "mergeTx" =>
    \/ job[h].read = fps[job[h].key]
    \/ ~NoImportRace /\ job[h].read = NoRow /\ fps[job[h].key].origin = "imported"

\* Where there is no row there is nothing in it.
NoRowIsEmpty == \A k \in Keys : fps[k].origin = "none" => fps[k] = NoRow

\* No import has written row k: it is this cluster's own, or there is none.
Own(k) == fps[k].origin # "imported"

\* Imports take a request.
NoImportsYet == MaxImports = 0 => imp.pc = "idle" /\ \A k \in Keys : Own(k)

RowsInv == NoRowIsEmpty /\ KeyLocksExclude /\ ReadsStand /\ NoImportsYet

\* What merging a group makes of a row: it knows more, has absorbed more, lies
\* between the same or earlier and later times, and what qualified still does.
LEMMA LearnFields ==
  ASSUME NEW row \in Row, NEW g \in Group
  PROVE  /\ Learn(row, g).behaviors = row.behaviors \cup g.behaviors
         /\ Learn(row, g).obs = row.obs + g.count
         /\ Learn(row, g).first # 0
         /\ Learn(row, g).origin = IF row.origin = "none" THEN "local" ELSE row.origin
         /\ Learn(row, g).baseline <=> row.baseline \/ Qualifies(Learn(row, g))
         /\ row.first # 0 /\ Qualifies(row) => Qualifies(Learn(row, g))
<1> DEFINE m == MergeGroup(row, g)
           new == Learn(row, g)
<1>1. /\ row.obs \in Nat /\ row.first \in Nat /\ row.last \in Nat /\ row.baseline \in BOOLEAN
      /\ g.count \in Nat /\ g.first \in Nat /\ g.first # 0 /\ g.last \in Nat
  BY DEF Row, Group
<1>2. /\ m.behaviors = row.behaviors \cup g.behaviors /\ m.obs = row.obs + g.count
      /\ m.first = IF row.first = 0 THEN g.first ELSE Earlier(row.first, g.first)
      /\ m.last = Later(row.last, g.last) /\ m.baseline = row.baseline
      /\ m.origin = IF row.origin = "none" THEN "local" ELSE row.origin
  BY DEF MergeGroup
<1>3. /\ new.behaviors = m.behaviors /\ new.obs = m.obs /\ new.first = m.first
      /\ new.last = m.last /\ new.origin = m.origin
      /\ new.baseline = (m.baseline \/ Qualifies(m))
  BY DEF Learn, MergeGroup
<1> HIDE DEF m, new
<1>4. m.first # 0 /\ m.first \in Nat /\ m.last \in Nat /\ m.obs \in Nat
  BY <1>1, <1>2 DEF Earlier, Later
<1>5. /\ row.first # 0 => m.first <= row.first
      /\ row.last <= m.last /\ row.obs <= m.obs
  BY <1>1, <1>2 DEF Earlier, Later
<1>6. Qualifies(new) <=> Qualifies(m)
  BY <1>3 DEF Qualifies
<1>7. row.first # 0 /\ Qualifies(row) => Qualifies(m)
  BY <1>1, <1>4, <1>5, WindowAssumption DEF Qualifies
<1>8. new.baseline <=> row.baseline \/ Qualifies(new)
  BY <1>2, <1>3, <1>6
<1> QED BY <1>2, <1>3, <1>4, <1>6, <1>7, <1>8 DEF new

\* What a delivery puts into a handler's memory.
LEMMA DeliverMemory ==
  ASSUME TypeOK, NEW h \in Handlers, NEW b \in Batches, Deliver(h, b)
  PROVE  job[h].pc = "idle" /\ job'[h].pc = "work" /\ job'[h].updates = <<>>
<1>1. job'[h] = [NoJob EXCEPT !.pc = "work", !.batch = b,
                             !.todo = DOMAIN b.groups, !.denials = b.denied]
  BY DEF Deliver, TypeOK
<1>2. job'[h].pc = "work" /\ job'[h].updates = <<>>
  BY <1>1 DEF NoJob
<1> QED BY <1>2 DEF Deliver

\* A handler is in a merge after a step when it was in it before, or began it.
LEMMA MergingFrom ==
  ASSUME TypeInv, [Next]_vars, NEW g \in Handlers, job'[g].pc = "mergeTx"
  PROVE  \/ job[g].pc = "mergeTx" /\ SameMerge(g)
         \/ \E k \in Keys : BeginMerge(g, k)
<1>0. TypeOK /\ job \in [Handlers -> Job]
  BY DEF TypeInv, TypeOK
<1>1. CASE ~Steps(g)
  BY <1>0, <1>1, Waits DEF SameMerge, NoJob
<1>2. CASE AfterMerge(g)
  BY <1>0, <1>2, AfterMergeFrame DEF SameMerge
<1>3. \A b \in Batches : ~Deliver(g, b)
  BY <1>0, DeliverMemory
<1>4. ~CommitMerge(g)
  BY <1>0 DEF CommitMerge, Job
<1>5. ~Respond(g) /\ ~IngestFails(g)
  BY DEF Respond, IngestFails, Ended, NoJob
<1> QED BY <1>1, <1>2, <1>3, <1>4, <1>5 DEF Steps, HandlerStep, AfterMerge

\* Only merges and imports write rows.
LEMMA WhoWritesRows ==
  ASSUME [Next]_vars
  PROVE  fps' = fps \/ CommitImport \/ \E h \in Handlers : CommitMerge(h)
<1>1. ASSUME NEW h \in Handlers, Steps(h), ~CommitMerge(h) PROVE fps' = fps
  BY <1>1 DEF Steps, HandlerStep, Deliver, BeginMerge, React, BeginUpsert, CommitUpsert,
     RetryUpsert, RecordAlert, ReactDenied, BlockAlert, Respond, IngestFails, CompareFails,
     FindFails, AlertFails
<1>2. \A r \in Replicas : Crash(r) => fps' = fps
  BY DEF Crash
<1>3. Outside => CommitImport \/ fps' = fps
  BY DEF Outside, OperatorStep, SetAlertStatus, AgeAlerts, PruneResolvedAlerts, BeginImport,
     ClientTimeout, vars
<1> QED BY <1>1, <1>2, <1>3, WhoSteps

\* Nobody but the operator touches the import request.
LEMMA WhoImports ==
  ASSUME [Next]_vars
  PROVE  imp' = imp \/ CommitImport \/ \E e \in Imports : BeginImport(e)
<1>1. ASSUME NEW h \in Handlers, Steps(h) PROVE imp' = imp
  BY <1>1 DEF Steps, HandlerStep, Deliver, BeginMerge, CommitMerge, React, BeginUpsert,
     CommitUpsert, RetryUpsert, RecordAlert, ReactDenied, BlockAlert, Respond, IngestFails,
     CompareFails, FindFails, AlertFails
<1>2. \A r \in Replicas : Crash(r) => imp' = imp
  BY DEF Crash
<1>3. Outside => CommitImport \/ imp' = imp \/ \E e \in Imports : BeginImport(e)
  BY DEF Outside, OperatorStep, SetAlertStatus, AgeAlerts, PruneResolvedAlerts,
     ClientTimeout, vars
<1> QED BY <1>1, <1>2, <1>3, WhoSteps

\* What beginning a merge does to a handler's memory.
LEMMA BeginMergeMemory ==
  ASSUME TypeOK, NEW h \in Handlers, NEW k \in Keys, BeginMerge(h, k)
  PROVE  /\ job'[h].pc = "mergeTx" /\ job'[h].key = k /\ job'[h].read = fps[k]
         /\ fps' = fps /\ ~KeyLocked(k)
BY DEF BeginMerge, TypeOK, Job

\* What committing one does to the table: the row absorbs the group, and where the
\* transaction had not read it, it was imported and stays so.
LEMMA CommitMergeRow ==
  ASSUME TypeInv, RowsInv, NEW h \in Handlers, CommitMerge(h)
  PROVE  LET k == job[h].key
             g == job[h].batch.groups[k]
         IN  /\ k \in Keys /\ g \in Group /\ fps[k] \in Row
             /\ \A q \in Keys : q # k => fps'[q] = fps[q]
             /\ \/ job[h].read = fps[k] /\ fps'[k] = Learn(fps[k], g)
                \/ /\ ~NoImportRace /\ job[h].read = NoRow
                   /\ fps[k].origin = "imported" /\ fps'[k].origin = "imported"
<1> DEFINE k == job[h].key
           g == job[h].batch.groups[k]
           row == Learn(job[h].read, g)
<1>1. job[h].pc = "mergeTx" /\ fps' = [fps EXCEPT ![k] = Written(k, row)]
  BY DEF CommitMerge
<1>2. k \in Keys /\ job[h].read \in Row /\ g \in Group /\ row \in Row
  BY <1>1, MergingType
<1>3. fps \in [Keys -> Row] /\ fps[k] \in Row
  BY <1>2 DEF TypeInv, TypeOK
<1>4. fps'[k] = Written(k, row) /\ \A q \in Keys : q # k => fps'[q] = fps[q]
  BY <1>1, <1>2, <1>3
<1>5. CASE job[h].read = fps[k]
  <2>1. row.origin = IF fps[k].origin = "none" THEN "local" ELSE fps[k].origin
    BY <1>2, <1>5, LearnFields
  <2>2. Written(k, row) = [row EXCEPT !.origin = row.origin]
    BY <2>1 DEF Written
  <2>3. Written(k, row) = row
    BY <2>2, <1>2 DEF Row
  <2> QED BY <1>2, <1>3, <1>4, <1>5, <2>3
<1>6. CASE job[h].read # fps[k]
  <2>1. ~NoImportRace /\ job[h].read = NoRow /\ fps[k].origin = "imported"
    BY <1>1, <1>6 DEF RowsInv, ReadsStand
  <2>2. Written(k, row).origin = "imported"
    BY <2>1, <1>2 DEF Written, Row
  <2> QED BY <1>2, <1>3, <1>4, <2>1, <2>2
<1> QED BY <1>5, <1>6

\* What committing an import does to the table: a local row stays, any other row
\* becomes a baseline of the file.
LEMMA CommitImportRow ==
  ASSUME TypeInv, CommitImport
  PROVE  LET k == imp.entry.key
         IN  /\ k \in Keys /\ imp.pc = "write"
             /\ \A q \in Keys : q # k => fps'[q] = fps[q]
             /\ fps[k].origin = "local" => fps'[k] = fps[k]
             /\ fps[k].origin # "local" => fps'[k].origin = "imported" /\ fps'[k].baseline
<1>1. imp.entry.key \in Keys /\ imp.entry.row \in Row /\ fps \in [Keys -> Row]
  BY DEF TypeInv, TypeOK, Import
<1>2. fps[imp.entry.key].origin # "local" =>
        fps' = [fps EXCEPT ![imp.entry.key] =
                  [imp.entry.row EXCEPT !.baseline = TRUE, !.origin = "imported"]]
  BY DEF CommitImport
<1>3. fps[imp.entry.key].origin = "local" => fps' = fps
  BY DEF CommitImport
<1>4. LET row == [imp.entry.row EXCEPT !.baseline = TRUE, !.origin = "imported"]
      IN  row.baseline /\ row.origin = "imported"
  BY <1>1 DEF Row
<1> QED BY <1>1, <1>2, <1>3, <1>4 DEF CommitImport

\* No row, no request and no transaction at the start.
LEMMA RowsInit == Init => RowsInv
BY DEF Init, RowsInv, NoRowIsEmpty, KeyLocksExclude, ReadsStand, NoImportsYet, Own, NoJob,
   NoImport, NoRow

\* A row that a step writes is there.
LEMMA NoRowIsEmptyStep ==
  ASSUME TypeInv, RowsInv, [Next]_vars
  PROVE  NoRowIsEmpty'
<1> SUFFICES ASSUME NEW k \in Keys, fps'[k].origin = "none" PROVE fps'[k] = NoRow
  BY DEF NoRowIsEmpty
<1>1. CASE fps'[k] = fps[k]
  BY <1>1 DEF RowsInv, NoRowIsEmpty
<1>2. ASSUME NEW h \in Handlers, CommitMerge(h) PROVE fps'[k] = fps[k]
  <2>1. CASE k = job[h].key
    BY <1>2, <2>1, CommitMergeRow, LearnFields
  <2> QED BY <1>2, <2>1, CommitMergeRow
<1>3. ASSUME CommitImport PROVE fps'[k] = fps[k]
  BY <1>3, CommitImportRow
<1> QED BY <1>1, <1>2, <1>3, WhoWritesRows

\* A lock on a key is never given to a second transaction.
LEMMA KeyLocksExcludeStep ==
  ASSUME TypeInv, RowsInv, [Next]_vars
  PROVE  KeyLocksExclude'
<1> SUFFICES ASSUME NEW g \in Handlers, NEW h \in Handlers, job'[g].pc = "mergeTx",
                    job'[h].pc = "mergeTx", job'[g].key = job'[h].key, g # h
             PROVE  FALSE
  BY DEF KeyLocksExclude
<1>0. TypeOK
  BY DEF TypeInv
<1>1. CASE /\ job[g].pc = "mergeTx" /\ SameMerge(g)
           /\ job[h].pc = "mergeTx" /\ SameMerge(h)
  BY <1>1 DEF RowsInv, KeyLocksExclude, SameMerge
<1>2. ASSUME NEW p \in Handlers, NEW q \in Handlers, p # q, NEW k \in Keys, BeginMerge(p, k),
             job'[q].pc = "mergeTx", job'[q].key = job'[p].key
      PROVE  FALSE
  <2>1. job'[q] = job[q]
    BY <1>0, <1>2, OthersKeep DEF Steps, HandlerStep
  <2>2. job'[p].key = k /\ ~KeyLocked(k)
    BY <1>0, <1>2, BeginMergeMemory
  <2> QED BY <1>2, <2>1, <2>2 DEF KeyLocked
<1> QED BY <1>1, <1>2, MergingFrom

\* Nobody writes a row another transaction has read, but an import where there
\* was none.
LEMMA ReadsStandStep ==
  ASSUME TypeInv, RowsInv, [Next]_vars
  PROVE  ReadsStand'
<1> SUFFICES ASSUME NEW h \in Handlers, job'[h].pc = "mergeTx"
             PROVE  \/ job'[h].read = fps'[job'[h].key]
                    \/ /\ ~NoImportRace /\ job'[h].read = NoRow
                       /\ fps'[job'[h].key].origin = "imported"
  BY DEF ReadsStand, NoImportRace
<1>0. TypeOK
  BY DEF TypeInv
<1>1. ASSUME NEW k \in Keys, BeginMerge(h, k) PROVE job'[h].read = fps'[job'[h].key]
  BY <1>0, <1>1, BeginMergeMemory
<1>2. ASSUME job[h].pc = "mergeTx", SameMerge(h)
      PROVE  \/ job'[h].read = fps'[job'[h].key]
             \/ /\ ~NoImportRace /\ job'[h].read = NoRow
                /\ fps'[job'[h].key].origin = "imported"
  <2> DEFINE k == job[h].key
  <2>1. /\ job'[h].read = job[h].read /\ job'[h].key = k /\ k \in Keys
        /\ \/ job[h].read = fps[k]
           \/ ~NoImportRace /\ job[h].read = NoRow /\ fps[k].origin = "imported"
    BY <1>2, MergingType DEF SameMerge, RowsInv, ReadsStand
  <2>2. CASE fps'[k] = fps[k]
    BY <2>1, <2>2
  <2>3. ASSUME NEW p \in Handlers, CommitMerge(p) PROVE fps'[k] = fps[k]
    <3>1. p # h
      <4>1. job'[p].pc # "mergeTx"
        BY <1>0, <2>3 DEF CommitMerge, TypeOK, Job
      <4> QED BY <4>1
    <3>2. job[p].key # k
      BY <1>2, <2>3, <3>1 DEF CommitMerge, RowsInv, KeyLocksExclude
    <3> QED BY <2>1, <2>3, <3>2, CommitMergeRow
  <2>4. ASSUME CommitImport, imp.entry.key = k
        PROVE  \/ fps'[k] = fps[k]
               \/ ~NoImportRace /\ job[h].read = NoRow /\ fps'[k].origin = "imported"
    <3>1. job[h].read.origin = "none"
      BY <1>2, <2>4 DEF CommitImport, RowLocked
    <3>2. ~NoImportRace
      <4>1. Dialect # "sqlite"
        BY <1>2, <2>4 DEF CommitImport, NoTransactionOf
      <4>2. MaxImports # 0
        BY <2>4 DEF CommitImport, RowsInv, NoImportsYet
      <4> QED BY <4>1, <4>2 DEF NoImportRace
    <3>3. job[h].read = NoRow
      BY <2>1, <3>1 DEF RowsInv, NoRowIsEmpty
    <3> QED BY <2>1, <2>4, <3>2, <3>3, CommitImportRow
  <2>5. CommitImport /\ imp.entry.key # k => fps'[k] = fps[k]
    BY <2>1, CommitImportRow
  <2> QED BY <2>1, <2>2, <2>3, <2>4, <2>5, WhoWritesRows
<1> QED BY <1>1, <1>2, MergingFrom

\* The strengthening of what is proved about rows: a merge writes what it makes of
\* the row as it still is (store.MergeFingerprint, store.ImportFingerprint).
THEOREM RowsInvariant == Spec => []RowsInv
<1>1. TypeInv /\ RowsInv /\ [Next]_vars => NoImportsYet'
  <2> SUFFICES ASSUME TypeInv, RowsInv, [Next]_vars, MaxImports = 0
               PROVE  imp'.pc = "idle" /\ \A k \in Keys : fps'[k].origin # "imported"
    BY DEF NoImportsYet, Own
  <2>1. imp.pc = "idle" /\ \A k \in Keys : fps[k].origin # "imported"
    BY DEF RowsInv, NoImportsYet, Own
  <2>2. imp'.pc = "idle"
    BY <2>1, WhoImports, PipelineAssumption DEF TypeInv, TypeOK, CommitImport, BeginImport
  <2>3. ASSUME NEW k \in Keys PROVE fps'[k].origin # "imported"
    <3>1. ~CommitImport
      BY <2>1 DEF CommitImport
    <3>2. ASSUME NEW h \in Handlers, CommitMerge(h) PROVE fps'[k].origin # "imported"
      <4>1. CASE k = job[h].key
        BY <2>1, <3>2, <4>1, CommitMergeRow, LearnFields
      <4> QED BY <2>1, <3>2, <4>1, CommitMergeRow
    <3> QED BY <2>1, <3>1, <3>2, WhoWritesRows
  <2> QED BY <2>2, <2>3
<1>2. TypeInv /\ RowsInv /\ [Next]_vars => RowsInv'
  BY <1>1, NoRowIsEmptyStep, KeyLocksExcludeStep, ReadsStandStep DEF RowsInv
<1> QED BY <1>2, RowsInit, TypeInvariant, PTL DEF Spec

\* Once a row is imported it stays so; and until then only merges write it, each
\* what it makes of the row as it is.
LEMMA OwnRow ==
  ASSUME TypeInv, RowsInv, [Next]_vars, NEW k \in Keys, Own(k)'
  PROVE  /\ Own(k)
         /\ \A h \in Handlers : CommitMerge(h) /\ job[h].key = k =>
              /\ job[h].read = fps[k]
              /\ fps'[k] = Learn(fps[k], job[h].batch.groups[k])
         /\ (\A h \in Handlers : ~(CommitMerge(h) /\ job[h].key = k)) => fps'[k] = fps[k]
<1>0. fps'[k].origin # "imported"
  BY DEF Own
<1>1. CommitImport => fps'[k] = fps[k]
  BY <1>0, CommitImportRow
<1>2. ASSUME NEW h \in Handlers, CommitMerge(h), job[h].key = k
      PROVE  /\ job[h].read = fps[k]
             /\ fps'[k] = Learn(fps[k], job[h].batch.groups[k])
             /\ fps[k].origin # "imported"
  <2> DEFINE g == job[h].batch.groups[k]
  <2>1. g \in Group /\ fps[k] \in Row /\ job[h].read = fps[k] /\ fps'[k] = Learn(fps[k], g)
    BY <1>0, <1>2, CommitMergeRow
  <2>2. fps[k].origin # "imported"
    BY <1>0, <2>1, LearnFields
  <2> QED BY <2>1, <2>2
<1>3. (\A h \in Handlers : ~(CommitMerge(h) /\ job[h].key = k)) => fps'[k] = fps[k]
  BY <1>1, WhoWritesRows, CommitMergeRow
<1> QED BY <1>0, <1>2, <1>3 DEF Own

\* Only merges observe anything.
LEMMA WhoObserves ==
  ASSUME [Next]_vars, \A h \in Handlers : ~CommitMerge(h)
  PROVE  learned' = learned /\ drift' = drift /\ novel' = novel
<1>1. ASSUME NEW h \in Handlers, Steps(h)
      PROVE  learned' = learned /\ drift' = drift /\ novel' = novel
  BY <1>1 DEF Steps, HandlerStep, Deliver, BeginMerge, React, BeginUpsert, CommitUpsert,
     RetryUpsert, RecordAlert, ReactDenied, BlockAlert, Respond, IngestFails, CompareFails,
     FindFails, AlertFails, history
<1>2. \A r \in Replicas : Crash(r) => learned' = learned /\ drift' = drift /\ novel' = novel
  BY DEF Crash, history
<1>3. Outside => learned' = learned /\ drift' = drift /\ novel' = novel
  BY DEF Outside, OperatorStep, SetAlertStatus, AgeAlerts, PruneResolvedAlerts, BeginImport,
     CommitImport, ClientTimeout, vars, history
<1> QED BY <1>1, <1>2, <1>3, WhoSteps

\* A local row has absorbed an event, and a local baseline went through the window.
Earned == \A k \in Keys : fps[k].origin = "local" =>
  fps[k].first # 0 /\ (fps[k].baseline => Qualifies(fps[k]))

\* No row of this cluster's own becomes a baseline before it has the events and the
\* age, whatever merges interleave and whatever is imported around them
\* (fingerprint.Engine.qualifies, store.writeFingerprint).
THEOREM PromotionEarned == Spec => []PromotionIsEarned
<1>1. Init => Earned
  BY DEF Init, Earned, NoRow
<1>2. TypeInv /\ RowsInv /\ Earned /\ [Next]_vars => Earned'
  <2> SUFFICES ASSUME TypeInv, RowsInv, Earned, [Next]_vars, NEW k \in Keys,
                      fps'[k].origin = "local"
               PROVE  fps'[k].first # 0 /\ (fps'[k].baseline => Qualifies(fps'[k]))
    BY DEF Earned, Qualifies
  <2>1. CASE fps'[k] = fps[k]
    BY <2>1 DEF Earned
  <2>2. ASSUME NEW h \in Handlers, CommitMerge(h), fps'[k] # fps[k]
        PROVE  fps'[k].first # 0 /\ (fps'[k].baseline => Qualifies(fps'[k]))
    <3> DEFINE g == job[h].batch.groups[k]
    <3>1. g \in Group /\ fps[k] \in Row /\ fps'[k] = Learn(fps[k], g)
      BY <2>2, CommitMergeRow
    <3>2. fps[k].origin = "none" \/ fps[k].origin = "local"
      BY <3>1, LearnFields
    <3>3. fps[k].baseline => fps[k].first # 0 /\ Qualifies(fps[k])
      BY <3>2 DEF Earned, RowsInv, NoRowIsEmpty, NoRow
    <3>4. /\ Learn(fps[k], g).first # 0
          /\ Learn(fps[k], g).baseline <=> fps[k].baseline \/ Qualifies(Learn(fps[k], g))
          /\ fps[k].first # 0 /\ Qualifies(fps[k]) => Qualifies(Learn(fps[k], g))
      BY <3>1, LearnFields
    <3> QED BY <3>1, <3>3, <3>4
  <2>3. CommitImport => fps'[k] = fps[k]
    BY CommitImportRow
  <2> QED BY <2>1, <2>2, <2>3, WhoWritesRows
<1>3. Earned => PromotionIsEarned
  BY DEF Earned, PromotionIsEarned
<1> QED BY <1>1, <1>2, <1>3, TypeInvariant, RowsInvariant, PTL DEF Spec

\* An import never takes a local row back, and no merge overwrites another: a local
\* row stays local and gains behaviors and events only, with either database and
\* however many imports run (ImportFingerprint's WHERE origin = 'imported').
THEOREM LocalRowsGrow == Spec => LocalRowsOnlyGrow
<1>1. TypeInv /\ RowsInv /\ [Next]_vars =>
        [\A k \in Keys : fps[k].origin = "local" =>
           /\ fps'[k].origin = "local"
           /\ fps[k].behaviors \subseteq fps'[k].behaviors
           /\ fps[k].obs <= fps'[k].obs]_fps
  <2> SUFFICES ASSUME TypeInv, RowsInv, [Next]_vars, NEW k \in Keys, fps[k].origin = "local"
               PROVE  /\ fps'[k].origin = "local"
                      /\ fps[k].behaviors \subseteq fps'[k].behaviors
                      /\ fps[k].obs <= fps'[k].obs
    OBVIOUS
  <2>0. fps[k] \in Row /\ fps[k].obs \in Nat
    BY DEF TypeInv, TypeOK, Row
  <2>1. CASE fps'[k] = fps[k]
    BY <2>0, <2>1
  <2>2. ASSUME NEW h \in Handlers, CommitMerge(h), fps'[k] # fps[k]
        PROVE  /\ fps'[k].origin = "local"
               /\ fps[k].behaviors \subseteq fps'[k].behaviors
               /\ fps[k].obs <= fps'[k].obs
    <3> DEFINE g == job[h].batch.groups[k]
    <3>1. g \in Group /\ g.count \in Nat /\ fps'[k] = Learn(fps[k], g)
      BY <2>2, CommitMergeRow DEF Group
    <3>2. /\ fps'[k].behaviors = fps[k].behaviors \cup g.behaviors
          /\ fps'[k].obs = fps[k].obs + g.count /\ fps'[k].origin = "local"
      BY <2>0, <3>1, LearnFields
    <3> QED BY <2>0, <3>1, <3>2
  <2>3. CommitImport => fps'[k] = fps[k]
    BY CommitImportRow
  <2> QED BY <2>1, <2>2, <2>3, WhoWritesRows
<1> QED BY <1>1, TypeInvariant, RowsInvariant, PTL DEF Spec, LocalRowsOnlyGrow

\* A baseline never falls back to learning as long as no import can slip between
\* the two statements of a merge (ingestGroup, ImportFingerprint); with PostgreSQL
\* and imports it may.
THEOREM BaselinesStay ==
  ASSUME NoImportRace
  PROVE  Spec => BaselineStays
<1>1. TypeInv /\ RowsInv /\ [Next]_vars =>
        [\A k \in Keys : fps[k].baseline => fps'[k].baseline]_fps
  <2> SUFFICES ASSUME TypeInv, RowsInv, [Next]_vars, NEW k \in Keys, fps[k].baseline
               PROVE  fps'[k].baseline
    OBVIOUS
  <2>1. CASE fps'[k] = fps[k]
    BY <2>1
  <2>2. ASSUME NEW h \in Handlers, CommitMerge(h), fps'[k] # fps[k] PROVE fps'[k].baseline
    <3> DEFINE g == job[h].batch.groups[k]
    <3>1. g \in Group /\ fps[k] \in Row /\ fps'[k] = Learn(fps[k], g)
      BY <2>2, CommitMergeRow
    <3> QED BY <3>1, LearnFields
  <2>3. CommitImport => fps'[k].baseline
    BY CommitImportRow
  <2> QED BY <2>1, <2>2, <2>3, WhoWritesRows
<1> QED BY <1>1, TypeInvariant, RowsInvariant, PTL DEF Spec, BaselineStays

\* Under the same condition a row that came from a file is a baseline for good.
THEOREM ImportsAreBaselines ==
  ASSUME NoImportRace
  PROVE  Spec => []ImportedIsBaseline
<1>1. Init => ImportedIsBaseline
  BY DEF Init, ImportedIsBaseline, NoRow
<1>2. TypeInv /\ RowsInv /\ ImportedIsBaseline /\ [Next]_vars => ImportedIsBaseline'
  <2> SUFFICES ASSUME TypeInv, RowsInv, ImportedIsBaseline, [Next]_vars,
                      NEW k \in Keys, fps'[k].origin = "imported"
               PROVE  fps'[k].baseline
    BY DEF ImportedIsBaseline
  <2>1. CASE fps'[k] = fps[k]
    BY <2>1 DEF ImportedIsBaseline
  <2>2. ASSUME NEW h \in Handlers, CommitMerge(h), fps'[k] # fps[k] PROVE fps'[k].baseline
    <3> DEFINE g == job[h].batch.groups[k]
    <3>1. g \in Group /\ fps[k] \in Row /\ fps'[k] = Learn(fps[k], g)
      BY <2>2, CommitMergeRow
    <3>2. fps[k].origin = "imported"
      BY <3>1, LearnFields
    <3> QED BY <3>1, <3>2, LearnFields DEF ImportedIsBaseline
  <2>3. CommitImport => fps'[k].baseline
    BY CommitImportRow DEF ImportedIsBaseline
  <2> QED BY <2>1, <2>2, <2>3, WhoWritesRows
<1> QED BY <1>1, <1>2, TypeInvariant, RowsInvariant, PTL DEF Spec

\* A row no import has written knows exactly what its events showed.
RowsAreLearned == \A k \in Keys : Own(k) => learned[k] = fps[k].behaviors

\* Whatever is imported around it, a row that was never imported has every behavior
\* this collector observed, and no other: by induction on the merges.
THEOREM LearnedInvariant == Spec => []RowsAreLearned
<1>1. Init => RowsAreLearned
  BY DEF Init, RowsAreLearned, NoRow
<1>2. TypeInv /\ RowsInv /\ RowsAreLearned /\ [Next]_vars => RowsAreLearned'
  <2> SUFFICES ASSUME TypeInv, RowsInv, RowsAreLearned, [Next]_vars, NEW k \in Keys, Own(k)'
               PROVE  learned'[k] = fps'[k].behaviors
    BY DEF RowsAreLearned
  <2>0. learned[k] = fps[k].behaviors /\ learned \in [Keys -> SUBSET Behaviors]
    BY OwnRow DEF RowsAreLearned, TypeInv, TypeOK
  <2>1. ASSUME NEW h \in Handlers, CommitMerge(h), job[h].key = k
        PROVE  learned'[k] = fps'[k].behaviors
    <3> DEFINE g == job[h].batch.groups[k]
    <3>1. g \in Group /\ fps[k] \in Row /\ fps'[k] = Learn(fps[k], g)
      BY <2>1, CommitMergeRow, OwnRow
    <3>2. learned' = [learned EXCEPT ![k] = @ \cup g.behaviors]
      BY <2>1 DEF CommitMerge
    <3>3. fps'[k].behaviors = fps[k].behaviors \cup g.behaviors
      BY <3>1, LearnFields
    <3> QED BY <2>0, <3>2, <3>3
  <2>2. CASE \A h \in Handlers : ~(CommitMerge(h) /\ job[h].key = k)
    <3>1. fps'[k] = fps[k]
      BY <2>2, OwnRow
    <3>2. ASSUME NEW h \in Handlers, CommitMerge(h) PROVE learned'[k] = learned[k]
      BY <2>0, <2>2, <3>2 DEF CommitMerge
    <3> QED BY <2>0, <3>1, <3>2, WhoObserves
  <2> QED BY <2>1, <2>2
<1> QED BY <1>1, <1>2, TypeInvariant, RowsInvariant, PTL DEF Spec

\* While nobody imports, what this collector observed stays in its rows
\* (docs/research/multicluster-baselines.md); a second import of a row may take it
\* away.
THEOREM LearnedIsStored ==
  ASSUME MaxImports = 0
  PROVE  Spec => []LearnedIsKept
<1>1. RowsInv /\ RowsAreLearned => LearnedIsKept
  BY DEF RowsInv, NoImportsYet, RowsAreLearned, LearnedIsKept
<1> QED BY <1>1, RowsInvariant, LearnedInvariant, PTL
-----------------------------------------------------------------------------
(* Without failures.                                                       *)

\* Until something fails the client of every request listens.
Listening == faults = 0 => \A h \in Handlers : job[h].pc # "idle" => h \in waits

\* A request that has ended leaves nothing in memory.
IdleIsEmpty == \A h \in Handlers : job[h].pc = "idle" => job[h] = NoJob

QuietInv == Listening /\ IdleIsEmpty

\* The count of failures goes up with each one and never down.
LEMMA FaultsCount ==
  ASSUME TypeOK, [Next]_vars
  PROVE  /\ faults' = 0 => faults = 0
         /\ \A kind : Fault(kind) => faults' # 0
<1>0. faults \in Nat
  BY PipelineAssumption DEF TypeOK
<1>1. \A kind : Fault(kind) => faults' # 0
  BY <1>0 DEF Fault
<1>2. \A h \in Handlers : StatementFails(h) => faults' = faults \/ faults' # 0
  BY <1>1 DEF StatementFails
<1>3. ASSUME NEW h \in Handlers, Steps(h) PROVE faults' = faults \/ faults' # 0
  BY <1>2, <1>3 DEF Steps, HandlerStep, Deliver, BeginMerge, CommitMerge, React, BeginUpsert,
     CommitUpsert, RetryUpsert, RecordAlert, ReactDenied, BlockAlert, Respond, IngestFails,
     CompareFails, FindFails, AlertFails
<1>4. \A r \in Replicas : Crash(r) => faults' # 0
  BY <1>1 DEF Crash
<1>5. Outside => faults' = faults \/ faults' # 0
  BY <1>1 DEF Outside, OperatorStep, SetAlertStatus, AgeAlerts, PruneResolvedAlerts, BeginImport,
     CommitImport, ClientTimeout, vars
<1> QED BY <1>1, <1>3, <1>4, <1>5, WhoSteps

\* A step after which nothing has failed is no failure.
LEMMA NoFailure ==
  ASSUME TypeOK, QuietInv, [Next]_vars, faults' = 0
  PROVE  /\ faults = 0
         /\ \A h \in Handlers : /\ ~IngestFails(h) /\ ~CompareFails(h) /\ ~FindFails(h)
                                /\ ~AlertFails(h) /\ ~ClientTimeout(h)
         /\ \A r \in Replicas : ~Crash(r)
<1>1. faults = 0 /\ \A kind : ~Fault(kind)
  BY FaultsCount
<1>2. \A h \in Handlers : job[h].pc # "idle" => ~StatementFails(h)
  BY <1>1 DEF StatementFails, QuietInv, Listening
<1>3. \A h \in Handlers : ~IngestFails(h)
  BY <1>2 DEF IngestFails
<1>4. \A h \in Handlers : ~CompareFails(h)
  BY <1>2 DEF CompareFails, Reacting
<1>5. \A h \in Handlers : ~FindFails(h)
  BY <1>2 DEF FindFails, Denying
<1>6. \A h \in Handlers : ~AlertFails(h)
  BY <1>2 DEF AlertFails
<1>7. \A h \in Handlers : ~ClientTimeout(h)
  BY <1>1 DEF ClientTimeout
<1>8. \A r \in Replicas : ~Crash(r)
  BY <1>1 DEF Crash
<1> QED BY <1>1, <1>3, <1>4, <1>5, <1>6, <1>7, <1>8

\* Without a crash a handler that does not step keeps what it has.
LEMMA WaitsQuietly ==
  ASSUME TypeOK, [Next]_vars, \A r \in Replicas : ~Crash(r), NEW h \in Handlers, ~Steps(h)
  PROVE  job'[h] = job[h]
<1>1. ASSUME NEW g \in Handlers, Steps(g) PROVE job'[h] = job[h]
  BY <1>1, OthersKeep
<1> QED BY <1>1, OutsideKeepsJobs, WhoSteps

\* A handler is idle after a step when it was, or when it has ended.
LEMMA IdleFrom ==
  ASSUME TypeOK, NEW h \in Handlers, Steps(h), job'[h].pc = "idle"
  PROVE  Respond(h) \/ IngestFails(h)
<1>0. job[h] \in Job /\ job \in [Handlers -> Job]
  BY DEF TypeOK
<1>1. \A b \in Batches : ~Deliver(h, b)
  BY DeliverMemory
<1>2. \A k \in Keys : ~BeginMerge(h, k)
  BY BeginMergeMemory
<1>3. ~CommitMerge(h)
  BY <1>0 DEF CommitMerge, Job
<1>4. ~React(h) /\ ~CompareFails(h)
  <2> SUFFICES ASSUME React(h) \/ CompareFails(h) PROVE FALSE
    OBVIOUS
  <2>0. job[h].pc = "work"
    BY DEF React, CompareFails, Reacting
  <2>1. ~NoAlertFor(h)
    BY <1>0, <2>0 DEF NoAlertFor, Job
  <2>2. \A id \in AlertIds : \A B \in SUBSET Behaviors : ~Emit(h, id, B)
    BY <1>0 DEF Emit, Job
  <2> QED BY <2>1, <2>2, ReactEmits DEF CompareFails
<1>5. ~BeginUpsert(h) /\ ~RetryUpsert(h)
  BY <1>0 DEF BeginUpsert, RetryUpsert, Job
<1>6. ~CommitUpsert(h)
  BY <1>0 DEF CommitUpsert, Job
<1>7. ~RecordAlert(h)
  BY <1>0 DEF RecordAlert, Job
<1>8. ~ReactDenied(h)
  <2> SUFFICES ASSUME ReactDenied(h) PROVE FALSE
    OBVIOUS
  <2>1. job[h].pc = "work"
    BY DEF ReactDenied, Denying
  <2>2. job' # [job EXCEPT ![h].denials = Tail(@)]
    BY <1>0, <2>1 DEF Job
  <2>3. \A id \in AlertIds :
          job' # [job EXCEPT ![h].denials = Tail(@), ![h].pc = "deny", ![h].id = id]
    BY <1>0 DEF Job
  <2> QED BY <2>2, <2>3, ReactDeniedMoves
<1>9. ~BlockAlert(h)
  BY <1>0 DEF BlockAlert, Job
<1>10. ~AlertFails(h)
  BY <1>0 DEF AlertFails, Job
<1>11. ~FindFails(h)
  BY <1>0 DEF FindFails, Denying, Job
<1> QED
  BY <1>1, <1>2, <1>3, <1>4, <1>5, <1>6, <1>7, <1>8, <1>9, <1>10, <1>11 DEF Steps, HandlerStep

\* Only the delivery of a batch wakes an idle handler.
LEMMA IdleUntilDelivery ==
  ASSUME NEW h \in Handlers, Steps(h), job[h].pc = "idle"
  PROVE  \E b \in Batches : Deliver(h, b)
BY DEF Steps, HandlerStep, BeginMerge, CommitMerge, React, Reacting, BeginUpsert, CommitUpsert,
   RetryUpsert, RecordAlert, ReactDenied, Denying, BlockAlert, Respond, IngestFails, CompareFails,
   FindFails, AlertFails

\* Who stops waiting.
LEMMA WhoWaits ==
  ASSUME [Next]_vars, NEW h \in waits, h \notin waits'
  PROVE  \/ Respond(h) \/ IngestFails(h) \/ ClientTimeout(h)
         \/ \E r \in Replicas : Crash(r)
<1>1. ASSUME NEW g \in Handlers, Steps(g) PROVE Respond(h) \/ IngestFails(h)
  <2>1. CASE Respond(g) \/ IngestFails(g)
    BY <2>1 DEF Respond, IngestFails
  <2>2. CASE ~Respond(g) /\ ~IngestFails(g)
    BY <1>1, <2>2 DEF Steps, HandlerStep, Deliver, BeginMerge, CommitMerge, React, BeginUpsert,
       CommitUpsert, RetryUpsert, RecordAlert, ReactDenied, BlockAlert, CompareFails,
       FindFails, AlertFails
  <2> QED BY <2>1, <2>2
<1>2. Outside => ClientTimeout(h)
  BY DEF Outside, OperatorStep, SetAlertStatus, AgeAlerts, PruneResolvedAlerts, BeginImport,
     CommitImport, ClientTimeout, vars
<1> QED BY <1>1, <1>2, WhoSteps

\* Requests are answered or fail; nothing else ends them, and nothing is left of them.
THEOREM QuietInvariant == Spec => []QuietInv
<1>1. Init => QuietInv
  BY DEF Init, QuietInv, Listening, IdleIsEmpty, NoJob
<1>2. TypeOK /\ QuietInv /\ [Next]_vars => QuietInv'
  <2> SUFFICES ASSUME TypeOK, QuietInv, [Next]_vars PROVE QuietInv'
    OBVIOUS
  <2>1. IdleIsEmpty'
    <3> SUFFICES ASSUME NEW h \in Handlers, job'[h].pc = "idle" PROVE job'[h] = NoJob
      BY DEF IdleIsEmpty, NoJob
    <3>1. CASE job'[h] = job[h]
      BY <3>1 DEF QuietInv, IdleIsEmpty
    <3>2. Respond(h) \/ IngestFails(h) => job'[h] = NoJob
      BY DEF Respond, IngestFails, Ended
    <3> QED BY <3>1, <3>2, IdleFrom, Waits
  <2>2. Listening'
    <3> SUFFICES ASSUME faults' = 0, NEW h \in Handlers, job'[h].pc # "idle" PROVE h \in waits'
      BY DEF Listening
    <3>1. /\ faults = 0 /\ ~IngestFails(h) /\ ~ClientTimeout(h)
          /\ \A r \in Replicas : ~Crash(r)
      BY NoFailure
    <3>2. CASE \E b \in Batches : Deliver(h, b)
      BY <3>2 DEF Deliver
    <3>3. CASE job[h].pc # "idle"
      <4>1. h \in waits
        BY <3>1, <3>3 DEF QuietInv, Listening
      <4>2. ~Respond(h)
        BY DEF Respond, Ended, NoJob
      <4> QED BY <3>1, <4>1, <4>2, WhoWaits
    <3>4. CASE job[h].pc = "idle" /\ ~\E b \in Batches : Deliver(h, b)
      <4>1. ~Steps(h)
        BY <3>4, IdleUntilDelivery
      <4> QED BY <3>1, <3>4, <4>1, WaitsQuietly
    <3> QED BY <3>2, <3>3, <3>4
  <2> QED BY <2>1, <2>2 DEF QuietInv
<1>3. TypeInv /\ QuietInv /\ [Next]_vars => QuietInv'
  BY <1>2 DEF TypeInv
<1> QED BY <1>1, <1>3, TypeInvariant, PTL DEF Spec
-----------------------------------------------------------------------------
(* What the batches stored in a row amount to.                             *)

\* The batches with events for row k, and how many events a set of them has.
Touching(k) == {b \in Batches : k \in DOMAIN b.groups}
Total(k, S) == MapThenSumSet(LAMBDA b : b.groups[k].count, S)

\* One more batch, in the form the folds take.
Adds(k) == [p \in Touching(k) \X Nat |-> p[1].groups[k].count + p[2]]

\* A batch has a group for each row it touches.
LEMMA GroupTypes ==
  ASSUME NEW k \in Keys, NEW b \in Touching(k)
  PROVE  b.groups[k] \in Group /\ b.groups[k].count \in Nat
<1>1. b.groups[k] \in Group
  BY BatchTypes DEF Touching
<1> QED BY <1>1 DEF Group

\* F is the number of events of each subset of S.
Totals(k, S, F) ==
  /\ Total(k, S) = F[S]
  /\ \A s \in SUBSET S :
       F[s] \in Nat /\ \A x \in s : F[s] = x.groups[k].count + F[s \ {x}]

\* The number of events of a finite set of batches is the fold of Adds.
LEMMA TotalIsFold ==
  ASSUME NEW k \in Keys, NEW S \in SUBSET Touching(k), IsFiniteSet(S),
         NEW F, IsFold(F, S, 0, Adds(k))
  PROVE  Totals(k, S, F)
<1>1. /\ Adds(k) \in [Touching(k) \X Nat -> Nat]
      /\ \A x \in Touching(k), r \in Nat : Adds(k)[<<x, r>>] = x.groups[k].count + r
      /\ \A x, y \in Touching(k) : \A r \in Nat :
           Adds(k)[<<x, Adds(k)[<<y, r>>]>>] = Adds(k)[<<y, Adds(k)[<<x, r>>]>>]
  <2>1. \A x \in Touching(k), r \in Nat : /\ Adds(k)[<<x, r>>] = x.groups[k].count + r
                                          /\ x.groups[k].count + r \in Nat
    BY GroupTypes DEF Adds
  <2>2. Adds(k) \in [Touching(k) \X Nat -> Nat]
    BY GroupTypes DEF Adds
  <2>3. ASSUME NEW x \in Touching(k), NEW y \in Touching(k), NEW r \in Nat
        PROVE  Adds(k)[<<x, Adds(k)[<<y, r>>]>>] = Adds(k)[<<y, Adds(k)[<<x, r>>]>>]
    BY <2>1, GroupTypes
  <2> QED BY <2>1, <2>2, <2>3
<1>2. \A s \in SUBSET S : F[s] \in Nat /\ \A x \in s : F[s] = Adds(k)[<<x, F[s \ {x}]>>]
  <2>1. Commutes(Adds(k), Touching(k), Nat) /\ 0 \in Nat
    BY <1>1 DEF Commutes
  <2>2. TakesAny(F, S, Nat, Adds(k))
    BY <2>1, FoldTakes
  <2> QED BY <2>2 DEF TakesAny
<1>3. ASSUME NEW s \in SUBSET S
      PROVE  F[s] \in Nat /\ \A x \in s : F[s] = x.groups[k].count + F[s \ {x}]
  <2>1. \A x \in s : s \ {x} \in SUBSET S /\ F[s \ {x}] \in Nat /\ x \in Touching(k)
    BY <1>2
  <2> QED BY <1>1, <1>2, <2>1
<1>4. F = [s \in SUBSET S |-> IF s = {} THEN 0
                             ELSE First(s).groups[k].count + F[s \ {First(s)}]]
  <2>1. F = [s \in SUBSET S |-> IF s = {} THEN 0 ELSE Adds(k)[<<First(s), F[s \ {First(s)}]>>]]
    BY DEF IsFold
  <2>2. ASSUME NEW s \in SUBSET S, s # {}
        PROVE  F[s] = First(s).groups[k].count + F[s \ {First(s)}]
    <3>1. First(s) \in s
      BY <2>2 DEF First
    <3> QED BY <1>3, <3>1
  <2>3. F[{}] = 0
    BY <2>1
  <2> DEFINE E == [s \in SUBSET S |-> IF s = {} THEN 0
                                     ELSE First(s).groups[k].count + F[s \ {First(s)}]]
  <2>4. \A s \in SUBSET S : F[s] = E[s]
    BY <2>2, <2>3
  <2>5. F = [s \in SUBSET S |-> F[s]]
    BY <2>1
  <2>6. E = [s \in SUBSET S |-> E[s]]
    OBVIOUS
  <2> HIDE DEF E
  <2>7. F = E
    BY <2>4, <2>5, <2>6
  <2> QED BY <2>7 DEF E
<1> DEFINE Q(it) == it = [s \in SUBSET S |-> IF s = {} THEN 0
                                            ELSE First(s).groups[k].count + it[s \ {First(s)}]]
           H == CHOOSE it : Q(it)
<1>5. Total(k, S) = H[S]
  BY DEF Total, MapThenSumSet, MapThenFoldSet, First
<1>6. Q(H)
  <2>1. Q(F)
    BY <1>4
  <2> HIDE DEF Q
  <2> QED BY <2>1
<1>7. H[S] = F[S]
  <2>1. H[{}] = 0 /\ F[{}] = 0
    BY <1>4, <1>6
  <2>2. \A s \in SUBSET S : s # {} =>
          /\ H[s] = First(s).groups[k].count + H[s \ {First(s)}]
          /\ F[s] = First(s).groups[k].count + F[s \ {First(s)}]
    BY <1>4, <1>6
  <2> HIDE DEF H, Q
  <2>3. \A s \in SUBSET S : F[s] = H[s]
    BY <2>1, <2>2, FoldsAgree
  <2> QED BY <2>3
<1> QED BY <1>3, <1>5, <1>7 DEF Totals

\* It is a number, it grows with the set, and by its number of events with a batch.
LEMMA TotalGrows ==
  ASSUME NEW k \in Keys, NEW S \in SUBSET Touching(k), IsFiniteSet(S)
  PROVE  /\ Total(k, S) \in Nat
         /\ \A T \in SUBSET S : Total(k, T) <= Total(k, S)
         /\ \A x \in S : Total(k, S) = x.groups[k].count + Total(k, S \ {x})
<1>1. PICK F : IsFold(F, S, 0, Adds(k))
  BY FoldExists
<1>2. \A T \in SUBSET S : Total(k, T) = F[T]
  <2> SUFFICES ASSUME NEW T \in SUBSET S PROVE Total(k, T) = F[T]
    OBVIOUS
  <2>1. IsFiniteSet(T) /\ T \in SUBSET Touching(k)
    BY FS_Subset
  <2>2. PICK H : IsFold(H, T, 0, Adds(k))
    BY <2>1, FoldExists
  <2>3. Total(k, T) = H[T]
    BY <2>1, <2>2, TotalIsFold DEF Totals
  <2>4. F[T] = H[T]
    BY <1>1, <2>2, FoldsMeet
  <2> QED BY <2>3, <2>4
<1>3. \A s \in SUBSET S :
        F[s] \in Nat /\ \A x \in s : F[s] = x.groups[k].count + F[s \ {x}]
  <2>1. Totals(k, S, F)
    BY <1>1, TotalIsFold
  <2> QED BY <2>1 DEF Totals
<1>4. \A s \in SUBSET S : \A x \in s : F[s \ {x}] <= F[s]
  <2> SUFFICES ASSUME NEW s \in SUBSET S, NEW x \in s PROVE F[s \ {x}] <= F[s]
    OBVIOUS
  <2>1. /\ F[s] = x.groups[k].count + F[s \ {x}]
        /\ F[s \ {x}] \in Nat /\ x.groups[k].count \in Nat
    BY <1>3, GroupTypes
  <2> QED BY <2>1
<1>5. \A T \in SUBSET S : F[T] <= F[S]
  BY <1>3, <1>4, FoldGrows
<1>6. \A x \in S : F[S] = x.groups[k].count + F[S \ {x}]
  BY <1>3
<1> QED BY <1>2, <1>3, <1>5, <1>6
-----------------------------------------------------------------------------
(* Acknowledged batches.                                                   *)

\* The groups of its batch a handler has merged.
Merged(h) == DOMAIN job[h].batch.groups \ job[h].todo

\* The batches known to be in row k: no sensor keeps them any more, or the handler
\* at work on them has merged their group.
Stored(k) ==
  {b \in Touching(k) : \/ b \notin outbox
                       \/ \E h \in Handlers : job[h].batch = b /\ k \in Merged(h)}

\* An idle handler has merged nothing.
LEMMA NothingMerged == NoJob.todo = DOMAIN NoJob.batch.groups
<1>1. DOMAIN <<>> = {}
  OBVIOUS
<1> QED BY <1>1 DEF NoJob, NoBatch

\* A handler has merged something more only by committing a merge.
LEMMA MergedMoves ==
  ASSUME TypeInv, [Next]_vars, NEW h \in Handlers, ~CommitMerge(h)
  PROVE  \/ job'[h].batch = job[h].batch /\ job'[h].todo = job[h].todo
         \/ job'[h].todo = DOMAIN job'[h].batch.groups
<1>0. TypeOK /\ job \in [Handlers -> Job]
  BY DEF TypeInv, TypeOK
<1>1. CASE ~Steps(h)
  BY <1>0, <1>1, Waits, NothingMerged
<1>2. CASE AfterMerge(h)
  BY <1>0, <1>2, AfterMergeFrame DEF SameMerge
<1>3. ASSUME NEW b \in Batches, Deliver(h, b) PROVE job'[h].todo = DOMAIN job'[h].batch.groups
  BY <1>0, <1>3 DEF Deliver, NoJob
<1>4. ASSUME NEW k \in Keys, BeginMerge(h, k)
      PROVE  job'[h].batch = job[h].batch /\ job'[h].todo = job[h].todo
  BY <1>0, <1>4 DEF BeginMerge, Job
<1>5. Respond(h) \/ IngestFails(h) => job'[h].todo = DOMAIN job'[h].batch.groups
  BY NothingMerged DEF Respond, IngestFails, Ended
<1> QED BY <1>1, <1>2, <1>3, <1>4, <1>5 DEF Steps, HandlerStep, AfterMerge

\* Committing a merge takes its group off the list.
LEMMA CommitMergeTodo ==
  ASSUME TypeInv, NEW h \in Handlers, CommitMerge(h)
  PROVE  /\ job'[h].batch = job[h].batch /\ job'[h].todo = job[h].todo \ {job[h].key}
         /\ outbox' = outbox
         /\ job[h].key \in job[h].todo /\ job[h].key \in DOMAIN job[h].batch.groups
         /\ job[h].batch \in Batches
<1>1. job \in [Handlers -> Job]
  BY DEF TypeInv, TypeOK
<1>2. job'[h].batch = job[h].batch /\ job'[h].todo = job[h].todo \ {job[h].key}
  BY <1>1 DEF CommitMerge, Job
<1>3. job[h].key \in job[h].todo /\ job[h].key \in DOMAIN job[h].batch.groups
  BY DEF TypeInv, MergesItsBatch, CommitMerge
<1>4. job[h].batch # NoBatch
  BY <1>3 DEF NoBatch
<1> QED BY <1>1, <1>2, <1>3, <1>4 DEF CommitMerge, Job

\* A sensor forgets a batch when a handler that has merged all of it answers.
LEMMA WhoForgets ==
  ASSUME [Next]_vars
  PROVE  outbox' = outbox \/ \E h \in Handlers : Respond(h) /\ outbox' = outbox \ {job[h].batch}
<1>1. ASSUME NEW h \in Handlers, Steps(h), ~Respond(h) PROVE outbox' = outbox
  BY <1>1 DEF Steps, HandlerStep, Deliver, BeginMerge, CommitMerge, React, BeginUpsert,
     CommitUpsert, RetryUpsert, RecordAlert, ReactDenied, BlockAlert, IngestFails,
     CompareFails, FindFails, AlertFails
<1>2. ASSUME NEW h \in Handlers, Respond(h)
      PROVE  outbox' = outbox \/ outbox' = outbox \ {job[h].batch}
  BY <1>2 DEF Respond
<1>3. \A r \in Replicas : Crash(r) => outbox' = outbox
  BY DEF Crash
<1>4. Outside => outbox' = outbox
  BY DEF Outside, OperatorStep, SetAlertStatus, AgeAlerts, PruneResolvedAlerts, BeginImport,
     CommitImport, ClientTimeout, vars
<1> QED BY <1>1, <1>2, <1>3, <1>4, WhoSteps

\* A batch is known to be in a row after a step when it was, or when the step put it
\* there: an answer forgets only what is stored.
LEMMA StoredFrom ==
  ASSUME TypeInv, [Next]_vars, NEW k \in Keys, NEW b \in Stored(k)', b \notin Stored(k)
  PROVE  \E h \in Handlers : CommitMerge(h) /\ job[h].key = k /\ job[h].batch = b
<1>1. b \in Touching(k) /\ b \in outbox
  BY DEF Stored, Touching
<1>2. CASE b \notin outbox'
  <2>1. PICK h \in Handlers : Respond(h) /\ outbox' = outbox \ {job[h].batch}
    BY <1>1, <1>2, WhoForgets
  <2>2. job[h].batch = b /\ job[h].todo = {}
    BY <1>1, <1>2, <2>1 DEF Respond
  <2>3. k \in Merged(h)
    BY <1>1, <2>2 DEF Merged, Touching
  <2> QED BY <1>1, <2>2, <2>3 DEF Stored
<1>3. CASE b \in outbox'
  <2>1. PICK h \in Handlers : job'[h].batch = b /\ k \in DOMAIN job'[h].batch.groups \ job'[h].todo
    BY <1>3 DEF Stored, Merged
  <2>2. ~(job'[h].batch = job[h].batch /\ job'[h].todo = job[h].todo)
    BY <1>1, <2>1 DEF Stored, Merged
  <2>3. CommitMerge(h)
    BY <2>1, <2>2, MergedMoves
  <2>4. job[h].batch = b /\ job'[h].todo = job[h].todo \ {job[h].key}
    BY <2>1, <2>3, CommitMergeTodo
  <2>5. job[h].key = k
    BY <1>1, <2>1, <2>4 DEF Stored, Merged
  <2> QED BY <2>3, <2>4, <2>5
<1> QED BY <1>2, <1>3

\* No batch, no event.
LEMMA TotalOfNone ==
  ASSUME NEW k \in Keys
  PROVE  Total(k, {}) = 0
<1>1. IsFiniteSet({}) /\ {} \in SUBSET Touching(k)
  BY FS_EmptySet
<1>2. PICK F : IsFold(F, {}, 0, Adds(k))
  BY <1>1, FoldExists
<1>3. Total(k, {}) = F[{}]
  BY <1>1, <1>2, TotalIsFold DEF Totals
<1>4. F[{}] = 0
  BY <1>2 DEF IsFold
<1> QED BY <1>3, <1>4

\* Row k has what the batches in it brought: their behaviors, and as many events.
RowHolds(k) ==
  /\ IsFiniteSet(Stored(k))
  /\ \A b \in Stored(k) : b.groups[k].behaviors \subseteq fps[k].behaviors
  /\ Total(k, Stored(k)) <= fps[k].obs

BatchesHeld == \A k \in Keys : Own(k) => RowHolds(k)

\* A set of batches that were stored is no larger than what the row holds.
LEMMA HoldsFewer ==
  ASSUME TypeOK, NEW k \in Keys, RowHolds(k), NEW S \in SUBSET Stored(k)
  PROVE  /\ IsFiniteSet(S)
         /\ \A b \in S : b.groups[k].behaviors \subseteq fps[k].behaviors
         /\ Total(k, S) <= fps[k].obs
<1>1. IsFiniteSet(Stored(k)) /\ Stored(k) \in SUBSET Touching(k) /\ S \in SUBSET Touching(k)
  BY DEF RowHolds, Stored
<1>2. IsFiniteSet(S)
  BY <1>1, FS_Subset
<1>3. /\ Total(k, S) \in Nat /\ Total(k, Stored(k)) \in Nat /\ fps[k].obs \in Nat
      /\ Total(k, S) <= Total(k, Stored(k))
  BY <1>1, <1>2, TotalGrows DEF TypeOK, Row
<1>4. Total(k, Stored(k)) <= fps[k].obs
  BY DEF RowHolds
<1>5. Total(k, S) <= fps[k].obs
  BY <1>3, <1>4
<1> QED BY <1>2, <1>5 DEF RowHolds

\* Whatever is imported around it, a row that was never imported holds every batch
\* that no sensor keeps any more, and counts each of its events: by induction on the
\* merges, over the batches in the row.
THEOREM BatchesHeldInvariant == Spec => []BatchesHeld
<1>1. Init => BatchesHeld
  <2> SUFFICES ASSUME Init, NEW k \in Keys PROVE RowHolds(k)
    BY DEF BatchesHeld
  <2>1. Stored(k) = {}
    BY NothingMerged DEF Init, Stored, Touching, Merged
  <2>2. Total(k, {}) <= fps[k].obs
    BY TotalOfNone DEF Init, NoRow
  <2> QED BY <2>1, <2>2, FS_EmptySet DEF RowHolds
<1>2. TypeInv /\ RowsInv /\ BatchesHeld /\ [Next]_vars => BatchesHeld'
  <2> SUFFICES ASSUME TypeInv, RowsInv, BatchesHeld, [Next]_vars, NEW k \in Keys, Own(k)'
               PROVE  RowHolds(k)'
    BY DEF BatchesHeld
  <2>0. RowHolds(k) /\ TypeOK /\ fps[k] \in Row /\ fps[k].obs \in Nat
    BY OwnRow DEF BatchesHeld, TypeInv, TypeOK, Row
  <2>2. CASE \A h \in Handlers : ~(CommitMerge(h) /\ job[h].key = k)
    <3>1. fps'[k] = fps[k]
      BY <2>2, OwnRow
    <3>2. Stored(k)' \subseteq Stored(k)
      BY <2>2, StoredFrom
    <3> QED BY <2>0, <3>1, <3>2, HoldsFewer DEF RowHolds
  <2>3. ASSUME NEW h \in Handlers, CommitMerge(h), job[h].key = k PROVE RowHolds(k)'
    <3> DEFINE b == job[h].batch
               g == b.groups[k]
               old == Stored(k)' \ {b}
    <3>1. g \in Group /\ g.count \in Nat /\ fps'[k] = Learn(fps[k], g)
      BY <2>3, CommitMergeRow, OwnRow DEF Group
    <3>2. fps'[k].behaviors = fps[k].behaviors \cup g.behaviors /\ fps'[k].obs = fps[k].obs + g.count
      BY <2>0, <3>1, LearnFields
    <3>3. \A c \in old : c \in Stored(k)
      <4> SUFFICES ASSUME NEW c \in old, c \notin Stored(k) PROVE FALSE
        OBVIOUS
      <4>1. PICK p \in Handlers : CommitMerge(p) /\ job[p].key = k /\ job[p].batch = c
        BY StoredFrom
      <4>2. p = h
        BY <2>3, <4>1 DEF CommitMerge, RowsInv, KeyLocksExclude
      <4> QED BY <4>1, <4>2
    <3>4. /\ IsFiniteSet(old) /\ Total(k, old) <= fps[k].obs
          /\ \A c \in old : c.groups[k].behaviors \subseteq fps[k].behaviors
      BY <2>0, <3>3, HoldsFewer
    <3>5. IsFiniteSet(Stored(k)')
      <4>1. Stored(k)' \subseteq old \cup {b}
        OBVIOUS
      <4> QED BY <3>4, <4>1, FS_AddElement, FS_Subset
    <3>6. \A c \in Stored(k)' : c.groups[k].behaviors \subseteq fps'[k].behaviors
      BY <3>2, <3>4
    <3>7. Total(k, Stored(k)') <= fps'[k].obs
      <4>1. Stored(k)' \in SUBSET Touching(k)
        BY DEF Stored, Touching
      <4>2. CASE b \in Stored(k)'
        <5>1. Total(k, Stored(k)') = g.count + Total(k, old)
          BY <3>5, <4>1, <4>2, TotalGrows
        <5>2. Total(k, old) \in Nat
          BY <3>4, <4>1, TotalGrows
        <5> QED BY <2>0, <3>1, <3>2, <3>4, <5>1, <5>2
      <4>3. CASE b \notin Stored(k)'
        <5>1. Stored(k)' = old
          BY <4>3
        <5>2. Total(k, old) \in Nat
          BY <3>4, <4>1, TotalGrows
        <5> HIDE DEF old
        <5> QED BY <2>0, <3>1, <3>2, <3>4, <5>1, <5>2
      <4> QED BY <4>2, <4>3
    <3> QED BY <3>5, <3>6, <3>7 DEF RowHolds
  <2> QED BY <2>2, <2>3
<1> QED BY <1>1, <1>2, TypeInvariant, RowsInvariant, PTL DEF Spec

\* While nobody imports, a batch that no sensor keeps any more is in every row it
\* touches, and every one of its events is counted there, whatever failed, was
\* delivered again or interleaved on the way (api.handleIngest,
\* batchSender.flush, MergeFingerprint).
THEOREM AcknowledgedStored ==
  ASSUME MaxImports = 0
  PROVE  Spec => []AcknowledgedIsStored
<1>1. TypeInv /\ RowsInv /\ BatchesHeld => AcknowledgedIsStored
  <2> SUFFICES ASSUME TypeInv, RowsInv, BatchesHeld, NEW k \in Keys
               PROVE  LET acknowledged == {b \in Batches \ outbox : k \in DOMAIN b.groups} IN
                      /\ \A b \in acknowledged : b.groups[k].behaviors \subseteq fps[k].behaviors
                      /\ fps[k].obs >= MapThenSumSet(LAMBDA b : b.groups[k].count, acknowledged)
    BY DEF AcknowledgedIsStored
  <2> DEFINE acknowledged == {b \in Batches \ outbox : k \in DOMAIN b.groups}
  <2>1. acknowledged \in SUBSET Stored(k) /\ acknowledged \in SUBSET Touching(k)
    BY DEF Stored, Touching
  <2> HIDE DEF acknowledged
  <2>2. RowHolds(k) /\ TypeOK /\ fps[k].obs \in Nat
    BY DEF BatchesHeld, RowsInv, NoImportsYet, TypeInv, TypeOK, Row
  <2>3. /\ IsFiniteSet(acknowledged) /\ Total(k, acknowledged) <= fps[k].obs
        /\ \A b \in acknowledged : b.groups[k].behaviors \subseteq fps[k].behaviors
    BY <2>1, <2>2, HoldsFewer
  <2>4. Total(k, acknowledged) \in Nat
    BY <2>1, <2>3, TotalGrows
  <2>5. fps[k].obs >= Total(k, acknowledged)
    BY <2>2, <2>3, <2>4
  <2>6. fps[k].obs >= MapThenSumSet(LAMBDA b : b.groups[k].count, acknowledged)
    BY <2>5 DEF Total
  <2> QED BY <2>3, <2>6 DEF acknowledged
<1> QED BY <1>1, BatchesHeldInvariant, RowsInvariant, TypeInvariant, PTL
-----------------------------------------------------------------------------
(* Concurrent ingests converge.                                            *)

\* A row is merged with two groups in either order.
LEMMA MergesCommute ==
  ASSUME NEW row \in Row, NEW g \in Group, NEW h \in Group
  PROVE  MergeGroup(MergeGroup(row, g), h) = MergeGroup(MergeGroup(row, h), g)
<1> DEFINE gh == MergeGroup(MergeGroup(row, g), h)
           hg == MergeGroup(MergeGroup(row, h), g)
<1>0. /\ row.obs \in Nat /\ row.first \in Nat /\ row.last \in Nat
      /\ g.count \in Nat /\ g.first \in Nat /\ g.first # 0 /\ g.last \in Nat
      /\ h.count \in Nat /\ h.first \in Nat /\ h.first # 0 /\ h.last \in Nat
  BY DEF Row, Group
<1>1. gh.behaviors = hg.behaviors
  BY DEF MergeGroup
<1>2. gh.obs = hg.obs
  BY <1>0 DEF MergeGroup
<1>3. gh.first = hg.first
  BY <1>0 DEF MergeGroup, Earlier
<1>4. gh.last = hg.last
  BY <1>0 DEF MergeGroup, Later
<1>5. gh.baseline = hg.baseline
  BY DEF MergeGroup
<1>6. gh.origin = hg.origin
  BY DEF MergeGroup
<1>7. \A p, q : MergeGroup(p, q) =
        [behaviors |-> MergeGroup(p, q).behaviors, obs |-> MergeGroup(p, q).obs,
         first |-> MergeGroup(p, q).first, last |-> MergeGroup(p, q).last,
         baseline |-> MergeGroup(p, q).baseline, origin |-> MergeGroup(p, q).origin]
  BY DEF MergeGroup
<1> QED BY <1>1, <1>2, <1>3, <1>4, <1>5, <1>6, <1>7

\* A row that some group was merged into has a first event.
FoldedRow == {row \in Row : row.first # 0 \/ row.obs = 0}

\* Merging a group into such a row gives such a row.
LEMMA MergeFolds ==
  ASSUME NEW row \in FoldedRow, NEW g \in Group
  PROVE  MergeGroup(row, g) \in FoldedRow /\ MergeGroup(row, g).first # 0
<1>1. row \in Row
  BY DEF FoldedRow
<1>2. MergeGroup(row, g) \in Row
  BY <1>1 DEF MergeGroup, Row, Group, Earlier, Later, Origins
<1>3. MergeGroup(row, g).first # 0
  BY <1>1 DEF MergeGroup, Row, Group, Earlier
<1> QED BY <1>2, <1>3 DEF FoldedRow

\* The row as it is once promoted if it qualifies.
Promoted(row) == [row EXCEPT !.baseline = Qualifies(row)]

\* Promotion does not depend on when it was looked for: learning a group on a row
\* that was promoted when it qualified is to merge first and promote at the end.
LEMMA LearnPromoted ==
  ASSUME NEW row \in FoldedRow, NEW g \in Group
  PROVE  Learn(Promoted(row), g) = Promoted(MergeGroup(row, g))
<1> DEFINE m == MergeGroup(row, g)
           n == MergeGroup(Promoted(row), g)
<1>0. /\ row \in Row /\ row.obs \in Nat /\ row.first \in Nat /\ row.last \in Nat
      /\ g.count \in Nat /\ g.first \in Nat /\ g.last \in Nat
  BY DEF FoldedRow, Row, Group
<1>1. /\ n.behaviors = m.behaviors /\ n.obs = m.obs /\ n.first = m.first /\ n.last = m.last
      /\ n.origin = m.origin /\ n.baseline = Qualifies(row)
  BY <1>0 DEF Promoted, MergeGroup, Row
<1>2. Qualifies(n) <=> Qualifies(m)
  BY <1>1 DEF Qualifies
<1>3. Qualifies(row) => Qualifies(m)
  <2> SUFFICES ASSUME Qualifies(row) PROVE Qualifies(m)
    OBVIOUS
  <2>1. row.first # 0
    BY <1>0, WindowAssumption DEF FoldedRow, Qualifies
  <2>2. /\ m.obs = row.obs + g.count /\ m.first = Earlier(row.first, g.first)
        /\ m.last = Later(row.last, g.last)
    BY <2>1 DEF MergeGroup
  <2>3. m.first <= row.first /\ row.last <= m.last /\ m.first \in Nat /\ m.last \in Nat
    BY <1>0, <2>2 DEF Earlier, Later
  <2> QED BY <1>0, <2>2, <2>3, WindowAssumption DEF Qualifies
<1>4. Learn(Promoted(row), g) = [n EXCEPT !.baseline = Qualifies(row) \/ Qualifies(n)]
  BY <1>1 DEF Learn
<1>5. n = [behaviors |-> m.behaviors, obs |-> m.obs, first |-> m.first, last |-> m.last,
           baseline |-> Qualifies(row), origin |-> m.origin]
  BY <1>1 DEF MergeGroup
<1>6. m = [behaviors |-> m.behaviors, obs |-> m.obs, first |-> m.first, last |-> m.last,
           baseline |-> m.baseline, origin |-> m.origin]
  BY DEF MergeGroup
<1>7. (Qualifies(row) \/ Qualifies(n)) = Qualifies(m)
  BY <1>2, <1>3 DEF Qualifies
<1> HIDE DEF m, n
<1>8. [n EXCEPT !.baseline = Qualifies(m)] = [m EXCEPT !.baseline = Qualifies(m)]
  BY <1>5, <1>6
<1> QED BY <1>4, <1>7, <1>8 DEF Promoted, m
-----------------------------------------------------------------------------
\* The row that merging a set of batches one after the other gives.
MergedRow(k, S) == FoldSet(LAMBDA b, row : MergeGroup(row, b.groups[k]), NoRow, S)

\* One more batch, in the form the folds take.
Merges(k) == [p \in Touching(k) \X FoldedRow |-> MergeGroup(p[2], p[1].groups[k])]

\* F is the row that each subset of S merges into.
MergedRows(k, S, F) ==
  /\ MergedRow(k, S) = F[S]
  /\ \A s \in SUBSET S :
       F[s] \in FoldedRow /\ \A x \in s : F[s] = MergeGroup(F[s \ {x}], x.groups[k])

\* Merging the batches of a finite set one after the other, in any order, gives the
\* row whose last step was any of them.
LEMMA MergedRowIsFold ==
  ASSUME NEW k \in Keys, NEW S \in SUBSET Touching(k), IsFiniteSet(S),
         NEW F, IsFold(F, S, NoRow, Merges(k))
  PROVE  MergedRows(k, S, F)
<1>1. \A x \in Touching(k), r \in FoldedRow :
        /\ Merges(k)[<<x, r>>] = MergeGroup(r, x.groups[k])
        /\ MergeGroup(r, x.groups[k]) \in FoldedRow
  BY GroupTypes, MergeFolds DEF Merges
<1>2. Commutes(Merges(k), Touching(k), FoldedRow)
  <2>1. Merges(k) \in [Touching(k) \X FoldedRow -> FoldedRow]
    BY GroupTypes, MergeFolds DEF Merges
  <2>2. ASSUME NEW x \in Touching(k), NEW y \in Touching(k), NEW r \in FoldedRow
        PROVE  Merges(k)[<<x, Merges(k)[<<y, r>>]>>] = Merges(k)[<<y, Merges(k)[<<x, r>>]>>]
    <3>1. r \in Row /\ x.groups[k] \in Group /\ y.groups[k] \in Group
      BY GroupTypes DEF FoldedRow
    <3>2. MergeGroup(MergeGroup(r, y.groups[k]), x.groups[k]) =
            MergeGroup(MergeGroup(r, x.groups[k]), y.groups[k])
      BY <3>1, MergesCommute
    <3> QED BY <1>1, <3>2
  <2> QED BY <2>1, <2>2 DEF Commutes
<1>3. TakesAny(F, S, FoldedRow, Merges(k))
  <2>1. NoRow \in FoldedRow
    BY DEF NoRow, FoldedRow, Row, Origins
  <2> QED BY <1>2, <2>1, FoldTakes
<1>4. ASSUME NEW s \in SUBSET S
      PROVE  F[s] \in FoldedRow /\ \A x \in s : F[s] = MergeGroup(F[s \ {x}], x.groups[k])
  <2>1. \A x \in s : s \ {x} \in SUBSET S /\ F[s \ {x}] \in FoldedRow /\ x \in Touching(k)
    BY <1>3 DEF TakesAny
  <2> QED BY <1>1, <1>3, <2>1 DEF TakesAny
<1>5. F = [s \in SUBSET S |-> IF s = {} THEN NoRow
                             ELSE MergeGroup(F[s \ {First(s)}], First(s).groups[k])]
  <2>1. F = [s \in SUBSET S |-> IF s = {} THEN NoRow
                                ELSE Merges(k)[<<First(s), F[s \ {First(s)}]>>]]
    BY DEF IsFold
  <2>2. ASSUME NEW s \in SUBSET S, s # {}
        PROVE  F[s] = MergeGroup(F[s \ {First(s)}], First(s).groups[k])
    <3>1. First(s) \in s
      BY <2>2 DEF First
    <3> QED BY <1>4, <3>1
  <2>3. F[{}] = NoRow
    BY <2>1
  <2> DEFINE E == [s \in SUBSET S |-> IF s = {} THEN NoRow
                                     ELSE MergeGroup(F[s \ {First(s)}], First(s).groups[k])]
  <2>4. \A s \in SUBSET S : F[s] = E[s]
    BY <2>2, <2>3
  <2>5. F = [s \in SUBSET S |-> F[s]]
    BY <2>1
  <2>6. E = [s \in SUBSET S |-> E[s]]
    OBVIOUS
  <2> HIDE DEF E
  <2>7. F = E
    BY <2>4, <2>5, <2>6
  <2> QED BY <2>7 DEF E
<1> DEFINE Q(it) == it = [s \in SUBSET S |-> IF s = {} THEN NoRow
                                            ELSE MergeGroup(it[s \ {First(s)}], First(s).groups[k])]
           H == CHOOSE it : Q(it)
<1>6. MergedRow(k, S) = H[S]
  BY DEF MergedRow, FoldSet, MapThenFoldSet, First
<1>7. Q(H)
  <2>1. Q(F)
    BY <1>5
  <2> HIDE DEF Q
  <2> QED BY <2>1
<1>8. H[S] = F[S]
  <2>1. H[{}] = NoRow /\ F[{}] = NoRow
    BY <1>5, <1>7
  <2>2. \A s \in SUBSET S : s # {} =>
          /\ H[s] = MergeGroup(H[s \ {First(s)}], First(s).groups[k])
          /\ F[s] = MergeGroup(F[s \ {First(s)}], First(s).groups[k])
    BY <1>5, <1>7
  <2> HIDE DEF H, Q
  <2>3. \A s \in SUBSET S :
          s # {} /\ F[s \ {First(s)}] = H[s \ {First(s)}] => F[s] = H[s]
    BY <2>2
  <2>4. \A s \in SUBSET S : F[s] = H[s]
    BY <2>1, <2>3, FoldsAgree
  <2> QED BY <2>4
<1> QED BY <1>4, <1>6, <1>8 DEF MergedRows

\* Of no batch it is no row; with a batch more it is merged with its group.
LEMMA MergedRowGrows ==
  ASSUME NEW k \in Keys, NEW S \in SUBSET Touching(k), IsFiniteSet(S)
  PROVE  /\ MergedRow(k, {}) = NoRow
         /\ MergedRow(k, S) \in FoldedRow
         /\ \A x \in S : MergedRow(k, S) = MergeGroup(MergedRow(k, S \ {x}), x.groups[k])
<1>1. PICK F : IsFold(F, S, NoRow, Merges(k))
  BY FoldExists
<1>2. \A T \in SUBSET S : MergedRow(k, T) = F[T]
  <2> SUFFICES ASSUME NEW T \in SUBSET S PROVE MergedRow(k, T) = F[T]
    OBVIOUS
  <2>1. IsFiniteSet(T) /\ T \in SUBSET Touching(k)
    BY FS_Subset
  <2>2. PICK H : IsFold(H, T, NoRow, Merges(k))
    BY <2>1, FoldExists
  <2>3. MergedRow(k, T) = H[T]
    BY <2>1, <2>2, MergedRowIsFold DEF MergedRows
  <2>4. F[T] = H[T]
    BY <1>1, <2>2, FoldsMeet
  <2> QED BY <2>3, <2>4
<1>3. MergedRows(k, S, F)
  BY <1>1, MergedRowIsFold
<1>4. F[{}] = NoRow
  BY <1>1 DEF IsFold
<1>5. F[S] \in FoldedRow /\ \A x \in S : F[S] = MergeGroup(F[S \ {x}], x.groups[k])
  BY <1>3 DEF MergedRows
<1> QED BY <1>2, <1>4, <1>5

\* Until something fails one handler at a time is at work on a batch, and its sensor
\* still keeps it.
OneAtATime == faults = 0 =>
  /\ \A h \in Handlers : job[h].pc # "idle" => job[h].batch \in outbox
  /\ \A g, h \in Handlers :
       job[g].pc # "idle" /\ job[h].pc # "idle" /\ job[g].batch = job[h].batch => g = h

\* Without a failure a handler is at work on the batch it was at work on, or on one
\* that was just delivered.
LEMMA WorksOn ==
  ASSUME TypeInv, QuietInv, [Next]_vars, faults' = 0, NEW h \in Handlers, job'[h].pc # "idle"
  PROVE  \/ job[h].pc # "idle" /\ job'[h].batch = job[h].batch /\ ~Respond(h)
         \/ \E b \in Batches : Deliver(h, b)
<1>0. TypeOK /\ job \in [Handlers -> Job]
  BY DEF TypeInv, TypeOK
<1>1. ~Respond(h) /\ ~IngestFails(h)
  BY DEF Respond, IngestFails, Ended, NoJob
<1>2. CASE ~Steps(h)
  <2>1. job'[h] = job[h]
    BY <1>0, <1>2, WaitsQuietly, NoFailure
  <2> QED BY <1>1, <2>1
<1>3. CASE Steps(h) /\ job[h].pc = "idle"
  BY <1>3, IdleUntilDelivery
<1>4. CASE Steps(h) /\ job[h].pc # "idle"
  <2>1. CASE AfterMerge(h)
    BY <1>0, <1>1, <1>4, <2>1, AfterMergeFrame DEF SameMerge
  <2>2. ASSUME NEW k \in Keys, BeginMerge(h, k) PROVE job'[h].batch = job[h].batch
    BY <1>0, <2>2 DEF BeginMerge, Job
  <2>3. CommitMerge(h) => job'[h].batch = job[h].batch
    BY CommitMergeTodo
  <2> QED BY <1>1, <1>4, <2>1, <2>2, <2>3 DEF Steps, HandlerStep, AfterMerge
<1> QED BY <1>2, <1>3, <1>4

\* Delivery waits for the answer to the last one.
THEOREM OneAtATimeInvariant == Spec => []OneAtATime
<1>1. Init => OneAtATime
  BY DEF Init, OneAtATime, NoJob
<1>2. TypeInv /\ QuietInv /\ OneAtATime /\ [Next]_vars => OneAtATime'
  <2> SUFFICES ASSUME TypeInv, QuietInv, OneAtATime, [Next]_vars, faults' = 0
               PROVE  /\ \A h \in Handlers : job'[h].pc # "idle" => job'[h].batch \in outbox'
                      /\ \A g, h \in Handlers :
                           /\ job'[g].pc # "idle" /\ job'[h].pc # "idle"
                           /\ job'[g].batch = job'[h].batch
                           => g = h
    BY DEF OneAtATime
  <2>0. faults = 0 /\ TypeOK /\ job \in [Handlers -> Job]
    BY NoFailure DEF TypeInv, TypeOK
  <2>1. ASSUME NEW h \in Handlers, NEW b \in Batches, Deliver(h, b)
        PROVE  /\ job'[h].batch = b /\ b \in outbox'
               /\ \A g \in Handlers : job[g].pc # "idle" => job[g].batch # b
    BY <2>0, <2>1 DEF Deliver, NoJob, QuietInv, Listening
  <2>2. ASSUME NEW h \in Handlers, job'[h].pc # "idle" PROVE job'[h].batch \in outbox'
    <3>1. CASE \E b \in Batches : Deliver(h, b)
      BY <2>1, <3>1
    <3>2. CASE job[h].pc # "idle" /\ job'[h].batch = job[h].batch /\ ~Respond(h)
      <4>1. job[h].batch \in outbox
        BY <2>0, <3>2 DEF OneAtATime
      <4>2. ASSUME NEW g \in Handlers, Respond(g) PROVE job[g].batch # job[h].batch
        BY <2>0, <3>2, <4>2 DEF OneAtATime, Respond
      <4> QED BY <3>2, <4>1, <4>2, WhoForgets
    <3> QED BY <2>2, <3>1, <3>2, WorksOn
  <2>3. ASSUME NEW g \in Handlers, NEW h \in Handlers, job'[g].pc # "idle",
               job'[h].pc # "idle", job'[g].batch = job'[h].batch, g # h
        PROVE  FALSE
    <3>1. ASSUME NEW p \in Handlers, NEW b \in Batches, Deliver(p, b),
                 NEW q \in Handlers, q # p, job'[q].pc # "idle"
          PROVE  job'[p].batch # job'[q].batch
      <4>1. job'[q] = job[q]
        BY <2>0, <3>1, OthersKeep DEF Steps
      <4> QED BY <2>1, <3>1, <4>1
    <3> QED BY <2>0, <2>3, <3>1, WorksOn DEF OneAtATime
  <2> QED BY <2>2, <2>3
<1> QED BY <1>1, <1>2, TypeInvariant, QuietInvariant, PTL DEF Spec

\* Until something fails what is stored stays so, and each merge adds its batch.
LEMMA StoredGrows ==
  ASSUME TypeInv, RowsInv, QuietInv, OneAtATime, [Next]_vars, faults' = 0, NEW k \in Keys
  PROVE  /\ Stored(k) \subseteq Stored(k)'
         /\ (\A h \in Handlers : ~(CommitMerge(h) /\ job[h].key = k)) => Stored(k)' = Stored(k)
         /\ \A h \in Handlers : CommitMerge(h) /\ job[h].key = k =>
              /\ job[h].batch \notin Stored(k)
              /\ Stored(k)' = Stored(k) \cup {job[h].batch}
<1>0. faults = 0 /\ TypeOK /\ job \in [Handlers -> Job]
  BY NoFailure DEF TypeInv, TypeOK
<1>1. ASSUME NEW b \in Stored(k) PROVE b \in Stored(k)'
  <2>1. b \in Touching(k) /\ b \in Touching(k)'
    BY DEF Stored, Touching
  <2>2. CASE b \notin outbox
    <3>1. b \notin outbox'
      BY <2>2, WhoForgets
    <3> QED BY <2>1, <3>1 DEF Stored
  <2>3. CASE b \in outbox
    <3>1. PICK h \in Handlers : job[h].batch = b /\ k \in Merged(h)
      BY <2>3 DEF Stored
    <3>2. job[h].pc # "idle"
      BY <3>1, NothingMerged DEF QuietInv, IdleIsEmpty, Merged
    <3>3. CASE job'[h].pc = "idle"
      <4>1. Respond(h)
        BY <1>0, <3>2, <3>3, IdleFrom, NoFailure, WaitsQuietly
      <4>2. h \in waits
        BY <1>0, <3>2 DEF QuietInv, Listening
      <4>3. b \notin outbox'
        BY <3>1, <4>1, <4>2 DEF Respond
      <4> QED BY <2>1, <4>3 DEF Stored
    <3>4. CASE job'[h].pc # "idle"
      <4>1. job'[h].batch = b
        <5>1. \A c \in Batches : ~Deliver(h, c)
          BY <3>2 DEF Deliver
        <5> QED BY <3>1, <3>4, <5>1, WorksOn
      <4>2. job'[h].todo \subseteq job[h].todo
        <5>1. CASE CommitMerge(h)
          BY <5>1, CommitMergeTodo
        <5>2. CASE ~CommitMerge(h)
          <6>1. CASE ~Steps(h)
            BY <1>0, <6>1, WaitsQuietly, NoFailure
          <6>2. CASE AfterMerge(h)
            BY <1>0, <6>2, AfterMergeFrame DEF SameMerge
          <6>3. ASSUME NEW q \in Keys, BeginMerge(h, q) PROVE job'[h].todo = job[h].todo
            BY <1>0, <6>3 DEF BeginMerge, Job
          <6>4. \A c \in Batches : ~Deliver(h, c)
            BY <3>2 DEF Deliver
          <6>5. ~Respond(h) /\ ~IngestFails(h)
            BY <3>4 DEF Respond, IngestFails, Ended, NoJob
          <6> QED BY <5>2, <6>1, <6>2, <6>3, <6>4, <6>5 DEF Steps, HandlerStep, AfterMerge
        <5> QED BY <5>1, <5>2
      <4> QED BY <2>1, <3>1, <4>1, <4>2 DEF Stored, Merged
    <3> QED BY <3>3, <3>4
  <2> QED BY <2>2, <2>3
<1>2. ASSUME \A h \in Handlers : ~(CommitMerge(h) /\ job[h].key = k)
      PROVE  Stored(k)' = Stored(k)
  BY <1>1, <1>2, StoredFrom
<1>3. ASSUME NEW h \in Handlers, CommitMerge(h), job[h].key = k
      PROVE  job[h].batch \notin Stored(k) /\ Stored(k)' = Stored(k) \cup {job[h].batch}
  <2> DEFINE b == job[h].batch
  <2>1. job[h].pc = "mergeTx" /\ k \in job[h].todo /\ k \in DOMAIN b.groups /\ b \in Batches
    BY <1>3, CommitMergeTodo DEF CommitMerge
  <2>2. b \in outbox
    BY <1>0, <2>1 DEF OneAtATime
  <2>3. b \notin Stored(k)
    <3> SUFFICES ASSUME NEW g \in Handlers, job[g].batch = b, k \in Merged(g) PROVE FALSE
      BY <2>2 DEF Stored
    <3>1. job[g].pc # "idle"
      BY NothingMerged DEF QuietInv, IdleIsEmpty, Merged
    <3>2. g = h
      BY <1>0, <2>1, <3>1 DEF OneAtATime
    <3> QED BY <2>1, <3>2 DEF Merged
  <2>4. b \in Stored(k)'
    <3>1. job'[h].batch = b /\ k \notin job'[h].todo
      BY <1>3, CommitMergeTodo
    <3>2. b \in Touching(k)'
      BY <2>1 DEF Touching
    <3> QED BY <2>1, <3>1, <3>2 DEF Stored, Merged
  <2>5. ASSUME NEW c \in Stored(k)', c \notin Stored(k) PROVE c = b
    <3>1. PICK p \in Handlers : CommitMerge(p) /\ job[p].key = k /\ job[p].batch = c
      BY <2>5, StoredFrom
    <3>2. p = h
      BY <1>3, <3>1 DEF CommitMerge, RowsInv, KeyLocksExclude
    <3> QED BY <3>1, <3>2
  <2> QED BY <1>1, <2>3, <2>4, <2>5
<1> QED BY <1>1, <1>2, <1>3

\* Until something fails a row that was never imported is what a single replica
\* would have made of the batches stored in it.
Converging == faults = 0 => \A k \in Keys : Own(k) =>
  IsFiniteSet(Stored(k)) /\ fps[k] = Promoted(MergedRow(k, Stored(k)))

\* Whatever is imported around it: by induction on the merges, which may come in any
\* order.
THEOREM ConvergingInvariant == Spec => []Converging
<1>1. Init => Converging
  <2> SUFFICES ASSUME Init, NEW k \in Keys
               PROVE  IsFiniteSet(Stored(k)) /\ fps[k] = Promoted(MergedRow(k, Stored(k)))
    BY DEF Converging
  <2>1. Stored(k) = {}
    BY NothingMerged DEF Init, Stored, Touching, Merged
  <2>2. MergedRow(k, {}) = NoRow
    BY FS_EmptySet, MergedRowGrows
  <2>3. Promoted(NoRow) = NoRow
    <3>1. NoRow.obs = 0 /\ NoRow.baseline = FALSE
      BY DEF NoRow
    <3>2. Qualifies(NoRow) = FALSE
      BY <3>1, WindowAssumption DEF Qualifies
    <3>3. NoRow \in Row
      BY DEF NoRow, Row, Origins
    <3>4. \A r \in Row : [r EXCEPT !.baseline = r.baseline] = r
      BY DEF Row
    <3>5. [NoRow EXCEPT !.baseline = Qualifies(NoRow)] = NoRow
      BY <3>1, <3>2, <3>3, <3>4
    <3> QED BY <3>5 DEF Promoted
  <2>4. fps[k] = NoRow
    BY DEF Init
  <2>5. IsFiniteSet({})
    BY FS_EmptySet
  <2> QED BY <2>1, <2>2, <2>3, <2>4, <2>5
<1>2. TypeInv /\ RowsInv /\ QuietInv /\ OneAtATime /\ Converging /\ [Next]_vars => Converging'
  <2> SUFFICES ASSUME TypeInv, RowsInv, QuietInv, OneAtATime, Converging, [Next]_vars,
                      faults' = 0, NEW k \in Keys, Own(k)'
               PROVE  IsFiniteSet(Stored(k)') /\ fps'[k] = Promoted(MergedRow(k, Stored(k)'))
    BY DEF Converging
  <2>0. faults = 0
    BY NoFailure DEF TypeInv
  <2>1. IsFiniteSet(Stored(k)) /\ fps[k] = Promoted(MergedRow(k, Stored(k)))
    BY <2>0, OwnRow DEF Converging
  <2>3. CASE \A h \in Handlers : ~(CommitMerge(h) /\ job[h].key = k)
    <3>1. fps'[k] = fps[k]
      BY <2>3, OwnRow
    <3>2. Stored(k)' = Stored(k)
      BY <2>3, StoredGrows
    <3> QED BY <2>1, <3>1, <3>2
  <2>4. ASSUME NEW h \in Handlers, CommitMerge(h), job[h].key = k
        PROVE  IsFiniteSet(Stored(k)') /\ fps'[k] = Promoted(MergedRow(k, Stored(k)'))
    <3> DEFINE b == job[h].batch
               g == b.groups[k]
               old == Stored(k)
               new == Stored(k)'
    <3>1. g \in Group /\ fps'[k] = Learn(fps[k], g)
      BY <2>4, CommitMergeRow, OwnRow
    <3>2. b \notin old /\ new = old \cup {b}
      BY <2>4, StoredGrows
    <3>3. old \in SUBSET Touching(k) /\ new \in SUBSET Touching(k)
      BY DEF Stored, Touching
    <3>4. IsFiniteSet(old) /\ fps[k] = Promoted(MergedRow(k, old))
      BY <2>1
    <3> HIDE DEF old, new, b
    <3>5. IsFiniteSet(new)
      BY <3>2, <3>4, FS_AddElement
    <3>6. old = new \ {b} /\ b \in new
      BY <3>2
    <3>7. MergedRow(k, new) = MergeGroup(MergedRow(k, new \ {b}), b.groups[k])
      BY <3>3, <3>5, <3>6, MergedRowGrows
    <3>8. MergedRow(k, new \ {b}) = MergedRow(k, old)
      BY <3>6, Zenon
    <3>9. MergedRow(k, old) \in FoldedRow
      BY <3>3, <3>4, MergedRowGrows
    <3>10. Learn(Promoted(MergedRow(k, old)), g) = Promoted(MergeGroup(MergedRow(k, old), g))
      BY <3>1, <3>9, LearnPromoted
    <3>11. fps'[k] = Promoted(MergedRow(k, new))
      BY <3>1, <3>4, <3>7, <3>8, <3>10
    <3> QED BY <3>5, <3>11 DEF new
  <2> QED BY <2>3, <2>4
<1> QED
  BY <1>1, <1>2, TypeInvariant, RowsInvariant, QuietInvariant, OneAtATimeInvariant, PTL DEF Spec

\* Replicas that ingest concurrently end with the rows a single one would have,
\* whichever order the groups of the batches are merged in: no merge is lost, no
\* event counted twice, no promotion missed (store.MergeFingerprint,
\* docs/research/collector-ha.md).
THEOREM Converges ==
  ASSUME MaxImports = 0
  PROVE  Spec => []ConcurrentIngestConverges
<1>1. RowsInv /\ Converging => ConcurrentIngestConverges
  <2> SUFFICES ASSUME RowsInv, Converging, faults = 0, outbox = {}, NEW k \in Keys
               PROVE  fps[k] = FinalRow(k)
    BY DEF ConcurrentIngestConverges
  <2>1. fps[k] = Promoted(MergedRow(k, Stored(k)))
    BY DEF Converging, RowsInv, NoImportsYet
  <2>2. Stored(k) = Touching(k)
    BY DEF Stored
  <2>3. MergedRow(k, Stored(k)) = MergedRow(k, Touching(k))
    BY <2>2, Zenon
  <2>4. FinalRow(k) = Promoted(MergedRow(k, Touching(k)))
    BY DEF FinalRow, Promoted, MergedRow, Touching
  <2> QED BY <2>1, <2>3, <2>4
<1> QED BY <1>1, RowsInvariant, ConvergingInvariant, PTL
-----------------------------------------------------------------------------
(* The alert store.                                                        *)

\* Handler h is in a transaction that has the row of its alert locked.
HoldsAlert(h) == job[h].pc = "upsertTx" /\ job[h].holds

\* Handler h is about to insert its alert, as far as it knows.
Inserts(h) == job[h].pc = "upsert" \/ (job[h].pc = "upsertTx" /\ ~job[h].holds)

\* One transaction at a time has the row of an alert locked.
LocksExclude ==
  \A g, h \in Handlers : HoldsAlert(g) /\ HoldsAlert(h) /\ job[g].id = job[h].id => g = h

\* What a handler is about to insert is a new alert.
InsertsNew == \A h \in Handlers : Inserts(h) =>
  \E B \in SUBSET Behaviors : job[h].alert = NewAlert(B)

\* What a handler is about to write over a row is that row, as it is now, with a
\* new alert merged into it: nobody changes a row behind the back of its lock.
WritesMerge == \A h \in Handlers : HoldsAlert(h) =>
  /\ Exists(alerts[job[h].id])
  /\ \E B \in SUBSET Behaviors :
       job[h].alert = MergeIntoAlert(alerts[job[h].id], NewAlert(B))

BookInv == LocksExclude /\ InsertsNew /\ WritesMerge

-----------------------------------------------------------------------------
(* How handlers pass through UpsertAlert.                                  *)

\* Handler h is out of UpsertAlert after the step.
Away(h) ==
  /\ job'[h].pc \notin {"upsert", "upsertTx"}
  /\ \/ job'[h].attempts = 0
     \/ job[h].pc \notin {"upsert", "upsertTx"} /\ job'[h].attempts = job[h].attempts

\* Handler h is before its first transaction for a new alert after the step.
Raising(h) ==
  /\ job'[h].pc = "upsert" /\ job'[h].attempts = 1
  /\ \E B \in SUBSET Behaviors : job'[h].alert = NewAlert(B)

\* A handler that has ended is in no transaction.
LEMMA EndedAway ==
  ASSUME NEW h \in Handlers, job'[h] = NoJob
  PROVE  Away(h)
BY DEF Away, NoJob

\* Where a step leaves the handler that takes it.
LEMMA WhereTo ==
  ASSUME TypeOK, NEW h \in Handlers, Steps(h)
  PROVE  Away(h) \/ Raising(h) \/ BeginUpsert(h) \/ RetryUpsert(h)
<1>0. job[h] \in Job /\ job \in [Handlers -> Job]
  BY DEF TypeOK
<1>1. CASE \E b \in Batches : Deliver(h, b)
  BY <1>0, <1>1 DEF Deliver, Away, NoJob
<1>2. CASE \E k \in Keys : BeginMerge(h, k)
  BY <1>0, <1>2 DEF BeginMerge, Away, Job
<1>3. CASE CommitMerge(h)
  BY <1>0, <1>3 DEF CommitMerge, Away, Job
<1>4. CASE React(h)
  <2>1. job[h].pc = "work"
    BY <1>4 DEF React, Reacting
  <2>2. ASSUME NoAlertFor(h) PROVE Away(h)
    BY <1>0, <2>1, <2>2 DEF NoAlertFor, Away, Job
  <2>3. ASSUME NEW id \in AlertIds, NEW B \in SUBSET Behaviors, Emit(h, id, B) PROVE Raising(h)
    BY <1>0, <2>3 DEF Emit, Raising, Job
  <2> QED BY <1>4, <2>2, <2>3, ReactEmits
<1>5. CASE CommitUpsert(h) \/ RecordAlert(h)
  BY <1>0, <1>5 DEF CommitUpsert, RecordAlert, Away, Job
<1>6. CASE ReactDenied(h)
  <2>1. job[h].pc = "work"
    BY <1>6 DEF ReactDenied, Denying
  <2>2. ASSUME job' = [job EXCEPT ![h].denials = Tail(@)] PROVE Away(h)
    BY <1>0, <2>1, <2>2 DEF Away, Job
  <2>3. ASSUME NEW id \in AlertIds,
               job' = [job EXCEPT ![h].denials = Tail(@), ![h].pc = "deny", ![h].id = id]
        PROVE  Away(h)
    BY <1>0, <2>1, <2>3 DEF Away, Job
  <2> QED BY <1>6, <2>2, <2>3, ReactDeniedMoves
<1>7. CASE BlockAlert(h)
  BY <1>0, <1>7 DEF BlockAlert, Away, Job
<1>8. CASE Respond(h) \/ IngestFails(h)
  BY <1>8, EndedAway DEF Respond, IngestFails, Ended
<1>9. CASE CompareFails(h)
  BY <1>0, <1>9 DEF CompareFails, Reacting, NoAlertFor, Away, Job
<1>10. CASE FindFails(h)
  BY <1>0, <1>10 DEF FindFails, Denying, Away, Job
<1>11. CASE AlertFails(h)
  BY <1>0, <1>11 DEF AlertFails, Away, Job
<1> QED
  BY <1>1, <1>2, <1>3, <1>4, <1>5, <1>6, <1>7, <1>8, <1>9, <1>10, <1>11 DEF Steps, HandlerStep

-----------------------------------------------------------------------------
(* Nobody touches a row that is locked.                                    *)

\* Of the steps of a handler only two write an alert.
LEMMA StepsKeepAlerts ==
  ASSUME NEW g \in Handlers, Steps(g), ~CommitUpsert(g), ~BlockAlert(g)
  PROVE  UNCHANGED alerts
BY DEF Steps, HandlerStep, Deliver, BeginMerge, CommitMerge, React, BeginUpsert, RetryUpsert,
       RecordAlert, ReactDenied, Respond, IngestFails, CompareFails, FindFails, AlertFails

\* Of the steps of nobody's handler only three write alerts.
LEMMA OutsideAlerts ==
  ASSUME Outside
  PROVE  \/ UNCHANGED alerts \/ AgeAlerts \/ PruneResolvedAlerts
         \/ \E i \in AlertIds, status \in {"acknowledged", "resolved"} : SetAlertStatus(i, status)
BY DEF Outside, OperatorStep, BeginImport, CommitImport, ClientTimeout, vars

\* The row of an alert changes only by a handler's write, an operator or the
\* retention loop, and none of them gets past somebody else's lock.
LEMMA LockedRowStays ==
  ASSUME TypeOK, BookInv, [Next]_vars, NEW h \in Handlers, HoldsAlert(h), ~Steps(h)
  PROVE  alerts'[job[h].id] = alerts[job[h].id]
<1> DEFINE id == job[h].id
<1>1. id \in AlertIds /\ AlertLocked(id) /\ Exists(alerts[id])
  BY DEF TypeOK, Job, BookInv, WritesMerge, HoldsAlert, AlertLocked
<1>2. ASSUME NEW g \in Handlers, g # h, CommitUpsert(g) PROVE alerts'[id] = alerts[id]
  <2>1. CASE job[g].id = id
    BY <1>1, <1>2, <2>1 DEF CommitUpsert, BookInv, LocksExclude, HoldsAlert
  <2>2. CASE job[g].id # id
    BY <1>1, <1>2, <2>2 DEF CommitUpsert, TypeOK
  <2> QED BY <2>1, <2>2
<1>3. ASSUME NEW g \in Handlers, BlockAlert(g) PROVE alerts'[id] = alerts[id]
  <2>1. job[g].id # id
    BY <1>1, <1>3 DEF BlockAlert
  <2> QED BY <1>1, <1>3, <2>1 DEF BlockAlert, TypeOK
<1>4. ASSUME NEW i \in AlertIds, NEW status, SetAlertStatus(i, status) PROVE alerts'[id] = alerts[id]
  <2>1. i # id
    BY <1>1, <1>4 DEF SetAlertStatus
  <2> QED BY <1>1, <1>4, <2>1 DEF SetAlertStatus, TypeOK
<1>5. ~AgeAlerts
  BY DEF AgeAlerts, HoldsAlert
<1>6. ASSUME PruneResolvedAlerts PROVE alerts'[id] = alerts[id]
  BY <1>1, <1>6 DEF PruneResolvedAlerts
<1>7. ASSUME UNCHANGED alerts PROVE alerts'[id] = alerts[id]
  BY <1>7
<1>8. ASSUME NEW g \in Handlers, Steps(g), ~CommitUpsert(g), ~BlockAlert(g) PROVE UNCHANGED alerts
  BY <1>8, StepsKeepAlerts
<1>9. \A r \in Replicas : Crash(r) => UNCHANGED alerts
  BY DEF Crash
<1>10. \A g \in Handlers : CommitUpsert(g) => g # h
  BY DEF Steps, HandlerStep
<1> QED
  BY <1>2, <1>3, <1>4, <1>5, <1>6, <1>7, <1>8, <1>9, <1>10, WhoSteps, OutsideAlerts

-----------------------------------------------------------------------------
(* BookInv is inductive.                                                   *)

\* No handler raises anything at the start.
LEMMA BookInvInit == Init => BookInv
BY DEF Init, BookInv, LocksExclude, InsertsNew, WritesMerge, HoldsAlert, Inserts, NoJob

\* What beginning a transaction does to a handler's memory.
LEMMA BeginUpsertMemory ==
  ASSUME TypeOK, NEW h \in Handlers, BeginUpsert(h)
  PROVE  /\ job[h].pc = "upsert" /\ job'[h].pc = "upsertTx" /\ job'[h].id = job[h].id
         /\ job'[h].attempts = job[h].attempts
         /\ job'[h].holds = Exists(alerts[job[h].id])
         /\ job'[h].alert = IF Exists(alerts[job[h].id])
                            THEN MergeIntoAlert(alerts[job[h].id], job[h].alert) ELSE job[h].alert
         /\ alerts' = alerts /\ ~AlertLocked(job[h].id)
BY DEF BeginUpsert, TypeOK, Job

\* What losing the race does to it.
LEMMA RetryUpsertMemory ==
  ASSUME TypeOK, NEW h \in Handlers, RetryUpsert(h)
  PROVE  /\ job[h].pc = "upsertTx" /\ ~job[h].holds /\ Exists(alerts[job[h].id])
         /\ job'[h].id = job[h].id /\ job'[h].alert = job[h].alert /\ ~job'[h].holds
         /\ \/ job'[h].pc = "record" /\ job'[h].attempts = 0
            \/ job'[h].pc = "upsert" /\ job'[h].attempts = job[h].attempts + 1
         /\ alerts' = alerts
BY DEF RetryUpsert, TypeOK, Job

\* A handler holds the lock on an alert after a step only when it has held it
\* before, or has just taken it.
LEMMA HoldsFrom ==
  ASSUME TypeOK, [Next]_vars, NEW h \in Handlers, HoldsAlert(h)'
  PROVE  \/ ~Steps(h) /\ job'[h] = job[h] /\ HoldsAlert(h)
         \/ BeginUpsert(h)
<1>1. CASE Steps(h)
  BY <1>1, WhereTo, RetryUpsertMemory DEF Away, Raising, HoldsAlert
<1>2. CASE ~Steps(h)
  BY <1>2, Waits DEF HoldsAlert, NoJob
<1> QED BY <1>1, <1>2

\* A lock on an alert is never given to a second handler (FOR UPDATE).
LEMMA LocksExcludeStep ==
  ASSUME TypeOK, BookInv, [Next]_vars
  PROVE  LocksExclude'
<1> SUFFICES ASSUME NEW g \in Handlers, NEW h \in Handlers,
                    HoldsAlert(g)', HoldsAlert(h)', job'[g].id = job'[h].id, g # h
             PROVE  FALSE
  BY DEF LocksExclude, HoldsAlert
<1>1. CASE HoldsAlert(g) /\ HoldsAlert(h) /\ job'[g] = job[g] /\ job'[h] = job[h]
  BY <1>1 DEF BookInv, LocksExclude
<1>2. ASSUME NEW p \in Handlers, NEW q \in Handlers, p # q, job'[p].id = job'[q].id,
             BeginUpsert(p), HoldsAlert(q)'
      PROVE  FALSE
  <2>1. job'[q] = job[q]
    BY <1>2, OthersKeep DEF Steps, HandlerStep
  <2>2. HoldsAlert(q) /\ job[q].id = job[p].id
    BY <1>2, <2>1, BeginUpsertMemory DEF HoldsAlert
  <2> QED BY <1>2, <2>2, BeginUpsertMemory DEF AlertLocked, HoldsAlert
<1> QED BY <1>1, <1>2, HoldsFrom

\* A handler that holds no lock goes on to insert the alert as emit made it.
LEMMA InsertsNewStep ==
  ASSUME TypeOK, BookInv, [Next]_vars
  PROVE  InsertsNew'
<1> SUFFICES ASSUME NEW h \in Handlers, Inserts(h)'
             PROVE  \E B \in SUBSET Behaviors : job'[h].alert = NewAlert(B)
  BY DEF InsertsNew, Inserts
<1>1. Inserts(h) => \E B \in SUBSET Behaviors : job[h].alert = NewAlert(B)
  BY DEF BookInv, InsertsNew
<1>2. CASE Away(h)
  BY <1>2 DEF Away, Inserts
<1>3. CASE Raising(h)
  BY <1>3 DEF Raising
<1>4. CASE BeginUpsert(h)
  BY <1>1, <1>4, BeginUpsertMemory DEF Inserts
<1>5. CASE RetryUpsert(h)
  BY <1>1, <1>5, RetryUpsertMemory DEF Inserts
<1>6. CASE ~Steps(h)
  BY <1>1, <1>6, Waits DEF Inserts, NoJob
<1> QED BY <1>2, <1>3, <1>4, <1>5, <1>6, WhereTo

\* The row under a lock stays what the transaction merged into.
LEMMA WritesMergeStep ==
  ASSUME TypeOK, BookInv, [Next]_vars
  PROVE  WritesMerge'
<1> SUFFICES ASSUME NEW h \in Handlers, HoldsAlert(h)'
             PROVE  /\ Exists(alerts'[job'[h].id])
                    /\ \E B \in SUBSET Behaviors :
                         job'[h].alert = MergeIntoAlert(alerts'[job'[h].id], NewAlert(B))
  BY DEF WritesMerge, HoldsAlert, Exists
<1>1. CASE ~Steps(h) /\ job'[h] = job[h] /\ HoldsAlert(h)
  BY <1>1, LockedRowStays DEF BookInv, WritesMerge
<1>2. CASE BeginUpsert(h)
  <2>1. PICK B \in SUBSET Behaviors : job[h].alert = NewAlert(B)
    BY <1>2, BeginUpsertMemory DEF BookInv, InsertsNew, Inserts
  <2>2. Exists(alerts[job[h].id])
    BY <1>2, BeginUpsertMemory DEF HoldsAlert
  <2> QED BY <1>2, <2>1, <2>2, BeginUpsertMemory
<1> QED BY <1>1, <1>2, HoldsFrom

\* The strengthening of the refinement: locks exclude, and a transaction holds
\* what its commit must write (store.upsertAlertTx).
THEOREM BookInvariant == Spec => []BookInv
<1>1. TypeInv /\ BookInv /\ [Next]_vars => BookInv'
  BY LocksExcludeStep, InsertsNewStep, WritesMergeStep DEF TypeInv, BookInv
<1> QED BY <1>1, BookInvInit, TypeInvariant, PTL DEF Spec

-----------------------------------------------------------------------------
(* The refinement.                                                         *)

\* The book and the pipeline mean the same by an alert.
LEMMA SameOperators ==
  /\ Book!AlertIds = AlertIds /\ Book!NoAlert = NoAlert
  /\ \A B : Book!NewAlert(B) = NewAlert(B)
  /\ \A a, b : Book!MergeIntoAlert(a, b) = MergeIntoAlert(a, b)
  /\ \A a : Book!Exists(a) <=> Exists(a)
  /\ \A a : Book!Prunable(a) <=> Prunable(a)
BY DEF Book!AlertIds, AlertIds, Book!NoAlert, NoAlert, Book!NewAlert, NewAlert,
       Book!MergeIntoAlert, MergeIntoAlert, Book!Exists, Exists, Book!Prunable, Prunable

\* A committed transaction raises the alert, in one step of the book.
LEMMA CommitRaises ==
  ASSUME TypeOK, BookInv, NEW h \in Handlers, CommitUpsert(h)
  PROVE  \E id \in AlertIds, B \in SUBSET Behaviors : Book!Raise(id, B)
<1> DEFINE id == job[h].id
<1>1. id \in AlertIds /\ alerts' = [alerts EXCEPT ![id] = job[h].alert]
  BY DEF CommitUpsert, TypeOK, Job
<1>2. CASE job[h].holds
  <2>1. PICK B \in SUBSET Behaviors : job[h].alert = MergeIntoAlert(alerts[id], NewAlert(B))
    BY <1>2 DEF BookInv, WritesMerge, HoldsAlert, CommitUpsert
  <2>2. Exists(alerts[id])
    BY <1>2 DEF BookInv, WritesMerge, HoldsAlert, CommitUpsert
  <2>3. Book!Raise(id, B)
    BY <1>1, <2>1, <2>2, SameOperators DEF Book!Raise
  <2> QED BY <1>1, <2>3
<1>3. CASE ~job[h].holds
  <2>1. PICK B \in SUBSET Behaviors : job[h].alert = NewAlert(B)
    BY <1>3 DEF BookInv, InsertsNew, Inserts, CommitUpsert
  <2>2. ~Exists(alerts[id])
    BY <1>3 DEF CommitUpsert
  <2>3. Book!Raise(id, B)
    BY <1>1, <2>1, <2>2, SameOperators DEF Book!Raise
  <2> QED BY <1>1, <2>3
<1> QED BY <1>2, <1>3

\* Every step of the pipeline is a step of the book, or leaves the book alone.
\* The book ages only while no handler is at work.
LEMMA StepRefines ==
  ASSUME TypeOK, BookInv, [Next]_vars
  PROVE  \/ UNCHANGED alerts
         \/ \E id \in AlertIds, B \in SUBSET Behaviors : Book!Raise(id, B)
         \/ \E id \in AlertIds, status \in {"acknowledged", "resolved"} : Book!SetStatus(id, status)
         \/ \E id \in AlertIds : Book!MarkBlocked(id)
         \/ Book!Age /\ \A h \in Handlers : job[h].pc = "idle"
         \/ Book!Prune
<1>1. ASSUME NEW h \in Handlers, BlockAlert(h)
      PROVE  UNCHANGED alerts \/ \E id \in AlertIds : Book!MarkBlocked(id)
  <2>1. job[h].id \in AlertIds
    BY DEF TypeOK, Job
  <2>2. CASE Exists(alerts[job[h].id])
    <3>1. Book!MarkBlocked(job[h].id)
      BY <1>1, <2>2, SameOperators DEF BlockAlert, Book!MarkBlocked
    <3> QED BY <2>1, <3>1
  <2>3. CASE ~Exists(alerts[job[h].id])
    BY <1>1, <2>3 DEF BlockAlert
  <2> QED BY <2>2, <2>3
<1>2. ASSUME NEW id \in AlertIds, NEW status \in {"acknowledged", "resolved"}, SetAlertStatus(id, status)
      PROVE  Book!SetStatus(id, status)
  BY <1>2, SameOperators DEF SetAlertStatus, Book!SetStatus
<1>3. ASSUME AgeAlerts PROVE Book!Age /\ \A h \in Handlers : job[h].pc = "idle"
  BY <1>3 DEF AgeAlerts, Book!Age, Book!Exists, Exists, Book!AlertIds, AlertIds
<1>4. ASSUME PruneResolvedAlerts PROVE Book!Prune
  BY <1>4, SameOperators DEF PruneResolvedAlerts, Book!Prune
<1>5. ASSUME NEW h \in Handlers, Steps(h), ~CommitUpsert(h), ~BlockAlert(h) PROVE UNCHANGED alerts
  BY <1>5, StepsKeepAlerts
<1>6. \A r \in Replicas : Crash(r) => UNCHANGED alerts
  BY DEF Crash
<1> QED
  BY <1>1, <1>2, <1>3, <1>4, <1>5, <1>6, CommitRaises, WhoSteps, OutsideAlerts

\* The pipeline starts with an empty book.
LEMMA BookInit == Init => Book!Init
BY SameOperators DEF Init, Book!Init

\* UpsertAlert is atomic: the table of alerts goes through the states of an alert
\* book, and so do the alerts an operator sees.
THEOREM UpsertIsAtomic == Spec => BookSpec
<1>1. TypeInv /\ BookInv /\ [Next]_vars => [Book!Next]_alerts
  BY StepRefines, SameOperators DEF TypeInv, Book!Next
<1> QED BY <1>1, BookInit, TypeInvariant, BookInvariant, PTL DEF Spec, BookSpec, Book!Spec

-----------------------------------------------------------------------------
(* What follows for the alerts.                                            *)

\* The severity and the verdict an alert shows are those of its behaviors.
SeverityOf(a) ==
  /\ a.critical <=> a.behaviors \cap HighRisk # {}
  /\ a.wouldBlock <=> a.behaviors \cap Enforceable # {}

\* Raising and merging keep severity and behaviors together (emit, mergeIntoAlert).
LEMMA SeverityOfOperators ==
  /\ SeverityOf(NoAlert)
  /\ \A B : SeverityOf(NewAlert(B))
  /\ \A a, b : SeverityOf(a) /\ SeverityOf(b) => SeverityOf(MergeIntoAlert(a, b))
<1>1. SeverityOf(NoAlert)
  BY DEF SeverityOf, NoAlert
<1>2. \A B : SeverityOf(NewAlert(B))
  BY DEF SeverityOf, NewAlert
<1>3. \A a, b : SeverityOf(a) /\ SeverityOf(b) => SeverityOf(MergeIntoAlert(a, b))
  <2> SUFFICES ASSUME NEW a, NEW b, SeverityOf(a), SeverityOf(b)
               PROVE  SeverityOf(MergeIntoAlert(a, b))
    OBVIOUS
  <2> DEFINE m == MergeIntoAlert(a, b)
  <2>1. /\ m.behaviors = a.behaviors \cup b.behaviors
        /\ m.critical = (a.critical \/ b.critical)
        /\ m.wouldBlock = (a.wouldBlock \/ b.wouldBlock)
    BY DEF MergeIntoAlert
  <2>2. \A R : m.behaviors \cap R # {} <=> a.behaviors \cap R # {} \/ b.behaviors \cap R # {}
    BY <2>1
  <2> HIDE DEF m
  <2>3. m.critical <=> m.behaviors \cap HighRisk # {}
    <3>1. m.critical <=> a.critical \/ b.critical
      BY <2>1
    <3>2. /\ a.critical <=> a.behaviors \cap HighRisk # {}
          /\ b.critical <=> b.behaviors \cap HighRisk # {}
      BY DEF SeverityOf
    <3>3. m.behaviors \cap HighRisk # {} <=>
            a.behaviors \cap HighRisk # {} \/ b.behaviors \cap HighRisk # {}
      BY <2>2
    <3> QED BY <3>1, <3>2, <3>3
  <2>4. m.wouldBlock <=> m.behaviors \cap Enforceable # {}
    <3>1. m.wouldBlock <=> a.wouldBlock \/ b.wouldBlock
      BY <2>1
    <3>2. /\ a.wouldBlock <=> a.behaviors \cap Enforceable # {}
          /\ b.wouldBlock <=> b.behaviors \cap Enforceable # {}
      BY DEF SeverityOf
    <3>3. m.behaviors \cap Enforceable # {} <=>
            a.behaviors \cap Enforceable # {} \/ b.behaviors \cap Enforceable # {}
      BY <2>2
    <3> QED BY <3>1, <3>2, <3>3
  <2>5. SeverityOf(m)
    BY <2>3, <2>4 DEF SeverityOf
  <2> QED BY <2>5 DEF m
<1> QED BY <1>1, <1>2, <1>3

\* No merge of alerts loses severity, whatever is raised, resolved, reopened or
\* pruned: a property of the book, and by the refinement one of the pipeline.
THEOREM SeverityIsKept == Spec => []SeverityFollowsBehaviors
<1> DEFINE P == \A id \in AlertIds : SeverityOf(alerts[id])
<1>1. Init => P
  BY SeverityOfOperators DEF Init
<1>2. TypeOK /\ BookInv /\ P /\ [Next]_vars => P'
  <2> SUFFICES ASSUME TypeOK, BookInv, P, [Next]_vars, NEW i \in AlertIds
               PROVE  SeverityOf(alerts'[i])
    BY DEF SeverityOf
  <2>0. alerts \in [AlertIds -> Alert]
    BY DEF TypeOK
  <2>1. ASSUME NEW id \in AlertIds, NEW B \in SUBSET Behaviors, Book!Raise(id, B)
        PROVE  SeverityOf(alerts'[i])
    <3>1. alerts'[i] = alerts[i] \/ alerts'[i] = NewAlert(B)
          \/ alerts'[i] = MergeIntoAlert(alerts[i], NewAlert(B))
      BY <2>0, <2>1, SameOperators DEF Book!Raise
    <3> QED BY <3>1, SeverityOfOperators
  <2>2. ASSUME NEW id \in AlertIds, NEW status, Book!SetStatus(id, status)
        PROVE  SeverityOf(alerts'[i])
    BY <2>0, <2>2 DEF Book!SetStatus, SeverityOf, Alert
  <2>3. ASSUME NEW id \in AlertIds, Book!MarkBlocked(id) PROVE SeverityOf(alerts'[i])
    BY <2>0, <2>3 DEF Book!MarkBlocked, SeverityOf, Alert
  <2>4. ASSUME Book!Age PROVE SeverityOf(alerts'[i])
    BY <2>0, <2>4, SameOperators DEF Book!Age, SeverityOf, Alert
  <2>5. ASSUME Book!Prune PROVE SeverityOf(alerts'[i])
    BY <2>5, SameOperators, SeverityOfOperators DEF Book!Prune
  <2>6. ASSUME UNCHANGED alerts PROVE SeverityOf(alerts'[i])
    BY <2>6
  <2> QED BY <2>1, <2>2, <2>3, <2>4, <2>5, <2>6, StepRefines
<1>3. P <=> SeverityFollowsBehaviors
  BY DEF SeverityOf, SeverityFollowsBehaviors
<1>4. TypeInv /\ BookInv /\ P /\ [Next]_vars => P'
  BY <1>2 DEF TypeInv
<1> QED BY <1>1, <1>3, <1>4, TypeInvariant, BookInvariant, PTL DEF Spec

-----------------------------------------------------------------------------
(* The create race.                                                        *)

\* The alert is on the book, and too young for the retention loop to take it.
Young(a) == Exists(a) /\ ~a.aged

\* Why one retry is enough: the alert that won the race is younger than the
\* handler that lost it, requests are shorter than the retention, so the alert
\* is still there when the handler looks again, and there it stays.
SettlesInv ==
  \A h \in Handlers :
    /\ job[h].attempts <= 2
    /\ job[h].attempts # 0 => job[h].pc \in {"upsert", "upsertTx"}
    /\ job[h].attempts = 2 => /\ Young(alerts[job[h].id])
                              /\ job[h].pc = "upsertTx" => job[h].holds
    /\ job[h].pc = "upsertTx" /\ ~job[h].holds /\ Exists(alerts[job[h].id]) => Young(alerts[job[h].id])

\* As long as somebody is at work, young alerts stay young and on the book, and
\* alerts come on the book young.
LEMMA YoungStays ==
  ASSUME TypeOK, BookInv, [Next]_vars, NEW h \in Handlers, job[h].pc # "idle",
         NEW id \in AlertIds, Young(alerts[id]) \/ ~Exists(alerts[id])
  PROVE  /\ Young(alerts[id]) => Young(alerts'[id])
         /\ Exists(alerts'[id]) => Young(alerts'[id])
<1> SUFFICES alerts'[id] = alerts[id] \/ Young(alerts'[id]) \/ (~Young(alerts[id]) /\ ~Exists(alerts'[id]))
  BY DEF Young, Exists
<1>0. alerts \in [AlertIds -> Alert]
  BY DEF TypeOK
<1>1. ASSUME NEW i \in AlertIds, NEW B \in SUBSET Behaviors, Book!Raise(i, B)
      PROVE  alerts'[id] = alerts[id] \/ Young(alerts'[id])
  <2>1. \/ alerts'[id] = alerts[id]
        \/ Exists(alerts[id]) /\ alerts'[id] = MergeIntoAlert(alerts[id], NewAlert(B))
        \/ alerts'[id] = NewAlert(B)
    BY <1>0, <1>1, SameOperators DEF Book!Raise
  <2>2. Young(alerts[id]) => Young(MergeIntoAlert(alerts[id], NewAlert(B)))
    BY DEF Young, Exists, MergeIntoAlert, NewAlert
  <2>3. Young(NewAlert(B))
    BY DEF Young, Exists, NewAlert
  <2> QED BY <2>1, <2>2, <2>3
<1>2. ASSUME NEW i \in AlertIds, NEW status \in {"acknowledged", "resolved"}, Book!SetStatus(i, status)
      PROVE  alerts'[id] = alerts[id] \/ Young(alerts'[id])
  <2>1. CASE i = id
    <3>1. Exists(alerts[id])
      BY <1>2, <2>1, SameOperators DEF Book!SetStatus
    <3>2. Young(alerts[id]) /\ alerts'[id] = [alerts[id] EXCEPT !.status = status]
      BY <1>0, <1>2, <2>1, <3>1 DEF Book!SetStatus
    <3> QED BY <1>0, <3>2 DEF Young, Exists, Alert
  <2>2. CASE i # id
    BY <1>0, <1>2, <2>2 DEF Book!SetStatus
  <2> QED BY <2>1, <2>2
<1>3. ASSUME NEW i \in AlertIds, Book!MarkBlocked(i)
      PROVE  alerts'[id] = alerts[id] \/ Young(alerts'[id])
  <2>1. CASE i = id
    <3>1. Exists(alerts[id])
      BY <1>3, <2>1, SameOperators DEF Book!MarkBlocked
    <3>2. Young(alerts[id]) /\ alerts'[id] = [alerts[id] EXCEPT !.blocked = TRUE]
      BY <1>0, <1>3, <2>1, <3>1 DEF Book!MarkBlocked
    <3> QED BY <1>0, <3>2 DEF Young, Exists, Alert
  <2>2. CASE i # id
    BY <1>0, <1>3, <2>2 DEF Book!MarkBlocked
  <2> QED BY <2>1, <2>2
<1>4. ASSUME Book!Prune PROVE alerts'[id] = alerts[id]
  <2>1. ~Prunable(alerts[id])
    BY DEF Young, Exists, Prunable
  <2> QED BY <1>4, <2>1, SameOperators DEF Book!Prune
<1> QED BY <1>1, <1>2, <1>3, <1>4, StepRefines

\* No handler raises anything at the start.
LEMMA SettlesInit == Init => SettlesInv
BY DEF Init, SettlesInv, NoJob

\* A handler that lost the race finds the winner's row until it has merged.
LEMMA SettlesStep ==
  ASSUME TypeOK, BookInv, SettlesInv, [Next]_vars
  PROVE  SettlesInv'
<1> SUFFICES ASSUME NEW h \in Handlers
             PROVE  /\ job'[h].attempts <= 2
                    /\ job'[h].attempts # 0 => job'[h].pc \in {"upsert", "upsertTx"}
                    /\ job'[h].attempts = 2 => /\ Young(alerts'[job'[h].id])
                                               /\ job'[h].pc = "upsertTx" => job'[h].holds
                    /\ job'[h].pc = "upsertTx" /\ ~job'[h].holds /\ Exists(alerts'[job'[h].id])
                          => Young(alerts'[job'[h].id])
  BY DEF SettlesInv, Young, Exists
<1>0. /\ job[h].attempts <= 2 /\ job[h].attempts \in Nat /\ job[h].id \in AlertIds
      /\ job[h].attempts # 0 => job[h].pc \in {"upsert", "upsertTx"}
      /\ job[h].attempts = 2 => Young(alerts[job[h].id]) /\ (job[h].pc = "upsertTx" => job[h].holds)
      /\ job[h].pc = "upsertTx" /\ ~job[h].holds /\ Exists(alerts[job[h].id]) => Young(alerts[job[h].id])
  <2>1. job[h].attempts \in 0..MaxAttempts /\ job[h].id \in AlertIds
    BY DEF TypeOK, Job
  <2>2. job[h].attempts \in Nat
    BY <2>1 DEF MaxAttempts
  <2> QED BY <2>1, <2>2 DEF SettlesInv
<1>1. CASE Away(h)
  BY <1>0, <1>1 DEF Away
<1>2. CASE Raising(h)
  BY <1>2 DEF Raising
<1>3. CASE BeginUpsert(h)
  <2>1. /\ job[h].pc = "upsert" /\ job'[h].pc = "upsertTx" /\ job'[h].id = job[h].id
        /\ job'[h].attempts = job[h].attempts /\ job'[h].holds = Exists(alerts[job[h].id])
        /\ alerts' = alerts
    BY <1>3, BeginUpsertMemory
  <2> QED BY <1>0, <2>1 DEF Young
<1>4. CASE RetryUpsert(h)
  <2>1. /\ job[h].pc = "upsertTx" /\ ~job[h].holds /\ Exists(alerts[job[h].id])
        /\ job'[h].id = job[h].id
        /\ \/ job'[h].pc = "record" /\ job'[h].attempts = 0
           \/ job'[h].pc = "upsert" /\ job'[h].attempts = job[h].attempts + 1
        /\ alerts' = alerts
    BY <1>4, RetryUpsertMemory
  <2>2. job[h].attempts # 2 /\ Young(alerts[job[h].id])
    BY <1>0, <2>1
  <2> QED BY <1>0, <2>1, <2>2 DEF Young
<1>5. CASE job'[h] = NoJob
  BY <1>5 DEF NoJob
<1>6. CASE job'[h] = job[h]
  <2>1. CASE job[h].attempts = 2
    <3>1. job[h].pc # "idle"
      BY <1>0, <2>1
    <3>2. Young(alerts'[job[h].id])
      BY <1>0, <2>1, <3>1, YoungStays
    <3> QED BY <1>0, <1>6, <2>1, <3>2
  <2>2. CASE job[h].pc = "upsertTx" /\ ~job[h].holds
    <3>1. Exists(alerts'[job[h].id]) => Young(alerts'[job[h].id])
      BY <1>0, <2>2, YoungStays
    <3> QED BY <1>0, <1>6, <2>2, <3>1
  <2>3. CASE job[h].attempts # 2 /\ ~(job[h].pc = "upsertTx" /\ ~job[h].holds)
    BY <1>0, <1>6, <2>3
  <2> QED BY <2>1, <2>2, <2>3
<1> QED BY <1>1, <1>2, <1>3, <1>4, <1>5, <1>6, WhereTo, Waits

\* The strengthening: who lost the race once finds a row to lock.
THEOREM SettlesInvariant == Spec => []SettlesInv
<1>1. TypeInv /\ BookInv /\ SettlesInv /\ [Next]_vars => SettlesInv'
  BY SettlesStep DEF TypeInv
<1> QED BY <1>1, SettlesInit, TypeInvariant, BookInvariant, PTL DEF Spec

\* The create race costs one retry at most, so UpsertAlert never runs out of its
\* attempts, and never drops an alert as if it were stored.
THEOREM RaceCostsOneRetry == Spec => []UpsertSettles
<1>1. SettlesInv => UpsertSettles
  BY DEF SettlesInv, UpsertSettles
<1> QED BY <1>1, SettlesInvariant, PTL

-----------------------------------------------------------------------------
(* What the alerts say.                                                    *)

\* Only a committed transaction adds to what was raised.
LEMMA WhoRaises ==
  ASSUME [Next]_vars, \A h \in Handlers : ~CommitUpsert(h)
  PROVE  raised' = raised
<1>1. ASSUME NEW h \in Handlers, Steps(h) PROVE raised' = raised
  BY <1>1 DEF Steps, HandlerStep, Deliver, BeginMerge, CommitMerge, React, BeginUpsert,
     RetryUpsert, RecordAlert, ReactDenied, BlockAlert, Respond, IngestFails, CompareFails,
     FindFails, AlertFails, history
<1>2. \A r \in Replicas : Crash(r) => raised' = raised
  BY DEF Crash, history
<1>3. Outside => raised' = raised
  BY DEF Outside, OperatorStep, SetAlertStatus, AgeAlerts, PruneResolvedAlerts, BeginImport,
     CommitImport, ClientTimeout, vars, history
<1> QED BY <1>1, <1>2, <1>3, WhoSteps

\* The alert a handler writes adds what it raises to the row, and no blocked mark.
LEMMA CommitUpsertRow ==
  ASSUME TypeOK, BookInv, NEW h \in Handlers, CommitUpsert(h)
  PROVE  LET id == job[h].id
         IN  /\ id \in AlertIds
             /\ alerts'[id] = job[h].alert
             /\ alerts'[id].blocked => alerts[id].blocked
             /\ raised'[id] = raised[id] \cup job[h].alert.behaviors
             /\ \A i \in AlertIds : i # id => alerts'[i] = alerts[i] /\ raised'[i] = raised[i]
<1> DEFINE id == job[h].id
<1>1. id \in AlertIds /\ alerts' = [alerts EXCEPT ![id] = job[h].alert]
      /\ raised' = [raised EXCEPT ![id] = @ \cup job[h].alert.behaviors]
  BY DEF CommitUpsert, TypeOK, Job
<1>2. alerts \in [AlertIds -> Alert] /\ raised \in [AlertIds -> SUBSET Behaviors]
  BY DEF TypeOK
<1>3. job[h].alert.blocked => alerts[id].blocked
  <2>1. CASE job[h].holds
    <3>1. PICK B \in SUBSET Behaviors : job[h].alert = MergeIntoAlert(alerts[id], NewAlert(B))
      BY <2>1 DEF BookInv, WritesMerge, HoldsAlert, CommitUpsert
    <3>2. job[h].alert.blocked = (alerts[id].blocked \/ FALSE)
      BY <3>1 DEF MergeIntoAlert, NewAlert
    <3> QED BY <3>2
  <2>2. CASE ~job[h].holds
    <3>1. PICK B \in SUBSET Behaviors : job[h].alert = NewAlert(B)
      BY <2>2 DEF BookInv, InsertsNew, Inserts, CommitUpsert
    <3> QED BY <3>1 DEF NewAlert
  <2> QED BY <2>1, <2>2
<1> QED BY <1>1, <1>2, <1>3

\* What an alert may come to say in a step: no behavior that was not raised on it,
\* and no blocked mark but that of a deny.
LEMMA AlertGains ==
  ASSUME TypeOK, BookInv, [Next]_vars, NEW id \in AlertIds
  PROVE  /\ raised[id] \subseteq raised'[id]
         /\ alerts'[id].behaviors \subseteq alerts[id].behaviors \cup raised'[id]
         /\ alerts'[id].blocked => \/ alerts[id].blocked
                                   \/ \E h \in Handlers : BlockAlert(h) /\ job[h].id = id
<1>0. alerts \in [AlertIds -> Alert]
  BY DEF TypeOK
<1>1. ASSUME NEW h \in Handlers, CommitUpsert(h)
      PROVE  /\ raised[id] \subseteq raised'[id]
             /\ alerts'[id].behaviors \subseteq alerts[id].behaviors \cup raised'[id]
             /\ alerts'[id].blocked => alerts[id].blocked
  <2>1. CASE id = job[h].id
    BY <1>1, <2>1, CommitUpsertRow
  <2>2. CASE id # job[h].id
    BY <1>1, <2>2, CommitUpsertRow
  <2> QED BY <2>1, <2>2
<1>2. ASSUME NEW h \in Handlers, BlockAlert(h)
      PROVE  /\ alerts'[id].behaviors = alerts[id].behaviors
             /\ alerts'[id].blocked => alerts[id].blocked \/ job[h].id = id
  <2>1. job[h].id \in AlertIds
    BY DEF TypeOK, Job
  <2>2. \/ alerts' = alerts
        \/ alerts' = [alerts EXCEPT ![job[h].id].blocked = TRUE]
    BY <1>2 DEF BlockAlert
  <2> QED BY <1>0, <2>1, <2>2 DEF Alert
<1>3. ASSUME NEW i \in AlertIds, NEW status, SetAlertStatus(i, status)
      PROVE  alerts'[id].behaviors = alerts[id].behaviors /\ alerts'[id].blocked = alerts[id].blocked
  BY <1>0, <1>3 DEF SetAlertStatus, Alert
<1>4. ASSUME AgeAlerts
      PROVE  alerts'[id].behaviors = alerts[id].behaviors /\ alerts'[id].blocked = alerts[id].blocked
  BY <1>0, <1>4 DEF AgeAlerts, Alert
<1>5. ASSUME PruneResolvedAlerts PROVE alerts'[id] = alerts[id] \/ alerts'[id] = NoAlert
  BY <1>5 DEF PruneResolvedAlerts
<1>6. ASSUME UNCHANGED alerts PROVE alerts'[id] = alerts[id]
  BY <1>6
<1>7. ASSUME NEW h \in Handlers, Steps(h), ~CommitUpsert(h), ~BlockAlert(h) PROVE UNCHANGED alerts
  BY <1>7, StepsKeepAlerts
<1>8. \A r \in Replicas : Crash(r) => UNCHANGED alerts
  BY DEF Crash
<1>9. \/ \E h \in Handlers : CommitUpsert(h)
      \/ \E h \in Handlers : BlockAlert(h)
      \/ \E i \in AlertIds, status \in {"acknowledged", "resolved"} : SetAlertStatus(i, status)
      \/ AgeAlerts \/ PruneResolvedAlerts \/ UNCHANGED alerts
  BY <1>7, <1>8, WhoSteps, OutsideAlerts
<1>10. CASE \E h \in Handlers : CommitUpsert(h)
  BY <1>1, <1>10
<1>11. CASE ~\E h \in Handlers : CommitUpsert(h)
  <2>1. raised' = raised
    BY <1>11, WhoRaises
  <2> QED BY <1>2, <1>3, <1>4, <1>5, <1>6, <1>9, <1>11, <2>1 DEF NoAlert
<1> QED BY <1>10, <1>11

\* An alert lists nothing that was not raised on it.
ListsRaised == \A id \in AlertIds : alerts[id].behaviors \subseteq raised[id]

\* The denies a handler has left are denies of a batch.
DenialsOfBatches ==
  \A h \in Handlers : \A i \in 1..Len(job[h].denials) :
    \E b \in Batches : \E j \in 1..Len(b.denied) : b.denied[j] = job[h].denials[i]

\* A handler about to mark an alert has found it by one of these denies.
DenyFound == \A h \in Handlers : job[h].pc = "deny" => Denied(job[h].id, raised[job[h].id])

DenyInv == ListsRaised /\ DenialsOfBatches /\ DenyFound /\ BlockedWasDenied

\* What a step makes of the denies the handler has left.
LEMMA DenialsMove ==
  ASSUME TypeOK, NEW h \in Handlers, Steps(h)
  PROVE  \/ job'[h].denials = job[h].denials
         \/ job'[h].denials = <<>>
         \/ job[h].denials # <<>> /\ job'[h].denials = Tail(job[h].denials)
         \/ \E b \in Batches : job'[h].denials = b.denied
<1>0. job[h] \in Job /\ job \in [Handlers -> Job]
  BY DEF TypeOK
<1>1. CASE \E b \in Batches : Deliver(h, b)
  BY <1>0, <1>1 DEF Deliver, NoJob
<1>2. CASE \E k \in Keys : BeginMerge(h, k)
  BY <1>0, <1>2 DEF BeginMerge, Job
<1>3. CASE CommitMerge(h)
  BY <1>0, <1>3 DEF CommitMerge, Job
<1>4. CASE React(h) \/ CompareFails(h)
  <2>1. ASSUME NoAlertFor(h) PROVE job'[h].denials = job[h].denials
    BY <1>0, <2>1 DEF NoAlertFor, Job
  <2>2. ASSUME NEW id \in AlertIds, NEW B \in SUBSET Behaviors, Emit(h, id, B)
        PROVE  job'[h].denials = job[h].denials
    BY <1>0, <2>2 DEF Emit, Job
  <2> QED BY <1>4, <2>1, <2>2, ReactEmits DEF CompareFails
<1>5. CASE BeginUpsert(h) \/ CommitUpsert(h) \/ RetryUpsert(h) \/ RecordAlert(h)
  BY <1>0, <1>5 DEF BeginUpsert, CommitUpsert, RetryUpsert, RecordAlert, Job
<1>6. CASE ReactDenied(h)
  <2>1. job[h].denials # <<>>
    BY <1>6 DEF ReactDenied, Denying
  <2>2. ASSUME job' = [job EXCEPT ![h].denials = Tail(@)]
        PROVE  job'[h].denials = Tail(job[h].denials)
    BY <1>0, <2>2 DEF Job
  <2>3. ASSUME NEW id \in AlertIds,
               job' = [job EXCEPT ![h].denials = Tail(@), ![h].pc = "deny", ![h].id = id]
        PROVE  job'[h].denials = Tail(job[h].denials)
    BY <1>0, <2>3 DEF Job
  <2> QED BY <1>6, <2>1, <2>2, <2>3, ReactDeniedMoves
<1>7. CASE BlockAlert(h) \/ AlertFails(h)
  BY <1>0, <1>7 DEF BlockAlert, AlertFails, Job
<1>8. CASE Respond(h) \/ IngestFails(h)
  BY <1>8 DEF Respond, IngestFails, Ended, NoJob
<1>9. CASE FindFails(h)
  BY <1>0, <1>9 DEF FindFails, Denying, Job
<1> QED
  BY <1>1, <1>2, <1>3, <1>4, <1>5, <1>6, <1>7, <1>8, <1>9 DEF Steps, HandlerStep

\* Only ReactDenied leads to a mark.
LEMMA DenyFrom ==
  ASSUME TypeOK, NEW h \in Handlers, Steps(h), job'[h].pc = "deny"
  PROVE  ReactDenied(h)
<1>0. job[h] \in Job /\ job \in [Handlers -> Job]
  BY DEF TypeOK
<1>1. CASE \E b \in Batches : Deliver(h, b)
  BY <1>0, <1>1 DEF Deliver, NoJob
<1>2. CASE \E k \in Keys : BeginMerge(h, k)
  BY <1>0, <1>2 DEF BeginMerge, Job
<1>3. CASE CommitMerge(h)
  BY <1>0, <1>3 DEF CommitMerge, Job
<1>4. CASE React(h) \/ CompareFails(h)
  <2>0. job[h].pc = "work"
    BY <1>4 DEF React, CompareFails, Reacting
  <2>1. ASSUME NoAlertFor(h) PROVE job'[h].pc = "work"
    BY <1>0, <2>0, <2>1 DEF NoAlertFor, Job
  <2>2. ASSUME NEW id \in AlertIds, NEW B \in SUBSET Behaviors, Emit(h, id, B)
        PROVE  job'[h].pc = "upsert"
    BY <1>0, <2>2 DEF Emit, Job
  <2> QED BY <1>4, <2>1, <2>2, ReactEmits DEF CompareFails
<1>5. CASE BeginUpsert(h) \/ CommitUpsert(h) \/ RetryUpsert(h) \/ RecordAlert(h)
  BY <1>0, <1>5 DEF BeginUpsert, CommitUpsert, RetryUpsert, RecordAlert, Job
<1>7. CASE BlockAlert(h) \/ AlertFails(h)
  BY <1>0, <1>7 DEF BlockAlert, AlertFails, Job
<1>8. CASE Respond(h) \/ IngestFails(h)
  BY <1>8 DEF Respond, IngestFails, Ended, NoJob
<1>9. CASE FindFails(h)
  BY <1>0, <1>9 DEF FindFails, Denying, Job
<1> QED
  BY <1>1, <1>2, <1>3, <1>4, <1>5, <1>7, <1>8, <1>9 DEF Steps, HandlerStep

\* More raised, no deny lost.
LEMMA DeniedGrows ==
  ASSUME NEW id, NEW B, NEW C, B \subseteq C, Denied(id, B)
  PROVE  Denied(id, C)
BY DEF Denied

\* A mark that ReactDenied leads to lands on an alert that lists the deny.
LEMMA DenyFoundStep ==
  ASSUME TypeOK, BookInv, DenyInv, [Next]_vars
  PROVE  DenyFound'
<1> SUFFICES ASSUME NEW h \in Handlers, job'[h].pc = "deny"
             PROVE  Denied(job'[h].id, raised'[job'[h].id])
  BY DEF DenyFound, Denied
<1>0. job[h] \in Job /\ job \in [Handlers -> Job]
  BY DEF TypeOK
<1>1. CASE job'[h] = job[h]
  <2>1. job[h].id \in AlertIds /\ Denied(job[h].id, raised[job[h].id])
    BY <1>0, <1>1 DEF DenyInv, DenyFound, Job
  <2> QED BY <1>1, <2>1, AlertGains, DeniedGrows
<1>2. CASE ReactDenied(h)
  <2> DEFINE d == Head(job[h].denials)
  <2>1. job[h].denials # <<>> /\ job[h].denials \in Seq(Subjects \X Behaviors) /\ job[h].pc = "work"
    BY <1>0, <1>2 DEF ReactDenied, Denying, Job
  <2>2. d = job[h].denials[1] /\ 1 \in 1..Len(job[h].denials)
    BY <2>1
  <2>3. PICK b \in Batches : \E j \in 1..Len(b.denied) : b.denied[j] = d
    BY <2>2 DEF DenyInv, DenialsOfBatches
  <2>4. PICK id \in Unblocked(d[1], d[2]) :
          job' = [job EXCEPT ![h].denials = Tail(@), ![h].pc = "deny", ![h].id = id]
    <3>1. ~(job' = [job EXCEPT ![h].denials = Tail(@)])
      BY <1>0, <2>1 DEF Job
    <3> QED BY <1>2, <3>1 DEF ReactDenied
  <2>5. id \in AlertIds /\ id[1] = d[1] /\ d[2] \in alerts[id].behaviors
    BY DEF Unblocked
  <2>6. job'[h].id = id
    BY <1>0, <2>4 DEF Job
  <2>7. d[2] \in raised'[id]
    BY <2>5, AlertGains DEF DenyInv, ListsRaised
  <2> QED BY <2>3, <2>5, <2>6, <2>7 DEF Denied
<1> QED BY <1>1, <1>2, DenyFrom, Waits DEF NoJob

\* The denies a handler has left stay denies of a batch.
LEMMA DenialsOfBatchesStep ==
  ASSUME TypeOK, DenyInv, [Next]_vars
  PROVE  DenialsOfBatches'
<1> SUFFICES ASSUME NEW h \in Handlers, NEW i \in 1..Len(job'[h].denials)
             PROVE  \E b \in Batches : \E j \in 1..Len(b.denied) : b.denied[j] = job'[h].denials[i]
  BY DEF DenialsOfBatches
<1>0. job[h].denials \in Seq(Subjects \X Behaviors)
  BY DEF TypeOK, Job
<1>1. \A n \in 1..Len(job[h].denials) :
        \E b \in Batches : \E j \in 1..Len(b.denied) : b.denied[j] = job[h].denials[n]
  BY DEF DenyInv, DenialsOfBatches
<1>2. CASE job'[h].denials = job[h].denials
  BY <1>1, <1>2
<1>3. CASE job'[h].denials = <<>>
  BY <1>3
<1>4. CASE job[h].denials # <<>> /\ job'[h].denials = Tail(job[h].denials)
  <2>1. i + 1 \in 1..Len(job[h].denials) /\ job'[h].denials[i] = job[h].denials[i + 1]
    BY <1>0, <1>4
  <2> QED BY <1>1, <2>1
<1>5. CASE \E b \in Batches : job'[h].denials = b.denied
  BY <1>5
<1> QED BY <1>2, <1>3, <1>4, <1>5, DenialsMove, Waits DEF NoJob

\* The strengthening: alerts list what was raised on them, and the denies on their
\* way are those of batches.
THEOREM DenyInvariant == Spec => []DenyInv
<1>1. Init => DenyInv
  BY DEF Init, DenyInv, ListsRaised, DenialsOfBatches, DenyFound, BlockedWasDenied, NoAlert, NoJob
<1>2. TypeOK /\ BookInv /\ DenyInv /\ [Next]_vars => DenyInv'
  <2> SUFFICES ASSUME TypeOK, BookInv, DenyInv, [Next]_vars PROVE DenyInv'
    OBVIOUS
  <2>1. ListsRaised'
    <3> SUFFICES ASSUME NEW id \in AlertIds PROVE alerts'[id].behaviors \subseteq raised'[id]
      BY DEF ListsRaised
    <3> QED BY AlertGains DEF DenyInv, ListsRaised
  <2>2. BlockedWasDenied'
    <3> SUFFICES ASSUME NEW id \in AlertIds, alerts'[id].blocked PROVE Denied(id, raised'[id])
      BY DEF BlockedWasDenied, Denied
    <3>1. alerts[id].blocked \/ \E h \in Handlers : job[h].pc = "deny" /\ job[h].id = id
      BY AlertGains DEF BlockAlert
    <3>2. Denied(id, raised[id])
      BY <3>1 DEF DenyInv, DenyFound, BlockedWasDenied
    <3> QED BY <3>2, AlertGains, DeniedGrows
  <2> QED BY <2>1, <2>2, DenyFoundStep, DenialsOfBatchesStep DEF DenyInv
<1>3. TypeInv /\ BookInv /\ DenyInv /\ [Next]_vars => DenyInv'
  BY <1>2 DEF TypeInv
<1> QED BY <1>1, <1>3, TypeInvariant, BookInvariant, PTL DEF Spec

\* A blocked mark is put on an alert that listed a denied behavior of its subject,
\* whatever other handlers, operators and the retention loop do to the alert between
\* the look-up and the mark (ReactDenied, FindUnblockedAlertByBehavior).
THEOREM BlockedMarksDenied == Spec => []BlockedWasDenied
<1>1. DenyInv => BlockedWasDenied
  BY DEF DenyInv
<1> QED BY <1>1, DenyInvariant, PTL
-----------------------------------------------------------------------------
(* Drift and its alerts.                                                   *)

\* The update of a merge that shows drift: its version was a baseline before.
IsDrift(u) == u.baseline /\ ~u.promoted

\* Handler h is writing its alert.
Writing(h) == job[h].pc \in {"upsert", "upsertTx"}

\* What a step makes of the updates a handler has left.
LEMMA UpdatesMove ==
  ASSUME TypeOK, NEW h \in Handlers, Steps(h)
  PROVE  \/ job'[h].updates = job[h].updates
         \/ /\ job'[h].updates = <<>>
            /\ \/ \E b \in Batches : Deliver(h, b)
               \/ Respond(h) \/ IngestFails(h)
         \/ CommitMerge(h)
         \/ /\ React(h) \/ CompareFails(h)
            /\ job[h].updates # <<>> /\ job'[h].updates = Tail(job[h].updates)
<1>0. job[h] \in Job /\ job \in [Handlers -> Job]
  BY DEF TypeOK
<1>1. CASE \E b \in Batches : Deliver(h, b)
  BY <1>1, DeliverMemory
<1>2. CASE \E k \in Keys : BeginMerge(h, k)
  BY <1>0, <1>2 DEF BeginMerge, Job
<1>4. CASE React(h) \/ CompareFails(h)
  <2>0. job[h].updates # <<>>
    BY <1>4 DEF React, CompareFails, Reacting
  <2>1. ASSUME NoAlertFor(h) PROVE job'[h].updates = Tail(job[h].updates)
    BY <1>0, <2>1 DEF NoAlertFor, Job
  <2>2. ASSUME NEW id \in AlertIds, NEW B \in SUBSET Behaviors, Emit(h, id, B)
        PROVE  job'[h].updates = Tail(job[h].updates)
    BY <1>0, <2>2 DEF Emit, Job
  <2> QED BY <1>4, <2>0, <2>1, <2>2, ReactEmits DEF CompareFails
<1>5. CASE BeginUpsert(h) \/ CommitUpsert(h) \/ RetryUpsert(h) \/ RecordAlert(h)
  BY <1>0, <1>5 DEF BeginUpsert, CommitUpsert, RetryUpsert, RecordAlert, Job
<1>6. CASE ReactDenied(h)
  <2>1. ASSUME job' = [job EXCEPT ![h].denials = Tail(@)] PROVE job'[h].updates = job[h].updates
    BY <1>0, <2>1 DEF Job
  <2>2. ASSUME NEW id \in AlertIds,
               job' = [job EXCEPT ![h].denials = Tail(@), ![h].pc = "deny", ![h].id = id]
        PROVE  job'[h].updates = job[h].updates
    BY <1>0, <2>2 DEF Job
  <2> QED BY <1>6, <2>1, <2>2, ReactDeniedMoves
<1>7. CASE BlockAlert(h) \/ AlertFails(h)
  BY <1>0, <1>7 DEF BlockAlert, AlertFails, Job
<1>8. CASE Respond(h) \/ IngestFails(h)
  BY <1>8 DEF Respond, IngestFails, Ended, NoJob
<1>9. CASE FindFails(h)
  BY <1>0, <1>9 DEF FindFails, Denying, Job
<1> QED
  BY <1>1, <1>2, <1>4, <1>5, <1>6, <1>7, <1>8, <1>9 DEF Steps, HandlerStep

\* The update a merge appends, and what the merge adds to the drift.  A row that was
\* a baseline when it was read is the row as it is, so the update shows drift where
\* the table has it.
LEMMA CommitMergeUpdate ==
  ASSUME TypeInv, RowsInv, NEW h \in Handlers, CommitMerge(h)
  PROVE  LET k == job[h].key
             g == job[h].batch.groups[k]
             n == Len(job[h].updates)
             u == job'[h].updates[n + 1]
         IN  /\ k \in Keys /\ Len(job'[h].updates) = n + 1
             /\ \A i \in 1..n : job'[h].updates[i] = job[h].updates[i]
             /\ u.key = k
             /\ IsDrift(u) <=> job[h].read.baseline
             /\ job[h].read.baseline => job[h].read = fps[k]
             /\ u.fresh = Fresh(job[h].read, g)
             /\ drift' = drift \cup (IF fps[k].baseline THEN {k} \X Fresh(fps[k], g) ELSE {})
<1> DEFINE k == job[h].key
           g == job[h].batch.groups[k]
           row == Learn(job[h].read, g)
           u == [key |-> k, fresh |-> Fresh(job[h].read, g), baseline |-> row.baseline,
                 promoted |-> JustPromoted(job[h].read, g)]
<1>1. job[h].pc = "mergeTx"
  BY DEF CommitMerge
<1>2. k \in Keys /\ job[h].read \in Row /\ g \in Group /\ job[h].updates \in Seq(Update)
  BY <1>1, MergingType DEF TypeInv, TypeOK, Job
<1>3. job'[h].updates = Append(job[h].updates, u)
  <2>1. job' = [job EXCEPT ![h].pc = "work", ![h].todo = @ \ {k},
                           ![h].read = NoRow, ![h].key = NoKey,
                           ![h].updates = Append(@, u)]
    BY DEF CommitMerge
  <2>2. job[h] \in Job /\ job \in [Handlers -> Job]
    BY DEF TypeInv, TypeOK
  <2> HIDE DEF u, k
  <2> QED BY <2>1, <2>2 DEF Job
<1>4. IsDrift(u) <=> job[h].read.baseline
  <2>1. row.baseline = (job[h].read.baseline \/ Qualifies(MergeGroup(job[h].read, g)))
    BY DEF Learn, MergeGroup
  <2>2. job[h].read.baseline \in BOOLEAN
    BY <1>2 DEF Row
  <2>3. u.baseline = row.baseline /\ u.promoted = JustPromoted(job[h].read, g)
    OBVIOUS
  <2> HIDE DEF u, row
  <2> QED BY <2>1, <2>2, <2>3 DEF IsDrift, JustPromoted
<1>5. job[h].read.baseline => job[h].read = fps[k]
  BY <1>1 DEF RowsInv, ReadsStand, NoRow
<1>6. drift' = drift \cup (IF fps[k].baseline THEN {k} \X Fresh(fps[k], g) ELSE {})
  BY DEF CommitMerge
<1>7. u.key = k /\ u.fresh = Fresh(job[h].read, g)
  OBVIOUS
<1> HIDE DEF u
<1>8. /\ Len(job'[h].updates) = Len(job[h].updates) + 1
      /\ job'[h].updates[Len(job[h].updates) + 1] = u
      /\ \A i \in 1..Len(job[h].updates) : job'[h].updates[i] = job[h].updates[i]
  BY <1>2, <1>3
<1> QED BY <1>2, <1>4, <1>5, <1>6, <1>7, <1>8

\* The drift a handler raises on the drift alert of a version is that of its update,
\* and every drift it reacts to is raised there.
LEMMA ReactDrift ==
  ASSUME TypeOK, NEW h \in Handlers, React(h)
  PROVE  LET u == Head(job[h].updates)
         IN  /\ u \in Update
             /\ Writing(h)' => \A k \in Keys : job'[h].id = DriftId(k) =>
                   u.key = k /\ IsDrift(u) /\ job'[h].alert.behaviors = u.fresh
             /\ IsDrift(u) /\ u.fresh # {} =>
                   /\ Writing(h)' /\ job'[h].id = DriftId(u.key)
                   /\ job'[h].alert.behaviors = u.fresh
<1> DEFINE u == Head(job[h].updates)
           s == u.key[1]
           v == u.key[2]
<1>0. job[h] \in Job /\ job \in [Handlers -> Job] /\ job[h].pc = "work"
  BY DEF TypeOK, React, Reacting
<1>1. u \in Update
  BY HeadUpdate DEF React, Reacting
<1>2. /\ u.key \in Keys /\ s \in Subjects /\ v \in Versions /\ u.fresh \in SUBSET Behaviors
      /\ u.baseline \in BOOLEAN /\ u.promoted \in BOOLEAN
  BY <1>1 DEF Update, Keys
<1>3. ASSUME NoAlertFor(h) PROVE ~Writing(h)'
  BY <1>0, <1>3 DEF NoAlertFor, Writing, Job
<1>4. ASSUME NEW id, NEW B, Emit(h, id, B)
      PROVE  Writing(h)' /\ job'[h].id = id /\ job'[h].alert.behaviors = B
  BY <1>0, <1>4 DEF Emit, Writing, Job, NewAlert
<1>5. CASE u.fresh = {} /\ NoAlertFor(h)
  BY <1>1, <1>3, <1>5
<1>6. CASE BaselineDrift(h, u)
  <2>1. Writing(h)' /\ job'[h].id = <<s, v, v>> /\ job'[h].alert.behaviors = u.fresh /\ IsDrift(u)
    BY <1>4, <1>6 DEF BaselineDrift, IsDrift
  <2>2. ASSUME NEW k \in Keys, DriftId(k) = <<s, v, v>> PROVE u.key = k
    <3>1. k = <<k[1], k[2]>> /\ u.key = <<s, v>>
      BY <1>2 DEF Keys
    <3>2. k[1] = s /\ k[2] = v
      BY <2>2 DEF DriftId
    <3> QED BY <3>1, <3>2
  <2>3. DriftId(u.key) = <<s, v, v>>
    BY DEF DriftId
  <2> QED BY <1>1, <2>1, <2>2, <2>3
<1>7. CASE VersionDrift(h, u)
  <2>1. ~IsDrift(u)
    BY <1>7 DEF VersionDrift, Compares, IsDrift
  <2>2. PICK base \in LatestBaselines(s, v) :
          LET new == u.fresh \ fps[<<s, base>>].behaviors IN
          IF new = {} THEN NoAlertFor(h) ELSE Emit(h, <<s, base, v>>, new)
    BY <1>7 DEF VersionDrift
  <2>3. base # v
    BY DEF LatestBaselines, Baselines
  <2>4. Writing(h)' => job'[h].id = <<s, base, v>>
    BY <1>3, <1>4, <2>2
  <2>5. \A k \in Keys : DriftId(k) # <<s, base, v>>
    BY <2>3 DEF DriftId
  <2> QED BY <1>1, <2>1, <2>4, <2>5
<1>8. CASE FirstSighting(h, u)
  <2>1. ~IsDrift(u)
    BY <1>8 DEF FirstSighting, Compares, IsDrift
  <2>2. Writing(h)' => job'[h].id = <<s, NoVersion, v>>
    BY <1>3, <1>4, <1>8 DEF FirstSighting
  <2>3. \A k \in Keys : DriftId(k) # <<s, NoVersion, v>>
    <3>1. NoVersion # v
      BY <1>2, RuleAssumption
    <3> QED BY <3>1 DEF DriftId
  <2> QED BY <1>1, <2>1, <2>2, <2>3
<1> QED BY <1>5, <1>6, <1>7, <1>8 DEF React

\* What handlers carry towards the drift alerts is drift.
CarriesDrift ==
  \A h \in Handlers :
    /\ \A i \in 1..Len(job[h].updates) : IsDrift(job[h].updates[i]) =>
         \A b \in job[h].updates[i].fresh : <<job[h].updates[i].key, b>> \in drift
    /\ Writing(h) => \A k \in Keys : job[h].id = DriftId(k) =>
         \A b \in job[h].alert.behaviors : <<k, b>> \in drift

RealInv == CarriesDrift /\ AlertedIsDrift

\* Drift is not taken back.
LEMMA DriftGrows ==
  ASSUME [Next]_vars
  PROVE  drift \subseteq drift'
<1>1. ASSUME NEW h \in Handlers, CommitMerge(h) PROVE drift \subseteq drift'
  BY <1>1 DEF CommitMerge
<1> QED BY <1>1, WhoObserves

\* The updates of a handler stay real drift.
LEMMA UpdatesAreDrift ==
  ASSUME TypeInv, RowsInv, RealInv, [Next]_vars, NEW h \in Handlers,
         NEW i \in 1..Len(job'[h].updates), IsDrift(job'[h].updates[i]),
         NEW b \in job'[h].updates[i].fresh
  PROVE  <<job'[h].updates[i].key, b>> \in drift'
<1>0. TypeOK /\ job[h].updates \in Seq(Update)
  BY DEF TypeInv, TypeOK, Job
<1>1. ASSUME NEW n \in 1..Len(job[h].updates), job'[h].updates[i] = job[h].updates[n]
      PROVE  <<job'[h].updates[i].key, b>> \in drift'
  BY <1>1, DriftGrows DEF RealInv, CarriesDrift
<1>2. CASE job'[h].updates = job[h].updates
  BY <1>1, <1>2
<1>3. CASE job'[h].updates = <<>>
  BY <1>3
<1>4. CASE job[h].updates # <<>> /\ job'[h].updates = Tail(job[h].updates)
  <2>1. i + 1 \in 1..Len(job[h].updates) /\ job'[h].updates[i] = job[h].updates[i + 1]
    BY <1>0, <1>4
  <2> QED BY <1>1, <2>1
<1>5. CASE CommitMerge(h)
  <2> DEFINE n == Len(job[h].updates)
             k == job[h].key
             g == job[h].batch.groups[k]
             u == job'[h].updates[n + 1]
  <2>1. /\ Len(job'[h].updates) = n + 1
        /\ \A j \in 1..n : job'[h].updates[j] = job[h].updates[j]
        /\ u.key = k
        /\ IsDrift(u) <=> job[h].read.baseline
        /\ job[h].read.baseline => job[h].read = fps[k]
        /\ u.fresh = Fresh(job[h].read, g)
        /\ drift' = drift \cup (IF fps[k].baseline THEN {k} \X Fresh(fps[k], g) ELSE {})
    BY <1>5, CommitMergeUpdate
  <2>2. CASE i = n + 1
    <3>1. fps[k].baseline /\ u.fresh = Fresh(fps[k], g) /\ b \in u.fresh
      BY <2>1, <2>2
    <3> QED BY <2>1, <2>2, <3>1
  <2>3. CASE i # n + 1
    <3>1. i \in 1..n
      BY <1>0, <2>1, <2>3
    <3> QED BY <1>1, <2>1, <3>1
  <2> QED BY <2>2, <2>3
<1> QED BY <1>0, <1>2, <1>3, <1>4, <1>5, UpdatesMove, Waits DEF NoJob

\* A handler that writes an alert after a step has just raised it, begins or
\* retries its transaction, or waits.
LEMMA WritingFrom ==
  ASSUME TypeOK, [Next]_vars, NEW h \in Handlers, Writing(h)'
  PROVE  \/ React(h)
         \/ BeginUpsert(h) \/ RetryUpsert(h)
         \/ Writing(h) /\ job'[h] = job[h]
<1>0. job[h] \in Job /\ job \in [Handlers -> Job]
  BY DEF TypeOK
<1>1. CASE ~Steps(h)
  BY <1>1, Waits DEF Writing, NoJob
<1>2. ~\E b \in Batches : Deliver(h, b)
  BY DeliverMemory DEF Writing
<1>3. ~\E k \in Keys : BeginMerge(h, k)
  BY BeginMergeMemory DEF Writing
<1>4. ~CommitMerge(h)
  BY <1>0 DEF CommitMerge, Writing, Job
<1>11. ~CommitUpsert(h)
  BY <1>0 DEF CommitUpsert, Writing, Job
<1>8. ~RecordAlert(h) /\ ~BlockAlert(h)
  BY <1>0 DEF RecordAlert, BlockAlert, Writing, Job
<1>9. ~AlertFails(h)
  BY <1>0 DEF AlertFails, Writing, Job
<1>5. ~ReactDenied(h)
  <2> SUFFICES ASSUME ReactDenied(h) PROVE FALSE
    OBVIOUS
  <2>1. job[h].pc = "work"
    BY DEF ReactDenied, Denying
  <2>2. job' # [job EXCEPT ![h].denials = Tail(@)]
    BY <1>0, <2>1 DEF Writing, Job
  <2>3. ASSUME NEW id \in AlertIds,
               job' = [job EXCEPT ![h].denials = Tail(@), ![h].pc = "deny", ![h].id = id]
        PROVE  FALSE
    BY <1>0, <2>3 DEF Writing, Job
  <2> QED BY <2>2, <2>3, ReactDeniedMoves
<1>6. ~Respond(h) /\ ~IngestFails(h)
  BY DEF Respond, IngestFails, Ended, NoJob, Writing
<1>7. ~CompareFails(h)
  <2>1. CompareFails(h) =>
          job[h].pc = "work" /\ job' = [job EXCEPT ![h].updates = Tail(@)]
    BY DEF CompareFails, Reacting, NoAlertFor
  <2>2. CompareFails(h) => job'[h].pc = "work"
    BY <1>0, <2>1 DEF Job
  <2> QED BY <2>2 DEF Writing
<1>10. ~FindFails(h)
  <2>1. FindFails(h) => job[h].pc = "work" /\ job' = [job EXCEPT ![h].denials = Tail(@)]
    BY DEF FindFails, Denying
  <2>2. FindFails(h) => job'[h].pc = "work"
    BY <1>0, <2>1 DEF Job
  <2> QED BY <2>2 DEF Writing
<1> QED BY <1>1, <1>2, <1>3, <1>4, <1>5, <1>6, <1>7, <1>8, <1>9, <1>10, <1>11 DEF Steps, HandlerStep

\* What a handler puts on a drift alert stays real drift.
LEMMA AlertIsDrift ==
  ASSUME TypeInv, BookInv, ListsRaised, RealInv, [Next]_vars, NEW h \in Handlers, Writing(h)',
         NEW k \in Keys, job'[h].id = DriftId(k), NEW b \in job'[h].alert.behaviors
  PROVE  <<k, b>> \in drift'
<1>0. TypeOK /\ job[h].updates \in Seq(Update) /\ job[h].id \in AlertIds
  BY DEF TypeInv, TypeOK, Job
<1>1. ASSUME Writing(h), job[h].id = DriftId(k), b \in job[h].alert.behaviors
      PROVE  <<k, b>> \in drift'
  BY <1>1, DriftGrows DEF RealInv, CarriesDrift
<1>2. CASE React(h)
  <2> DEFINE u == Head(job[h].updates)
  <2>1. u.key = k /\ IsDrift(u) /\ b \in u.fresh
    BY <1>0, <1>2, ReactDrift
  <2>2. u = job[h].updates[1] /\ 1 \in 1..Len(job[h].updates)
    BY <1>0, <1>2 DEF React, Reacting
  <2>3. <<k, b>> \in drift
    BY <2>1, <2>2 DEF RealInv, CarriesDrift
  <2> QED BY <2>3, DriftGrows
<1>3. CASE BeginUpsert(h)
  <2>0. /\ job[h].pc = "upsert" /\ job'[h].id = job[h].id
        /\ \/ job'[h].alert = MergeIntoAlert(alerts[job[h].id], job[h].alert)
           \/ job'[h].alert = job[h].alert
    BY <1>0, <1>3, BeginUpsertMemory
  <2>1. /\ Writing(h) /\ job[h].id = DriftId(k)
        /\ \/ b \in job[h].alert.behaviors
           \/ b \in alerts[job[h].id].behaviors
    BY <2>0 DEF Writing, MergeIntoAlert
  <2>2. CASE b \in alerts[job[h].id].behaviors
    <3>1. b \in raised[DriftId(k)]
      BY <1>0, <2>1, <2>2 DEF ListsRaised
    <3> QED BY <3>1, DriftGrows DEF RealInv, AlertedIsDrift
  <2> QED BY <1>1, <2>1, <2>2
<1>4. CASE RetryUpsert(h)
  BY <1>0, <1>1, <1>4, RetryUpsertMemory DEF Writing
<1>5. CASE Writing(h) /\ job'[h] = job[h]
  BY <1>1, <1>5
<1> QED BY <1>0, <1>2, <1>3, <1>4, <1>5, WritingFrom

\* No false alarm: what is on the drift alert of a version was new to a baseline when
\* it was stored, whatever is delivered twice, imported or failed meanwhile
\* (JustPromoted, diff.go trigger 2, store.UpsertAlert).
THEOREM AlertedDriftIsReal == Spec => []AlertedIsDrift
<1>1. Init => RealInv
  BY DEF Init, RealInv, CarriesDrift, AlertedIsDrift, Writing, NoJob, DriftId, AlertIds, Keys
<1>2. TypeInv /\ BookInv /\ RowsInv /\ ListsRaised /\ RealInv /\ [Next]_vars => RealInv'
  <2> SUFFICES ASSUME TypeInv, BookInv, RowsInv, ListsRaised, RealInv, [Next]_vars PROVE RealInv'
    OBVIOUS
  <2>0. TypeOK
    BY DEF TypeInv
  <2>1. CarriesDrift'
    BY UpdatesAreDrift, AlertIsDrift DEF CarriesDrift, Writing, DriftId, IsDrift
  <2>2. AlertedIsDrift'
    <3> SUFFICES ASSUME NEW k \in Keys, NEW b \in raised'[DriftId(k)] PROVE <<k, b>> \in drift'
      BY DEF AlertedIsDrift, DriftId
    <3>1. CASE b \in raised[DriftId(k)]
      BY <3>1, DriftGrows DEF RealInv, AlertedIsDrift
    <3>2. ASSUME NEW h \in Handlers, CommitUpsert(h), b \notin raised[DriftId(k)]
          PROVE  <<k, b>> \in drift'
      <4>1. DriftId(k) \in AlertIds
        BY DEF DriftId, AlertIds, Keys
      <4>2. job[h].id = DriftId(k) /\ b \in job[h].alert.behaviors
        BY <2>0, <3>2, <4>1, CommitUpsertRow
      <4>3. Writing(h)
        BY <3>2 DEF CommitUpsert, Writing
      <4> QED BY <4>2, <4>3, DriftGrows DEF RealInv, CarriesDrift
    <3> QED BY <3>1, <3>2, WhoRaises
  <2> QED BY <2>1, <2>2 DEF RealInv
<1>3. RealInv => AlertedIsDrift
  BY DEF RealInv
<1>4. DenyInv => ListsRaised
  BY DEF DenyInv
<1> QED
  BY <1>1, <1>2, <1>3, <1>4, TypeInvariant, BookInvariant, RowsInvariant, DenyInvariant, PTL DEF Spec
-----------------------------------------------------------------------------
(* Drift reaches its alert.                                                *)

\* A handler that writes its alert goes on with that, or fails.
LEMMA WritingTo ==
  ASSUME NEW h \in Handlers, Steps(h), Writing(h)
  PROVE  BeginUpsert(h) \/ CommitUpsert(h) \/ RetryUpsert(h) \/ AlertFails(h)
BY DEF Writing, Steps, HandlerStep, Deliver, BeginMerge, CommitMerge, React, Reacting,
   RecordAlert, ReactDenied, Denying, BlockAlert, Respond, IngestFails, CompareFails, FindFails

\* No update is skipped: it stays until its handler reacts to it.
LEMMA UpdateStays ==
  ASSUME TypeInv, RowsInv, QuietInv, [Next]_vars, faults' = 0,
         NEW h \in Handlers, NEW i \in 1..Len(job[h].updates)
  PROVE  \/ \E j \in 1..Len(job'[h].updates) : job'[h].updates[j] = job[h].updates[i]
         \/ React(h) /\ i = 1
<1>0. TypeOK /\ job[h].updates \in Seq(Update)
  BY DEF TypeInv, TypeOK, Job
<1>1. CASE ~Steps(h)
  <2>1. job'[h] = job[h]
    BY <1>0, <1>1, NoFailure, WaitsQuietly
  <2> QED BY <2>1
<1>2. CASE job'[h].updates = job[h].updates
  BY <1>2
<1>3. ~\E d \in Batches : Deliver(h, d)
  <2>1. job[h].pc = "idle" => job[h].updates = <<>>
    BY DEF QuietInv, IdleIsEmpty, NoJob
  <2>2. job[h].updates # <<>>
    OBVIOUS
  <2> QED BY <2>1, <2>2 DEF Deliver
<1>4. ~Respond(h) /\ ~IngestFails(h) /\ ~CompareFails(h)
  BY <1>0, NoFailure DEF Respond
<1>5. CASE CommitMerge(h)
  <2>1. /\ Len(job'[h].updates) = Len(job[h].updates) + 1
        /\ \A j \in 1..Len(job[h].updates) : job'[h].updates[j] = job[h].updates[j]
    BY <1>5, CommitMergeUpdate
  <2>2. i \in 1..Len(job'[h].updates)
    BY <1>0, <2>1
  <2> QED BY <2>1, <2>2
<1>6. CASE React(h) /\ job'[h].updates = Tail(job[h].updates) /\ i # 1
  <2>1. i - 1 \in 1..Len(job'[h].updates) /\ job'[h].updates[i - 1] = job[h].updates[i]
    BY <1>0, <1>6
  <2> QED BY <2>1
<1> QED BY <1>0, <1>1, <1>2, <1>3, <1>4, <1>5, <1>6, UpdatesMove

\* What a handler is writing it goes on to write, or it is on the alert: no retry
\* gives up, and merging an alert keeps what was to be raised.
LEMMA WritingArrives ==
  ASSUME TypeInv, BookInv, QuietInv, SettlesInv, [Next]_vars, faults' = 0,
         NEW h \in Handlers, Writing(h), NEW b \in job[h].alert.behaviors
  PROVE  \/ Writing(h)' /\ job'[h].id = job[h].id /\ b \in job'[h].alert.behaviors
         \/ b \in raised'[job[h].id]
<1> USE DEF Writing
<1>0. TypeOK
  BY DEF TypeInv
<1>1. CASE ~Steps(h)
  BY <1>0, <1>1, NoFailure, WaitsQuietly
<1>2. CASE BeginUpsert(h)
  <2>1. /\ job'[h].pc = "upsertTx" /\ job'[h].id = job[h].id
        /\ \/ job'[h].alert = MergeIntoAlert(alerts[job[h].id], job[h].alert)
           \/ job'[h].alert = job[h].alert
    BY <1>0, <1>2, BeginUpsertMemory
  <2> QED BY <2>1 DEF MergeIntoAlert
<1>3. CASE CommitUpsert(h)
  BY <1>0, <1>3, CommitUpsertRow
<1>4. CASE RetryUpsert(h)
  <2>1. job[h].attempts <= 2
    BY DEF SettlesInv
  <2>2. job[h].attempts # MaxAttempts
    BY <2>1 DEF MaxAttempts
  <2>3. job'[h].pc = "upsert" /\ job'[h].id = job[h].id /\ job'[h].alert = job[h].alert
    BY <1>0, <1>4, <2>2 DEF RetryUpsert, TypeOK, Job
  <2> QED BY <2>3
<1>5. ~AlertFails(h)
  BY <1>0, NoFailure
<1> QED BY <1>1, <1>2, <1>3, <1>4, <1>5, WritingTo

\* Drift on its way stays on its way, or arrives: no reaction is skipped, no retry
\* gives up, and merging an alert keeps what was to be raised.
LEMMA CarriesOn ==
  ASSUME TypeInv, BookInv, RowsInv, QuietInv, SettlesInv, [Next]_vars, faults' = 0,
         NEW h \in Handlers, NEW k \in Keys, NEW b, Carries(h, k, b)
  PROVE  Carries(h, k, b)' \/ b \in raised'[DriftId(k)]
<1> USE DEF IsDrift, Writing
<1>0. TypeOK /\ job[h].updates \in Seq(Update)
  BY DEF TypeInv, TypeOK, Job
<1>1. ASSUME NEW i \in 1..Len(job[h].updates), job[h].updates[i].key = k,
             b \in job[h].updates[i].fresh, IsDrift(job[h].updates[i])
      PROVE  Carries(h, k, b)'
  <2>1. ASSUME NEW j \in 1..Len(job'[h].updates), job'[h].updates[j] = job[h].updates[i]
        PROVE  Carries(h, k, b)'
    BY <1>1, <2>1 DEF Carries
  <2>2. CASE React(h) /\ i = 1
    <3> DEFINE u == Head(job[h].updates)
    <3>1. u = job[h].updates[i]
      BY <2>2
    <3>2. u.key = k /\ IsDrift(u) /\ b \in u.fresh
      BY <1>1, <3>1
    <3>3. job'[h].pc \in {"upsert", "upsertTx"} /\ job'[h].id = DriftId(k) /\ b \in job'[h].alert.behaviors
      BY <1>0, <2>2, <3>2, ReactDrift
    <3> QED BY <3>3 DEF Carries, DriftId
  <2> QED BY <2>1, <2>2, UpdateStays
<1>2. CASE Writing(h) /\ job[h].id = DriftId(k) /\ b \in job[h].alert.behaviors
  <2>1. \/ Writing(h)' /\ job'[h].id = job[h].id /\ b \in job'[h].alert.behaviors
        \/ b \in raised'[job[h].id]
    BY <1>2, WritingArrives
  <2> QED BY <1>2, <2>1 DEF Carries, DriftId
<1> QED BY <1>1, <1>2 DEF Carries

\* A row whose merges read what they write: a row that was never imported, or any
\* row where no import can slip into a merge.
NoRaceFor(k) == NoImportRace \/ Own(k)

\* A merge that stores drift of such a row sets it on its way.
LEMMA DriftIsCarried ==
  ASSUME TypeInv, RowsInv, [Next]_vars, NEW h \in Handlers, CommitMerge(h),
         NEW d \in drift', d \notin drift, NoRaceFor(d[1])'
  PROVE  Carries(h, d[1], d[2])'
<1> DEFINE n == Len(job[h].updates)
           k == job[h].key
           g == job[h].batch.groups[k]
           u == job'[h].updates[n + 1]
<1>1. /\ Len(job'[h].updates) = n + 1 /\ u.key = k
      /\ IsDrift(u) <=> job[h].read.baseline
      /\ u.fresh = Fresh(job[h].read, g)
      /\ drift' = drift \cup (IF fps[k].baseline THEN {k} \X Fresh(fps[k], g) ELSE {})
  BY CommitMergeUpdate
<1>2. fps[k].baseline /\ d \in {k} \X Fresh(fps[k], g)
  BY <1>1
<1>3. d[1] = k /\ k \in Keys
  BY <1>2, CommitMergeRow
<1>4. job[h].read = fps[k]
  <2>1. CASE NoImportRace
    BY <2>1 DEF CommitMerge, RowsInv, ReadsStand
  <2>2. CASE ~NoImportRace
    <3>1. Own(d[1])'
      BY <2>2 DEF NoRaceFor, NoImportRace
    <3> QED BY <1>3, <3>1, OwnRow
  <2> QED BY <2>1, <2>2
<1>5. d[2] \in u.fresh /\ IsDrift(u)
  BY <1>1, <1>2, <1>4
<1>6. n \in Nat
  BY DEF TypeInv, TypeOK, Job
<1>7. n + 1 \in 1..Len(job'[h].updates)
  BY <1>1, <1>6
<1> HIDE DEF n, k, g
<1> QED BY <1>1, <1>3, <1>5, <1>7 DEF Carries, IsDrift

\* SameVersionDriftAlerted of the rows no import races with.
DriftAlerted ==
  faults = 0 => \A d \in drift : NoRaceFor(d[1]) =>
    \/ d[2] \in raised[DriftId(d[1])]
    \/ \E h \in Handlers : Carries(h, d[1], d[2])

\* Drift on a baseline is never lost while nothing fails: not in a merge, not
\* between a merge and its reaction, not in the race of two handlers for one alert
\* (fingerprint.go Ingest, diff.go trigger 2, store.UpsertAlert).  Whatever is
\* imported meanwhile, this holds for every row that was not; for imported ones it
\* takes a database where an import cannot slip into a merge.
THEOREM DriftAlertedInvariant == Spec => []DriftAlerted
<1>1. Init => DriftAlerted
  BY DEF Init, DriftAlerted
<1>2. TypeInv /\ BookInv /\ RowsInv /\ QuietInv /\ SettlesInv /\ DriftAlerted
        /\ [Next]_vars => DriftAlerted'
  <2> SUFFICES ASSUME TypeInv, BookInv, RowsInv, QuietInv, SettlesInv, DriftAlerted,
                      [Next]_vars, faults' = 0, NEW d \in drift', NoRaceFor(d[1])'
               PROVE  \/ d[2] \in raised'[DriftId(d[1])]
                      \/ \E h \in Handlers : Carries(h, d[1], d[2])'
    BY DEF DriftAlerted, DriftId
  <2>0. TypeOK
    BY DEF TypeInv
  <2>1. CASE d \in drift
    <3>1. d[1] \in Keys /\ DriftId(d[1]) \in AlertIds
      BY <2>0, <2>1 DEF TypeOK, DriftId, AlertIds, Keys
    <3>2. faults = 0
      BY <2>0, NoFailure
    <3>3. NoRaceFor(d[1])
      BY <3>1, OwnRow DEF NoRaceFor, NoImportRace
    <3>4. d[2] \in raised[DriftId(d[1])] \/ \E h \in Handlers : Carries(h, d[1], d[2])
      BY <2>1, <3>2, <3>3 DEF DriftAlerted
    <3>5. raised[DriftId(d[1])] \subseteq raised'[DriftId(d[1])]
      BY <2>0, <3>1, AlertGains
    <3> QED BY <3>1, <3>4, <3>5, CarriesOn
  <2>2. CASE d \notin drift
    BY <2>2, DriftIsCarried, WhoObserves
  <2> QED BY <2>1, <2>2
<1> QED
  BY <1>1, <1>2, TypeInvariant, BookInvariant, RowsInvariant, QuietInvariant, SettlesInvariant,
     PTL DEF Spec

\* So no drift at all is lost where no import can slip into a merge.  The condition
\* is needed: an import that does makes a row a baseline unseen.
THEOREM DriftIsAlerted ==
  ASSUME NoImportRace
  PROVE  Spec => []SameVersionDriftAlerted
<1>1. DriftAlerted => SameVersionDriftAlerted
  BY DEF DriftAlerted, NoRaceFor, SameVersionDriftAlerted
<1> QED BY <1>1, DriftAlertedInvariant, PTL
-----------------------------------------------------------------------------
(* Notices and enforcement.                                                *)

\* Until something fails, an alert that was raised has been handed to the notifier,
\* or a handler has it in its hand.
Noted ==
  faults = 0 => \A id \in AlertIds : raised[id] # {} =>
    id \in notices \/ \E h \in Handlers : job[h].pc = "record" /\ job[h].id = id

\* Handler h still has to react to behavior b of key k.
Brings(h, k, b) ==
  \E i \in 1..Len(job[h].updates) : job[h].updates[i].key = k /\ b \in job[h].updates[i].fresh

\* Some replica's enforcement manager knows behavior b of subject s.
Known(s, b) == \E r \in Replicas : <<s, b>> \in tracked[r]

\* Until something fails, a block-rule behavior that was observed for a row that was
\* never imported is known to a replica, or some handler brings it.
Tracked ==
  faults = 0 => \A k \in Keys : Own(k) => \A b \in learned[k] \cap BlockRule :
    Known(k[1], b) \/ \E h \in Handlers : Brings(h, k, b)

\* Only a crash takes anything away from what replicas know, and nobody takes a
\* notice back.
LEMMA KnownGrows ==
  ASSUME TypeOK, [Next]_vars, \A r \in Replicas : ~Crash(r)
  PROVE  /\ notices \subseteq notices'
         /\ \A s, b : Known(s, b) => Known(s, b)'
<1>1. ASSUME NEW h \in Handlers, NEW s, NEW B, Track(h, s, B)
      PROVE  \A r \in Replicas : tracked[r] \subseteq tracked'[r]
  BY <1>1 DEF Track, TypeOK
<1>2. ASSUME NEW h \in Handlers, Steps(h)
      PROVE  /\ notices \subseteq notices'
             /\ \A r \in Replicas : tracked[r] \subseteq tracked'[r]
  <2>1. CASE React(h) \/ CompareFails(h) \/ RecordAlert(h) \/ ReactDenied(h) \/ FindFails(h)
    BY <1>1, <2>1 DEF React, CompareFails, RecordAlert, ReactDenied, FindFails
  <2>2. CASE ~(React(h) \/ CompareFails(h) \/ RecordAlert(h) \/ ReactDenied(h) \/ FindFails(h))
    BY <1>2, <2>2 DEF Steps, HandlerStep, Deliver, BeginMerge, CommitMerge, BeginUpsert,
       CommitUpsert, RetryUpsert, BlockAlert, Respond, IngestFails, AlertFails
  <2> QED BY <2>1, <2>2
<1>3. Outside => notices' = notices /\ tracked' = tracked
  BY DEF Outside, OperatorStep, SetAlertStatus, AgeAlerts, PruneResolvedAlerts, BeginImport,
     CommitImport, ClientTimeout, vars
<1>4. notices \subseteq notices' /\ \A r \in Replicas : tracked[r] \subseteq tracked'[r]
  BY <1>2, <1>3, WhoSteps
<1> QED BY <1>4 DEF Known

\* An alert that is raised gets into the hand of a handler, and leaves it only for
\* the notifier.
LEMMA NotedStep ==
  ASSUME TypeInv, BookInv, QuietInv, Noted, [Next]_vars
  PROVE  Noted'
<1> SUFFICES ASSUME faults' = 0, NEW id \in AlertIds, raised'[id] # {}
             PROVE  id \in notices' \/ \E h \in Handlers : job'[h].pc = "record" /\ job'[h].id = id
  BY DEF Noted
<1>0. TypeOK /\ job \in [Handlers -> Job]
  BY DEF TypeInv, TypeOK
<1>1. faults = 0 /\ (\A r \in Replicas : ~Crash(r)) /\ notices \subseteq notices'
  BY <1>0, NoFailure, KnownGrows
<1>2. ASSUME NEW h \in Handlers, CommitUpsert(h), raised[id] = {}
      PROVE  job'[h].pc = "record" /\ job'[h].id = id
  <2>1. job[h].id = id
    BY <1>0, <1>2, CommitUpsertRow
  <2> QED BY <1>0, <1>2, <2>1 DEF CommitUpsert, Job
<1>3. CASE raised[id] = {}
  BY <1>2, <1>3, WhoRaises
<1>4. CASE id \in notices
  BY <1>1, <1>4
<1>5. ASSUME NEW h \in Handlers, job[h].pc = "record", job[h].id = id
      PROVE  id \in notices' \/ (job'[h].pc = "record" /\ job'[h].id = id)
  <2>1. CASE RecordAlert(h)
    <3>1. notices' = notices \cup {job[h].id}
      BY <2>1 DEF RecordAlert
    <3> QED BY <1>5, <3>1
  <2>2. CASE ~Steps(h)
    <3>1. job'[h] = job[h]
      BY <1>0, <1>1, <2>2, WaitsQuietly
    <3> QED BY <1>5, <3>1
  <2>3. Steps(h) => RecordAlert(h)
    <3>1. ~\E b \in Batches : Deliver(h, b)
      BY <1>5 DEF Deliver
    <3>2. ~\E k \in Keys : BeginMerge(h, k)
      BY <1>5 DEF BeginMerge
    <3>3. ~CommitMerge(h) /\ ~React(h) /\ ~ReactDenied(h) /\ ~Respond(h)
      BY <1>5 DEF CommitMerge, React, Reacting, ReactDenied, Denying, Respond
    <3>4. ~BeginUpsert(h) /\ ~CommitUpsert(h) /\ ~RetryUpsert(h) /\ ~BlockAlert(h)
      BY <1>5 DEF BeginUpsert, CommitUpsert, RetryUpsert, BlockAlert
    <3>5. ~IngestFails(h) /\ ~CompareFails(h) /\ ~FindFails(h) /\ ~AlertFails(h)
      BY <1>1, <1>0, NoFailure DEF TypeInv
    <3> QED BY <3>1, <3>2, <3>3, <3>4, <3>5 DEF Steps, HandlerStep
  <2> QED BY <2>1, <2>2, <2>3
<1> QED BY <1>1, <1>3, <1>4, <1>5 DEF Noted

\* A behavior that is observed for the first time is fresh, and React makes it known.
LEMMA TrackedStep ==
  ASSUME TypeInv, RowsInv, RowsAreLearned, QuietInv, Tracked, [Next]_vars
  PROVE  Tracked'
<1> SUFFICES ASSUME faults' = 0, NEW k \in Keys, Own(k)',
                    NEW b \in learned'[k] \cap BlockRule
             PROVE  Known(k[1], b)' \/ \E h \in Handlers : Brings(h, k, b)'
  BY DEF Tracked, Known, Brings
<1>0. TypeOK
  BY DEF TypeInv
<1>1. faults = 0 /\ Own(k) /\ \A r \in Replicas : ~Crash(r)
  BY <1>0, NoFailure, OwnRow
<1>2. CASE b \in learned[k]
  <2>1. Known(k[1], b) => Known(k[1], b)'
    BY <1>0, <1>1, KnownGrows
  <2>2. ASSUME NEW h \in Handlers, NEW i \in 1..Len(job[h].updates),
               job[h].updates[i].key = k, b \in job[h].updates[i].fresh
        PROVE  Known(k[1], b)' \/ Brings(h, k, b)'
    <3>1. CASE \E j \in 1..Len(job'[h].updates) : job'[h].updates[j] = job[h].updates[i]
      BY <2>2, <3>1 DEF Brings
    <3>2. CASE React(h) /\ i = 1
      <4>1. Head(job[h].updates) = job[h].updates[i]
        BY <3>2
      <4>2. Track(h, k[1], job[h].updates[i].fresh)
        BY <2>2, <3>2, <4>1 DEF React
      <4>3. ReplicaOf[h] \in Replicas
        BY PipelineAssumption
      <4>4. <<k[1], b>> \in tracked'[ReplicaOf[h]]
        BY <1>0, <2>2, <4>2, <4>3 DEF Track, TypeOK
      <4> QED BY <4>3, <4>4 DEF Known
    <3> QED BY <3>1, <3>2, UpdateStays
  <2> QED BY <1>1, <1>2, <2>1, <2>2 DEF Tracked, Brings
<1>3. ASSUME NEW h \in Handlers, CommitMerge(h), b \notin learned[k]
      PROVE  Brings(h, k, b)'
  <2> DEFINE n == Len(job[h].updates)
             q == job[h].key
             g == job[h].batch.groups[q]
             u == job'[h].updates[n + 1]
  <2>1. /\ q \in Keys /\ Len(job'[h].updates) = n + 1 /\ u.key = q
        /\ u.fresh = Fresh(job[h].read, g)
    BY <1>3, CommitMergeUpdate
  <2>2. q = k /\ b \in g.behaviors
    BY <1>0, <1>3, <2>1 DEF CommitMerge, TypeOK
  <2>3. job[h].read = fps[q]
    BY <1>3, <2>2, OwnRow
  <2>4. b \in u.fresh
    BY <1>1, <1>3, <2>1, <2>2, <2>3 DEF RowsAreLearned, Fresh
  <2>5. n \in Nat
    BY <1>0 DEF TypeOK, Job
  <2>6. n + 1 \in 1..Len(job'[h].updates)
    BY <2>1, <2>5
  <2> HIDE DEF n, q, g
  <2> QED BY <2>1, <2>2, <2>4, <2>6 DEF Brings
<1> QED BY <1>2, <1>3, WhoObserves

\* What NoticedAndTracked says, of the rows that were never imported.
NothingKeptBack ==
  faults = 0 /\ Idle =>
    /\ \A id \in AlertIds : raised[id] # {} => id \in notices
    /\ \A k \in Keys : Own(k) =>
         {k[1]} \X (learned[k] \cap BlockRule) \subseteq UNION {tracked[r] : r \in Replicas}

\* When nothing failed, an idle collector has told the notifier of every alert and its
\* enforcement managers of every block-rule behavior it observed, in the rows no
\* import has written (api.reactToUpdates, recordAlert).  Of what an import brought
\* into a row first, the managers do not hear when it is observed.
THEOREM NothingIsKeptBack == Spec => []NothingKeptBack
<1>1. Init => Noted /\ Tracked
  BY DEF Init, Noted, Tracked
<1>2. TypeInv /\ BookInv /\ RowsInv /\ RowsAreLearned /\ QuietInv /\ Noted /\ Tracked
        /\ [Next]_vars => Noted' /\ Tracked'
  BY NotedStep, TrackedStep
<1>3. QuietInv /\ Noted /\ Tracked => NothingKeptBack
  <2> SUFFICES ASSUME QuietInv, Noted, Tracked, faults = 0, Idle
               PROVE  /\ \A id \in AlertIds : raised[id] # {} => id \in notices
                      /\ \A k \in Keys : Own(k) =>
                           {k[1]} \X (learned[k] \cap BlockRule)
                             \subseteq UNION {tracked[r] : r \in Replicas}
    BY DEF NothingKeptBack
  <2>1. \A h \in Handlers : job[h] = NoJob
    BY DEF Idle, QuietInv, IdleIsEmpty
  <2>2. \A h \in Handlers : job[h].pc # "record" /\ job[h].updates = <<>>
    BY <2>1 DEF NoJob
  <2>3. \A id \in AlertIds : raised[id] # {} => id \in notices
    BY <2>2 DEF Noted
  <2>4. \A h \in Handlers : \A k, b : ~Brings(h, k, b)
    BY <2>2 DEF Brings
  <2>5. \A k \in Keys : Own(k) => \A b \in learned[k] \cap BlockRule : Known(k[1], b)
    BY <2>4 DEF Tracked
  <2> QED BY <2>3, <2>5 DEF Known
<1> QED
  BY <1>1, <1>2, <1>3, TypeInvariant, BookInvariant, RowsInvariant, LearnedInvariant,
     QuietInvariant, PTL DEF Spec

\* While nobody imports, that is every row.
THEOREM NothingUnreported ==
  ASSUME MaxImports = 0
  PROVE  Spec => []NoticedAndTracked
<1>1. RowsInv /\ NothingKeptBack => NoticedAndTracked
  BY DEF RowsInv, NoImportsYet, NothingKeptBack, NoticedAndTracked
<1> QED BY <1>1, RowsInvariant, NothingIsKeptBack, PTL
-----------------------------------------------------------------------------
(* What is new to a subject.                                               *)

\* How drift may be lost although nothing fails: version u shows behavior b, which
\* is new to baseline w, but what u is compared with is another baseline v, which
\* has learned b meanwhile.
Blessed(s, b) ==
  \E u, v, w \in Versions :
    /\ u # v /\ v # w /\ u # w
    /\ b \in fps[<<s, u>>].behaviors
    /\ fps[<<s, v>>].baseline /\ b \in fps[<<s, v>>].behaviors
    /\ fps[<<s, w>>].baseline

\* Update up still has to be compared, and there is a baseline that b is new to.
ToCompare(up, s, b) ==
  /\ up.key[1] = s /\ b \in up.fresh /\ ~IsDrift(up)
  /\ b \in fps[<<s, up.key[2]>>].behaviors
  /\ \E w \in Versions :
       w # up.key[2] /\ fps[<<s, w>>].baseline /\ b \notin fps[<<s, w>>].behaviors

\* Handler h is about to compare behavior b of subject s, or to raise it.
Pending(h, s, b) ==
  \/ \E i \in 1..Len(job[h].updates) : ToCompare(job[h].updates[i], s, b)
  \/ Writing(h) /\ job[h].id[1] = s /\ b \in job[h].alert.behaviors

Answered(s, b) ==
  \/ \E id \in AlertIds : id[1] = s /\ b \in raised[id]
  \/ \E k \in Keys : k[1] = s /\ <<k, b>> \in drift
  \/ Blessed(s, b)
  \/ \E h \in Handlers : Pending(h, s, b)

NovelInv == faults = 0 => \A n \in novel : Answered(n[1], n[2])

\* Without imports rows grow, and what a baseline learns is drift.
LEMMA RowsGrow ==
  ASSUME MaxImports = 0, TypeInv, RowsInv, [Next]_vars, NEW k \in Keys
  PROVE  /\ fps[k].behaviors \subseteq fps'[k].behaviors
         /\ fps[k].baseline => fps'[k].baseline
         /\ \A b \in fps'[k].behaviors :
              fps[k].baseline /\ b \notin fps[k].behaviors => <<k, b>> \in drift'
         /\ fps'[k] = fps[k] \/ \E h \in Handlers : CommitMerge(h) /\ job[h].key = k
<1>1. NoImportRace /\ ~CommitImport
  BY DEF NoImportRace, RowsInv, NoImportsYet, CommitImport
<1>2. CASE fps'[k] = fps[k]
  BY <1>2
<1>3. ASSUME NEW h \in Handlers, CommitMerge(h), job[h].key = k
      PROVE  /\ fps[k].behaviors \subseteq fps'[k].behaviors
             /\ fps[k].baseline => fps'[k].baseline
             /\ \A b \in fps'[k].behaviors :
                  fps[k].baseline /\ b \notin fps[k].behaviors => <<k, b>> \in drift'
  <2> DEFINE g == job[h].batch.groups[k]
  <2>1. g \in Group /\ fps[k] \in Row /\ fps'[k] = Learn(fps[k], g)
    BY <1>1, <1>3, CommitMergeRow
  <2>2. fps'[k].behaviors = fps[k].behaviors \cup g.behaviors
    BY <2>1, LearnFields
  <2>3. fps[k].baseline => fps'[k].baseline
    BY <2>1, LearnFields
  <2>4. drift' = drift \cup (IF fps[k].baseline THEN {k} \X Fresh(fps[k], g) ELSE {})
    BY <1>3 DEF CommitMerge
  <2> QED BY <2>2, <2>3, <2>4 DEF Fresh
<1>4. fps' # fps => \E h \in Handlers : CommitMerge(h)
  BY <1>1, WhoWritesRows
<1>5. fps'[k] = fps[k] \/ \E h \in Handlers : CommitMerge(h) /\ job[h].key = k
  BY <1>4, CommitMergeRow
<1> QED BY <1>2, <1>3, <1>5

\* What is answered stays so, but for the handler whose turn it is.
LEMMA BlessedStays ==
  ASSUME MaxImports = 0, TypeInv, RowsInv, [Next]_vars, NEW s \in Subjects, NEW b, Blessed(s, b)
  PROVE  Blessed(s, b)'
<1>1. \A v \in Versions : /\ fps[<<s, v>>].behaviors \subseteq fps'[<<s, v>>].behaviors
                          /\ fps[<<s, v>>].baseline => fps'[<<s, v>>].baseline
  <2> SUFFICES ASSUME NEW v \in Versions
               PROVE  /\ fps[<<s, v>>].behaviors \subseteq fps'[<<s, v>>].behaviors
                      /\ fps[<<s, v>>].baseline => fps'[<<s, v>>].baseline
    OBVIOUS
  <2>1. <<s, v>> \in Keys
    BY DEF Keys
  <2> QED BY <2>1, RowsGrow
<1> QED BY <1>1 DEF Blessed

\* An update that is to be compared stays so, or the baseline has learned of it.
LEMMA ToCompareStays ==
  ASSUME MaxImports = 0, TypeInv, RowsInv, [Next]_vars, NEW s \in Subjects, NEW b,
         NEW up \in Update, ToCompare(up, s, b)
  PROVE  ToCompare(up, s, b)' \/ \E k \in Keys : k[1] = s /\ <<k, b>> \in drift'
<1>1. PICK w \in Versions : /\ w # up.key[2] /\ fps[<<s, w>>].baseline
                            /\ b \notin fps[<<s, w>>].behaviors
  BY DEF ToCompare
<1>2. <<s, w>> \in Keys /\ <<s, up.key[2]>> \in Keys /\ <<s, w>>[1] = s
  BY DEF Update, Keys
<1>3. fps'[<<s, w>>].baseline /\ b \in fps'[<<s, up.key[2]>>].behaviors
  BY <1>1, <1>2, RowsGrow DEF ToCompare
<1>4. CASE b \in fps'[<<s, w>>].behaviors
  BY <1>1, <1>2, <1>4, RowsGrow
<1>5. CASE b \notin fps'[<<s, w>>].behaviors
  BY <1>1, <1>3, <1>5 DEF ToCompare, IsDrift
<1> QED BY <1>4, <1>5

\* A reaction that compares an update raises what its baseline lacks; if that is
\* not b, the baseline is another one than the one b is new to.
LEMMA ReactCompares ==
  ASSUME TypeInv, NEW h \in Handlers, React(h),
         NEW s \in Subjects, NEW b, ToCompare(Head(job[h].updates), s, b)
  PROVE  \/ Writing(h)' /\ job'[h].id[1] = s /\ b \in job'[h].alert.behaviors
         \/ Blessed(s, b)
<1> DEFINE up == Head(job[h].updates)
           v == up.key[2]
<1>0. job[h] \in Job /\ job \in [Handlers -> Job]
  BY DEF TypeInv, TypeOK
<1>1. up \in Update
  BY <1>0, HeadUpdate DEF React, Reacting, TypeInv
<1>2. up.key[1] = s /\ v \in Versions /\ b \in up.fresh /\ ~IsDrift(up)
  BY <1>1 DEF ToCompare, Update, Keys
<1>3. PICK w \in Versions : w # v /\ fps[<<s, w>>].baseline /\ b \notin fps[<<s, w>>].behaviors
  BY DEF ToCompare
<1>4. b \in fps[<<s, v>>].behaviors
  BY DEF ToCompare
<1>5. VersionDrift(h, up)
  <2>1. ~BaselineDrift(h, up)
    BY <1>2 DEF BaselineDrift, IsDrift
  <2>2. ~FirstSighting(h, up)
    BY <1>2, <1>3 DEF FirstSighting, Baselines
  <2> QED BY <1>2, <2>1, <2>2 DEF React
<1>6. PICK base \in LatestBaselines(s, v) :
        LET new == up.fresh \ fps[<<s, base>>].behaviors IN
        IF new = {} THEN NoAlertFor(h) ELSE Emit(h, <<s, base, v>>, new)
  BY <1>2, <1>5 DEF VersionDrift
<1>7. base \in Versions /\ base # v /\ fps[<<s, base>>].baseline
  BY DEF LatestBaselines, Baselines
<1> HIDE DEF up, v
<1>8. CASE b \in fps[<<s, base>>].behaviors
  <2>1. base # w
    BY <1>3, <1>8
  <2> QED BY <1>2, <1>3, <1>4, <1>7, <1>8, <2>1 DEF Blessed
<1>9. CASE b \notin fps[<<s, base>>].behaviors
  <2> DEFINE new == up.fresh \ fps[<<s, base>>].behaviors
  <2>1. b \in new
    BY <1>2, <1>9
  <2>2. Emit(h, <<s, base, v>>, new)
    BY <1>6, <2>1
  <2> HIDE DEF new
  <2>3. job'[h].pc = "upsert" /\ job'[h].id = <<s, base, v>> /\ job'[h].alert.behaviors = new
    BY <1>0, <2>2 DEF Emit, Job, NewAlert
  <2> QED BY <2>1, <2>3 DEF Writing
<1> QED BY <1>8, <1>9

\* What a handler has pending stays so, is raised, turns out to be drift, or is
\* blessed.
LEMMA PendingMoves ==
  ASSUME MaxImports = 0, TypeInv, BookInv, RowsInv, QuietInv, SettlesInv, [Next]_vars,
         faults' = 0, NEW h \in Handlers, NEW s \in Subjects, NEW b, Pending(h, s, b)
  PROVE  Answered(s, b)'
<1>0. TypeOK /\ job[h] \in Job
  BY DEF TypeInv, TypeOK
<1>1. ASSUME NEW i \in 1..Len(job[h].updates), ToCompare(job[h].updates[i], s, b)
      PROVE  Answered(s, b)'
  <2> DEFINE up == job[h].updates[i]
  <2>1. up \in Update
    BY <1>0 DEF Job
  <2>2. CASE React(h) /\ i = 1
    <3>1. Head(job[h].updates) = up
      BY <2>2
    <3>2. \/ Writing(h)' /\ job'[h].id[1] = s /\ b \in job'[h].alert.behaviors
          \/ Blessed(s, b)
      BY <1>1, <2>2, <3>1, ReactCompares
    <3>3. CASE Blessed(s, b)
      BY <3>3, BlessedStays DEF Answered
    <3> QED BY <3>2, <3>3 DEF Answered, Pending
  <2>3. ASSUME NEW j \in 1..Len(job'[h].updates), job'[h].updates[j] = up
        PROVE  Answered(s, b)'
    <3>1. ToCompare(up, s, b)
      BY <1>1
    <3> DEFINE old == up
    <3> HIDE DEF up
    <3>2. PICK q \in Update : q = up
      BY <2>1
    <3>3. ToCompare(q, s, b)' \/ \E k \in Keys : k[1] = s /\ <<k, b>> \in drift'
      BY <3>1, <3>2, ToCompareStays
    <3>4. job'[h].updates[j] = q
      BY <2>3, <3>2
    <3>5. ToCompare(q, s, b)' => ToCompare(job[h].updates[j], s, b)'
      BY <3>4 DEF ToCompare, IsDrift
    <3> QED BY <3>3, <3>5 DEF Answered, Pending
  <2> QED BY <2>2, <2>3, UpdateStays
<1>2. CASE Writing(h) /\ job[h].id[1] = s /\ b \in job[h].alert.behaviors
  <2>1. job[h].id \in AlertIds
    BY <1>0 DEF Job
  <2>2. \/ Writing(h)' /\ job'[h].id = job[h].id /\ b \in job'[h].alert.behaviors
        \/ b \in raised'[job[h].id]
    BY <1>2, WritingArrives
  <2> QED BY <1>2, <2>1, <2>2 DEF Answered, Pending
<1> QED BY <1>1, <1>2 DEF Pending

\* A merge that stores something new to a subject leaves drift, or an update that is
\* to be compared.
LEMMA NovelIsPending ==
  ASSUME MaxImports = 0, TypeInv, RowsInv, [Next]_vars, NEW h \in Handlers, CommitMerge(h),
         NEW n \in novel', n \notin novel
  PROVE  Answered(n[1], n[2])'
<1> DEFINE k == job[h].key
           g == job[h].batch.groups[k]
           m == Len(job[h].updates)
           up == job'[h].updates[m + 1]
           s == k[1]
           b == n[2]
<1>1. /\ k \in Keys /\ Len(job'[h].updates) = m + 1
      /\ up.key = k /\ (IsDrift(up) <=> job[h].read.baseline)
      /\ up.fresh = Fresh(job[h].read, g)
      /\ drift' = drift \cup (IF fps[k].baseline THEN {k} \X Fresh(fps[k], g) ELSE {})
  BY CommitMergeUpdate
<1>2. HasBaseline(s) /\ n[1] = s /\ b \in Unseen(s, g.behaviors)
  BY DEF CommitMerge
<1>3. k = <<s, k[2]>> /\ k[2] \in Versions
  BY <1>1 DEF Keys
<1>4. b \in g.behaviors /\ \A v \in Versions : b \notin fps[<<s, v>>].behaviors
  BY <1>2 DEF Unseen
<1>5. NoImportRace
  BY DEF NoImportRace
<1>6. /\ g \in Group /\ fps[k] \in Row /\ job[h].read = fps[k] /\ fps'[k] = Learn(fps[k], g)
      /\ \A q \in Keys : q # k => fps'[q] = fps[q]
  BY <1>5, CommitMergeRow
<1>7. b \in Fresh(fps[k], g)
  BY <1>3, <1>4 DEF Fresh
<1>8. CASE fps[k].baseline
  <2>1. <<k, b>> \in drift'
    BY <1>1, <1>7, <1>8
  <2> QED BY <1>1, <1>2, <2>1 DEF Answered
<1>9. CASE ~fps[k].baseline
  <2>1. PICK w \in Versions : fps[<<s, w>>].baseline
    BY <1>2 DEF HasBaseline
  <2>2. w # k[2] /\ <<s, w>> \in Keys /\ <<s, w>> # k
    BY <1>1, <1>3, <1>9, <2>1 DEF Keys
  <2>3. fps'[<<s, w>>].baseline /\ b \notin fps'[<<s, w>>].behaviors
    BY <1>4, <1>6, <2>1, <2>2
  <2>4. b \in fps'[k].behaviors
    BY <1>4, <1>6, LearnFields
  <2>5. up.key[1] = s /\ b \in up.fresh /\ ~IsDrift(up)
    BY <1>1, <1>6, <1>7, <1>9
  <2>6. fps'[<<s, up.key[2]>>] = fps'[k] /\ up.key[2] = k[2]
    BY <1>1, <1>3
  <2>7. m \in Nat
    BY DEF TypeInv, TypeOK, Job
  <2>8. PICK j \in 1..Len(job'[h].updates) : job'[h].updates[j] = up
    <3>1. m + 1 \in 1..Len(job'[h].updates)
      BY <1>1, <2>7
    <3> QED BY <3>1
  <2>9. PICK t \in Subjects : t = s
    BY <1>1 DEF Keys
  <2> HIDE DEF up, s, k, m, g
  <2>10. ToCompare(job[h].updates[j], t, b)'
    <3>1. /\ job'[h].updates[j].key[1] = t /\ b \in job'[h].updates[j].fresh
          /\ ~IsDrift(job'[h].updates[j])
          /\ b \in fps'[<<t, job'[h].updates[j].key[2]>>].behaviors
      BY <2>4, <2>5, <2>6, <2>8, <2>9
    <3>2. /\ w # job'[h].updates[j].key[2] /\ fps'[<<t, w>>].baseline
          /\ b \notin fps'[<<t, w>>].behaviors
      BY <2>2, <2>3, <2>6, <2>8, <2>9
    <3> QED BY <3>1, <3>2 DEF ToCompare, IsDrift
  <2> QED BY <1>2, <2>8, <2>9, <2>10 DEF Answered, Pending
<1> QED BY <1>8, <1>9

\* Nothing new to a subject is lost while nothing fails and nobody imports: it is
\* raised on an alert of the subject, known as drift, blessed, or still on its way
\* (fingerprint.go Ingest, diff.go triggers 1 and 2, store.UpsertAlert).
THEOREM NovelInvariant ==
  ASSUME MaxImports = 0
  PROVE  Spec => []NovelInv
<1>1. Init => NovelInv
  BY DEF Init, NovelInv
<1>2. TypeInv /\ BookInv /\ RowsInv /\ QuietInv /\ SettlesInv /\ NovelInv /\ [Next]_vars => NovelInv'
  <2> SUFFICES ASSUME TypeInv, BookInv, RowsInv, QuietInv, SettlesInv, NovelInv, [Next]_vars,
                      faults' = 0, NEW n \in novel'
               PROVE  Answered(n[1], n[2])'
    BY DEF NovelInv
  <2>0. TypeOK
    BY DEF TypeInv
  <2>1. CASE n \notin novel
    BY <2>1, NovelIsPending, WhoObserves
  <2>2. CASE n \in novel
    <3>1. PICK s \in Subjects : s = n[1]
      BY <2>0, <2>2 DEF TypeOK
    <3>2. PICK b : b = n[2]
      OBVIOUS
    <3>3. faults = 0
      BY <2>0, NoFailure
    <3>4. Answered(s, b)
      BY <2>2, <3>1, <3>2, <3>3 DEF NovelInv
    <3>5. ASSUME NEW id \in AlertIds, id[1] = s, b \in raised[id] PROVE Answered(s, b)'
      <4>1. b \in raised'[id]
        BY <2>0, <3>5, AlertGains
      <4> QED BY <3>5, <4>1 DEF Answered
    <3>6. ASSUME NEW k \in Keys, k[1] = s, <<k, b>> \in drift PROVE Answered(s, b)'
      BY <3>6, DriftGrows DEF Answered
    <3>7. Blessed(s, b) => Answered(s, b)'
      BY BlessedStays DEF Answered
    <3>8. ASSUME NEW h \in Handlers, Pending(h, s, b) PROVE Answered(s, b)'
      BY <3>8, PendingMoves
    <3>9. Answered(s, b)'
      BY <3>4, <3>5, <3>6, <3>7, <3>8 DEF Answered
    <3> QED BY <3>1, <3>2, <3>9 DEF Answered, Pending, Blessed, ToCompare, Writing, IsDrift
  <2> QED BY <2>1, <2>2
<1> QED
  BY <1>1, <1>2, TypeInvariant, BookInvariant, RowsInvariant, QuietInvariant, SettlesInvariant,
     PTL DEF Spec

\* What NovelDriftAlerted says, for any number of versions.
NovelAlertedUnlessBlessed ==
  faults = 0 /\ Idle => \A n \in novel :
    \/ \E id \in AlertIds : id[1] = n[1] /\ n[2] \in raised[id]
    \/ Blessed(n[1], n[2])

\* An idle handler has nothing on its way.
LEMMA IdleHasNothing ==
  ASSUME QuietInv, NEW h \in Handlers, job[h].pc = "idle"
  PROVE  /\ \A s, b : ~Pending(h, s, b)
         /\ \A k, b : ~Carries(h, k, b)
<1>1. job[h] = NoJob
  BY DEF QuietInv, IdleIsEmpty
<1>2. job[h].updates = <<>> /\ job[h].pc = "idle"
  BY <1>1 DEF NoJob
<1>3. ~Writing(h) /\ Len(job[h].updates) = 0
  BY <1>2 DEF Writing
<1>4. 1..Len(job[h].updates) = {}
  BY <1>3
<1> QED BY <1>3, <1>4 DEF Pending, Carries, Writing

\* By the time the collector is idle a behavior that was new to a subject with a
\* baseline is on one of its alerts, unless a second baseline had learned it before
\* the version that brought it was compared (diff.go trigger 1, store.LatestBaseline).
THEOREM NovelAlertedOrBlessed ==
  ASSUME MaxImports = 0
  PROVE  Spec => []NovelAlertedUnlessBlessed
<1>1. TypeInv /\ QuietInv /\ NovelInv /\ DriftAlerted => NovelAlertedUnlessBlessed
  <2> SUFFICES ASSUME TypeInv, QuietInv, NovelInv, DriftAlerted, faults = 0, Idle, NEW n \in novel
               PROVE  \/ \E id \in AlertIds : id[1] = n[1] /\ n[2] \in raised[id]
                      \/ Blessed(n[1], n[2])
    BY DEF NovelAlertedUnlessBlessed
  <2>1. \A h \in Handlers : job[h].pc = "idle"
    BY DEF Idle
  <2>2. Answered(n[1], n[2])
    BY DEF NovelInv
  <2>3. \A h \in Handlers : ~Pending(h, n[1], n[2])
    BY <2>1, IdleHasNothing
  <2>4. ASSUME NEW k \in Keys, k[1] = n[1], <<k, n[2]>> \in drift
        PROVE  \E id \in AlertIds : id[1] = n[1] /\ n[2] \in raised[id]
    <3>1. n[2] \in raised[DriftId(k)] \/ \E h \in Handlers : Carries(h, k, n[2])
      BY <2>4 DEF DriftAlerted, NoRaceFor, NoImportRace
    <3>2. n[2] \in raised[DriftId(k)]
      BY <2>1, <3>1, IdleHasNothing
    <3>3. DriftId(k) \in AlertIds /\ DriftId(k)[1] = n[1]
      BY <2>4 DEF DriftId, AlertIds, Keys
    <3> QED BY <3>2, <3>3
  <2> QED BY <2>2, <2>3, <2>4 DEF Answered
<1> QED
  BY <1>1, TypeInvariant, QuietInvariant, NovelInvariant, DriftAlertedInvariant, PTL

\* Key k is in a batch; only such a key gets a row of this cluster's own.
Observed(k) == \E b \in Batches : k \in DOMAIN b.groups
RowsAreObserved == \A k \in Keys : fps[k] = NoRow \/ Observed(k)

\* Of every subject the batches show two versions at most.
TwoVersions ==
  \A s \in Subjects : \A u, v, w \in Versions :
    Observed(<<s, u>>) /\ Observed(<<s, v>>) /\ Observed(<<s, w>>) => u = v \/ v = w \/ u = w

\* No row without an event or an import (fingerprint.go Ingest).
LEMMA RowsObservedStep ==
  ASSUME MaxImports = 0, TypeInv, RowsInv, RowsAreObserved, [Next]_vars
  PROVE  RowsAreObserved'
<1> SUFFICES ASSUME NEW k \in Keys PROVE fps'[k] = NoRow \/ Observed(k)
  BY DEF RowsAreObserved, Observed
<1>1. CASE fps'[k] = fps[k]
  BY <1>1 DEF RowsAreObserved
<1>2. ASSUME NEW h \in Handlers, CommitMerge(h), job[h].key = k PROVE Observed(k)
  <2>1. k \in DOMAIN job[h].batch.groups
    BY <1>2 DEF CommitMerge, TypeInv, MergesItsBatch
  <2>2. job[h].batch \in Batches
    BY <1>2, <2>1 DEF TypeInv, TypeOK, Job, NoBatch
  <2> QED BY <2>1, <2>2 DEF Observed
<1> QED BY <1>1, <1>2, RowsGrow

\* While at most one new version of a subject runs beside its baseline, every
\* behavior new to it ends up on an alert: "Promotion must not silently bless drift
\* that arrived in the same batch" (diff.go triggers 1 and 2).  With three versions
\* a batch can do that: find_same_batch_blessing.
THEOREM NovelIsAlerted ==
  ASSUME MaxImports = 0, TwoVersions
  PROVE  Spec => []NovelDriftAlerted
<1>1. Init => RowsAreObserved
  BY DEF Init, RowsAreObserved
<1>2. TypeInv /\ RowsInv /\ RowsAreObserved /\ [Next]_vars => RowsAreObserved'
  BY RowsObservedStep
<1>3. TypeInv /\ RowsAreObserved /\ NovelAlertedUnlessBlessed => NovelDriftAlerted
  <2> SUFFICES ASSUME TypeInv, RowsAreObserved, NovelAlertedUnlessBlessed, faults = 0, Idle,
                      NEW n \in novel
               PROVE  \E id \in AlertIds : id[1] = n[1] /\ n[2] \in raised[id]
    BY DEF NovelDriftAlerted
  <2>1. PICK s \in Subjects : s = n[1]
    BY DEF TypeInv, TypeOK
  <2>2. ~Blessed(s, n[2])
    <3> SUFFICES ASSUME NEW u \in Versions, NEW v \in Versions, NEW w \in Versions,
                        u # v, v # w, u # w, n[2] \in fps[<<s, u>>].behaviors,
                        fps[<<s, v>>].baseline, fps[<<s, w>>].baseline
                 PROVE  FALSE
      BY DEF Blessed
    <3>1. <<s, u>> \in Keys /\ <<s, v>> \in Keys /\ <<s, w>> \in Keys
      BY DEF Keys
    <3>2. fps[<<s, u>>] # NoRow /\ fps[<<s, v>>] # NoRow /\ fps[<<s, w>>] # NoRow
      BY DEF NoRow
    <3>3. Observed(<<s, u>>) /\ Observed(<<s, v>>) /\ Observed(<<s, w>>)
      BY <3>1, <3>2 DEF RowsAreObserved
    <3> QED BY <3>3 DEF TwoVersions
  <2> QED BY <2>1, <2>2 DEF NovelAlertedUnlessBlessed
<1> QED
  BY <1>1, <1>2, <1>3, TypeInvariant, RowsInvariant, NovelAlertedOrBlessed, PTL DEF Spec
=============================================================================
