--------------------------- MODULE DriftPipeline ----------------------------
(***************************************************************************)
(* The collector's core: event batches become fingerprints, fresh behavior *)
(* becomes drift, drift becomes alerts.                                    *)
(*                                                                         *)
(* Every POST /v1/events runs in a goroutine of its own (a handler) on one *)
(* of the collector replicas.  It merges the groups of its batch into the  *)
(* fingerprint table one transaction at a time (fingerprint.Engine.Ingest),*)
(* then reacts to the updates in the same order (diff.Engine.React), then  *)
(* to the kernel denies of the batch (ReactDenied).  Handlers interleave   *)
(* at every database statement, with each other, with an operator who      *)
(* imports baselines or moves alerts along, and with the retention loop.   *)
(* Statements fail, sensors give up waiting and deliver again, and         *)
(* replicas crash.                                                         *)
(***************************************************************************)
EXTENDS Fingerprints, Alerts, Sequences

CONSTANTS
  Batches,    \* the batches sensors deliver
  Imports,    \* the fingerprints of the export files operators import
  Handlers,   \* request goroutines
  Replicas,   \* collector processes
  ReplicaOf,  \* the replica a handler runs on
  Dialect,    \* "postgres" or "sqlite"
  FaultKinds, \* the failures of a run, out of "store", "timeout", "crash"
  MaxFaults,  \* bound on their number
  MaxImports  \* bound on imported fingerprints

\* A batch: the group of events for each key it touches, and the kernel
\* denies it carries, in order.
IsBatch(b) ==
  /\ DOMAIN b.groups \subseteq Keys
  /\ \A k \in DOMAIN b.groups : b.groups[k] \in Group
  /\ b.denied \in Seq(Subjects \X Behaviors)

Import == [key : Keys, row : Row]

ASSUME PipelineAssumption ==
  /\ Subjects # {} /\ Versions # {}
  /\ \A b \in Batches : IsBatch(b)
  /\ Imports \subseteq Import
  /\ ReplicaOf \in [Handlers -> Replicas]
  /\ Dialect \in {"postgres", "sqlite"}
  /\ Dialect = "sqlite" => \A r, q \in Replicas : r = q
  /\ MaxFaults \in Nat
  /\ MaxImports \in Nat

VARIABLES
  fps,      \* table fingerprints
  alerts,   \* table alerts
  outbox,   \* batches no sensor has seen acknowledged
  waits,    \* handlers whose client still waits for the answer
  job,      \* what each handler has in its memory
  tracked,  \* per replica, enforce.Manager.behaviors: block-rule behaviors seen
  notices,  \* alerts handed to the notifier
  imp,      \* the operator's import request
  faults,   \* failures so far
  \* history, read by the properties only
  learned,  \* behaviors each row was ever given by an event
  drift,    \* behaviors that were new to a baseline when stored
  novel,    \* behaviors new to a subject that had a baseline when stored
  raised    \* behaviors ever stored in each alert

history == <<learned, drift, novel, raised>>
vars == <<fps, alerts, outbox, waits, job, tracked, notices, imp, faults, history>>

-----------------------------------------------------------------------------
\* UpsertAlert tries four times in its loop and once after it.
MaxAttempts == 5

Update == [key : Keys, fresh : SUBSET Behaviors, baseline : BOOLEAN, promoted : BOOLEAN]

(***************************************************************************)
(* A handler is "idle", in the loops of processEvents ("work"), inside     *)
(* MergeFingerprint's transaction ("mergeTx"), before or inside            *)
(* UpsertAlert's ("upsert", "upsertTx"), before SetAlertBlocked ("deny"),  *)
(* or has an alert back that it must record ("record").                    *)
(***************************************************************************)
PCs == {"idle", "work", "mergeTx", "upsert", "upsertTx", "deny", "record"}

NoBatch == [groups |-> <<>>, denied |-> <<>>]

Job == [pc : PCs,
        batch : Batches \cup {NoBatch},
        todo : SUBSET Keys,            \* groups it has not merged yet
        key : Keys, read : Row,        \* the row its transaction has read
        updates : Seq(Update),         \* updates it has not reacted to yet
        denials : Seq(Subjects \X Behaviors),  \* denies it has not reacted to
        id : AlertIds, alert : Alert,  \* the alert it is raising or marking
        holds : BOOLEAN,               \* its transaction locked that alert
        attempts : 0..MaxAttempts]     \* transactions tried for it

NoKey == CHOOSE k \in Keys : TRUE
NoId  == CHOOSE id \in AlertIds : TRUE

NoJob == [pc |-> "idle", batch |-> NoBatch, todo |-> {}, key |-> NoKey, read |-> NoRow,
          updates |-> <<>>, denials |-> <<>>, id |-> NoId, alert |-> NoAlert,
          holds |-> FALSE, attempts |-> 0]

Outcomes == {"none", "imported", "replaced", "skipped_local", "ignored_non_baseline"}

NoImport == [pc |-> "idle", entry |-> [key |-> NoKey, row |-> NoRow],
             outcome |-> "none", kept |-> TRUE, count |-> 0]

Init ==
  /\ fps = [k \in Keys |-> NoRow]
  /\ alerts = [id \in AlertIds |-> NoAlert]
  /\ outbox = Batches
  /\ waits = {}
  /\ job = [h \in Handlers |-> NoJob]
  /\ tracked = [r \in Replicas |-> {}]
  /\ notices = {}
  /\ imp = NoImport
  /\ faults = 0
  /\ learned = [k \in Keys |-> {}]
  /\ drift = {}
  /\ novel = {}
  /\ raised = [id \in AlertIds |-> {}]

-----------------------------------------------------------------------------
(* The database as one statement sees it.                                  *)

\* SQLite has one connection: while a transaction is open nobody else runs a
\* statement.  With PostgreSQL everybody gets a connection.
NoTransactionOf(H) ==
  Dialect = "sqlite" => \A g \in H : job[g].pc \notin {"mergeTx", "upsertTx"}

Connected(h) == NoTransactionOf(Handlers \ {h})

\* Mutant: no lock on the key.
KeyUnlocked(k) == FALSE

\* pg_advisory_xact_lock on the key of a fingerprint.
KeyLocked(k) == \E g \in Handlers : job[g].pc = "mergeTx" /\ job[g].key = k

\* SELECT ... FOR UPDATE on a row of fingerprints that exists.
RowLocked(k) ==
  \E g \in Handlers : job[g].pc = "mergeTx" /\ job[g].key = k /\ job[g].read.origin # "none"

\* Mutant: the alert is read without FOR UPDATE.
AlertUnlocked(id) == FALSE

\* SELECT ... FOR UPDATE on a row of alerts that exists.
AlertLocked(id) == \E g \in Handlers : job[g].pc = "upsertTx" /\ job[g].holds /\ job[g].id = id

HasBaseline(s) == \E v \in Versions : fps[<<s, v>>].baseline

\* Mutant: a version is compared with itself.
BaselinesOfAny(s, v) == {w \in Versions : fps[<<s, w>>].baseline}

\* LatestBaseline: is_baseline, another version, ORDER BY last_seen DESC.
Baselines(s, v) == {w \in Versions \ {v} : fps[<<s, w>>].baseline}
LatestBaselines(s, v) ==
  {w \in Baselines(s, v) :
     \A x \in Baselines(s, v) : fps[<<s, x>>].last <= fps[<<s, w>>].last}

\* The handlers of set H end; what they held in memory is gone.
Ended(H) == job' = [h \in Handlers |-> IF h \in H THEN NoJob ELSE job[h]]

-----------------------------------------------------------------------------
(* Delivery.  A sensor delivers a batch until an answer of 200 reaches it, *)
(* and does not deliver it again while it still waits for one.             *)

Deliver(h, b) ==
  /\ job[h].pc = "idle"
  /\ b \in outbox
  /\ \A g \in waits : job[g].batch # b
  /\ waits' = waits \cup {h}
  /\ job' = [job EXCEPT ![h] = [NoJob EXCEPT !.pc = "work", !.batch = b,
                                !.todo = DOMAIN b.groups, !.denials = b.denied]]
  /\ UNCHANGED <<fps, alerts, outbox, tracked, notices, imp, faults, history>>

\* 200: the client, if it still listens, forgets the batch.
Respond(h) ==
  /\ job[h].pc = "work"
  /\ job[h].todo = {} /\ job[h].updates = <<>> /\ job[h].denials = <<>>
  /\ outbox' = IF h \in waits THEN outbox \ {job[h].batch} ELSE outbox
  /\ waits' = waits \ {h}
  /\ Ended({h})
  /\ UNCHANGED <<fps, alerts, tracked, notices, imp, faults, history>>

-----------------------------------------------------------------------------
(* fingerprint.Engine.Ingest: one MergeFingerprint transaction per group,  *)
(* in any order (it ranges over a Go map).                                 *)

BeginMerge(h, k) ==
  /\ job[h].pc = "work"
  /\ k \in job[h].todo
  /\ Connected(h)
  /\ ~KeyLocked(k)
  /\ job' = [job EXCEPT ![h].pc = "mergeTx", ![h].key = k, ![h].read = fps[k]]
  /\ UNCHANGED <<fps, alerts, outbox, waits, tracked, notices, imp, faults, history>>

\* The row writeFingerprint leaves: on conflict the origin stays what it is.
Written(k, row) ==
  [row EXCEPT !.origin = IF fps[k].origin = "none" THEN row.origin ELSE fps[k].origin]

\* The behaviors of B that no version of subject s has shown so far.
Unseen(s, B) == {b \in B : \A v \in Versions : b \notin fps[<<s, v>>].behaviors}

CommitMerge(h) ==
  LET k == job[h].key
      g == job[h].batch.groups[k]
      row == Learn(job[h].read, g)
      update == [key |-> k, fresh |-> Fresh(job[h].read, g), baseline |-> row.baseline,
                 promoted |-> JustPromoted(job[h].read, g)]
  IN
  /\ job[h].pc = "mergeTx"
  /\ fps' = [fps EXCEPT ![k] = Written(k, row)]
  /\ job' = [job EXCEPT ![h].pc = "work", ![h].todo = @ \ {k},
                        ![h].read = NoRow, ![h].key = NoKey,
                        ![h].updates = Append(@, update)]
  /\ learned' = [learned EXCEPT ![k] = @ \cup g.behaviors]
  /\ drift' = drift \cup (IF fps[k].baseline THEN {k} \X Fresh(fps[k], g) ELSE {})
  /\ novel' = novel \cup
       (IF HasBaseline(k[1]) THEN {k[1]} \X Unseen(k[1], g.behaviors) ELSE {})
  /\ UNCHANGED <<alerts, outbox, waits, tracked, notices, imp, faults, raised>>

-----------------------------------------------------------------------------
(* diff.Engine.React on the first update that is left, once every group is *)
(* merged.                                                                 *)

\* recordBlockBehavior for each behavior of B.
Track(h, s, B) ==
  tracked' = [tracked EXCEPT ![ReplicaOf[h]] = @ \cup ({s} \X (B \cap BlockRule))]

Reacting(h) == job[h].pc = "work" /\ job[h].todo = {} /\ job[h].updates # <<>>

NoAlertFor(h) == job' = [job EXCEPT ![h].updates = Tail(@)]

\* emit up to its UpsertAlert call.
Emit(h, id, B) ==
  job' = [job EXCEPT ![h].updates = Tail(@), ![h].pc = "upsert", ![h].id = id,
                     ![h].alert = NewAlert(B), ![h].attempts = 1]

\* Trigger 2: a version that was a baseline before shows something new.
BaselineDrift(h, u) ==
  /\ u.baseline /\ ~u.promoted
  /\ Emit(h, <<u.key[1], u.key[2], u.key[2]>>, u.fresh)

\* Triggers 1 and 0 read the database.
Compares(h, u) == (u.baseline => u.promoted) /\ Connected(h)

\* Trigger 1: against the latest baseline of another version.
VersionDrift(h, u) ==
  /\ Compares(h, u)
  /\ \E base \in LatestBaselines(u.key[1], u.key[2]) :
       LET new == u.fresh \ fps[<<u.key[1], base>>].behaviors IN
       IF new = {} THEN NoAlertFor(h) ELSE Emit(h, <<u.key[1], base, u.key[2]>>, new)

\* Trigger 0: with no baseline to compare with only always-on rules count.
FirstSighting(h, u) ==
  /\ Compares(h, u)
  /\ Baselines(u.key[1], u.key[2]) = {}
  /\ LET hot == u.fresh \cap AlwaysOn IN
     IF hot = {} THEN NoAlertFor(h) ELSE Emit(h, <<u.key[1], NoVersion, u.key[2]>>, hot)

React(h) ==
  LET u == Head(job[h].updates) IN
  /\ Reacting(h)
  /\ Track(h, u.key[1], u.fresh)
  /\ IF u.fresh = {} THEN NoAlertFor(h)
     ELSE BaselineDrift(h, u) \/ VersionDrift(h, u) \/ FirstSighting(h, u)
  /\ UNCHANGED <<fps, alerts, outbox, waits, notices, imp, faults, history>>

-----------------------------------------------------------------------------
(* store.UpsertAlert: read the row under lock, then update or insert it.   *)
(* FOR UPDATE locks nothing while there is no row, so two handlers may     *)
(* both decide to insert; the loser of that race tries again.              *)

\* Mutant: the row is not read before the insert.
BeginUpsertBlind(h) ==
  /\ job[h].pc = "upsert"
  /\ Connected(h)
  /\ job' = [job EXCEPT ![h].pc = "upsertTx"]
  /\ UNCHANGED <<fps, alerts, outbox, waits, tracked, notices, imp, faults, history>>

BeginUpsert(h) ==
  LET row == alerts[job[h].id] IN
  /\ job[h].pc = "upsert"
  /\ Connected(h)
  /\ ~AlertLocked(job[h].id)
  /\ job' = [job EXCEPT ![h].pc = "upsertTx", ![h].holds = Exists(row),
               ![h].alert = IF Exists(row) THEN MergeIntoAlert(row, @) ELSE @]
  /\ UNCHANGED <<fps, alerts, outbox, waits, tracked, notices, imp, faults, history>>

\* updateAlertRow on the locked row, or insertAlertRow where there is none.
CommitUpsert(h) ==
  LET id == job[h].id IN
  /\ job[h].pc = "upsertTx"
  /\ job[h].holds \/ ~Exists(alerts[id])
  /\ alerts' = [alerts EXCEPT ![id] = job[h].alert]
  /\ raised' = [raised EXCEPT ![id] = @ \cup job[h].alert.behaviors]
  /\ job' = [job EXCEPT ![h].pc = "record", ![h].holds = FALSE, ![h].attempts = 0]
  /\ UNCHANGED <<fps, outbox, waits, tracked, notices, imp, faults, learned, drift, novel>>

\* A unique violation.  After the last attempt the alert is dropped, and
\* UpsertAlert returns as if it were stored.
RetryUpsert(h) ==
  LET lost == job[h].attempts = MaxAttempts IN
  /\ job[h].pc = "upsertTx"
  /\ ~job[h].holds
  /\ Exists(alerts[job[h].id])
  /\ job' = [job EXCEPT ![h].pc = IF lost THEN "record" ELSE "upsert",
                        ![h].attempts = IF lost THEN 0 ELSE @ + 1]
  /\ UNCHANGED <<fps, alerts, outbox, waits, tracked, notices, imp, faults, history>>

\* Mutant: only critical alerts reach the notifier.
RecordCritical(h) ==
  /\ job[h].pc = "record"
  /\ Track(h, job[h].id[1], job[h].alert.behaviors)
  /\ notices' = IF job[h].alert.critical THEN notices \cup {job[h].id} ELSE notices
  /\ job' = [job EXCEPT ![h].pc = "work", ![h].id = NoId, ![h].alert = NoAlert]
  /\ UNCHANGED <<fps, alerts, outbox, waits, imp, faults, history>>

\* The alert is back: reactToUpdates records its behaviors for enforcement,
\* both loops hand it to the notifier (recordAlert).
RecordAlert(h) ==
  /\ job[h].pc = "record"
  /\ Track(h, job[h].id[1], job[h].alert.behaviors)
  /\ notices' = notices \cup {job[h].id}
  /\ job' = [job EXCEPT ![h].pc = "work", ![h].id = NoId, ![h].alert = NoAlert]
  /\ UNCHANGED <<fps, alerts, outbox, waits, imp, faults, history>>

-----------------------------------------------------------------------------
(* diff.Engine.ReactDenied, one kernel deny at a time, after the updates.  *)

Denying(h) ==
  /\ job[h].pc = "work" /\ job[h].todo = {} /\ job[h].updates = <<>>
  /\ job[h].denials # <<>>

\* Mutant: any alert of the subject will do.
UnblockedOfSubject(s, b) ==
  {id \in AlertIds : id[1] = s /\ Exists(alerts[id]) /\ ~alerts[id].blocked}

\* FindUnblockedAlertByBehavior: newest first, so an alert from before the
\* retention cutoff only when there is no other.
Unblocked(s, b) ==
  LET found == {id \in AlertIds : /\ id[1] = s
                                  /\ Exists(alerts[id]) /\ ~alerts[id].blocked
                                  /\ b \in alerts[id].behaviors}
      recent == {id \in found : ~alerts[id].aged}
  IN  IF recent # {} THEN recent ELSE found

\* Mutant: a deny waits until there is an alert to upgrade.
ReactDeniedWaits(h) ==
  LET s == Head(job[h].denials)[1]
      b == Head(job[h].denials)[2]
  IN
  /\ Denying(h)
  /\ Connected(h)
  /\ Track(h, s, {b})
  /\ \E id \in Unblocked(s, b) :
       job' = [job EXCEPT ![h].denials = Tail(@), ![h].pc = "deny", ![h].id = id]
  /\ UNCHANGED <<fps, alerts, outbox, waits, notices, imp, faults, history>>

\* The alert found carries no behavior to record once it is marked.
ReactDenied(h) ==
  LET s == Head(job[h].denials)[1]
      b == Head(job[h].denials)[2]
  IN
  /\ Denying(h)
  /\ Connected(h)
  /\ Track(h, s, {b})
  /\ IF Unblocked(s, b) = {}
     THEN job' = [job EXCEPT ![h].denials = Tail(@)]
     ELSE \E id \in Unblocked(s, b) :
            job' = [job EXCEPT ![h].denials = Tail(@), ![h].pc = "deny", ![h].id = id]
  /\ UNCHANGED <<fps, alerts, outbox, waits, notices, imp, faults, history>>

\* SetAlertBlocked updates the row if there still is one.
BlockAlert(h) ==
  LET id == job[h].id IN
  /\ job[h].pc = "deny"
  /\ Connected(h)
  /\ ~AlertLocked(id)
  /\ alerts' = IF Exists(alerts[id]) THEN [alerts EXCEPT ![id].blocked = TRUE] ELSE alerts
  /\ job' = [job EXCEPT ![h].pc = "record"]
  /\ UNCHANGED <<fps, outbox, waits, tracked, notices, imp, faults, history>>

-----------------------------------------------------------------------------
(* Failures.  A statement fails because the database does, or because the  *)
(* client is gone and its request context with it.                         *)

Fault(kind) == kind \in FaultKinds /\ faults < MaxFaults /\ faults' = faults + 1

StatementFails(h) == IF h \in waits THEN Fault("store") ELSE UNCHANGED faults

\* Mutant: the error is only logged, the answer is 200.
IngestFailsQuietly(h) ==
  /\ job[h].pc \in {"work", "mergeTx"}
  /\ job[h].todo # {}
  /\ StatementFails(h)
  /\ outbox' = IF h \in waits THEN outbox \ {job[h].batch} ELSE outbox
  /\ Ended({h})
  /\ waits' = waits \ {h}
  /\ UNCHANGED <<fps, alerts, tracked, notices, imp, history>>

\* Ingest returns the error: 500, no update of the batch is reacted to, the
\* groups that were committed stay.
IngestFails(h) ==
  /\ job[h].pc \in {"work", "mergeTx"}
  /\ job[h].todo # {}
  /\ StatementFails(h)
  /\ Ended({h})
  /\ waits' = waits \ {h}
  /\ UNCHANGED <<fps, alerts, outbox, tracked, notices, imp, history>>

\* reactToUpdates logs the error of LatestBaseline and goes on.
CompareFails(h) ==
  LET u == Head(job[h].updates) IN
  /\ Reacting(h)
  /\ u.fresh # {} /\ (u.baseline => u.promoted)
  /\ StatementFails(h)
  /\ Track(h, u.key[1], u.fresh)
  /\ NoAlertFor(h)
  /\ UNCHANGED <<fps, alerts, outbox, waits, notices, imp, history>>

\* reactToDenied logs the error of FindUnblockedAlertByBehavior and goes on.
FindFails(h) ==
  /\ Denying(h)
  /\ StatementFails(h)
  /\ Track(h, Head(job[h].denials)[1], {Head(job[h].denials)[2]})
  /\ job' = [job EXCEPT ![h].denials = Tail(@)]
  /\ UNCHANGED <<fps, alerts, outbox, waits, notices, imp, history>>

\* Either loop logs the error of writing an alert and goes on.
AlertFails(h) ==
  /\ job[h].pc \in {"upsert", "upsertTx", "deny"}
  /\ StatementFails(h)
  /\ job' = [job EXCEPT ![h].pc = "work", ![h].id = NoId, ![h].alert = NoAlert,
                        ![h].holds = FALSE, ![h].attempts = 0]
  /\ UNCHANGED <<fps, alerts, outbox, waits, tracked, notices, imp, history>>

\* The sensor's HTTP client gives up after its ten seconds.
ClientTimeout(h) ==
  /\ h \in waits
  /\ Fault("timeout")
  /\ waits' = waits \ {h}
  /\ UNCHANGED <<fps, alerts, outbox, job, tracked, notices, imp, history>>

\* A replica dies: its open transactions roll back, its memory is gone.
Crash(r) ==
  LET H == {h \in Handlers : ReplicaOf[h] = r} IN
  /\ Fault("crash")
  /\ Ended(H)
  /\ waits' = waits \ H
  /\ tracked' = [tracked EXCEPT ![r] = {}]
  /\ UNCHANGED <<fps, alerts, outbox, notices, imp, history>>

-----------------------------------------------------------------------------
(* Operators and the retention loop.                                       *)

SetAlertStatus(id, status) ==
  /\ NoTransactionOf(Handlers)
  /\ Exists(alerts[id]) /\ ~AlertLocked(id)
  /\ alerts' = [alerts EXCEPT ![id].status = status]
  /\ UNCHANGED <<fps, outbox, waits, job, tracked, notices, imp, faults, history>>

\* The retention passes.  Requests end within a minute, the retention is days.
AgeAlerts ==
  /\ \A h \in Handlers : job[h].pc = "idle"
  /\ alerts' = [id \in AlertIds |-> [alerts[id] EXCEPT !.aged = Exists(alerts[id])]]
  /\ UNCHANGED <<fps, outbox, waits, job, tracked, notices, imp, faults, history>>

PruneResolvedAlerts ==
  /\ NoTransactionOf(Handlers)
  /\ \A id \in AlertIds : Prunable(alerts[id]) => ~AlertLocked(id)
  /\ alerts' = [id \in AlertIds |-> IF Prunable(alerts[id]) THEN NoAlert ELSE alerts[id]]
  /\ UNCHANGED <<fps, outbox, waits, job, tracked, notices, imp, faults, history>>

\* What ImportFingerprint reports follows from the row GetFingerprint saw.
Outcome(e, seen) ==
  IF ~e.row.baseline THEN "ignored_non_baseline"
  ELSE IF seen.origin = "local" THEN "skipped_local"
  ELSE IF seen.origin = "imported" THEN "replaced"
  ELSE "imported"

\* Its first statement, and its last unless there is something to write.
BeginImport(e) ==
  LET outcome == Outcome(e, fps[e.key]) IN
  /\ imp.pc = "idle" /\ imp.count < MaxImports
  /\ e.row.baseline => NoTransactionOf(Handlers)
  /\ imp' = [pc |-> IF outcome \in {"imported", "replaced"} THEN "write" ELSE "idle",
             entry |-> e, outcome |-> outcome, kept |-> TRUE, count |-> imp.count + 1]
  /\ UNCHANGED <<fps, alerts, outbox, waits, job, tracked, notices, faults, history>>

\* Mutant: the conflict clause has no WHERE.
CommitImportAnyway ==
  /\ imp.pc = "write"
  /\ NoTransactionOf(Handlers)
  /\ ~RowLocked(imp.entry.key)
  /\ fps' = [fps EXCEPT ![imp.entry.key] =
               [imp.entry.row EXCEPT !.baseline = TRUE, !.origin = "imported"]]
  /\ imp' = [imp EXCEPT !.pc = "idle", !.kept = FALSE]
  /\ UNCHANGED <<alerts, outbox, waits, job, tracked, notices, faults, history>>

\* Mutant: an imported row has to qualify again.
CommitImportLearning ==
  LET k == imp.entry.key
      stays == fps[k].origin = "local"
  IN
  /\ imp.pc = "write"
  /\ NoTransactionOf(Handlers)
  /\ ~RowLocked(k)
  /\ fps' = IF stays THEN fps ELSE
       [fps EXCEPT ![k] = [imp.entry.row EXCEPT !.baseline = FALSE, !.origin = "imported"]]
  /\ imp' = [imp EXCEPT !.pc = "idle", !.kept = stays]
  /\ UNCHANGED <<alerts, outbox, waits, job, tracked, notices, faults, history>>

\* Its second statement inserts the file's row or replaces an imported one;
\* the WHERE clause leaves a local row alone.
CommitImport ==
  LET k == imp.entry.key
      stays == fps[k].origin = "local"
      row == [imp.entry.row EXCEPT !.baseline = TRUE, !.origin = "imported"]
  IN
  /\ imp.pc = "write"
  /\ NoTransactionOf(Handlers)
  /\ ~RowLocked(k)
  /\ fps' = IF stays THEN fps ELSE [fps EXCEPT ![k] = row]
  /\ imp' = [imp EXCEPT !.pc = "idle", !.kept = stays]
  /\ UNCHANGED <<alerts, outbox, waits, job, tracked, notices, faults, history>>

-----------------------------------------------------------------------------
HandlerStep(h) ==
  \/ \E k \in Keys : BeginMerge(h, k)
  \/ CommitMerge(h)
  \/ React(h)
  \/ BeginUpsert(h) \/ CommitUpsert(h) \/ RetryUpsert(h)
  \/ RecordAlert(h)
  \/ ReactDenied(h) \/ BlockAlert(h)
  \/ Respond(h)

Failure ==
  \/ \E h \in Handlers : \/ IngestFails(h) \/ CompareFails(h) \/ FindFails(h)
                         \/ AlertFails(h) \/ ClientTimeout(h)
  \/ \E r \in Replicas : Crash(r)

OperatorStep ==
  \/ \E id \in AlertIds, status \in {"acknowledged", "resolved"} : SetAlertStatus(id, status)
  \/ AgeAlerts \/ PruneResolvedAlerts
  \/ \E e \in Imports : BeginImport(e)
  \/ CommitImport

Next ==
  \/ \E h \in Handlers, b \in Batches : Deliver(h, b)
  \/ \E h \in Handlers : HandlerStep(h)
  \/ Failure
  \/ OperatorStep

Spec == Init /\ [][Next]_vars

\* A goroutine that can run does; a sensor delivers again every interval.
FairSpec ==
  /\ Spec
  /\ \A h \in Handlers : WF_vars(HandlerStep(h))
  /\ \A b \in Batches : WF_vars(\E h \in Handlers : Deliver(h, b))

TypeOK ==
  /\ fps \in [Keys -> Row]
  /\ alerts \in [AlertIds -> Alert]
  /\ outbox \subseteq Batches
  /\ waits \subseteq Handlers
  /\ job \in [Handlers -> Job]
  /\ tracked \in [Replicas -> SUBSET (Subjects \X Behaviors)]
  /\ notices \subseteq AlertIds
  /\ imp \in [pc : {"idle", "write"}, entry : Import, outcome : Outcomes,
              kept : BOOLEAN, count : 0..MaxImports]
  /\ faults \in 0..MaxFaults
  /\ learned \in [Keys -> SUBSET Behaviors]
  /\ drift \subseteq Keys \X Behaviors
  /\ novel \subseteq Subjects \X Behaviors
  /\ raised \in [AlertIds -> SUBSET Behaviors]
=============================================================================
