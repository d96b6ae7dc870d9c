-------------------------- MODULE DriftProperties ---------------------------
(* What the drift pipeline must do, over the states of DriftPipeline.       *)
EXTENDS DriftPipeline, FiniteSetsExt

Idle == \A h \in Handlers : job[h].pc = "idle"

\* The alert for drift on a version that is a baseline itself.
DriftId(k) == <<k[1], k[2], k[2]>>

\* The handler still has to raise behavior b on the drift alert of key k.
Carries(h, k, b) ==
  \/ \E i \in 1..Len(job[h].updates) :
       LET u == job[h].updates[i] IN
       u.key = k /\ b \in u.fresh /\ u.baseline /\ ~u.promoted
  \/ /\ job[h].pc \in {"upsert", "upsertTx"}
     /\ job[h].id = DriftId(k)
     /\ b \in job[h].alert.behaviors

\* Drift on a baseline is never lost: a behavior stored in a row that was a
\* baseline and did not have it has been put on the alert of that version, or
\* is about to be, however ingests, merges of one alert, operators and the
\* retention loop interleave (fingerprint.go Ingest, diff.go trigger 2,
\* store.UpsertAlert).
SameVersionDriftAlerted ==
  faults = 0 => \A d \in drift :
    d[2] \in raised[DriftId(d[1])] \/ \E h \in Handlers : Carries(h, d[1], d[2])

\* A behavior no version of a subject had shown, stored when the subject had a
\* baseline, has been alerted on by the time the collector is idle: "Promotion
\* must not silently bless drift that arrived in the same batch" (diff.go
\* triggers 1 and 2).  It holds while one new version of a subject is promoted at
\* a time; find_same_batch_blessing shows what two of them in a batch do to it.
NovelDriftAlerted ==
  faults = 0 /\ Idle => \A n \in novel :
    \E id \in AlertIds : id[1] = n[1] /\ n[2] \in raised[id]

\* The same when replicas may die: "kill either replica mid-ingest -> nothing
\* lost" (docs/research/collector-ha.md).
NothingLostMidIngest ==
  Idle /\ outbox = {} => \A d \in drift : d[2] \in raised[DriftId(d[1])]

\* The row that merging every batch one after the other gives.
FinalRow(k) ==
  LET merged == FoldSet(LAMBDA b, row : MergeGroup(row, b.groups[k]), NoRow,
                        {b \in Batches : k \in DOMAIN b.groups})
  IN  [merged EXCEPT !.baseline = Qualifies(merged)]

\* Replicas that ingest concurrently end with the rows a single one would have:
\* no merge is lost, no event counted twice, no promotion missed
\* (store.MergeFingerprint, docs/research/collector-ha.md).
ConcurrentIngestConverges ==
  faults = 0 /\ Idle /\ outbox = {} => \A k \in Keys : fps[k] = FinalRow(k)

\* A batch a sensor forgot is in the fingerprints, whatever failed on the way:
\* a collector answers 200 only after every group is committed, and no merge
\* overwrites another (api.handleIngest, batchSender.flush, MergeFingerprint).
AcknowledgedIsStored ==
  \A k \in Keys :
    LET acknowledged == {b \in Batches \ outbox : k \in DOMAIN b.groups} IN
    /\ \A b \in acknowledged : b.groups[k].behaviors \subseteq fps[k].behaviors
    /\ fps[k].obs >= MapThenSumSet(LAMBDA b : b.groups[k].count, acknowledged)

\* No false alarm: a behavior on the drift alert of a version was new to a
\* baseline when it was stored, however often its batch was delivered
\* (JustPromoted, diff.go trigger 2).
AlertedIsDrift ==
  \A k \in Keys : \A b \in raised[DriftId(k)] : <<k, b>> \in drift

\* What this collector observed stays in the row: "An import never destroys or
\* masks anything this cluster learned itself"
\* (docs/research/multicluster-baselines.md).
LearnedIsKept == \A k \in Keys : learned[k] \subseteq fps[k].behaviors

\* A local row is out of reach of an import: it stays local and keeps all it
\* knows (ImportFingerprint's WHERE origin = 'imported').
LocalRowsOnlyGrow ==
  [][\A k \in Keys : fps[k].origin = "local" =>
       /\ fps'[k].origin = "local"
       /\ fps[k].behaviors \subseteq fps'[k].behaviors
       /\ fps[k].obs <= fps'[k].obs]_fps

\* A baseline of this cluster's own went through the learning window
\* (fingerprint.Engine.qualifies).
PromotionIsEarned ==
  \A k \in Keys : fps[k].origin = "local" /\ fps[k].baseline => Qualifies(fps[k])

\* A baseline never falls back to learning (ingestGroup, ImportFingerprint).
BaselineStays == [][\A k \in Keys : fps[k].baseline => fps'[k].baseline]_fps

\* A row that came from a file is a baseline: "An imported row is written with
\* is_baseline=TRUE, so it participates in both triggers identically to a
\* locally promoted baseline" (docs/research/multicluster-baselines.md).
ImportedIsBaseline == \A k \in Keys : fps[k].origin = "imported" => fps[k].baseline

\* The import report tells what happened to the row: one that is kept is
\* counted as skipped or ignored, and no other (countImportOutcome, docs/api.md).
ImportReportIsTrue ==
  imp.pc = "idle" /\ imp.outcome # "none" =>
    (imp.kept <=> imp.outcome \in {"skipped_local", "ignored_non_baseline"})

\* Merging never loses severity: an alert is critical, and would block, exactly
\* when one of the behaviors on it says so (emit, mergeIntoAlert).
SeverityFollowsBehaviors ==
  \A id \in AlertIds :
    /\ alerts[id].critical <=> alerts[id].behaviors \cap HighRisk # {}
    /\ alerts[id].wouldBlock <=> alerts[id].behaviors \cap Enforceable # {}

\* The behavior of some kernel deny for the subject of alert id is in B.
Denied(id, B) ==
  \E b \in Batches : \E i \in 1..Len(b.denied) :
    b.denied[i][1] = id[1] /\ b.denied[i][2] \in B

\* A blocked mark only ever lands on an alert that listed a denied behavior of
\* its subject (ReactDenied, FindUnblockedAlertByBehavior).
BlockedWasDenied == \A id \in AlertIds : alerts[id].blocked => Denied(id, raised[id])

\* The alert marked blocked lists the denied behavior: "ReactDenied upgrades an
\* existing alert when a kernel deny event arrives for a behavior that already
\* triggered an alert" (diff.go).
BlockedListsDenied ==
  \A id \in AlertIds : alerts[id].blocked => Denied(id, alerts[id].behaviors)

\* The create race costs an alert one more transaction at most: the five
\* attempts are never used up, so no alert is dropped as if it were stored
\* (store.UpsertAlert).
UpsertSettles == \A h \in Handlers : job[h].attempts <= 2

\* When nothing failed, every alert stored was handed to the notifier, and every
\* block-rule behavior observed is known to the enforcement manager of some
\* replica (api.reactToUpdates, recordAlert).
NoticedAndTracked ==
  faults = 0 /\ Idle =>
    /\ \A id \in AlertIds : raised[id] # {} => id \in notices
    /\ \A k \in Keys : {k[1]} \X (learned[k] \cap BlockRule)
                         \subseteq UNION {tracked[r] : r \in Replicas}

\* Whatever the transactions do, the table of alerts is an alert book: raising
\* an alert is one atomic step (store.UpsertAlert).
Book == INSTANCE AlertBook
BookSpec == Book!Spec

\* A request ends, whatever locks other requests hold (handleIngest).
RequestsEnd == \A h \in Handlers : job[h].pc # "idle" ~> job[h].pc = "idle"

\* Sensors get rid of their batches: each one is acknowledged in the end, after
\* failures that stop (batchSender.flush, recordFailure).
BatchesAcknowledged == <>(outbox = {})
=============================================================================
