------------------------------ MODULE Collectors ------------------------------
(***************************************************************************)
(* Replicas of the collector around one PostgreSQL database: how they      *)
(* start, each applying the migrations nobody has applied yet, and the     *)
(* loops that one of them at a time is to run, the refresh of reachability *)
(* reports and the digest.  Reports are uploaded to any replica meanwhile. *)
(*                                                                         *)
(* A lockfile is the number of its upload, and what fingerprints say is    *)
(* the number of their changes.  There is one service scope: the others    *)
(* are joined and saved one by one, in the same way.                       *)
(***************************************************************************)
EXTENDS Naturals

CONSTANTS
  Replicas,     \* collectors
  Nobody,       \* holder of a lock that is free
  Files,        \* number of migration files
  MaxUploads,   \* bound of the uploads of a behavior
  MaxLearned,   \* bound of the changes of fingerprints
  MaxRounds,    \* bound of the intervals of the digest
  MaxFaults     \* bound of crashes, lost connections and failing statements

ASSUME CollectorAssumption ==
  /\ Nobody \notin Replicas
  /\ Files \in Nat /\ MaxUploads \in Nat /\ MaxLearned \in Nat /\ MaxRounds \in Nat
  /\ MaxFaults \in Nat

VARIABLES
  boot,       \* by replica, where store.Open is
  applied,    \* files in schema_migrations
  executed,   \* history: how often each file's statements have taken effect
  migrating,  \* holder of the migration lock
  uploads,    \* uploads so far
  lockfile,   \* the stored lockfile, 0 for none
  report,     \* the stored report: what it was computed from
  learned,    \* changes of fingerprints so far
  upload,     \* by replica, where handleReport is
  refresh,    \* by replica, where reachabilityLoop is
  holder,     \* by lock key, the replica whose session holds it
  lost,       \* replicas in a loop's body whose session is gone, with the key
  due,        \* replicas whose digest ticker has fired
  posting,    \* replicas that are delivering a digest
  rounds,     \* intervals of the digest so far
  posted,     \* digests delivered
  faults

schema == <<boot, applied, executed, migrating>>
reports == <<uploads, lockfile, report, learned, upload, refresh>>
digests == <<due, posting, rounds, posted>>
locks == <<holder, lost>>
vars == <<schema, reports, digests, locks, faults>>

Keys == {"reachability", "digest"}

NoReport == [lockfile |-> 0, learned |-> 0]

Down == [pc |-> "down", file |-> 1]
NoUpload == [pc |-> "idle", lockfile |-> 0, learned |-> 0]
NoRefresh == [pc |-> "idle", lockfile |-> 0, learned |-> 0]

Init ==
  /\ boot = [r \in Replicas |-> Down]
  /\ applied = {} /\ executed = [f \in 1..Files |-> 0] /\ migrating = Nobody
  /\ uploads = 0 /\ lockfile = 0 /\ report = NoReport /\ learned = 0
  /\ upload = [r \in Replicas |-> NoUpload]
  /\ refresh = [r \in Replicas |-> NoRefresh]
  /\ holder = [k \in Keys |-> Nobody] /\ lost = {}
  /\ due = {} /\ posting = {} /\ rounds = 0 /\ posted = 0
  /\ faults = 0

Serving(r) == boot[r].pc = "serving"

Fault == faults < MaxFaults /\ faults' = faults + 1

-----------------------------------------------------------------------------
(* store.Open. *)

Start(r) ==
  /\ boot[r].pc = "down"
  /\ boot' = [boot EXCEPT ![r].pc = "waiting"]
  /\ UNCHANGED <<applied, executed, migrating, reports, digests, locks, faults>>

\* Mutant: no lock, as on SQLite.
LockNothing(r) ==
  /\ boot[r].pc = "waiting"
  /\ boot' = [boot EXCEPT ![r].pc = "checking"]
  /\ UNCHANGED <<applied, executed, migrating, reports, digests, locks, faults>>

\* lockMigrations waits for pg_advisory_lock.
LockMigrations(r) ==
  /\ boot[r].pc = "waiting" /\ migrating = Nobody
  /\ migrating' = r
  /\ boot' = [boot EXCEPT ![r].pc = "checking"]
  /\ UNCHANGED <<applied, executed, reports, digests, locks, faults>>

\* applyMigration up to its count; a file that is applied is passed over.
CheckMigration(r) ==
  /\ boot[r].pc = "checking" /\ boot[r].file <= Files
  /\ boot' = IF boot[r].file \in applied THEN [boot EXCEPT ![r].file = @ + 1]
             ELSE [boot EXCEPT ![r].pc = "applying"]
  /\ UNCHANGED <<applied, executed, migrating, reports, digests, locks, faults>>

\* The rest of the transaction: the statements, the row of schema_migrations.
CommitMigration(r) ==
  LET f == boot[r].file IN
  /\ boot[r].pc = "applying"
  /\ executed' = [executed EXCEPT ![f] = @ + 1]
  /\ applied' = applied \cup {f}
  /\ boot' = [boot EXCEPT ![r] = [pc |-> "checking", file |-> f + 1]]
  /\ UNCHANGED <<migrating, reports, digests, locks, faults>>

Serve(r) ==
  /\ boot[r].pc = "checking" /\ boot[r].file > Files
  /\ migrating' = Nobody
  /\ boot' = [boot EXCEPT ![r].pc = "serving"]
  /\ UNCHANGED <<applied, executed, reports, digests, locks, faults>>

\* The process ends, also because a migration fails.  The database rolls its
\* transaction back and frees the locks of its sessions.
Crash(r) ==
  /\ boot[r].pc # "down"
  /\ Fault
  /\ boot' = [boot EXCEPT ![r] = Down]
  /\ migrating' = IF migrating = r THEN Nobody ELSE migrating
  /\ upload' = [upload EXCEPT ![r] = NoUpload]
  /\ refresh' = [refresh EXCEPT ![r] = NoRefresh]
  /\ holder' = [k \in Keys |-> IF holder[k] = r THEN Nobody ELSE holder[k]]
  /\ lost' = lost \ ({r} \X Keys)
  /\ due' = due \ {r} /\ posting' = posting \ {r}
  /\ UNCHANGED <<applied, executed, uploads, lockfile, report, learned, rounds, posted>>

-----------------------------------------------------------------------------
(* Fingerprints change; a client uploads a lockfile to be persisted. *)

Learn ==
  /\ learned < MaxLearned
  /\ learned' = learned + 1
  /\ UNCHANGED <<schema, uploads, lockfile, report, upload, refresh, digests, locks, faults>>

\* handleReport up to ListFingerprints.
Upload(r) ==
  /\ Serving(r) /\ upload[r].pc = "idle" /\ uploads < MaxUploads
  /\ uploads' = uploads + 1
  /\ upload' = [upload EXCEPT ![r] = [pc |-> "lockfile", lockfile |-> uploads', learned |-> learned]]
  /\ UNCHANGED <<schema, lockfile, report, learned, refresh, digests, locks, faults>>

\* persistReport: two statements, and none undoes the other.
SaveLockfile(r) ==
  /\ upload[r].pc = "lockfile"
  /\ lockfile' = upload[r].lockfile
  /\ upload' = [upload EXCEPT ![r].pc = "report"]
  /\ UNCHANGED <<schema, uploads, report, learned, refresh, digests, locks, faults>>

SaveReport(r) ==
  /\ upload[r].pc = "report"
  /\ report' = [lockfile |-> upload[r].lockfile, learned |-> upload[r].learned]
  /\ upload' = [upload EXCEPT ![r] = NoUpload]
  /\ UNCHANGED <<schema, uploads, lockfile, learned, refresh, digests, locks, faults>>

UploadFails(r) ==
  /\ upload[r].pc # "idle"
  /\ Fault
  /\ upload' = [upload EXCEPT ![r] = NoUpload]
  /\ UNCHANGED <<schema, uploads, lockfile, report, learned, refresh, digests, locks>>

-----------------------------------------------------------------------------
(* WithLeader: one try per tick.  The lock belongs to a session of its own;  *)
(* the body of the loop works on other connections of the pool.              *)

TryLock(r, k) == Serving(r) /\ holder[k] = Nobody /\ holder' = [holder EXCEPT ![k] = r]

\* Mutant: the lock is freed whoever has it.
UnlockAny(r, k) ==
  /\ holder' = [holder EXCEPT ![k] = Nobody]
  /\ lost' = lost \ {<<r, k>>}

\* Where the session is gone, pg_advisory_unlock has nothing to unlock.
Unlock(r, k) ==
  /\ holder' = IF holder[k] = r THEN [holder EXCEPT ![k] = Nobody] ELSE holder
  /\ lost' = lost \ {<<r, k>>}

\* The session of a lock is gone, and the lock with it; the body goes on.
LoseSession(k) ==
  /\ holder[k] # Nobody
  /\ Fault
  /\ holder' = [holder EXCEPT ![k] = Nobody]
  /\ lost' = lost \cup {<<holder[k], k>>}
  /\ UNCHANGED <<schema, reports, digests>>

\* reachabilityLoop with ListLockfiles.
Lead(r) ==
  /\ refresh[r].pc = "idle" /\ lockfile # 0
  /\ TryLock(r, "reachability")
  /\ refresh' = [refresh EXCEPT ![r] = [pc |-> "join", lockfile |-> lockfile, learned |-> 0]]
  /\ UNCHANGED <<schema, uploads, lockfile, report, learned, upload, digests, lost, faults>>

\* RefreshAll: the fingerprints, then the report.
Join(r) ==
  /\ refresh[r].pc = "join"
  /\ refresh' = [refresh EXCEPT ![r].pc = "save", ![r].learned = learned]
  /\ UNCHANGED <<schema, uploads, lockfile, report, learned, upload, digests, locks, faults>>

SaveRefreshed(r) ==
  /\ refresh[r].pc = "save"
  /\ report' = [lockfile |-> refresh[r].lockfile, learned |-> refresh[r].learned]
  /\ refresh' = [refresh EXCEPT ![r] = NoRefresh]
  /\ Unlock(r, "reachability")
  /\ UNCHANGED <<schema, uploads, lockfile, learned, upload, digests, faults>>

\* Mutant: an error returns before the unlock.
RefreshFailsLocked(r) ==
  /\ refresh[r].pc # "idle"
  /\ Fault
  /\ refresh' = [refresh EXCEPT ![r] = NoRefresh]
  /\ UNCHANGED <<schema, uploads, lockfile, report, learned, upload, digests, locks>>

RefreshFails(r) ==
  /\ refresh[r].pc # "idle"
  /\ Fault
  /\ refresh' = [refresh EXCEPT ![r] = NoRefresh]
  /\ Unlock(r, "reachability")
  /\ UNCHANGED <<schema, uploads, lockfile, report, learned, upload, digests>>

\* Once an interval, the ticker of every replica fires.
Interval ==
  /\ rounds < MaxRounds /\ due = {} /\ posting = {}
  /\ rounds' = rounds + 1
  /\ due' = {r \in Replicas : Serving(r)}
  /\ UNCHANGED <<schema, reports, locks, posting, posted, faults>>

\* digestLoop: a replica that does not get the lock waits for the next tick.
BeginDigest(r) ==
  /\ r \in due
  /\ due' = due \ {r}
  /\ IF holder["digest"] = Nobody
     THEN TryLock(r, "digest") /\ posting' = posting \cup {r}
     ELSE UNCHANGED <<holder, posting>>
  /\ UNCHANGED <<schema, reports, lost, rounds, posted, faults>>

PostDigest(r) ==
  /\ r \in posting
  /\ posting' = posting \ {r}
  /\ posted' = posted + 1
  /\ Unlock(r, "digest")
  /\ UNCHANGED <<schema, reports, due, rounds, faults>>

Starting(r) ==
  Start(r) \/ LockMigrations(r) \/ CheckMigration(r) \/ CommitMigration(r) \/ Serve(r)

Refreshing(r) == Lead(r) \/ Join(r) \/ SaveRefreshed(r)

Handling(r) == SaveLockfile(r) \/ SaveReport(r)

Next ==
  \/ \E r \in Replicas :
       \/ Starting(r)
       \/ Crash(r)
       \/ Upload(r)
       \/ Handling(r)
       \/ UploadFails(r)
       \/ Refreshing(r)
       \/ RefreshFails(r)
       \/ BeginDigest(r)
       \/ PostDigest(r)
  \/ \E k \in Keys : LoseSession(k)
  \/ Learn
  \/ Interval

Spec == Init /\ [][Next]_vars

\* Kubernetes restarts what has ended, goroutines that can run do, tickers fire,
\* and PostgreSQL grants a lock in the order of the requests.
FairSpec ==
  /\ Spec
  /\ \A r \in Replicas :
       /\ SF_vars(Starting(r))
       /\ WF_vars(Handling(r))
       /\ SF_vars(Refreshing(r))

-----------------------------------------------------------------------------
TypeOK ==
  /\ boot \in [Replicas -> [pc : {"down", "waiting", "checking", "applying", "serving"},
                            file : 1..(Files + 1)]]
  /\ applied \subseteq 1..Files /\ executed \in [1..Files -> Nat]
  /\ migrating \in Replicas \cup {Nobody}
  /\ uploads \in Nat /\ lockfile \in Nat /\ learned \in Nat
  /\ report \in [lockfile : Nat, learned : Nat]
  /\ upload \in [Replicas -> [pc : {"idle", "lockfile", "report"}, lockfile : Nat, learned : Nat]]
  /\ refresh \in [Replicas -> [pc : {"idle", "join", "save"}, lockfile : Nat, learned : Nat]]
  /\ holder \in [Keys -> Replicas \cup {Nobody}]
  /\ lost \subseteq Replicas \X Keys
  /\ due \subseteq Replicas /\ posting \subseteq Replicas
  /\ rounds \in Nat /\ posted \in Nat /\ faults \in Nat

\* "Applied files are recorded in schema_migrations so non-idempotent statements
\* run exactly once" (internal/store/store.go), in order, though replicas start
\* at once and die between the check and the commit; and no replica serves on a
\* schema that is not complete (migrate, applyMigration).
MigratedOnce ==
  /\ \A f \in 1..Files :
       /\ executed[f] = IF f \in applied THEN 1 ELSE 0
       /\ f \in applied => \A g \in 1..f : g \in applied
  /\ \A r \in Replicas : Serving(r) => applied = 1..Files

\* The replicas in the body of a loop.
Body(k) == IF k = "digest" THEN posting ELSE {r \in Replicas : refresh[r].pc # "idle"}

\* "only one replica fires per tick" (docs/architecture.md): two replicas are in
\* the body of a loop at once only after one has lost the session of its lock
\* (WithLeader).
OneLeader ==
  \A k \in Keys : \A r, s \in Body(k) : r # s => <<r, k>> \in lost \/ <<s, k>> \in lost

\* When uploads and fingerprints have come to rest, the report is that of the
\* stored lockfile and of what fingerprints say: whatever was overwritten by a
\* slower request or refresh, or never written, a later refresh puts right
\* (persistReport, RefreshAll).
ReportCatchesUp ==
  <>[](lockfile # 0 => report = [lockfile |-> lockfile, learned |-> learned])

\* "digests and webhooks are not doubled" (docs/deployment.md).
DigestNotDoubled == posted <= rounds

\* A refresh does not put back the report of a lockfile that has been replaced
\* since ("recomputes stored reachability snapshots against the latest
\* fingerprints", cmd/collector/maintenance.go).
NewerReportStays == [][report'.lockfile >= report.lockfile]_vars
=============================================================================
