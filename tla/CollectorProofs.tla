--------------------------- MODULE CollectorProofs ---------------------------
(***************************************************************************)
(* What Collectors says of the two locks, proved for every number of       *)
(* replicas, files, uploads and faults: each migration takes effect once   *)
(* and in order, and a loop's body runs twice at once only after a lost    *)
(* session.                                                                *)
(***************************************************************************)
EXTENDS Collectors, TLAPS

BootType ==
  /\ boot \in [Replicas -> [pc : {"down", "waiting", "checking", "applying", "serving"},
                            file : 1..(Files + 1)]]
  /\ applied \subseteq 1..Files
  /\ executed \in [1..Files -> Nat]

\* The holder of the migration lock is the one that is in applyMigration; the
\* files before the one it is at are applied, and what it is applying is not.
BootInv ==
  /\ BootType
  /\ \A r \in Replicas :
       /\ boot[r].pc \in {"down", "waiting"} => boot[r].file = 1
       /\ boot[r].pc \in {"checking", "applying"} =>
            migrating = r /\ 1..(boot[r].file - 1) \subseteq applied
       /\ boot[r].pc = "applying" => boot[r].file \in (1..Files) \ applied
  /\ MigratedOnce

\* At the start nothing is applied and nobody serves.
LEMMA InitBoot ==
  ASSUME Init
  PROVE  BootInv
<1>1. BootType
  BY CollectorAssumption DEF Init, BootType, Down
<1>2. MigratedOnce
  BY DEF Init, MigratedOnce, Serving, Down
<1> QED BY <1>1, <1>2 DEF BootInv, Init, Down

\* Each step of store.Open keeps this, and so does a crash between two of them.
LEMMA NextBoot ==
  ASSUME BootInv, [Next]_vars
  PROVE  BootInv'
<1> USE CollectorAssumption DEF BootInv, BootType, MigratedOnce, Serving
<1>1. ASSUME NEW r \in Replicas, Start(r) PROVE BootInv'
  BY <1>1 DEF Start
<1>2. ASSUME NEW r \in Replicas, LockMigrations(r) PROVE BootInv'
  BY <1>2 DEF LockMigrations
<1>3. ASSUME NEW r \in Replicas, CheckMigration(r) PROVE BootInv'
  <2>1. CASE boot[r].file \in applied
    <3> DEFINE f == boot[r].file
    <3>1. /\ f \in 1..Files /\ 1..(f - 1) \subseteq applied /\ migrating = r
          /\ boot' = [boot EXCEPT ![r].file = f + 1] /\ boot'[r].pc = "checking"
          /\ UNCHANGED <<applied, executed, migrating>>
      BY <1>3, <2>1 DEF CheckMigration
    <3>2. f + 1 \in 1..(Files + 1) /\ 1..(f + 1 - 1) \subseteq applied'
      <4> HIDE DEF f
      <4> QED BY <2>1, <3>1 DEF f
    <3>3. boot'[r].file = f + 1 /\ \A q \in Replicas : q # r => boot'[q] = boot[q]
      BY <3>1
    <3>4. BootType'
      BY <3>1, <3>2
    <3> HIDE DEF f
    <3>5. MigratedOnce'
      BY <3>1, <3>3
    <3>6. ASSUME NEW q \in Replicas
          PROVE  /\ boot'[q].pc \in {"down", "waiting"} => boot'[q].file = 1
                 /\ boot'[q].pc \in {"checking", "applying"} =>
                      migrating' = q /\ 1..(boot'[q].file - 1) \subseteq applied'
                 /\ boot'[q].pc = "applying" => boot'[q].file \in (1..Files) \ applied'
      <4>1. CASE q = r
        BY <3>1, <3>2, <3>3, <4>1
      <4>2. CASE q # r
        BY <3>1, <3>3, <4>2
      <4> QED BY <4>1, <4>2
    <3> QED BY <3>4, <3>5, <3>6
  <2>2. CASE boot[r].file \notin applied
    BY <1>3, <2>2 DEF CheckMigration
  <2> QED BY <2>1, <2>2
<1>4. ASSUME NEW r \in Replicas, CommitMigration(r) PROVE BootInv'
  <2> DEFINE f == boot[r].file
  <2>1. /\ f \in (1..Files) \ applied /\ 1..(f - 1) \subseteq applied /\ migrating = r
        /\ applied' = applied \cup {f} /\ executed' = [executed EXCEPT ![f] = @ + 1]
        /\ boot' = [boot EXCEPT ![r] = [pc |-> "checking", file |-> f + 1]] /\ migrating' = r
    BY <1>4 DEF CommitMigration
  <2> HIDE DEF f
  <2>2. f + 1 \in 1..(Files + 1) /\ f + 1 - 1 = f /\ 1..f \subseteq applied'
    BY <2>1
  <2>3. BootType'
    BY <2>1, <2>2
  <2>4. /\ boot'[r].pc = "checking" /\ boot'[r].file = f + 1
        /\ \A q \in Replicas \ {r} : boot'[q] = boot[q] /\ boot[q].pc \notin {"checking", "applying"}
    BY <2>1
  <2>5. \A g \in 1..Files : executed'[g] = IF g \in applied' THEN 1 ELSE 0
    BY <2>1
  <2>6. \A g \in applied' : \A h \in 1..g : h \in applied'
    BY <2>1, <2>2
  <2>7. \A q \in Replicas : boot'[q].pc = "serving" => applied' = 1..Files
    BY <2>1, <2>4
  <2>8. MigratedOnce'
    BY <2>5, <2>6, <2>7
  <2>9. \A q \in Replicas :
          /\ boot'[q].pc \in {"down", "waiting"} => boot'[q].file = 1
          /\ boot'[q].pc \in {"checking", "applying"} =>
               migrating' = q /\ 1..(boot'[q].file - 1) \subseteq applied'
          /\ boot'[q].pc = "applying" => boot'[q].file \in (1..Files) \ applied'
    BY <2>1, <2>2, <2>4
  <2> QED BY <2>3, <2>8, <2>9
<1>5. ASSUME NEW r \in Replicas, Serve(r) PROVE BootInv'
  <2>1. UNCHANGED <<applied, executed>> /\ boot[r].pc = "checking" /\ boot[r].file > Files
    BY <1>5 DEF Serve
  <2>2. migrating = r /\ boot[r].file = Files + 1
    BY <2>1
  <2>3. applied = 1..Files
    <3>1. 1..(boot[r].file - 1) \subseteq applied /\ applied \subseteq 1..Files
      BY <2>1
    <3>2. boot[r].file - 1 = Files
      BY <2>2
    <3> QED BY <3>1, <3>2
  <2>4. boot' = [boot EXCEPT ![r].pc = "serving"]
    BY <1>5 DEF Serve
  <2>5. BootType' /\ boot'[r].pc = "serving" /\ \A q \in Replicas \ {r} : boot'[q] = boot[q]
    BY <2>1, <2>4
  <2>6. \A q \in Replicas \ {r} : boot'[q].pc \notin {"checking", "applying"}
    BY <2>2, <2>5
  <2>7. MigratedOnce'
    BY <2>1, <2>3
  <2> QED BY <2>5, <2>6, <2>7
<1>6. ASSUME NEW r \in Replicas, Crash(r) PROVE BootInv'
  <2>1. UNCHANGED <<applied, executed>> /\ boot' = [boot EXCEPT ![r] = Down]
        /\ migrating' = IF migrating = r THEN Nobody ELSE migrating
    BY <1>6 DEF Crash
  <2>2. BootType' /\ boot'[r] = Down /\ \A q \in Replicas \ {r} : boot'[q] = boot[q]
    BY <2>1 DEF Down
  <2>3. \A q \in Replicas \ {r} : boot'[q].pc \in {"checking", "applying"} => migrating' = q
    BY <2>1, <2>2
  <2>4. MigratedOnce'
    BY <2>1, <2>2 DEF Down
  <2> QED BY <2>1, <2>2, <2>3, <2>4 DEF Down
<1>7. ASSUME UNCHANGED schema PROVE BootInv'
  BY <1>7 DEF schema
<1>8. \/ UNCHANGED schema
      \/ \E r \in Replicas : Starting(r) \/ Crash(r)
  BY DEF Next, vars, Upload, Handling, SaveLockfile, SaveReport, UploadFails, Refreshing, Lead,
         Join, SaveRefreshed, RefreshFails, BeginDigest, PostDigest, LoseSession, Learn, Interval
<1> QED BY <1>1, <1>2, <1>3, <1>4, <1>5, <1>6, <1>7, <1>8 DEF Starting

\* Whatever the replicas, the files and the crashes: a migration takes effect
\* once, after those before it, and a replica serves when all have.
THEOREM MigrationsRunOnce == Spec => []MigratedOnce
<1>1. BootInv => MigratedOnce
  BY DEF BootInv
<1> QED BY <1>1, InitBoot, NextBoot, PTL DEF Spec

-----------------------------------------------------------------------------

\* Who is in the body of a loop holds its lock or has lost the session of it.
LeaderInv ==
  /\ holder \in [Keys -> Replicas \cup {Nobody}]
  /\ refresh \in [Replicas -> [pc : {"idle", "join", "save"}, lockfile : Nat, learned : Nat]]
  /\ lockfile \in Nat /\ learned \in Nat /\ uploads \in Nat
  /\ upload \in [Replicas -> [pc : {"idle", "lockfile", "report"}, lockfile : Nat, learned : Nat]]
  /\ posting \subseteq Replicas
  /\ \A k \in Keys : \A r \in Body(k) : holder[k] = r \/ <<r, k>> \in lost

\* At the start nobody leads.
LEMMA InitLeader ==
  ASSUME Init
  PROVE  LeaderInv
BY DEF Init, LeaderInv, Body, NoRefresh, NoUpload

\* A lock is taken when it is free; it is freed by its holder, or with its session.
LEMMA NextLeader ==
  ASSUME LeaderInv, [Next]_vars
  PROVE  LeaderInv'
<1> USE DEF LeaderInv, Body
<1>1. ASSUME NEW r \in Replicas, Crash(r) PROVE LeaderInv'
  BY <1>1 DEF Crash, NoUpload, NoRefresh, Keys
<1>2. ASSUME NEW r \in Replicas, Upload(r) PROVE LeaderInv'
  <2>1. uploads' \in Nat /\ UNCHANGED <<lockfile, learned, refresh, holder, lost, posting>>
    BY <1>2 DEF Upload, locks, digests
  <2>2. upload' = [upload EXCEPT ![r] = [pc |-> "lockfile", lockfile |-> uploads', learned |-> learned]]
    BY <1>2 DEF Upload
  <2>3. upload' \in [Replicas -> [pc : {"idle", "lockfile", "report"}, lockfile : Nat, learned : Nat]]
    BY <2>1, <2>2
  <2>4. \A k \in Keys : \A s \in Body(k)' : holder'[k] = s \/ <<s, k>> \in lost'
    BY <2>1
  <2> QED BY <2>1, <2>3, <2>4
<1>3. ASSUME NEW r \in Replicas, SaveLockfile(r) \/ SaveReport(r) \/ UploadFails(r) PROVE LeaderInv'
  <2>1. UNCHANGED <<uploads, learned, refresh, holder, lost, posting>>
    BY <1>3 DEF SaveLockfile, SaveReport, UploadFails, locks, digests
  <2>2. lockfile' \in Nat
    BY <1>3 DEF SaveLockfile, SaveReport, UploadFails
  <2>3. upload' = [upload EXCEPT ![r].pc = "report"] \/ upload' = [upload EXCEPT ![r] = NoUpload]
    BY <1>3 DEF SaveLockfile, SaveReport, UploadFails
  <2>6. \A q \in Replicas :
          /\ [upload[q] EXCEPT !.pc = "report"]
               \in [pc : {"idle", "lockfile", "report"}, lockfile : Nat, learned : Nat]
          /\ NoUpload \in [pc : {"idle", "lockfile", "report"}, lockfile : Nat, learned : Nat]
    BY DEF NoUpload
  <2>4. upload' \in [Replicas -> [pc : {"idle", "lockfile", "report"}, lockfile : Nat, learned : Nat]]
    BY <2>3, <2>6
  <2>5. \A k \in Keys : \A s \in Body(k)' : holder'[k] = s \/ <<s, k>> \in lost'
    BY <2>1
  <2> QED BY <2>1, <2>2, <2>4, <2>5
<1>4. ASSUME NEW r \in Replicas, Lead(r) PROVE LeaderInv'
  <2>1. /\ holder["reachability"] = Nobody /\ holder' = [holder EXCEPT !["reachability"] = r]
        /\ refresh' = [refresh EXCEPT ![r] = [pc |-> "join", lockfile |-> lockfile, learned |-> 0]]
        /\ UNCHANGED <<uploads, lockfile, learned, upload, posting, lost>>
    BY <1>4 DEF Lead, TryLock, digests
  <2>2. /\ holder' \in [Keys -> Replicas \cup {Nobody}]
        /\ refresh' \in [Replicas -> [pc : {"idle", "join", "save"}, lockfile : Nat, learned : Nat]]
    BY <2>1
  <2>3. \A s \in Replicas : refresh'[s].pc # "idle" => holder'["reachability"] = s \/ <<s, "reachability">> \in lost
    BY <2>1, CollectorAssumption DEF Keys
  <2>4. \A s \in posting : holder'["digest"] = s \/ <<s, "digest">> \in lost
    BY <2>1 DEF Keys
  <2> QED BY <2>1, <2>2, <2>3, <2>4 DEF Keys
<1>5. ASSUME NEW r \in Replicas, Join(r) PROVE LeaderInv'
  BY <1>5 DEF Join, locks, digests
<1>6. ASSUME NEW r \in Replicas, SaveRefreshed(r) \/ RefreshFails(r) PROVE LeaderInv'
  <2>1. /\ holder' = IF holder["reachability"] = r THEN [holder EXCEPT !["reachability"] = Nobody] ELSE holder
        /\ lost' = lost \ {<<r, "reachability">>}
        /\ refresh' = [refresh EXCEPT ![r] = NoRefresh]
        /\ UNCHANGED <<uploads, lockfile, learned, upload, posting>>
    BY <1>6 DEF SaveRefreshed, RefreshFails, Unlock, digests
  <2>2. /\ holder' \in [Keys -> Replicas \cup {Nobody}]
        /\ refresh' \in [Replicas -> [pc : {"idle", "join", "save"}, lockfile : Nat, learned : Nat]]
    BY <2>1 DEF NoRefresh
  <2>3. ASSUME NEW s \in Replicas, refresh'[s].pc # "idle"
        PROVE  holder'["reachability"] = s \/ <<s, "reachability">> \in lost'
    <3>1. s # r /\ refresh[s].pc # "idle"
      BY <2>1, <2>3 DEF NoRefresh
    <3> QED BY <2>1, <3>1 DEF Keys
  <2>4. \A s \in posting : holder'["digest"] = s \/ <<s, "digest">> \in lost'
    BY <2>1 DEF Keys
  <2> QED BY <2>1, <2>2, <2>3, <2>4 DEF Keys
<1>7. ASSUME NEW r \in Replicas, BeginDigest(r) PROVE LeaderInv'
  <2>1. UNCHANGED <<uploads, lockfile, learned, upload, refresh, lost>>
    BY <1>7 DEF BeginDigest, reports
  <2>2. CASE holder["digest"] = Nobody
    <3>1. holder' = [holder EXCEPT !["digest"] = r] /\ posting' = posting \cup {r}
      BY <1>7, <2>2 DEF BeginDigest, TryLock
    <3>2. holder' \in [Keys -> Replicas \cup {Nobody}] /\ posting' \subseteq Replicas
      BY <3>1
    <3>3. \A s \in posting' : holder'["digest"] = s \/ <<s, "digest">> \in lost
      BY <2>2, <3>1, CollectorAssumption DEF Keys
    <3>4. \A s \in Replicas : refresh[s].pc # "idle" => holder'["reachability"] = s \/ <<s, "reachability">> \in lost
      BY <3>1 DEF Keys
    <3> QED BY <2>1, <3>2, <3>3, <3>4 DEF Keys
  <2>3. CASE holder["digest"] # Nobody
    BY <1>7, <2>1, <2>3 DEF BeginDigest
  <2> QED BY <2>2, <2>3
<1>8. ASSUME NEW r \in Replicas, PostDigest(r) PROVE LeaderInv'
  <2>1. /\ holder' = IF holder["digest"] = r THEN [holder EXCEPT !["digest"] = Nobody] ELSE holder
        /\ lost' = lost \ {<<r, "digest">>}
        /\ posting' = posting \ {r}
        /\ UNCHANGED <<uploads, lockfile, learned, upload, refresh>>
    BY <1>8 DEF PostDigest, Unlock, reports
  <2>2. holder' \in [Keys -> Replicas \cup {Nobody}] /\ posting' \subseteq Replicas
    BY <2>1
  <2>3. \A s \in posting' : holder'["digest"] = s \/ <<s, "digest">> \in lost'
    BY <2>1 DEF Keys
  <2>4. \A s \in Replicas : refresh[s].pc # "idle" => holder'["reachability"] = s \/ <<s, "reachability">> \in lost'
    BY <2>1 DEF Keys
  <2> QED BY <2>1, <2>2, <2>3, <2>4 DEF Keys
<1>9. ASSUME NEW k \in Keys, LoseSession(k) PROVE LeaderInv'
  BY <1>9 DEF LoseSession, Keys, reports, digests
<1>10. CASE Learn
  BY <1>10 DEF Learn, digests, locks
<1>11. CASE Interval
  BY <1>11 DEF Interval, reports, locks
<1>12. ASSUME UNCHANGED <<reports, digests, locks>> PROVE LeaderInv'
  BY <1>12 DEF reports, digests, locks
<1>13. ASSUME NEW r \in Replicas, Starting(r) PROVE UNCHANGED <<reports, digests, locks>>
  BY <1>13 DEF Starting, Start, LockMigrations, CheckMigration, CommitMigration, Serve
<1>14. CASE UNCHANGED vars
  BY <1>12, <1>14 DEF vars
<1> QED
  BY <1>1, <1>2, <1>3, <1>4, <1>5, <1>6, <1>7, <1>8, <1>9, <1>10, <1>11, <1>12, <1>13, <1>14
     DEF Next, Refreshing, Handling

\* Whatever the replicas and the faults: two are in the body of a loop at once
\* only after one has lost the session its lock belongs to (WithLeader).
THEOREM OneReplicaLeads == Spec => []OneLeader
<1>1. LeaderInv => OneLeader
  BY DEF LeaderInv, OneLeader
<1> QED BY <1>1, InitLeader, NextLeader, PTL DEF Spec
=============================================================================
