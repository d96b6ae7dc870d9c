----------------------------- MODULE WatchedPids ------------------------------
(***************************************************************************)
(* Which processes are traced, and whose identity their events get.        *)
(*                                                                         *)
(* The kernel's map of watched pids changes by fork and exit, in the       *)
(* context of the task, while a goroutine of the sensor scans /proc and    *)
(* synchronizes the map with a mirror of its own.  Another goroutine       *)
(* attributes the events of the ring buffer, with a state per pid that the *)
(* first one drops when a pid leaves the mirror.  Linux reuses pids, and   *)
(* gives threads ids from the same numbers.                                *)
(***************************************************************************)
EXTENDS Naturals, Sequences, FiniteSets

CONSTANTS
  Pids,      \* ids of tasks
  MapSize,   \* max_entries of watched_pids
  RingSize,  \* bound of events under way
  MaxProcesses     \* bound of the processes of a behavior

ASSUME PidAssumption ==
  /\ Pids \subseteq Nat \ {0} /\ IsFiniteSet(Pids)
  /\ MapSize \in Nat \ {0} /\ RingSize \in Nat /\ MaxProcesses \in Nat

VARIABLES
  group,     \* thread group, by id of the task
  exited,    \* group leaders that have exited and are not reaped yet
  born,      \* processes so far, which number them
  who,       \* the process that has this pid, or 0
  comm,      \* of a process: is it the name of a runtime?
  watched,   \* keys of watched_pids
  mirror,    \* Loader.watched
  refresh,   \* where RefreshWatched is
  ring,      \* events to attribute: the pid, and which process had it
  states     \* Resolver.pids: the process whose /proc a state was read from

tasks == <<group, exited, born, who, comm>>
vars == <<tasks, watched, mirror, refresh, ring, states>>

\* The group of an id no task has.
NoTask == 0

Comms == {"runtime", "other"}

\* What was read where no process was: a service "pid-N", no perf map.
Nobody == 0

\* No state yet.
Absent == MaxProcesses + 1

NoRefresh == [running |-> FALSE, todo |-> {}, alive |-> {}]

Init ==
  /\ group = [t \in Pids |-> NoTask]
  /\ exited = {}
  /\ born = 0
  /\ who = [p \in Pids |-> 0]
  /\ comm = [p \in Pids |-> "other"]
  /\ watched = {} /\ mirror = {}
  /\ refresh = NoRefresh
  /\ ring = <<>>
  /\ states = [p \in Pids |-> Absent]

-----------------------------------------------------------------------------
(* Tasks and the kernel's map. *)

\* A number is given out again when neither a task nor a group has it.
Unused(t) == t \notin {group[u] : u \in Pids} /\ group[t] = NoTask

\* A directory of /proc; that of a leader stays until its group is gone.
Present(p) == group[p] = p

Live(t) == group[t] # NoTask /\ t \notin exited

\* Mutant: the last entry of the map is never used.
RoomForOneMore(keys, p) == p \in keys \/ Cardinality(keys) < MapSize - 1

\* bpf_map_update_elem, whose failure the program ignores.
Room(keys, p) == p \in keys \/ Cardinality(keys) < MapSize

\* The keys after task t, watched or not, has forked a task c: the tracepoint
\* sched_process_fork fires for threads too, with their id.
Inherited(t, c) == IF group[t] \in watched /\ Room(watched, c) THEN watched \cup {c} ELSE watched

\* A process that nothing watched has started.
Spawn(p) ==
  /\ Unused(p) /\ born < MaxProcesses
  /\ group' = [group EXCEPT ![p] = p]
  /\ born' = born + 1
  /\ who' = [who EXCEPT ![p] = born + 1]
  /\ UNCHANGED <<exited, comm, watched, mirror, refresh, ring, states>>

\* A child starts with the name of its parent, up to its exec.
Fork(t, p) ==
  /\ Live(t) /\ Unused(p) /\ born < MaxProcesses
  /\ group' = [group EXCEPT ![p] = p]
  /\ born' = born + 1
  /\ who' = [who EXCEPT ![p] = born + 1]
  /\ comm' = [comm EXCEPT ![p] = comm[group[t]]]
  /\ watched' = Inherited(t, p)
  /\ UNCHANGED <<exited, mirror, refresh, ring, states>>

CloneThread(t, c) ==
  /\ Live(t) /\ Unused(c)
  /\ group' = [group EXCEPT ![c] = group[t]]
  /\ watched' = Inherited(t, c)
  /\ UNCHANGED <<exited, born, who, comm, mirror, refresh, ring, states>>

\* A process that sets its title.
Rename(p, name) ==
  /\ Present(p) /\ Live(p)
  /\ comm[p] # name
  /\ comm' = [comm EXCEPT ![p] = name]
  /\ UNCHANGED <<group, exited, born, who, watched, mirror, refresh, ring, states>>

GroupDead(t) == \A u \in Pids : group[u] = group[t] /\ Live(u) => u = t

\* execve: the kernel first ends the other tasks of the group, each with an exit.
\* A thread that is not the leader then takes the leader's id, and its own id is
\* gone without an exit: no program deletes a key it may have.
Exec(t, name) ==
  /\ Live(t) /\ GroupDead(t)
  /\ comm' = [comm EXCEPT ![group[t]] = name]
  /\ group' = [group EXCEPT ![t] = IF group[t] = t THEN t ELSE NoTask]
  /\ exited' = exited \ {group[t]}
  /\ UNCHANGED <<born, who, watched, mirror, refresh, ring, states>>

\* Mutant: the key of a thread stays.
ExitOfGroup(t) ==
  /\ Live(t)
  /\ watched' = watched \ (IF GroupDead(t) THEN {group[t]} ELSE {})
  /\ IF group[t] = t
     THEN exited' = exited \cup {t} /\ UNCHANGED group
     ELSE group' = [group EXCEPT ![t] = NoTask] /\ UNCHANGED exited
  /\ UNCHANGED <<born, who, comm, mirror, refresh, ring, states>>

\* trace_process_exit.
Exit(t) ==
  /\ Live(t)
  /\ watched' = (watched \ (IF group[t] # t THEN {t} ELSE {}))
                         \ (IF GroupDead(t) THEN {group[t]} ELSE {})
  /\ IF group[t] = t
     THEN exited' = exited \cup {t} /\ UNCHANGED group
     ELSE group' = [group EXCEPT ![t] = NoTask] /\ UNCHANGED exited
  /\ UNCHANGED <<born, who, comm, mirror, refresh, ring, states>>

\* The parent waits for a process all of whose tasks are gone.
Reap(p) ==
  /\ p \in exited
  /\ \A u \in Pids \ {p} : group[u] # p
  /\ exited' = exited \ {p}
  /\ group' = [group EXCEPT ![p] = NoTask]
  /\ who' = [who EXCEPT ![p] = 0]
  /\ comm' = [comm EXCEPT ![p] = "other"]
  /\ UNCHANGED <<born, watched, mirror, refresh, ring, states>>

-----------------------------------------------------------------------------
(* RefreshWatched, by one goroutine: a scan of /proc, then the differences    *)
(* between what it found and the mirror.                                     *)

\* os.ReadDir.
BeginRefresh ==
  /\ ~refresh.running
  /\ refresh' = [running |-> TRUE, todo |-> {p \in Pids : Present(p)}, alive |-> {}]
  /\ UNCHANGED <<tasks, watched, mirror, ring, states>>

\* runtimeProcess, for one entry after the other: a process that is gone is
\* passed over.
ReadComm(p) ==
  /\ p \in refresh.todo /\ \A q \in refresh.todo : p <= q
  /\ refresh' = [refresh EXCEPT !.todo = @ \ {p},
                   !.alive = IF Present(p) /\ comm[p] = "runtime" THEN @ \cup {p} ELSE @]
  /\ UNCHANGED <<tasks, watched, mirror, ring, states>>

Scanned == refresh.running /\ refresh.todo = {}

\* The first loop of syncWatched.  A pid whose Put fails, into a full map, plays
\* no part in the second loop; the next refresh tries again.
Watch(p) ==
  /\ Scanned /\ p \in refresh.alive \ mirror
  /\ IF Room(watched, p)
     THEN watched' = watched \cup {p} /\ mirror' = mirror \cup {p} /\ UNCHANGED refresh
     ELSE refresh' = [refresh EXCEPT !.alive = @ \ {p}] /\ UNCHANGED <<watched, mirror>>
  /\ UNCHANGED <<tasks, ring, states>>

\* Mutant: without Forget.
UnwatchOnly(p) ==
  /\ Scanned /\ refresh.alive \subseteq mirror /\ p \in mirror \ refresh.alive
  /\ watched' = watched \ {p}
  /\ mirror' = mirror \ {p}
  /\ UNCHANGED <<tasks, refresh, ring, states>>

\* The second loop: Unwatch, then Forget.
Unwatch(p) ==
  /\ Scanned /\ refresh.alive \subseteq mirror /\ p \in mirror \ refresh.alive
  /\ watched' = watched \ {p}
  /\ mirror' = mirror \ {p}
  /\ states' = [states EXCEPT ![p] = Absent]
  /\ UNCHANGED <<tasks, refresh, ring>>

EndRefresh ==
  /\ Scanned /\ refresh.alive = mirror
  /\ refresh' = NoRefresh
  /\ UNCHANGED <<tasks, watched, mirror, ring, states>>

-----------------------------------------------------------------------------
(* Events and their attribution, by one goroutine. *)

\* A watched process does something the programs report.
Emit(t) ==
  /\ Live(t) /\ group[t] \in watched
  /\ Len(ring) < RingSize
  /\ ring' = Append(ring, [pid |-> group[t], who |-> who[group[t]]])
  /\ UNCHANGED <<tasks, watched, mirror, refresh, states>>

\* What a look at /proc/<pid> finds: after the exit it has nothing to show.
Found(p) == IF Present(p) /\ (\E t \in Pids : group[t] = p /\ Live(t)) THEN who[p] ELSE Nobody

StateOf(p) == IF states[p] = Absent THEN Found(p) ELSE states[p]

\* Attribute: a state that is not there is read from /proc and kept.
Attribute ==
  /\ ring # <<>>
  /\ states' = [states EXCEPT ![Head(ring).pid] = StateOf(Head(ring).pid)]
  /\ ring' = Tail(ring)
  /\ UNCHANGED <<tasks, watched, mirror, refresh>>

Refresh ==
  \/ BeginRefresh
  \/ \E p \in Pids : ReadComm(p)
  \/ \E p \in Pids : Watch(p)
  \/ \E p \in Pids : Unwatch(p)
  \/ EndRefresh

Next ==
  \/ \E p \in Pids : Spawn(p)
  \/ \E t, p \in Pids : Fork(t, p)
  \/ \E t, c \in Pids : CloneThread(t, c)
  \/ \E p \in Pids, name \in Comms : Rename(p, name)
  \/ \E t \in Pids, name \in Comms : Exec(t, name)
  \/ \E t \in Pids : Exit(t)
  \/ \E p \in Pids : Reap(p)
  \/ \E t \in Pids : Emit(t)
  \/ Attribute
  \/ Refresh

Spec == Init /\ [][Next]_vars

\* The ticker of startProcessWatcher, and the scheduler.
FairSpec == Spec /\ WF_vars(Refresh)

-----------------------------------------------------------------------------
TypeOK ==
  /\ group \in [Pids -> Pids \cup {NoTask}]
  /\ exited \subseteq Pids /\ watched \subseteq Pids /\ mirror \subseteq Pids
  /\ born \in 0..MaxProcesses /\ who \in [Pids -> 0..MaxProcesses]
  /\ comm \in [Pids -> Comms]
  /\ refresh \in [running : BOOLEAN, todo : SUBSET Pids, alive : SUBSET Pids]
  /\ ring \in Seq([pid : Pids, who : 0..MaxProcesses])
  /\ states \in [Pids -> 0..Absent]

\* Somebody will remove the key: a refresh, as it is in the mirror, or the exit of
\* its task or of the last task of its group.
Accounted(k) == k \in mirror \/ \E t \in Pids : Live(t) /\ k \in {t, group[t]}

\* The bounded map of watched pids, into which trace_process_fork puts the ids of
\* threads as well, gets no key that nobody will remove, and a key becomes one in
\* one way only: a thread that is not the leader calls execve (trace_process_exit,
\* syncWatched).  Neither an exit, in whatever order a group's tasks go, nor a
\* refresh with an old scan leaves one behind.
NoKeyLost ==
  \A k \in watched' : (k \in watched => Accounted(k)) =>
    Accounted(k)' \/ (group[k] # k /\ \E name \in Comms : Exec(k, name))
KeysAreAccounted == [][NoKeyLost]_vars

\* "remove those propagated thread keys when the thread exits"
\* (src/bpf/goodman.bpf.c, trace_process_exit): no key outlives its task.
ThreadKeysRemoved == \A k \in watched : Accounted(k)

\* A runtime is traced in the end, whatever the order of its start, scans, exits
\* of namesakes and a full map: unless it ends or changes its name, no later than
\* there is room (RefreshWatched).  That the mirror does not have its pid is
\* needed: see StaysWatched.
RuntimeGetsWatched ==
  \A p \in Pids :
    (Present(p) /\ comm[p] = "runtime" /\ p \notin mirror)
      ~> (p \in watched \/ ~Present(p) \/ comm[p] # "runtime" \/ Cardinality(watched) = MapSize)

\* What the sensor keeps of a runtime is dropped after its end, unless its pid is in
\* use again by then: neither the state nor the key, not even one that a refresh
\* put back after the exit (syncWatched, Resolver.Forget).
GoneIsForgotten ==
  \A p \in Pids :
    p \in mirror /\ ~Present(p) ~> Present(p) \/ (p \notin mirror /\ states[p] = Absent)

\* "Clear them before Linux can reuse the pid for a different filesystem/process"
\* (internal/attribute/resolve.go): no event gets the identity of a process that
\* had the pid before.  Stated of the pids the mirror does not have, whose states no
\* refresh is going to clear; for the others that moment is the next refresh.
NeverItsPredecessor ==
  ring # <<>> =>
    LET e == Head(ring) IN
    e.pid \notin mirror => StateOf(e.pid) \notin 1..(e.who - 1)

\* What the mirror has is in the kernel's map while the process runs
\* (Loader.Watch).
StaysWatched ==
  \A p \in Pids : Present(p) /\ comm[p] = "runtime" /\ p \in mirror ~>
    (p \in watched \/ ~Present(p) \/ comm[p] # "runtime")
=============================================================================
