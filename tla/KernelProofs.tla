----------------------------- MODULE KernelProofs ----------------------------
(***************************************************************************)
(* What is proved of the kernel program.  Of its map of watched pids, for  *)
(* every set of pids and every size of the map: no step leaves a key that  *)
(* nobody will remove, but the execve of a thread.  Of the destinations it *)
(* renders, for every address and port: they are read back as what they    *)
(* were, and they fit the buffer.                                          *)
(***************************************************************************)
EXTENDS WatchedPids, Destinations, TLAPS

-----------------------------------------------------------------------------
(* The map of watched pids.                                                *)

\* A leader keeps its id after its exit, and while there is a task of its group.
TaskInv ==
  /\ group \in [Pids -> Pids \cup {NoTask}]
  /\ \A t \in exited : t \in Pids /\ group[t] = t
  /\ \A t \in Pids : group[t] # NoTask => group[group[t]] = group[t]

\* A step of the tasks under which whoever is alive stays so, in its group.
LivesOn == \A u \in Pids : Live(u) => Live(u)' /\ group'[u] = group[u]

\* No id is that of no task.
LEMMA NoTaskIsNoPid == NoTask \notin Pids
BY PidAssumption DEF NoTask

\* At the start there is no task.
LEMMA InitTasks ==
  ASSUME Init
  PROVE  TaskInv
BY DEF Init, TaskInv

\* Fork and clone: the new id was nobody's, and it is alive, in its group.
LEMMA NewTask ==
  ASSUME TaskInv, NEW c \in Pids, NEW g \in Pids, g = c \/ group[g] = g, Unused(c),
         group' = [group EXCEPT ![c] = g], exited' = exited
  PROVE  TaskInv' /\ LivesOn /\ Live(c)'
<1>1. group[c] = NoTask /\ \A u \in Pids : group[u] # c
  BY DEF Unused
<1>2. c \notin exited
  BY <1>1, NoTaskIsNoPid DEF TaskInv
<1>3. group'[c] = g /\ \A u \in Pids \ {c} : group'[u] = group[u]
  BY DEF TaskInv
<1>4. ASSUME NEW u \in Pids, group'[u] # NoTask PROVE group'[group'[u]] = group'[u]
  <2>1. CASE u = c
    BY <1>1, <1>3, <2>1
  <2>2. CASE u # c
    <3>1. group'[u] = group[u] /\ group[u] \in Pids \ {c} /\ group[group[u]] = group[u]
      BY <1>1, <1>3, <1>4, <2>2 DEF TaskInv
    <3> QED BY <1>3, <3>1
  <2> QED BY <2>1, <2>2
<1>5. TaskInv'
  BY <1>2, <1>3, <1>4 DEF TaskInv
<1>6. LivesOn
  BY <1>1, <1>3 DEF LivesOn, Live
<1>7. Live(c)'
  BY <1>2, <1>3, NoTaskIsNoPid DEF Live
<1> QED BY <1>5, <1>6, <1>7

\* While everybody lives on, only a new key has to be accounted for.
LEMMA NewKey ==
  ASSUME LivesOn, mirror \subseteq mirror',
         NEW k, watched' \subseteq watched \cup {k},
         k \in watched' => k \in watched \/ Accounted(k)'
  PROVE  NoKeyLost
<1> SUFFICES ASSUME NEW j \in watched', j \in watched => Accounted(j)
             PROVE  Accounted(j)'
  BY DEF NoKeyLost
<1>1. CASE j \in watched
  <2>1. j \in mirror \/ \E t \in Pids : Live(t) /\ j \in {t, group[t]}
    BY <1>1 DEF Accounted
  <2> QED BY <2>1 DEF LivesOn, Accounted
<1>2. CASE j \notin watched
  BY <1>2
<1> QED BY <1>1, <1>2

\* The key a child inherits, or none.
LEMMA InheritedKeys ==
  ASSUME NEW t, NEW c
  PROVE  Inherited(t, c) \in {watched, watched \cup {c}}
BY DEF Inherited

\* trace_process_exit: a task's own key goes with it, that of its group with the
\* last of its tasks.
LEMMA ExitAccounts ==
  ASSUME TaskInv, NEW t \in Pids, Exit(t)
  PROVE  TaskInv' /\ NoKeyLost
<1>1. Live(t) /\ mirror' = mirror /\ watched' \subseteq watched
  BY DEF Exit
<1>2. /\ group' \in [Pids -> Pids \cup {NoTask}]
      /\ exited' \subseteq exited \cup {t} /\ (t \in exited' => group[t] = t /\ group'[t] = t)
      /\ \A u \in Pids \ {t} : group'[u] = group[u] /\ (u \in exited' <=> u \in exited)
      /\ (group'[t] = NoTask /\ group[t] # t) \/ group'[t] = group[t]
  BY DEF Exit, TaskInv, Live
<1>3. ASSUME NEW u \in Pids, group'[u] # NoTask PROVE group'[group'[u]] = group'[u]
  <2>1. group'[u] = group[u]
    BY <1>2, <1>3
  <2>2. group[u] \in Pids /\ group[group[u]] = group[u]
    BY <1>3, <2>1 DEF TaskInv
  <2> QED BY <1>2, <2>1, <2>2
<1>4. TaskInv'
  BY <1>2, <1>3 DEF TaskInv
<1>5. \A u \in Pids \ {t} : Live(u) => Live(u)' /\ group'[u] = group[u]
  BY <1>2 DEF Live
<1>6. NoKeyLost
  <2> SUFFICES ASSUME NEW k \in watched', k \in watched => Accounted(k), k \notin mirror
               PROVE  \E u \in Pids : Live(u)' /\ k \in {u, group'[u]}
    BY <1>1 DEF NoKeyLost, Accounted
  <2>1. PICK u \in Pids : Live(u) /\ k \in {u, group[u]}
    BY <1>1 DEF Accounted
  <2>2. CASE u # t
    BY <1>5, <2>1, <2>2
  <2>3. CASE u = t
    <3>1. k = group[t]
      BY <2>1, <2>3 DEF Exit
    <3>2. ~GroupDead(t)
      BY <3>1 DEF Exit
    <3>3. PICK v \in Pids : group[v] = group[t] /\ Live(v) /\ v # t
      BY <3>2 DEF GroupDead
    <3> QED BY <1>5, <3>1, <3>3
  <2> QED BY <2>2, <2>3
<1> QED BY <1>4, <1>6

\* execve: the keys of other groups are not touched, that of the task's own group
\* is its leader's, and only a thread's own key has nobody any more.
LEMMA ExecAccounts ==
  ASSUME TaskInv, NEW t \in Pids, NEW name \in Comms, Exec(t, name)
  PROVE  TaskInv' /\ NoKeyLost
<1> SUFFICES ASSUME NEW g, g = group[t] PROVE TaskInv' /\ NoKeyLost
  OBVIOUS
<1>1. g \in Pids /\ group[g] = g /\ t \notin exited
  BY DEF Exec, Live, TaskInv
<1>2. /\ group' = [group EXCEPT ![t] = IF g = t THEN t ELSE NoTask] /\ exited' = exited \ {g}
      /\ UNCHANGED <<watched, mirror>>
  BY DEF Exec
<1>3. /\ \A u \in Pids \ {t} : group'[u] = group[u]
      /\ g = t => group'[t] = t
      /\ g # t => group'[t] = NoTask
  BY <1>2 DEF TaskInv
<1>4. group'[g] = g
  BY <1>1, <1>3
<1>5. ASSUME NEW u \in Pids, group'[u] # NoTask PROVE group'[group'[u]] = group'[u]
  <2>1. CASE u = t
    BY <1>3, <1>4, <1>5, <2>1
  <2>2. CASE u # t
    <3>1. group'[u] = group[u] /\ group[u] \in Pids /\ group[group[u]] = group[u]
      BY <1>3, <1>5, <2>2 DEF TaskInv
    <3>2. CASE group[u] = t
      BY <1>3, <3>1, <3>2
    <3>3. CASE group[u] # t
      BY <1>3, <3>1, <3>3
    <3> QED BY <3>2, <3>3
  <2> QED BY <2>1, <2>2
<1>6. TaskInv'
  <2>1. group' \in [Pids -> Pids \cup {NoTask}]
    BY <1>2 DEF TaskInv
  <2>2. \A u \in exited' : u \in Pids /\ group'[u] = u
    BY <1>1, <1>2, <1>3 DEF TaskInv
  <2> QED BY <1>5, <2>1, <2>2 DEF TaskInv
<1>7. NoKeyLost
  <2> SUFFICES ASSUME NEW k \in watched', k \in watched => Accounted(k),
                      ~(group[k] # k /\ Exec(k, name)), k \notin mirror
               PROVE  \E u \in Pids : Live(u)' /\ k \in {u, group'[u]}
    BY <1>2 DEF NoKeyLost, Accounted
  <2>1. PICK u \in Pids : Live(u) /\ k \in {u, group[u]}
    BY <1>2 DEF Accounted
  <2>2. Live(g)'
    BY <1>1, <1>2, <1>4, NoTaskIsNoPid DEF Live
  <2>3. CASE group[u] = g
    <3>1. u = t
      BY <2>1, <2>3 DEF Exec, GroupDead
    <3>2. k = g
      BY <2>1, <3>1
    <3> QED BY <1>1, <2>2, <3>2
  <2>4. CASE group[u] # g
    <3>1. u # t /\ u # g
      BY <1>1, <2>4
    <3>2. Live(u)' /\ group'[u] = group[u]
      BY <1>2, <1>3, <2>1, <3>1 DEF Live
    <3> QED BY <2>1, <3>2
  <2> QED BY <2>3, <2>4
<1> QED BY <1>6, <1>7

\* No step of the others leaves a key behind.
LEMMA NextAccounts ==
  ASSUME TaskInv, [Next]_vars
  PROVE  TaskInv' /\ NoKeyLost
<1>1. ASSUME NEW p \in Pids, Spawn(p) PROVE TaskInv' /\ NoKeyLost
  <2>1. UNCHANGED <<watched, mirror>> /\ TaskInv' /\ LivesOn
    BY <1>1, NewTask DEF Spawn
  <2> QED BY <2>1, NewKey
<1>2. ASSUME NEW t \in Pids, NEW p \in Pids, Fork(t, p) PROVE TaskInv' /\ NoKeyLost
  <2>1. TaskInv' /\ LivesOn /\ Live(p)'
    BY <1>2, NewTask DEF Fork
  <2>2. watched' \in {watched, watched \cup {p}} /\ mirror' = mirror
    BY <1>2, InheritedKeys DEF Fork
  <2>3. Accounted(p)'
    BY <2>1 DEF Accounted
  <2> QED BY <2>1, <2>2, <2>3, NewKey
<1>3. ASSUME NEW t \in Pids, NEW c \in Pids, CloneThread(t, c) PROVE TaskInv' /\ NoKeyLost
  <2>1. group[t] \in Pids /\ group[group[t]] = group[t]
    BY <1>3 DEF CloneThread, Live, TaskInv
  <2>2. TaskInv' /\ LivesOn /\ Live(c)'
    BY <1>3, <2>1, NewTask DEF CloneThread
  <2>3. watched' \in {watched, watched \cup {c}} /\ mirror' = mirror
    BY <1>3, InheritedKeys DEF CloneThread
  <2>4. Accounted(c)'
    BY <2>2 DEF Accounted
  <2> QED BY <2>2, <2>3, <2>4, NewKey
<1>4. ASSUME NEW p \in Pids, Reap(p) PROVE TaskInv' /\ NoKeyLost
  <2>1. /\ group' = [group EXCEPT ![p] = NoTask] /\ exited' = exited \ {p} /\ p \in exited
        /\ (\A u \in Pids \ {p} : group[u] # p) /\ UNCHANGED <<watched, mirror>>
    BY <1>4 DEF Reap
  <2>2. ASSUME NEW u \in Pids, group'[u] # NoTask PROVE group'[group'[u]] = group'[u]
    <3>1. u # p /\ group'[u] = group[u]
      BY <2>1, <2>2 DEF TaskInv
    <3>2. group[u] \in Pids \ {p} /\ group[group[u]] = group[u]
      BY <2>1, <2>2, <3>1 DEF TaskInv
    <3> QED BY <2>1, <3>1, <3>2 DEF TaskInv
  <2>3. TaskInv'
    BY <2>1, <2>2 DEF TaskInv
  <2>4. \A u \in Pids : Live(u) => u # p
    BY <2>1 DEF Live
  <2>5. LivesOn
    BY <2>1, <2>4 DEF LivesOn, Live, TaskInv
  <2> QED BY <2>1, <2>3, <2>5, NewKey
<1>5. ASSUME UNCHANGED <<group, exited>> PROVE LivesOn /\ TaskInv'
  BY <1>5 DEF LivesOn, Live, TaskInv
<1>6. ASSUME NEW p \in Pids, Watch(p) PROVE TaskInv' /\ NoKeyLost
  <2>1. UNCHANGED <<group, exited>>
    BY <1>6 DEF Watch, tasks
  <2>2. \/ watched' = watched \cup {p} /\ mirror' = mirror \cup {p}
        \/ UNCHANGED <<watched, mirror>>
    BY <1>6 DEF Watch
  <2>3. p \in mirror' => Accounted(p)'
    BY DEF Accounted
  <2> QED BY <1>5, <2>1, <2>2, <2>3, NewKey
<1>7. ASSUME NEW p \in Pids, Unwatch(p) PROVE TaskInv' /\ NoKeyLost
  <2>1. UNCHANGED <<group, exited>> /\ watched' = watched \ {p} /\ mirror' = mirror \ {p}
    BY <1>7 DEF Unwatch, tasks
  <2>2. NoKeyLost
    BY <2>1 DEF NoKeyLost, Accounted, Live
  <2> QED BY <1>5, <2>1, <2>2
<1>8. ASSUME UNCHANGED <<group, exited, watched, mirror>> PROVE TaskInv' /\ NoKeyLost
  BY <1>5, <1>8, NewKey
<1>9. \/ UNCHANGED <<group, exited, watched, mirror>>
      \/ \E p \in Pids : Spawn(p) \/ Exit(p) \/ Reap(p) \/ Watch(p) \/ Unwatch(p)
      \/ \E t, p \in Pids : Fork(t, p) \/ CloneThread(t, p)
      \/ \E t \in Pids, name \in Comms : Exec(t, name)
  BY DEF Next, Refresh, vars, tasks, Rename, Emit, Attribute, BeginRefresh, ReadComm, EndRefresh
<1> QED BY <1>1, <1>2, <1>3, <1>4, <1>6, <1>7, <1>8, <1>9, ExitAccounts, ExecAccounts

\* Whatever the pids, their reuse, the order of exits and the size of the map: a key
\* of the map of watched pids has somebody who will remove it from the moment it is
\* there, until it is removed or its task, a thread that is not the leader, calls
\* execve (trace_process_fork, trace_process_exit, syncWatched).
THEOREM NoKeyIsLeft == Spec => KeysAreAccounted
<1>1. TaskInv /\ [Next]_vars => TaskInv' /\ [NoKeyLost]_vars
  BY NextAccounts
<1> QED BY <1>1, InitTasks, PTL DEF Spec, KeysAreAccounted

-----------------------------------------------------------------------------
(* Destinations.                                                           *)

\* What a reader makes of up to five decimal digits.
Read(s) ==
  LET d(i) == s[i] - 48 IN
  IF Len(s) = 1 THEN d(1)
  ELSE IF Len(s) = 2 THEN 10 * d(1) + d(2)
  ELSE IF Len(s) = 3 THEN 100 * d(1) + 10 * d(2) + d(3)
  ELSE IF Len(s) = 4 THEN 1000 * d(1) + 100 * d(2) + 10 * d(3) + d(4)
  ELSE 10000 * d(1) + 1000 * d(2) + 100 * d(3) + 10 * d(4) + d(5)

IsDecimal(s, v) ==
  /\ s \in Seq(48..57) /\ Len(s) \in 1..5
  /\ Read(s) = v
  /\ v > 0 => s[1] # 48

\* A digit is an ASCII digit.
LEMMA DigitType == ASSUME NEW d \in 0..9 PROVE Digit(d) \in 48..57
BY DEF Digit

\* Every byte is rendered as the decimal number it is, without a leading zero
\* (put_u8_dec).
THEOREM BytesReadBack == \A v \in Byte : IsDecimal(PutU8Dec(v), v)
<1> SUFFICES ASSUME NEW v \in Nat, v < 256 PROVE IsDecimal(PutU8Dec(v), v)
  BY DEF Byte
<1>1. CASE v >= 100
  <2> DEFINE h == v \div 100
             t == (v \div 10) % 10
             o == v % 10
  <2>1. h \in 1..9 /\ t \in 0..9 /\ o \in 0..9 /\ 100 * h + 10 * t + o = v
    BY <1>1
  <2>2. PutU8Dec(v) = <<48 + h, 48 + t, 48 + o>>
    BY <1>1 DEF PutU8Dec, Digit
  <2> HIDE DEF h, t, o
  <2> QED BY <2>1, <2>2 DEF IsDecimal, Read
<1>2. CASE v < 100 /\ v >= 10
  <2> DEFINE t == v \div 10
             o == v % 10
  <2>1. t \in 1..9 /\ o \in 0..9 /\ 10 * t + o = v
    BY <1>2
  <2>2. PutU8Dec(v) = <<48 + t, 48 + o>>
    BY <1>2 DEF PutU8Dec, Digit
  <2> HIDE DEF t, o
  <2> QED BY <2>1, <2>2 DEF IsDecimal, Read
<1>3. CASE v < 10
  <2>1. PutU8Dec(v) = <<48 + v>>
    BY <1>3 DEF PutU8Dec, Digit
  <2>2. v \in 0..9
    BY <1>3
  <2> QED BY <2>1, <2>2 DEF IsDecimal, Read
<1> QED BY <1>1, <1>2, <1>3

\* The digits of a word are those of the decimal number.
LEMMA DecimalDigits ==
  ASSUME NEW v \in Nat, v < 65536
  PROVE  v = DigitAt(v, 1) + 10 * DigitAt(v, 10) + 100 * DigitAt(v, 100)
             + 1000 * DigitAt(v, 1000) + 10000 * DigitAt(v, 10000)
<1>1. v = 10 * (v \div 10) + DigitAt(v, 1)
  BY DEF DigitAt
<1>2. v \div 10 = 10 * (v \div 100) + DigitAt(v, 10)
  BY DEF DigitAt
<1>3. v \div 100 = 10 * (v \div 1000) + DigitAt(v, 100)
  BY DEF DigitAt
<1>4. v \div 1000 = 10 * (v \div 10000) + DigitAt(v, 1000)
  BY DEF DigitAt
<1>5. v \div 10000 = DigitAt(v, 10000)
  BY DEF DigitAt
<1>6. /\ DigitAt(v, 1) \in Int /\ DigitAt(v, 10) \in Int /\ DigitAt(v, 100) \in Int
      /\ DigitAt(v, 1000) \in Int /\ DigitAt(v, 10000) \in Int
  BY DEF DigitAt
<1>7. /\ v \in Int /\ v \div 10 \in Int /\ v \div 100 \in Int
      /\ v \div 1000 \in Int /\ v \div 10000 \in Int
  OBVIOUS
<1> QED BY <1>1, <1>2, <1>3, <1>4, <1>5, <1>6, <1>7

\* One decimal place of a word is a digit.
LEMMA DigitAtType ==
  ASSUME NEW v \in Nat, v < 65536, NEW p \in {1, 10, 100, 1000, 10000}
  PROVE  DigitAt(v, p) \in 0..9
BY DEF DigitAt

\* Above a word's number of digits there are zeros, and its first one is not.
LEMMA LeadingDigit ==
  ASSUME NEW v \in Nat, v < 65536
  PROVE  /\ v < 10 => DigitAt(v, 10) = 0
         /\ v < 100 => DigitAt(v, 100) = 0
         /\ v < 1000 => DigitAt(v, 1000) = 0
         /\ v < 10000 => DigitAt(v, 10000) = 0
         /\ v >= 10 /\ v < 100 => DigitAt(v, 10) # 0
         /\ v >= 100 /\ v < 1000 => DigitAt(v, 100) # 0
         /\ v >= 1000 /\ v < 10000 => DigitAt(v, 1000) # 0
         /\ v >= 10000 => DigitAt(v, 10000) # 0
<1>1. v < 10 => DigitAt(v, 10) = 0
  <2>1. v < 10 => v \div 10 = 0
    OBVIOUS
  <2> QED BY <2>1 DEF DigitAt
<1>2. v < 100 => DigitAt(v, 100) = 0
  <2>1. v < 100 => v \div 100 = 0
    OBVIOUS
  <2> QED BY <2>1 DEF DigitAt
<1>3. v < 1000 => DigitAt(v, 1000) = 0
  <2>1. v < 1000 => v \div 1000 = 0
    OBVIOUS
  <2> QED BY <2>1 DEF DigitAt
<1>4. v < 10000 => DigitAt(v, 10000) = 0
  <2>1. v < 10000 => v \div 10000 = 0
    OBVIOUS
  <2> QED BY <2>1 DEF DigitAt
<1>5. v >= 10 /\ v < 100 => DigitAt(v, 10) # 0
  <2> SUFFICES ASSUME v >= 10, v < 100 PROVE DigitAt(v, 10) # 0
    OBVIOUS
  <2>1. v \div 10 \in 1..9
    OBVIOUS
  <2> QED BY <2>1 DEF DigitAt
<1>6. v >= 100 /\ v < 1000 => DigitAt(v, 100) # 0
  <2> SUFFICES ASSUME v >= 100, v < 1000 PROVE DigitAt(v, 100) # 0
    OBVIOUS
  <2>1. v \div 100 \in 1..9
    OBVIOUS
  <2> QED BY <2>1 DEF DigitAt
<1>7. v >= 1000 /\ v < 10000 => DigitAt(v, 1000) # 0
  <2> SUFFICES ASSUME v >= 1000, v < 10000 PROVE DigitAt(v, 1000) # 0
    OBVIOUS
  <2>1. v \div 1000 \in 1..9
    OBVIOUS
  <2> QED BY <2>1 DEF DigitAt
<1>8. v >= 10000 => DigitAt(v, 10000) # 0
  <2> SUFFICES ASSUME v >= 10000 PROVE DigitAt(v, 10000) # 0
    OBVIOUS
  <2>1. v \div 10000 \in 1..9
    OBVIOUS
  <2> QED BY <2>1 DEF DigitAt
<1> QED BY <1>1, <1>2, <1>3, <1>4, <1>5, <1>6, <1>7, <1>8

\* Every port is rendered as the decimal number it is, without a leading zero
\* (put_u16_dec).
THEOREM PortsReadBack == \A v \in Word : IsDecimal(PutU16Dec(v), v)
<1> SUFFICES ASSUME NEW v \in Nat, v < 65536, NEW s, s = PutU16Dec(v) PROVE IsDecimal(s, v)
  BY DEF Word
<1> DEFINE D(p) == DigitAt(v, p)
<1>1. v = D(1) + 10 * D(10) + 100 * D(100) + 1000 * D(1000) + 10000 * D(10000)
  BY DecimalDigits
<1>2. \A p \in {1, 10, 100, 1000, 10000} : D(p) \in 0..9
  BY DigitAtType
<1>3. s = [i \in 1..Digits(v) |-> 48 + D(Power[Digits(v) + 1 - i])]
  BY DEF PutU16Dec, Digit
<1>4. Power[1] = 1 /\ Power[2] = 10 /\ Power[3] = 100 /\ Power[4] = 1000 /\ Power[5] = 10000
  BY DEF Power
<1>5. \A n \in 1..5 : \A i \in 1..n : Power[n + 1 - i] \in {1, 10, 100, 1000, 10000}
  BY <1>4
<1>6. Digits(v) \in 1..5
  BY DEF Digits
<1>7. s \in Seq(48..57) /\ Len(s) = Digits(v)
  <2>1. \A i \in 1..Digits(v) : 48 + D(Power[Digits(v) + 1 - i]) \in 48..57
    BY <1>2, <1>5, <1>6
  <2> DEFINE c(i) == 48 + D(Power[Digits(v) + 1 - i])
  <2>2. s = [i \in 1..Digits(v) |-> c(i)] /\ \A i \in 1..Digits(v) : c(i) \in 48..57
    BY <1>3, <2>1
  <2> DEFINE n == Digits(v)
  <2>3. n \in Nat
    BY <1>6
  <2> HIDE DEF c, n
  <2>4. \A i \in 1..n : s[i] \in 48..57
    BY <2>2 DEF n
  <2>5. s = [i \in 1..n |-> s[i]]
    BY <2>2 DEF n
  <2>6. s \in Seq(48..57) /\ Len(s) = n
    BY <2>3, <2>4, <2>5
  <2> QED BY <2>6 DEF n
<1>8. CASE v >= 10000
  <2>1. Digits(v) = 5
    BY <1>8 DEF Digits
  <2>2. D(10000) # 0
    BY <1>8, LeadingDigit
  <2> HIDE DEF D
  <2>3. s = [i \in 1..5 |-> 48 + D(Power[6 - i])]
    BY <1>3, <2>1
  <2>4. /\ s[1] = 48 + D(10000) /\ s[2] = 48 + D(1000) /\ s[3] = 48 + D(100)
        /\ s[4] = 48 + D(10) /\ s[5] = 48 + D(1)
    BY <1>4, <2>3
  <2>5. /\ s[1] - 48 = D(10000) /\ s[2] - 48 = D(1000) /\ s[3] - 48 = D(100)
        /\ s[4] - 48 = D(10) /\ s[5] - 48 = D(1)
    BY <1>2, <2>4
  <2>6. Read(s) = v
    <3>1. Read(s) = 10000 * D(10000) + 1000 * D(1000) + 100 * D(100) + 10 * D(10) + D(1)
      BY <1>7, <2>1, <2>5 DEF Read
    <3>2. \A p \in {1, 10, 100, 1000, 10000} : D(p) \in Int
      BY <1>2
    <3> QED BY <1>1, <2>2, <3>1, <3>2
  <2>7. v > 0 => s[1] # 48
    BY <1>1, <1>2, <2>2, <2>4
  <2> QED BY <1>7, <2>1, <2>6, <2>7 DEF IsDecimal
<1>9. CASE v < 10000 /\ v >= 1000
  <2>1. Digits(v) = 4
    BY <1>9 DEF Digits
  <2>2. D(1000) # 0 /\ D(10000) = 0
    BY <1>9, LeadingDigit
  <2> HIDE DEF D
  <2>3. s = [i \in 1..4 |-> 48 + D(Power[5 - i])]
    BY <1>3, <2>1
  <2>4. /\ s[1] = 48 + D(1000) /\ s[2] = 48 + D(100) /\ s[3] = 48 + D(10)
        /\ s[4] = 48 + D(1)
    BY <1>4, <2>3
  <2>5. /\ s[1] - 48 = D(1000) /\ s[2] - 48 = D(100) /\ s[3] - 48 = D(10)
        /\ s[4] - 48 = D(1)
    BY <1>2, <2>4
  <2>6. Read(s) = v
    <3>1. Read(s) = 1000 * D(1000) + 100 * D(100) + 10 * D(10) + D(1)
      BY <1>7, <2>1, <2>5 DEF Read
    <3>2. \A p \in {1, 10, 100, 1000, 10000} : D(p) \in Int
      BY <1>2
    <3> QED BY <1>1, <2>2, <3>1, <3>2
  <2>7. v > 0 => s[1] # 48
    BY <1>1, <1>2, <2>2, <2>4
  <2> QED BY <1>7, <2>1, <2>6, <2>7 DEF IsDecimal
<1>10. CASE v < 1000 /\ v >= 100
  <2>1. Digits(v) = 3
    BY <1>10 DEF Digits
  <2>2. D(100) # 0 /\ D(1000) = 0 /\ D(10000) = 0
    BY <1>10, LeadingDigit
  <2> HIDE DEF D
  <2>3. s = [i \in 1..3 |-> 48 + D(Power[4 - i])]
    BY <1>3, <2>1
  <2>4. s[1] = 48 + D(100) /\ s[2] = 48 + D(10) /\ s[3] = 48 + D(1)
    BY <1>4, <2>3
  <2>5. Read(s) = 100 * (s[1] - 48) + 10 * (s[2] - 48) + (s[3] - 48)
    BY <1>7, <2>1 DEF Read
  <2>6. Read(s) = v
    BY <1>1, <1>2, <2>2, <2>4, <2>5
  <2>7. v > 0 => s[1] # 48
    BY <1>1, <1>2, <2>2, <2>4
  <2> QED BY <1>7, <2>1, <2>6, <2>7 DEF IsDecimal
<1>11. CASE v < 100 /\ v >= 10
  <2>1. Digits(v) = 2
    BY <1>11 DEF Digits
  <2>2. D(10) # 0 /\ D(100) = 0 /\ D(1000) = 0 /\ D(10000) = 0
    BY <1>11, LeadingDigit
  <2> HIDE DEF D
  <2>3. s = [i \in 1..2 |-> 48 + D(Power[3 - i])]
    BY <1>3, <2>1
  <2>4. s[1] = 48 + D(10) /\ s[2] = 48 + D(1)
    BY <1>4, <2>3
  <2>5. Read(s) = 10 * (s[1] - 48) + (s[2] - 48)
    BY <1>7, <2>1 DEF Read
  <2>6. Read(s) = v
    BY <1>1, <1>2, <2>2, <2>4, <2>5
  <2>7. v > 0 => s[1] # 48
    BY <1>1, <1>2, <2>2, <2>4
  <2> QED BY <1>7, <2>1, <2>6, <2>7 DEF IsDecimal
<1>12. CASE v < 10
  <2>1. Digits(v) = 1
    BY <1>12 DEF Digits
  <2>2. D(10) = 0 /\ D(100) = 0 /\ D(1000) = 0 /\ D(10000) = 0
    BY <1>12, LeadingDigit
  <2> HIDE DEF D
  <2>3. s = [i \in 1..1 |-> 48 + D(Power[2 - i])]
    BY <1>3, <2>1
  <2>4. s[1] = 48 + D(1)
    BY <1>4, <2>3
  <2>5. Read(s) = (s[1] - 48)
    BY <1>7, <2>1 DEF Read
  <2>6. Read(s) = v
    BY <1>1, <1>2, <2>2, <2>4, <2>5
  <2>7. v > 0 => s[1] # 48
    BY <1>1, <1>2, <2>2, <2>4
  <2> QED BY <1>7, <2>1, <2>6, <2>7 DEF IsDecimal
<1> QED BY <1>8, <1>9, <1>10, <1>11, <1>12

\* A byte takes three characters at most, a port five.
LEMMA DecimalLengths ==
  /\ \A v \in Byte : PutU8Dec(v) \in Seq(Nat) /\ Len(PutU8Dec(v)) <= 3
  /\ \A v \in Word : PutU16Dec(v) \in Seq(Nat) /\ Len(PutU16Dec(v)) <= 5
<1>1. \A s : s \in Seq(48..57) => s \in Seq(Nat)
  OBVIOUS
<1>2. ASSUME NEW v \in Byte PROVE PutU8Dec(v) \in Seq(Nat) /\ Len(PutU8Dec(v)) <= 3
  <2>1. PutU8Dec(v) \in Seq(48..57)
    BY BytesReadBack DEF IsDecimal
  <2>2. Len(PutU8Dec(v)) <= 3
    BY DEF PutU8Dec
  <2> QED BY <1>1, <2>1, <2>2
<1>3. ASSUME NEW v \in Word PROVE PutU16Dec(v) \in Seq(Nat) /\ Len(PutU16Dec(v)) <= 5
  <2>1. PutU16Dec(v) \in Seq(48..57) /\ Len(PutU16Dec(v)) \in 1..5
    BY PortsReadBack DEF IsDecimal
  <2>2. \A n \in 1..5 : n <= 5
    OBVIOUS
  <2>3. Len(PutU16Dec(v)) <= 5
    BY <2>1, <2>2
  <2> QED BY <1>1, <2>1, <2>3
<1> QED BY <1>2, <1>3

\* No destination wraps around the buffer, whose index is only masked (PUT,
\* ARG_MASK): with its final zero it fits whatever the address and the port.
THEOREM DestinationFits ==
  /\ \A a, b, c, d \in Byte, port \in Word : Len(IPv4(a, b, c, d, port)) < PathMaxLen
  /\ \A addr \in [1..16 -> Byte], port \in Word : Len(IPv6(addr, port)) < PathMaxLen
<1> DEFINE Short(s, n) == s \in Seq(Nat) /\ Len(s) <= n
<1>1. ASSUME NEW s, NEW t, NEW m \in Nat, NEW n \in Nat, Short(s, m), Short(t, n)
      PROVE  Short(s \o t, m + n)
  BY <1>1
<1>2. Short(<<Dot>>, 1) /\ Short(<<Colon>>, 1) /\ Short(<<OpenBracket>>, 1)
      /\ Short(<<CloseBracket, Colon>>, 2)
  BY DEF Dot, Colon, OpenBracket, CloseBracket
<1>3. \A v \in Byte : Short(PutU8Dec(v), 3)
  BY DecimalLengths
<1>4. \A v \in Word : Short(PutU16Dec(v), 5)
  BY DecimalLengths
<1>5. ASSUME NEW a \in Byte, NEW b \in Byte, NEW c \in Byte, NEW d \in Byte, NEW port \in Word
      PROVE  Len(IPv4(a, b, c, d, port)) < PathMaxLen
  <2>1. /\ Short(PutU8Dec(a), 3) /\ Short(PutU8Dec(b), 3) /\ Short(PutU8Dec(c), 3)
        /\ Short(PutU8Dec(d), 3) /\ Short(PutU16Dec(port), 5)
    <3> HIDE DEF Short
    <3> QED BY <1>3, <1>4
  <2> HIDE DEF Short
  <2> DEFINE s1 == PutU8Dec(a) \o <<Dot>>
             s2 == s1 \o PutU8Dec(b)
             s3 == s2 \o <<Dot>>
             s4 == s3 \o PutU8Dec(c)
             s5 == s4 \o <<Dot>>
             s6 == s5 \o PutU8Dec(d)
             s7 == s6 \o <<Colon>>
  <2>2. Short(s1, 4) BY <1>1, <1>2, <2>1
  <2>3. Short(s2, 7) BY <1>1, <2>1, <2>2
  <2>4. Short(s3, 8) BY <1>1, <1>2, <2>3
  <2>5. Short(s4, 11) BY <1>1, <2>1, <2>4
  <2>6. Short(s5, 12) BY <1>1, <1>2, <2>5
  <2>7. Short(s6, 15) BY <1>1, <2>1, <2>6
  <2>8. Short(s7, 16) BY <1>1, <1>2, <2>7
  <2>9. Short(s7 \o PutU16Dec(port), 21) BY <1>1, <2>1, <2>8
  <2> QED BY <2>9 DEF Short, IPv4, PathMaxLen
<1>6. ASSUME NEW addr \in [1..16 -> Byte], NEW port \in Word
      PROVE  Len(IPv6(addr, port)) < PathMaxLen
  <2>1. Short(HexGroups(addr), 39) /\ Short(PutU16Dec(port), 5)
    <3>1. \A d \in 0..15 : HexDigit(d) \in Nat
      BY DEF HexDigit
    <3>2. \A byte \in Byte : byte \div 16 \in 0..15 /\ byte % 16 \in 0..15
      BY DEF Byte
    <3>3. \A i \in 1..39 : LET n == IF i % 5 \in {1, 2} THEN 1 ELSE 2 IN
                           2 * ((i - 1) \div 5) + n \in 1..16
      OBVIOUS
    <3>4. \A i \in 1..39 : HexChar(addr, i) \in Nat
      BY <3>1, <3>2, <3>3 DEF HexChar, Colon
    <3>5. Short(HexGroups(addr), 39)
      BY <3>4 DEF HexGroups
    <3> HIDE DEF Short
    <3> QED BY <3>5, <1>4
  <2> HIDE DEF Short
  <2> DEFINE s1 == <<OpenBracket>> \o HexGroups(addr)
             s2 == s1 \o <<CloseBracket, Colon>>
  <2>2. Short(s1, 40) BY <1>1, <1>2, <2>1
  <2>3. Short(s2, 42) BY <1>1, <1>2, <2>2
  <2>4. Short(s2 \o PutU16Dec(port), 47) BY <1>1, <2>1, <2>3
  <2> QED BY <2>4 DEF Short, IPv6, PathMaxLen
<1> QED BY <1>5, <1>6
=============================================================================
