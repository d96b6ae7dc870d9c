------------------------------ MODULE EventPath ------------------------------
(***************************************************************************)
(* The way of an event from a program in the kernel to the collector: the  *)
(* ring buffer, the reader, a channel, the sender's buffer, the request    *)
(* under way and the spool of what a collector did not take.  An event is  *)
(* the number under which it entered the ring buffer.                      *)
(***************************************************************************)
EXTENDS Naturals, Sequences

CONSTANTS
  Cpus,         \* programs that may be running at once
  RingSize,     \* records the ring buffer holds (16 MiB)
  ChannelSize,  \* capacity of the channel (8192)
  FlushAt,      \* length at which the buffer is flushed (5000)
  SpoolCap,     \* capacity of the spool (50000)
  MaxEvents     \* bound of the events of a behavior

ASSUME SizeAssumption ==
  /\ RingSize \in Nat \ {0} /\ ChannelSize \in Nat \ {0}
  /\ FlushAt \in Nat \ {0} /\ SpoolCap \in Nat \ {0}
  /\ MaxEvents \in Nat

VARIABLES
  emitted,    \* events the programs were to report
  ring,       \* records, in the order in which they were reserved
  writing,    \* per CPU, the record it has reserved and not submitted, or 0
  drops,      \* counters "drops" and "deny_event_drops" of the kernel
  tracing,    \* the programs are attached and the reader is open
  hand,       \* the event readEvents holds, or 0
  channel,    \* events sent to sendBatches
  closed,     \* readEvents has returned and closed the channel
  chanDrops,  \* events that found the channel full
  sender,     \* where sendBatches is
  buffer,     \* its local buffer
  flight,     \* the events of the request under way
  spool,      \* Spool.buf
  evicted,    \* goodman_sensor_spool_dropped_total
  acked,      \* events a collector has answered 200 to
  cancelled   \* ctx.Done

kernel == <<emitted, ring, writing, drops>>
reader == <<tracing, hand, closed, chanDrops>>
sending == <<sender, buffer, flight, spool, evicted, acked>>
vars == <<kernel, reader, channel, sending, cancelled>>

Init ==
  /\ emitted = 0 /\ ring = <<>>
  /\ writing = [c \in Cpus |-> 0]
  /\ drops = [trace |-> 0, deny |-> 0]
  /\ tracing = TRUE /\ hand = 0
  /\ channel = <<>> /\ closed = FALSE /\ chanDrops = 0
  /\ sender = "select" /\ buffer = <<>> /\ flight = <<>> /\ spool = <<>>
  /\ evicted = 0 /\ acked = 0
  /\ cancelled = FALSE

-----------------------------------------------------------------------------
(* The kernel.  A record is reserved, filled and submitted; the reader sees  *)
(* records in the order of reservation and stops at one not yet submitted.   *)

\* reserve_event and emit_deny: a full ring costs the event, and only a
\* counter tells.
Reserve(c, kind) ==
  /\ tracing /\ emitted < MaxEvents /\ writing[c] = 0
  /\ emitted' = emitted + 1
  /\ IF Len(ring) < RingSize
     THEN /\ ring' = Append(ring, [id |-> emitted', ready |-> FALSE])
          /\ writing' = [writing EXCEPT ![c] = emitted']
          /\ UNCHANGED drops
     ELSE drops' = [drops EXCEPT ![kind] = @ + 1] /\ UNCHANGED <<ring, writing>>
  /\ UNCHANGED <<reader, channel, sending, cancelled>>

Submit(c) ==
  /\ writing[c] # 0
  /\ ring' = [i \in 1..Len(ring) |->
                IF ring[i].id = writing[c] THEN [ring[i] EXCEPT !.ready = TRUE] ELSE ring[i]]
  /\ writing' = [writing EXCEPT ![c] = 0]
  /\ UNCHANGED <<emitted, drops, reader, channel, sending, cancelled>>

-----------------------------------------------------------------------------
(* readEvents, one goroutine that never waits for the network. *)

Read ==
  /\ tracing /\ hand = 0 /\ ring # <<>> /\ Head(ring).ready
  /\ hand' = Head(ring).id
  /\ ring' = Tail(ring)
  /\ UNCHANGED <<emitted, writing, drops, tracing, closed, chanDrops, channel, sending, cancelled>>

\* Mutant: an event that finds the channel full is not counted.
SendSilently ==
  /\ hand # 0
  /\ hand' = 0
  /\ channel' = IF Len(channel) < ChannelSize THEN Append(channel, hand) ELSE channel
  /\ UNCHANGED <<kernel, tracing, closed, chanDrops, sending, cancelled>>

Send ==
  /\ hand # 0
  /\ hand' = 0
  /\ IF Len(channel) < ChannelSize
     THEN channel' = Append(channel, hand) /\ UNCHANGED chanDrops
     ELSE chanDrops' = chanDrops + 1 /\ UNCHANGED channel
  /\ UNCHANGED <<kernel, tracing, closed, sending, cancelled>>

\* Loader.Close wakes the reader with ErrClosed, detaches the programs and
\* closes the maps: the records nobody has read go with the ring buffer, and
\* no counter tells.
Close ==
  /\ cancelled /\ tracing
  /\ tracing' = FALSE
  /\ ring' = <<>>
  /\ UNCHANGED <<emitted, writing, drops, hand, closed, chanDrops, channel, sending, cancelled>>

ReaderReturns ==
  /\ ~tracing /\ hand = 0 /\ ~closed
  /\ closed' = TRUE
  /\ UNCHANGED <<kernel, tracing, hand, chanDrops, channel, sending, cancelled>>

-----------------------------------------------------------------------------
(* sendBatches, one goroutine that waits for each request to end. *)

\* Mutant: the new events go before those that have waited.
FlushNewFirst(events, last) ==
  /\ flight' = events \o spool
  /\ spool' = <<>> /\ buffer' = <<>>
  /\ sender' = IF last THEN "lastPost" ELSE "post"
  /\ UNCHANGED <<evicted, acked>>

\* flush takes the spool and the buffer; with nothing to send it posts a
\* heartbeat, which changes nothing here but that the sender waits for it.
Flush(events, last) ==
  /\ flight' = spool \o events
  /\ spool' = <<>> /\ buffer' = <<>>
  /\ sender' = IF last THEN "lastPost" ELSE "post"
  /\ UNCHANGED <<evicted, acked>>

Receive ==
  /\ sender = "select" /\ channel # <<>>
  /\ channel' = Tail(channel)
  /\ LET events == Append(buffer, Head(channel)) IN
     IF Len(events) < FlushAt
     THEN buffer' = events /\ UNCHANGED <<sender, flight, spool, evicted, acked>>
     ELSE Flush(events, FALSE)
  /\ UNCHANGED <<kernel, reader, cancelled>>

\* Mutant: nothing new, nothing to send.
TickerIfBuffered ==
  /\ sender = "select" /\ buffer # <<>>
  /\ Flush(buffer, FALSE)
  /\ UNCHANGED <<kernel, reader, channel, cancelled>>

Ticker ==
  /\ sender = "select"
  /\ Flush(buffer, FALSE)
  /\ UNCHANGED <<kernel, reader, channel, cancelled>>

\* ctx.Done, or the channel is closed and drained: a last flush.
LastFlush ==
  /\ sender = "select"
  /\ cancelled \/ (closed /\ channel = <<>>)
  /\ Flush(buffer, TRUE)
  /\ UNCHANGED <<kernel, reader, channel, cancelled>>

Posted == sender' = IF sender = "lastPost" THEN "returned" ELSE "select"

PostOk ==
  /\ sender \in {"post", "lastPost"}
  /\ Posted
  /\ acked' = acked + Len(flight)
  /\ flight' = <<>>
  /\ UNCHANGED <<kernel, reader, channel, buffer, spool, evicted, cancelled>>

\* Mutant: the bound is that of each push, not of what is there.
OverflowOfPush == IF Len(buffer) > SpoolCap THEN Len(buffer) - SpoolCap ELSE 0

\* Events that did not fit into the spool, the oldest ones.
Overflow == IF Len(flight) > SpoolCap THEN Len(flight) - SpoolCap ELSE 0

\* Mutant: the newest events are given up.
PostFailsKeepsOld ==
  /\ sender \in {"post", "lastPost"}
  /\ Posted
  /\ spool' = SubSeq(flight, 1, Len(flight) - Overflow)
  /\ evicted' = evicted + Overflow
  /\ flight' = <<>>
  /\ UNCHANGED <<kernel, reader, channel, buffer, acked, cancelled>>

\* recordFailure and Spool.Push, into a spool that TakeAll has emptied.
PostFails ==
  /\ sender \in {"post", "lastPost"}
  /\ Posted
  /\ spool' = SubSeq(flight, Overflow + 1, Len(flight))
  /\ evicted' = evicted + Overflow
  /\ flight' = <<>>
  /\ UNCHANGED <<kernel, reader, channel, buffer, acked, cancelled>>

\* SIGTERM.
Cancel ==
  /\ ~cancelled
  /\ cancelled' = TRUE
  /\ UNCHANGED <<kernel, reader, channel, sending>>

-----------------------------------------------------------------------------
(* The end of the process. *)

Running == sender # "ended"

\* What the process and its maps held is lost, and no counter tells: the spool
\* is in memory only.
Ends ==
  /\ sender' = "ended"
  /\ tracing' = FALSE /\ ring' = <<>>
  /\ hand' = 0 /\ channel' = <<>>
  /\ buffer' = <<>> /\ flight' = <<>> /\ spool' = <<>>
  /\ UNCHANGED <<emitted, writing, drops, closed, chanDrops, evicted, acked, cancelled>>

\* runSensor returns after sendBatches, without a look at the channel; until
\* then the other goroutines go on.
ProcessEnds == sender = "returned" /\ Ends

\* SIGKILL, or out of memory: at any moment.
Killed == Ends

Next ==
  /\ Running
  /\ \/ \E c \in Cpus : \E kind \in {"trace", "deny"} : Reserve(c, kind)
     \/ \E c \in Cpus : Submit(c)
     \/ Read
     \/ Send
     \/ Close
     \/ ReaderReturns
     \/ Receive
     \/ Ticker
     \/ LastFlush
     \/ PostOk
     \/ PostFails
     \/ Cancel
     \/ ProcessEnds
     \/ Killed

Spec == Init /\ [][Next]_vars

\* A program that runs ends, a goroutine that can run does, select serves each
\* of its cases from time to time, and of infinitely many requests infinitely
\* many succeed.
FairSpec ==
  /\ Spec
  /\ \A c \in Cpus : WF_vars(Running /\ Submit(c))
  /\ WF_vars(Running /\ Read)
  /\ WF_vars(Running /\ Send)
  /\ SF_vars(Running /\ Receive)
  /\ SF_vars(Running /\ Ticker)
  /\ WF_vars(Running /\ (PostOk \/ PostFails))
  /\ SF_vars(Running /\ PostOk)

-----------------------------------------------------------------------------
\* The numbers an event may have.
Numbers == 1..MaxEvents

TypeOK ==
  /\ emitted \in Nat
  /\ ring \in Seq([id : Numbers, ready : BOOLEAN])
  /\ writing \in [Cpus -> Nat]
  /\ drops \in [trace : Nat, deny : Nat]
  /\ tracing \in BOOLEAN /\ closed \in BOOLEAN /\ cancelled \in BOOLEAN
  /\ hand \in 0..MaxEvents /\ chanDrops \in Nat /\ evicted \in Nat /\ acked \in Nat
  /\ channel \in Seq(Numbers) /\ buffer \in Seq(Numbers)
  /\ flight \in Seq(Numbers) /\ spool \in Seq(Numbers)
  /\ sender \in {"select", "post", "lastPost", "returned", "ended"}

\* What the sender answers for.
Backlog == spool \o flight \o buffer

InHand == IF hand = 0 THEN <<>> ELSE <<hand>>

InRing == [i \in 1..Len(ring) |-> ring[i].id]

\* Every event the sensor holds, the next to be sent first.
Held == Backlog \o (channel \o (InHand \o InRing))

\* All that the counters have of events the sensor no longer holds: what was
\* dropped at a full ring buffer, channel or spool, and what was acknowledged.
Counted == drops.trace + drops.deny + chanDrops + evicted + acked

\* The memory of a sensor, in events.
Capacity == RingSize + ChannelSize + 1 + SpoolCap + FlushAt

\* A sensor that is not told to stop loses no event without a trace: whatever
\* the kernel was to report is held somewhere, acknowledged, or in a counter
\* (reserve_event, emit_deny, readEvents, recordFailure; docs/performance.md,
\* "it sheds load and reports it").  The end of a process is in no counter
\* (Loader.Close, runSensor), and costs at most what fits into its memory once:
\* nothing is counted twice, and no event enters that nobody can lose any more.
NothingUncounted ==
  /\ Running /\ ~cancelled => emitted = Counted + Len(Held)
  /\ Counted + Len(Held) <= emitted
  /\ emitted <= Counted + Len(Held) + Capacity

\* No event is held twice and none overtakes another on its way, though the
\* spool is taken out and put back with newer events after it (flush, Push).
OrderIsKept == \A i, j \in 1..Len(Held) : i < j => Held[i] < Held[j]

\* The memory a sensor needs while the collector is down is bounded, by the
\* spool and one buffer: the request under way included (flush, Spool.Push).
BacklogIsBounded == Len(Backlog) < SpoolCap + FlushAt + 1

\* Sender and spool are a retry queue: only the oldest events are given up, and
\* only those that do not fit (spool.Push: "evicting from the front when over
\* capacity"), until the process ends and abandons what there is.
Queue == INSTANCE RetryQueue WITH
  Cap <- SpoolCap, Events <- Numbers, open <- Running,
  queue <- Backlog, evictions <- evicted, acknowledged <- acked
QueueSpec == Queue!Spec

\* Nothing stays on the sensor for good: what is held is sent or given up in the
\* end, while the sensor runs (sendBatches; docs/troubleshooting.md, "Sensors
\* spool failed batches in memory and retry on the next flush").
HeldIsSent ==
  \A e \in 1..MaxEvents :
    (\E i \in 1..Len(Held) : Held[i] = e)
      ~> (cancelled \/ ~(\E i \in 1..Len(Held) : Held[i] = e))
=============================================================================
