--------------------------- MODULE EventPathProofs ---------------------------
(***************************************************************************)
(* What EventPath says of the events on their way, proved for every size   *)
(* of the ring buffer, the channel, the buffer and the spool: a sensor     *)
(* that goes on loses none uncounted and the end of one loses a bounded    *)
(* number, none overtakes another, what waits for the collector is         *)
(* bounded, and sender and spool implement RetryQueue.                     *)
(***************************************************************************)
EXTENDS EventPath, SequenceTheorems, TLAPS

\* Between requests nothing is in flight; during one there is nothing but the
\* request, which is the spool and at most one full buffer.
SenderInv ==
  /\ sender \in {"select", "returned", "ended"} => flight = <<>>
  /\ sender \in {"post", "lastPost"} => spool = <<>> /\ buffer = <<>>
  /\ Len(spool) <= SpoolCap /\ Len(buffer) < FlushAt
  /\ Len(flight) <= SpoolCap + FlushAt

\* The ring buffer and the channel stay within their sizes; the ring buffer goes
\* with the programs, and those only with the process or on its way to an end.
ReaderInv ==
  /\ Len(ring) <= RingSize /\ Len(channel) <= ChannelSize
  /\ ~tracing => ring = <<>>
  /\ ~Running => ~tracing
  /\ Running /\ ~tracing => cancelled

IInv == TypeOK /\ SenderInv /\ ReaderInv

\* Where the brackets stand does not matter.
LEMMA ConcatNat ==
  ASSUME NEW s \in Seq(Nat), NEW t \in Seq(Nat), NEW u \in Seq(Nat)
  PROVE  (s \o t) \o u = s \o (t \o u)
  BY ConcatAssociative, SMTT(30)

-----------------------------------------------------------------------------
(* Types.                                                                  *)

\* A sensor that starts holds nothing.
LEMMA InitIInv ==
  ASSUME Init
  PROVE  IInv
<1>1. \A S : <<>> \in Seq(S)
  OBVIOUS
<1>2. [trace |-> 0, deny |-> 0] \in [trace : Nat, deny : Nat]
  OBVIOUS
<1>3. TypeOK
  <2>1. /\ ring \in Seq([id : Numbers, ready : BOOLEAN]) /\ channel \in Seq(Numbers)
        /\ buffer \in Seq(Numbers) /\ flight \in Seq(Numbers) /\ spool \in Seq(Numbers)
    BY <1>1 DEF Init
  <2>2. hand \in 0..MaxEvents
    BY SizeAssumption DEF Init
  <2>3. /\ writing \in [Cpus -> Nat] /\ drops \in [trace : Nat, deny : Nat]
        /\ emitted \in Nat /\ chanDrops \in Nat /\ evicted \in Nat /\ acked \in Nat
    BY <1>2 DEF Init
  <2>4. /\ tracing \in BOOLEAN /\ closed \in BOOLEAN /\ cancelled \in BOOLEAN
        /\ sender \in {"select", "post", "lastPost", "returned", "ended"}
    BY DEF Init
  <2> QED BY <2>1, <2>2, <2>3, <2>4 DEF TypeOK
<1>4. SenderInv
  BY SizeAssumption DEF Init, SenderInv
<1>5. ReaderInv
  BY SizeAssumption DEF Init, ReaderInv, Running
<1> QED BY <1>3, <1>4, <1>5 DEF IInv

\* flush: what it takes is gone from spool and buffer, and in flight.
LEMMA FlushIInv ==
  ASSUME TypeOK, Len(spool) <= SpoolCap, sender = "select", NEW events \in Seq(Numbers),
         Len(events) <= FlushAt, NEW last \in BOOLEAN, Flush(events, last)
  PROVE  /\ flight' \in Seq(Numbers) /\ spool' = <<>> /\ buffer' = <<>>
         /\ sender' \in {"post", "lastPost"}
         /\ evicted' \in Nat /\ acked' \in Nat
         /\ Len(flight') <= SpoolCap + FlushAt
<1>1. flight' \in Seq(Numbers) /\ Len(flight') = Len(spool) + Len(events)
  BY ConcatProperties DEF Flush, TypeOK
<1>2. Len(spool) \in Nat /\ Len(events) \in Nat
  BY LenProperties DEF TypeOK
<1> QED BY <1>1, <1>2, SizeAssumption DEF Flush, TypeOK

\* What does not fit into the spool is part of the request.
LEMMA OverflowType ==
  ASSUME TypeOK
  PROVE  Overflow \in 0..Len(flight) /\ (Overflow > 0 => Overflow = Len(flight) - SpoolCap)
<1>1. Len(flight) \in Nat
  BY LenProperties DEF TypeOK
<1> QED BY <1>1, SizeAssumption DEF Overflow

\* The spool after a failure: at most SpoolCap events.
LEMMA KeptType ==
  ASSUME TypeOK
  PROVE  /\ SubSeq(flight, Overflow + 1, Len(flight)) \in Seq(Numbers)
         /\ Len(SubSeq(flight, Overflow + 1, Len(flight))) = Len(flight) - Overflow
         /\ Len(flight) - Overflow <= SpoolCap
<1>1. Len(flight) \in Nat /\ \A i \in 1..Len(flight) : flight[i] \in Numbers
  BY LenProperties, ElementOfSeq DEF TypeOK
<1>2. Overflow \in 0..Len(flight) /\ (Overflow > 0 => Overflow = Len(flight) - SpoolCap)
  BY OverflowType
<1>3. \A i \in (Overflow + 1)..Len(flight) : flight[i] \in Numbers
  BY <1>1, <1>2
<1>4. Len(flight) - Overflow <= SpoolCap
  BY <1>1, <1>2, SizeAssumption DEF Overflow
<1> QED BY <1>1, <1>2, <1>3, <1>4, SubSeqProperties

\* Each step keeps the types and what is where between and during requests.
LEMMA NextTypes ==
  ASSUME TypeOK, SenderInv, [Next]_vars
  PROVE  TypeOK' /\ SenderInv'
<1> USE DEF TypeOK, SenderInv
<1>1. CASE \E c \in Cpus : \E kind \in {"trace", "deny"} : Reserve(c, kind)
  <2> PICK c \in Cpus, kind \in {"trace", "deny"} : Reserve(c, kind) BY <1>1
  <2>1. emitted' \in Nat /\ emitted' \in Numbers
    BY SizeAssumption DEF Reserve, Numbers
  <2>2. UNCHANGED <<reader, channel, sending, cancelled>>
    BY DEF Reserve
  <2>3. CASE Len(ring) < RingSize
    <3>1. [id |-> emitted', ready |-> FALSE] \in [id : Numbers, ready : BOOLEAN]
      BY <2>1
    <3>2. ring' = Append(ring, [id |-> emitted', ready |-> FALSE])
      BY <2>3 DEF Reserve
    <3>4. ring' \in Seq([id : Numbers, ready : BOOLEAN])
      BY <3>1, <3>2, AppendProperties
    <3>3. writing' \in [Cpus -> Nat] /\ drops' = drops
      BY <2>1, <2>3 DEF Reserve
    <3> QED BY <2>1, <2>2, <3>3, <3>4 DEF reader, sending
  <2>4. CASE ~(Len(ring) < RingSize)
    <3>1. drops' = [drops EXCEPT ![kind] = @ + 1] /\ ring' = ring /\ writing' = writing
      BY <2>4 DEF Reserve
    <3>2. drops' \in [trace : Nat, deny : Nat]
      <4>1. drops \in [trace : Nat, deny : Nat]
        OBVIOUS
      <4>2. CASE kind = "trace"
        <5>1. drops' = [drops EXCEPT !.trace = @ + 1]
          BY <3>1, <4>2
        <5> HIDE DEF TypeOK, SenderInv
        <5> QED BY <4>1, <5>1
      <4>3. CASE kind = "deny"
        <5>1. drops' = [drops EXCEPT !.deny = @ + 1]
          BY <3>1, <4>3
        <5> HIDE DEF TypeOK, SenderInv
        <5> QED BY <4>1, <5>1
      <4> QED BY <4>2, <4>3
    <3> QED BY <2>1, <2>2, <3>1, <3>2 DEF reader, sending
  <2> QED BY <2>3, <2>4
<1>2. CASE \E c \in Cpus : Submit(c)
  <2> PICK c \in Cpus : Submit(c) BY <1>2
  <2> DEFINE new(i) == IF ring[i].id = writing[c] THEN [ring[i] EXCEPT !.ready = TRUE] ELSE ring[i]
  <2>1. Len(ring) \in Nat /\ \A i \in 1..Len(ring) : ring[i] \in [id : Numbers, ready : BOOLEAN]
    BY LenProperties, ElementOfSeq
  <2>2. \A i \in 1..Len(ring) : new(i) \in [id : Numbers, ready : BOOLEAN]
    BY <2>1
  <2>3. ring' = [i \in 1..Len(ring) |-> new(i)]
    BY DEF Submit
  <2> HIDE DEF new
  <2>4. ring' \in Seq([id : Numbers, ready : BOOLEAN])
    BY <2>1, <2>2, <2>3
  <2>5. writing' \in [Cpus -> Nat]
    BY DEF Submit
  <2>6. UNCHANGED <<emitted, drops, reader, channel, sending, cancelled>>
    BY DEF Submit
  <2> QED BY <2>4, <2>5, <2>6 DEF reader, sending
<1>3. CASE Read
  <2>1. Head(ring) \in [id : Numbers, ready : BOOLEAN]
        /\ Tail(ring) \in Seq([id : Numbers, ready : BOOLEAN])
    BY <1>3, HeadTailProperties DEF Read
  <2>2. hand' \in 0..MaxEvents
    BY <1>3, <2>1, SizeAssumption DEF Read, Numbers
  <2> QED BY <1>3, <2>1, <2>2 DEF Read, sending
<1>4. CASE Send
  <2>1. hand \in Numbers
    BY <1>4, SizeAssumption DEF Send, Numbers
  <2>2. channel' \in Seq(Numbers) /\ chanDrops' \in Nat
    <3>1. Append(channel, hand) \in Seq(Numbers)
      BY <2>1, AppendProperties
    <3>2. CASE Len(channel) < ChannelSize
      BY <1>4, <3>1, <3>2 DEF Send
    <3>3. CASE ~(Len(channel) < ChannelSize)
      BY <1>4, <3>3 DEF Send
    <3> QED BY <3>2, <3>3
  <2>3. hand' \in 0..MaxEvents
    BY <1>4, SizeAssumption DEF Send
  <2> QED BY <1>4, <2>2, <2>3 DEF Send, kernel, sending
<1>5. CASE Close
  <2>1. ring' \in Seq([id : Numbers, ready : BOOLEAN])
    BY <1>5 DEF Close
  <2> QED BY <1>5, <2>1 DEF Close, sending
<1>6. CASE ReaderReturns
  BY <1>6 DEF ReaderReturns, kernel, sending
<1>7. CASE Receive
  <2> DEFINE events == Append(buffer, Head(channel))
  <2>1. Head(channel) \in Numbers /\ channel' \in Seq(Numbers)
    BY <1>7, HeadTailProperties DEF Receive
  <2>2. events \in Seq(Numbers) /\ Len(events) = Len(buffer) + 1 /\ Len(buffer) \in Nat
    BY <2>1, AppendProperties, LenProperties
  <2>3. UNCHANGED <<kernel, reader, cancelled>> /\ sender = "select"
    BY <1>7 DEF Receive
  <2>4. CASE Len(events) < FlushAt
    <3>1. buffer' = events /\ UNCHANGED <<sender, flight, spool, evicted, acked>>
      BY <1>7, <2>4 DEF Receive
    <3> HIDE DEF events
    <3> QED BY <2>1, <2>2, <2>3, <2>4, <3>1 DEF kernel, reader
  <2>5. CASE ~(Len(events) < FlushAt)
    <3>1. Flush(events, FALSE)
      BY <1>7, <2>5 DEF Receive
    <3>2. Len(events) <= FlushAt
      BY <2>2, SizeAssumption
    <3> HIDE DEF events
    <3>3. /\ flight' \in Seq(Numbers) /\ spool' = <<>> /\ buffer' = <<>>
          /\ sender' \in {"post", "lastPost"}
          /\ evicted' \in Nat /\ acked' \in Nat
          /\ Len(flight') <= SpoolCap + FlushAt
      BY <2>2, <2>3, <3>1, <3>2, FlushIInv
    <3> QED BY <2>1, <2>3, <3>3, SizeAssumption DEF kernel, reader
  <2> QED BY <2>4, <2>5
<1>8. CASE Ticker \/ LastFlush
  <2>1. PICK last \in BOOLEAN : Flush(buffer, last)
    BY <1>8 DEF Ticker, LastFlush
  <2>2. UNCHANGED <<kernel, reader, channel, cancelled>> /\ sender = "select"
    BY <1>8 DEF Ticker, LastFlush
  <2>3. Len(buffer) \in Nat
    BY LenProperties
  <2>4. /\ flight' \in Seq(Numbers) /\ spool' = <<>> /\ buffer' = <<>>
        /\ sender' \in {"post", "lastPost"}
        /\ evicted' \in Nat /\ acked' \in Nat
        /\ Len(flight') <= SpoolCap + FlushAt
    <3>1. Len(buffer) <= FlushAt
      BY <2>3, SizeAssumption
    <3>2. buffer \in Seq(Numbers) /\ TypeOK /\ Len(spool) <= SpoolCap
      OBVIOUS
    <3> HIDE DEF TypeOK, SenderInv
    <3> QED BY <2>1, <2>2, <3>1, <3>2, FlushIInv
  <2> QED BY <2>2, <2>4, SizeAssumption DEF kernel, reader
<1>9. CASE PostOk
  <2>1. Len(flight) \in Nat
    BY LenProperties
  <2> QED BY <1>9, <2>1, SizeAssumption DEF PostOk, Posted, kernel, reader
<1>10. CASE PostFails
  <2>1. spool' \in Seq(Numbers) /\ Len(spool') <= SpoolCap
    BY <1>10, KeptType DEF PostFails
  <2>2. evicted' \in Nat
    BY <1>10, OverflowType DEF PostFails
  <2> QED BY <1>10, <2>1, <2>2, SizeAssumption DEF PostFails, Posted, kernel, reader
<1>11. CASE Cancel
  BY <1>11 DEF Cancel, kernel, reader, sending
<1>12. CASE UNCHANGED vars
  BY <1>12 DEF vars, kernel, reader, sending
<1>13. CASE ProcessEnds \/ Killed
  <2>1. Ends
    BY <1>13 DEF ProcessEnds, Killed
  <2>2. /\ ring' \in Seq([id : Numbers, ready : BOOLEAN]) /\ channel' \in Seq(Numbers)
        /\ buffer' \in Seq(Numbers) /\ flight' \in Seq(Numbers) /\ spool' \in Seq(Numbers)
    BY <2>1 DEF Ends
  <2>3. /\ UNCHANGED <<emitted, writing, drops, closed, chanDrops, evicted, acked, cancelled>>
        /\ tracing' \in BOOLEAN /\ hand' = 0 /\ sender' = "ended"
    BY <2>1 DEF Ends
  <2>4. /\ emitted' \in Nat /\ writing' \in [Cpus -> Nat] /\ drops' \in [trace : Nat, deny : Nat]
        /\ closed' \in BOOLEAN /\ cancelled' \in BOOLEAN
        /\ hand' \in 0..MaxEvents /\ chanDrops' \in Nat /\ evicted' \in Nat /\ acked' \in Nat
    BY <2>3, SizeAssumption
  <2>5. TypeOK'
    BY <2>2, <2>3, <2>4
  <2>6. SenderInv'
    BY <2>1, SizeAssumption DEF Ends
  <2> QED BY <2>5, <2>6
<1> QED
  BY <1>1, <1>2, <1>3, <1>4, <1>5, <1>6, <1>7, <1>8, <1>9, <1>10, <1>11, <1>12, <1>13 DEF Next

\* The process ends in a step of its own; every other one leaves it running.
LEMMA EndIsFinal ==
  ASSUME TypeOK, Next, ~(ProcessEnds \/ Killed)
  PROVE  Running /\ Running'
<1>1. sender' \in {"select", "post", "lastPost", "returned"} \/ sender' = sender
  BY DEF Next, Reserve, Submit, Read, Send, Close, ReaderReturns, Receive, Flush, Ticker,
         LastFlush, PostOk, PostFails, Posted, Cancel, sending
<1> QED BY <1>1 DEF Next, Running

\* No step fills the ring buffer or the channel beyond its size, and the records
\* go with the programs.
LEMMA NextReader ==
  ASSUME TypeOK, ReaderInv, [Next]_vars
  PROVE  ReaderInv'
<1>0. Len(ring) \in Nat /\ Len(channel) \in Nat
  BY LenProperties DEF TypeOK
<1>1. CASE ProcessEnds \/ Killed
  BY <1>1, SizeAssumption DEF ProcessEnds, Killed, Ends, ReaderInv, Running
<1>2. CASE UNCHANGED vars
  BY <1>2 DEF vars, kernel, reader, sending, ReaderInv, Running
<1>3. CASE Next /\ ~(ProcessEnds \/ Killed)
  <2> USE <1>3
  <2>1. Running /\ Running'
    BY EndIsFinal
  <2>2. CASE \E c \in Cpus : \E kind \in {"trace", "deny"} : Reserve(c, kind)
    <3> PICK c \in Cpus, kind \in {"trace", "deny"} : Reserve(c, kind) BY <2>2
    <3>1. tracing /\ UNCHANGED <<tracing, channel, cancelled>>
      BY DEF Reserve, reader
    <3>2. Len(ring') <= RingSize
      <4>1. CASE Len(ring) < RingSize
        <5>1. ring' = Append(ring, [id |-> emitted', ready |-> FALSE])
          BY <4>1 DEF Reserve
        <5>2. Len(ring') = Len(ring) + 1
          BY <5>1, LenProperties DEF TypeOK
        <5> QED BY <1>0, <4>1, <5>2, SizeAssumption
      <4>2. CASE ~(Len(ring) < RingSize)
        BY <4>2 DEF Reserve, ReaderInv
      <4> QED BY <4>1, <4>2
    <3> QED BY <2>1, <3>1, <3>2 DEF ReaderInv
  <2>3. CASE \E c \in Cpus : Submit(c)
    <3>1. Len(ring') = Len(ring) /\ UNCHANGED <<tracing, channel, cancelled>>
      BY <1>0, <2>3 DEF Submit, reader
    <3>2. ring = <<>> => ring' = <<>>
      BY <2>3 DEF Submit
    <3> QED BY <2>1, <3>1, <3>2 DEF ReaderInv
  <2>4. CASE Read
    <3>1. Len(ring') = Len(ring) - 1 /\ tracing /\ UNCHANGED <<tracing, channel, cancelled>>
      BY <2>4, HeadTailProperties DEF Read, TypeOK
    <3> QED BY <1>0, <2>1, <3>1, SizeAssumption DEF ReaderInv
  <2>5. CASE Send
    <3>1. UNCHANGED <<ring, tracing, cancelled>>
      BY <2>5 DEF Send, kernel
    <3>2. Len(channel') <= ChannelSize
      <4>1. hand \in Numbers
        BY <2>5, SizeAssumption DEF Send, TypeOK, Numbers
      <4>2. CASE Len(channel) < ChannelSize
        <5>1. Len(channel') = Len(channel) + 1
          BY <2>5, <4>1, <4>2, AppendProperties DEF Send, TypeOK
        <5> QED BY <1>0, <4>2, <5>1, SizeAssumption
      <4>3. CASE ~(Len(channel) < ChannelSize)
        BY <2>5, <4>3 DEF Send, ReaderInv
      <4> QED BY <4>2, <4>3
    <3> QED BY <2>1, <3>1, <3>2 DEF ReaderInv
  <2>6. CASE Close
    BY <2>1, <2>6, SizeAssumption DEF Close, ReaderInv
  <2>7. CASE Receive
    <3>1. Len(channel') = Len(channel) - 1 /\ UNCHANGED <<ring, tracing, cancelled>>
      BY <2>7, HeadTailProperties DEF Receive, TypeOK, kernel, reader
    <3> QED BY <1>0, <2>1, <3>1, SizeAssumption DEF ReaderInv
  <2>8. CASE ReaderReturns \/ Ticker \/ LastFlush \/ PostOk \/ PostFails
    <3>1. UNCHANGED <<ring, channel, tracing, cancelled>>
      BY <2>8 DEF ReaderReturns, Ticker, LastFlush, PostOk, PostFails, kernel, reader
    <3> QED BY <2>1, <3>1 DEF ReaderInv
  <2>9. CASE Cancel
    <3>1. UNCHANGED <<ring, channel, tracing>> /\ cancelled'
      BY <2>9 DEF Cancel, kernel, reader
    <3> QED BY <2>1, <3>1 DEF ReaderInv
  <2> QED BY <2>2, <2>3, <2>4, <2>5, <2>6, <2>7, <2>8, <2>9 DEF Next
<1> QED BY <1>1, <1>2, <1>3

\* Both together.
LEMMA NextIInv ==
  ASSUME IInv, [Next]_vars
  PROVE  IInv'
BY NextTypes, NextReader DEF IInv

\* Every variable of the event path keeps its type, whatever the sizes.
THEOREM EventTypes == Spec => []IInv
BY InitIInv, NextIInv, PTL DEF Spec

-----------------------------------------------------------------------------
(* What the sender answers for.                                            *)

\* The backlog is in one place at a time: the request, or spool and buffer.
LEMMA BacklogType ==
  ASSUME TypeOK
  PROVE  /\ Backlog \in Seq(Numbers) /\ Len(Backlog) = Len(spool) + Len(flight) + Len(buffer)
         /\ flight = <<>> => Backlog = spool \o buffer
         /\ spool = <<>> /\ buffer = <<>> => Backlog = flight
<1> spool \in Seq(Numbers) /\ flight \in Seq(Numbers) /\ buffer \in Seq(Numbers)
  BY DEF TypeOK
<1>1. spool \o flight \in Seq(Numbers) /\ Len(spool \o flight) = Len(spool) + Len(flight)
  BY ConcatProperties
<1>2. Backlog \in Seq(Numbers) /\ Len(Backlog) = Len(spool) + Len(flight) + Len(buffer)
  BY <1>1, ConcatProperties DEF Backlog
<1>3. flight = <<>> => Backlog = spool \o buffer
  BY ConcatEmptySeq DEF Backlog
<1>4. spool = <<>> /\ buffer = <<>> => Backlog = flight
  BY ConcatEmptySeq DEF Backlog
<1> QED BY <1>2, <1>3, <1>4

\* A request under way is the whole backlog, and it was the spool and a buffer.
LEMMA BacklogFits ==
  ASSUME IInv
  PROVE  BacklogIsBounded
<1>1. Len(spool) \in Nat /\ Len(flight) \in Nat /\ Len(buffer) \in Nat
  BY LenProperties DEF IInv, TypeOK
<1>2. Len(Backlog) = Len(spool) + Len(flight) + Len(buffer)
  BY BacklogType DEF IInv
<1>3. sender \in {"select", "returned", "ended"} \/ sender \in {"post", "lastPost"}
  BY DEF IInv, TypeOK
<1>4. flight = <<>> \/ (spool = <<>> /\ buffer = <<>>)
  BY <1>3 DEF IInv, SenderInv
<1>5. /\ Len(spool) <= SpoolCap /\ Len(buffer) < FlushAt
      /\ Len(flight) <= SpoolCap + FlushAt
  BY DEF IInv, SenderInv
<1>6. CASE flight = <<>>
  BY <1>1, <1>2, <1>5, <1>6, SizeAssumption DEF BacklogIsBounded
<1>7. CASE spool = <<>> /\ buffer = <<>>
  BY <1>1, <1>2, <1>5, <1>7, SizeAssumption DEF BacklogIsBounded
<1> QED BY <1>4, <1>6, <1>7

\* While the collector is down a sensor keeps the spool and a buffer, and no
\* more, whatever the events and failures (flush, Spool.Push).
THEOREM Bounded == Spec => []BacklogIsBounded
BY BacklogFits, EventTypes, PTL

\* The five ways a step treats the backlog.
BacklogStays == Backlog' = Backlog /\ UNCHANGED <<evicted, acked>>

BacklogGrows ==
  /\ channel # <<>> /\ channel' = Tail(channel)
  /\ Backlog' = Append(Backlog, Head(channel))
  /\ UNCHANGED <<evicted, acked>>

BacklogSent == Backlog' = <<>> /\ acked' = acked + Len(Backlog) /\ UNCHANGED evicted

BacklogCut ==
  /\ Backlog' = SubSeq(Backlog, Overflow + 1, Len(Backlog))
  /\ evicted' = evicted + Overflow
  /\ UNCHANGED acked
  /\ Overflow \in 0..Len(Backlog)
  /\ Overflow > 0 => Overflow = Len(Backlog) - SpoolCap

BacklogAbandoned == Backlog' = <<>> /\ UNCHANGED <<evicted, acked>>

\* flush changes where the backlog is, and nothing of it but what is added.
LEMMA FlushMoves ==
  ASSUME TypeOK, flight = <<>>, NEW events \in Seq(Numbers), NEW last \in BOOLEAN,
         Flush(events, last)
  PROVE  Backlog' = spool \o events /\ UNCHANGED <<evicted, acked>>
<1>1. spool \o events \in Seq(Numbers)
  BY ConcatProperties DEF TypeOK
<1>2. Backlog' = (<<>> \o (spool \o events)) \o <<>>
  BY DEF Flush, Backlog
<1>3. Backlog' = spool \o events
  BY <1>1, <1>2, ConcatEmptySeq
<1> QED BY <1>3 DEF Flush

\* An event from the channel is the last of the backlog, flushed at once or not.
LEMMA ReceiveGrows ==
  ASSUME IInv, Receive
  PROVE  BacklogGrows
<1> DEFINE e == Head(channel)
           events == Append(buffer, e)
<1>1. e \in Numbers /\ spool \in Seq(Numbers) /\ buffer \in Seq(Numbers) /\ flight = <<>>
  BY HeadTailProperties DEF Receive, IInv, TypeOK, SenderInv
<1>2. Backlog = spool \o buffer
  BY <1>1, BacklogType DEF IInv
<1>3. events = buffer \o <<e>> /\ events \in Seq(Numbers) /\ <<e>> \in Seq(Numbers)
  BY <1>1, AppendIsConcat, AppendProperties
<1>4. spool \o events = Append(Backlog, e)
  <2>1. spool \o (buffer \o <<e>>) = (spool \o buffer) \o <<e>>
    BY <1>1, <1>3, ConcatAssociative
  <2>2. Append(spool \o buffer, e) = (spool \o buffer) \o <<e>>
    BY <1>1, ConcatProperties, AppendIsConcat
  <2> QED BY <1>2, <1>3, <2>1, <2>2
<1>5. channel # <<>> /\ channel' = Tail(channel)
  BY DEF Receive
<1>6. CASE Len(events) < FlushAt
  <2>1. buffer' = events /\ UNCHANGED <<sender, flight, spool, evicted, acked>>
    BY <1>6 DEF Receive
  <2>2. Backlog' = (spool \o <<>>) \o events
    BY <1>1, <2>1 DEF Backlog
  <2>3. Backlog' = spool \o events
    BY <1>1, <2>2, ConcatEmptySeq
  <2> QED BY <1>4, <1>5, <2>1, <2>3 DEF BacklogGrows
<1>7. CASE ~(Len(events) < FlushAt)
  <2>1. Flush(events, FALSE)
    BY <1>7 DEF Receive
  <2> HIDE DEF events
  <2>2. Backlog' = spool \o events /\ UNCHANGED <<evicted, acked>>
    BY <1>1, <1>3, <2>1, FlushMoves DEF IInv
  <2> QED BY <1>4, <1>5, <2>2 DEF BacklogGrows
<1> QED BY <1>6, <1>7

\* A flush takes nothing from the backlog and adds nothing.
LEMMA FlushStays ==
  ASSUME IInv, Ticker \/ LastFlush
  PROVE  BacklogStays
<1>1. PICK last \in BOOLEAN : Flush(buffer, last)
  BY DEF Ticker, LastFlush
<1>2. flight = <<>> /\ buffer \in Seq(Numbers)
  BY DEF Ticker, LastFlush, IInv, TypeOK, SenderInv
<1>3. Backlog' = spool \o buffer /\ UNCHANGED <<evicted, acked>>
  BY <1>1, <1>2, FlushMoves DEF IInv
<1> QED BY <1>2, <1>3, BacklogType DEF BacklogStays, IInv

\* Only the end of a request shortens the backlog: by all of it, or by what does
\* not fit into the spool.
LEMMA PostEnds ==
  ASSUME IInv
  PROVE  /\ PostOk => BacklogSent
         /\ PostFails => BacklogCut
<1> SUFFICES ASSUME PostOk \/ PostFails
             PROVE  (PostOk => BacklogSent) /\ (PostFails => BacklogCut)
  OBVIOUS
<1>1. spool = <<>> /\ buffer = <<>> /\ buffer' = <<>>
  BY DEF PostOk, PostFails, IInv, SenderInv
<1>2. Backlog = flight
  BY <1>1, BacklogType DEF IInv
<1>3. ASSUME PostOk PROVE BacklogSent
  <2>1. Backlog' = (<<>> \o <<>>) \o <<>>
    BY <1>1, <1>3 DEF PostOk, Backlog
  <2>2. Backlog' = <<>>
    BY <2>1, ConcatEmptySeq, EmptySeq
  <2> QED BY <1>2, <1>3, <2>2 DEF PostOk, BacklogSent
<1>4. ASSUME PostFails PROVE BacklogCut
  <2> DEFINE kept == SubSeq(flight, Overflow + 1, Len(flight))
  <2>1. kept \in Seq(Numbers)
    BY KeptType DEF IInv
  <2>2. Backlog' = (kept \o <<>>) \o <<>>
    BY <1>1, <1>4 DEF PostFails, Backlog
  <2>3. Backlog' = kept
    BY <2>1, <2>2, ConcatEmptySeq
  <2>4. Overflow \in 0..Len(flight) /\ (Overflow > 0 => Overflow = Len(flight) - SpoolCap)
    BY OverflowType DEF IInv
  <2> QED BY <1>2, <1>4, <2>3, <2>4 DEF PostFails, BacklogCut
<1> QED BY <1>3, <1>4

\* The reader, the kernel and the signal leave the backlog alone.
LEMMA OthersStay ==
  ASSUME UNCHANGED sending
  PROVE  BacklogStays
BY DEF sending, BacklogStays, Backlog

\* A process that ends has nothing any more.
LEMMA EndsAbandons ==
  ASSUME Ends
  PROVE  BacklogAbandoned
<1>1. Backlog' = (<<>> \o <<>>) \o <<>>
  BY DEF Ends, Backlog
<1>2. Backlog' = <<>>
  BY <1>1, ConcatEmptySeq, EmptySeq
<1> QED BY <1>2 DEF Ends, BacklogAbandoned

\* These are all the ways the backlog changes, and the steps that change it.
LEMMA BacklogMoves ==
  ASSUME IInv, [Next]_vars
  PROVE  \/ BacklogStays /\ (Running' <=> Running)
         \/ Running /\ Running' /\ (BacklogGrows \/ BacklogSent \/ BacklogCut)
         \/ Running /\ ~Running' /\ BacklogAbandoned
<1>1. CASE ProcessEnds \/ Killed
  <2>1. Ends /\ ~Running'
    BY <1>1 DEF ProcessEnds, Killed, Ends, Running
  <2>2. CASE Running
    BY <2>1, <2>2, EndsAbandons
  <2>3. CASE UNCHANGED vars
    BY <2>3, OthersStay DEF vars, sending, Running
  <2> QED BY <2>2, <2>3 DEF Next
<1>2. CASE Next /\ ~(ProcessEnds \/ Killed)
  <2>1. Running /\ Running'
    BY <1>2, EndIsFinal DEF IInv
  <2>2. Receive \/ Ticker \/ LastFlush \/ PostOk \/ PostFails \/ UNCHANGED sending
    BY <1>2 DEF Next, Reserve, Submit, Read, Send, Close, ReaderReturns, Cancel
  <2> QED BY <2>1, <2>2, ReceiveGrows, FlushStays, PostEnds, OthersStay
<1>3. CASE UNCHANGED vars
  BY <1>3, OthersStay DEF vars, sending, Running
<1> QED BY <1>1, <1>2, <1>3

\* Sender and spool implement the retry queue: each of their steps is a step of
\* it or none (sendBatches, Spool).
THEOREM QueueIsImplemented == Spec => QueueSpec
<1>1. Init => Queue!Init
  <2> SUFFICES ASSUME Init PROVE Queue!Init OBVIOUS
  <2>1. Backlog = (<<>> \o <<>>) \o <<>>
    BY DEF Init, Backlog
  <2>2. Backlog = <<>>
    BY <2>1, ConcatEmptySeq, EmptySeq
  <2> QED BY <2>2 DEF Init, Queue!Init, Running
<1>2. IInv /\ [Next]_vars => [Queue!Next]_(Queue!vars)
  <2> SUFFICES ASSUME IInv, [Next]_vars PROVE [Queue!Next]_(Queue!vars) OBVIOUS
  <2>1. CASE BacklogStays /\ (Running' <=> Running)
    BY <2>1 DEF BacklogStays, Queue!vars, Running
  <2>2. CASE Running /\ Running' /\ BacklogGrows
    <3>1. Head(channel) \in Numbers
      BY <2>2, HeadTailProperties DEF BacklogGrows, IInv, TypeOK
    <3> QED BY <2>2, <3>1 DEF BacklogGrows, Queue!Next, Queue!Arrive, Running
  <2>3. CASE Running /\ Running' /\ BacklogSent
    BY <2>3 DEF BacklogSent, Queue!Next, Queue!Acknowledge, Running
  <2>4. CASE Running /\ Running' /\ BacklogCut
    <3>1. Len(Backlog) \in Nat /\ Backlog \in Seq(Numbers)
      BY BacklogType, LenProperties DEF IInv
    <3>2. CASE Overflow = 0
      <4>1. SubSeq(Backlog, 1, Len(Backlog)) = Backlog
        BY <3>1, SubSeqFull
      <4>2. Backlog' = Backlog /\ evicted' = evicted /\ acked' = acked
        BY <2>4, <3>2, <4>1 DEF BacklogCut, IInv, TypeOK
      <4> QED BY <2>4, <4>2 DEF Queue!vars, Running
    <3>3. CASE Overflow > 0
      <4>1. Overflow = Len(Backlog) - SpoolCap /\ evicted \in Nat
        BY <2>4, <3>3 DEF BacklogCut, IInv, TypeOK
      <4>2. Len(Backlog) > SpoolCap
        BY <3>1, <3>3, <4>1, SizeAssumption
      <4>3. Backlog' = SubSeq(Backlog, Len(Backlog) - SpoolCap + 1, Len(Backlog))
        BY <2>4, <4>1 DEF BacklogCut
      <4>4. evicted' = evicted + Len(Backlog) - SpoolCap /\ acked' = acked
        BY <2>4, <3>1, <4>1, SizeAssumption DEF BacklogCut
      <4> QED BY <2>4, <4>2, <4>3, <4>4 DEF Queue!Next, Queue!Evict, Running
    <3> QED BY <2>4, <3>2, <3>3 DEF BacklogCut
  <2>5. CASE Running /\ ~Running' /\ BacklogAbandoned
    BY <2>5 DEF BacklogAbandoned, Queue!Next, Queue!Abandon
  <2> QED BY <2>1, <2>2, <2>3, <2>4, <2>5, BacklogMoves
<1> QED BY <1>1, <1>2, EventTypes, PTL DEF Spec, QueueSpec, Queue!Spec

-----------------------------------------------------------------------------
(* All that the sensor holds.                                              *)

\* Whatever is between the backlog and the programs.
Rest == channel \o (InHand \o InRing)

\* All that is held is a sequence of numbers, the backlog first.
LEMMA HeldType ==
  ASSUME TypeOK
  PROVE  /\ Backlog \in Seq(Nat) /\ channel \in Seq(Nat) /\ InHand \in Seq(Nat)
         /\ InRing \in Seq(Nat) /\ InHand \o InRing \in Seq(Nat) /\ Rest \in Seq(Nat)
         /\ Held = Backlog \o Rest /\ Held \in Seq(Nat)
<1>1. \A s : s \in Seq(Numbers) => s \in Seq(Nat)
  BY SizeAssumption, SeqMonotonic, Numbers \subseteq Nat DEF Numbers
<1>2. Backlog \in Seq(Nat) /\ channel \in Seq(Nat)
  BY <1>1, BacklogType DEF TypeOK
<1>3. InHand \in Seq(Nat)
  BY SizeAssumption DEF InHand, TypeOK
<1>4. InRing \in Seq(Nat)
  <2>1. Len(ring) \in Nat /\ \A i \in 1..Len(ring) : ring[i] \in [id : Numbers, ready : BOOLEAN]
    BY LenProperties, ElementOfSeq DEF TypeOK
  <2>2. \A i \in 1..Len(ring) : ring[i].id \in Nat
    BY <2>1, SizeAssumption DEF Numbers
  <2> QED BY <2>1, <2>2 DEF InRing
<1>5. InHand \o InRing \in Seq(Nat)
  BY <1>3, <1>4, ConcatProperties
<1>6. Rest \in Seq(Nat)
  BY <1>2, <1>5, ConcatProperties DEF Rest
<1> QED BY <1>2, <1>3, <1>4, <1>5, <1>6, ConcatProperties DEF Held, Rest

\* A step adds the next event at the end, loses a piece of what is held and counts
\* it, counts an event that never was held, or takes a piece that is in no counter.
HeldStays == Held' = Held /\ emitted' = emitted /\ Counted' = Counted

HeldGrows == Held' = Append(Held, emitted + 1) /\ emitted' = emitted + 1 /\ Counted' = Counted

HeldLoses ==
  \E s, t, u \in Seq(Nat) :
    /\ Held = s \o (t \o u) /\ Held' = s \o u
    /\ emitted' = emitted /\ Counted' = Counted + Len(t)

HeldPassed == Held' = Held /\ emitted' = emitted + 1 /\ Counted' = Counted + 1

HeldCut ==
  \E s, t, u \in Seq(Nat) :
    /\ Held = s \o (t \o u) /\ Held' = s \o u
    /\ emitted' = emitted /\ Counted' = Counted

\* A new event is the last of what is held, or is counted as dropped.
LEMMA ReserveHeld ==
  ASSUME IInv, NEW c \in Cpus, NEW kind \in {"trace", "deny"}, Reserve(c, kind)
  PROVE  HeldGrows \/ HeldPassed
<1> USE DEF IInv
<1>1. Backlog' = Backlog /\ channel' = channel /\ InHand' = InHand
  BY DEF Reserve, sending, reader, Backlog, InHand
<1>2. emitted' = emitted + 1 /\ UNCHANGED <<chanDrops, evicted, acked>>
  BY DEF Reserve, sending, reader
<1>3. CASE Len(ring) < RingSize
  <2> DEFINE e == emitted + 1
  <2>1. ring' = Append(ring, [id |-> e, ready |-> FALSE]) /\ drops' = drops
    BY <1>2, <1>3 DEF Reserve
  <2>2. Len(ring) \in Nat /\ Len(ring') = Len(ring) + 1
        /\ (\A i \in 1..Len(ring) : ring'[i] = ring[i])
        /\ ring'[Len(ring) + 1] = [id |-> e, ready |-> FALSE]
    BY <2>1, LenProperties DEF TypeOK
  <2>3. InRing \in Seq(Nat) /\ Len(InRing) = Len(ring) /\ e \in Nat
    BY <2>2, HeldType DEF InRing, TypeOK
  <2>4. InRing' = [i \in 1..Len(ring) + 1 |-> ring'[i].id]
    BY <2>2 DEF InRing
  <2>5. InRing' = Append(InRing, e)
    <3> HIDE DEF e
    <3>1. Append(InRing, e) \in Seq(Nat) /\ Len(Append(InRing, e)) = Len(ring) + 1
          /\ (\A i \in 1..Len(ring) : Append(InRing, e)[i] = InRing[i])
          /\ Append(InRing, e)[Len(ring) + 1] = e
      BY <2>3, AppendProperties
    <3>2. \A i \in 1..Len(ring) : InRing'[i] = InRing[i]
      BY <2>2, <2>4 DEF InRing
    <3>3. InRing'[Len(ring) + 1] = e
      BY <2>2, <2>4
    <3>4. \A i \in 1..(Len(ring) + 1) : InRing'[i] = Append(InRing, e)[i]
      BY <2>2, <3>1, <3>2, <3>3
    <3>5. \A i \in 1..(Len(ring) + 1) : Append(InRing, e)[i] \in Nat
      BY <3>1, ElementOfSeq
    <3>6. InRing' \in Seq(Nat) /\ Len(InRing') = Len(ring) + 1
      BY <2>2, <2>4, <3>4, <3>5
    <3> QED BY <3>1, <3>4, <3>6, SeqEqual
  <2>6. InRing' = InRing \o <<e>> /\ <<e>> \in Seq(Nat)
    BY <2>3, <2>5, AppendIsConcat
  <2> HIDE DEF e
  <2>7. Held' = Held \o <<e>>
    <3>5. /\ channel \in Seq(Nat) /\ InHand \o InRing \in Seq(Nat) /\ <<e>> \in Seq(Nat)
          /\ Backlog \in Seq(Nat) /\ Rest \in Seq(Nat)
          /\ InHand \in Seq(Nat) /\ InRing \in Seq(Nat)
      BY <2>6, HeldType
    <3>1. InHand \o (InRing \o <<e>>) = (InHand \o InRing) \o <<e>>
      BY <3>5, ConcatNat
    <3>2. channel \o ((InHand \o InRing) \o <<e>>) = Rest \o <<e>>
      <4> DEFINE q == InHand \o InRing
      <4>1. q \in Seq(Nat) /\ Rest = channel \o q
        BY <3>5 DEF Rest
      <4> HIDE DEF q
      <4>2. channel \o (q \o <<e>>) = (channel \o q) \o <<e>>
        BY <3>5, <4>1, ConcatNat
      <4> QED BY <4>1, <4>2 DEF q
    <3>3. Backlog \o (Rest \o <<e>>) = (Backlog \o Rest) \o <<e>>
      BY <3>5, ConcatNat
    <3>4. Held' = Backlog \o (channel \o (InHand \o (InRing \o <<e>>)))
      BY <1>1, <2>6 DEF Held
    <3> QED BY <3>1, <3>2, <3>3, <3>4, HeldType
  <2>8. Held' = Append(Held, e)
    BY <2>3, <2>7, HeldType, AppendIsConcat
  <2> QED BY <1>2, <2>1, <2>8 DEF HeldGrows, Counted, e
<1>4. CASE ~(Len(ring) < RingSize)
  <2>1. drops' = [drops EXCEPT ![kind] = @ + 1] /\ ring' = ring
    BY <1>4 DEF Reserve
  <2>2. Held' = Held
    BY <1>1, <2>1 DEF Held, InRing
  <2>3. drops.trace \in Nat /\ drops.deny \in Nat /\ chanDrops \in Nat /\ evicted \in Nat /\ acked \in Nat
    BY DEF TypeOK
  <2>4. drops'.trace + drops'.deny = drops.trace + drops.deny + 1
    BY <2>1, <2>3 DEF TypeOK
  <2>5. drops'.trace \in Nat /\ drops'.deny \in Nat
    BY <2>1, <2>3 DEF TypeOK
  <2> QED BY <1>2, <2>2, <2>3, <2>4, <2>5 DEF HeldPassed, Counted
<1> QED BY <1>3, <1>4

\* Submitting a record tells the reader that it may take it, and moves nothing.
LEMMA SubmitHeld ==
  ASSUME IInv, NEW c \in Cpus, Submit(c)
  PROVE  HeldStays
<1>1. Len(ring) \in Nat /\ \A i \in 1..Len(ring) : ring[i] \in [id : Numbers, ready : BOOLEAN]
  BY LenProperties, ElementOfSeq DEF IInv, TypeOK
<1> DEFINE new(i) == IF ring[i].id = writing[c] THEN [ring[i] EXCEPT !.ready = TRUE] ELSE ring[i]
<1>2. ring' = [i \in 1..Len(ring) |-> new(i)]
  BY DEF Submit
<1>3. \A i \in 1..Len(ring) : new(i) \in [id : Numbers, ready : BOOLEAN] /\ new(i).id = ring[i].id
  BY <1>1
<1> HIDE DEF new
<1>4. Len(ring') = Len(ring) /\ \A i \in 1..Len(ring) : ring'[i].id = ring[i].id
  BY <1>1, <1>2, <1>3
<1>5. InRing' = InRing
  BY <1>4 DEF InRing
<1> QED BY <1>5 DEF Submit, HeldStays, Held, Backlog, InHand, Counted, sending, reader

\* The event readEvents takes was the first in the ring buffer.
LEMMA ReadHeld ==
  ASSUME IInv, Read
  PROVE  HeldStays
<1> DEFINE R == [id : Numbers, ready : BOOLEAN]
           h == Head(ring).id
<1>1. ring \in Seq(R) /\ ring # <<>> /\ ring' = Tail(ring) /\ hand = 0 /\ hand' = h
  BY DEF Read, IInv, TypeOK
<1>2. /\ Len(ring) \in Nat /\ Len(ring) > 0 /\ Len(ring') = Len(ring) - 1
      /\ \A i \in 1..Len(ring') : ring'[i] = ring[i + 1]
      /\ Head(ring) = ring[1] /\ Head(ring) \in R
  <2> HIDE DEF R, h
  <2>1. Head(ring) \in R /\ Len(ring') = Len(ring) - 1
        /\ \A i \in 1..Len(ring') : ring'[i] = ring[i + 1]
    BY <1>1, HeadTailProperties
  <2>2. Len(ring) \in Nat /\ Len(ring) > 0
    BY <1>1, LenProperties, EmptySeq
  <2>3. Head(ring) = ring[1]
    OBVIOUS
  <2> QED BY <2>1, <2>2, <2>3
<1>3. h \in Nat /\ h # 0
  BY <1>2, SizeAssumption DEF Numbers
<1>4. InHand = <<>> /\ InHand' = <<h>>
  BY <1>1, <1>3 DEF InHand
<1>5. InRing \in Seq(Nat) /\ Len(InRing) = Len(ring) /\ \A i \in 1..Len(ring) : InRing[i] = ring[i].id
  BY <1>2, HeldType DEF InRing, IInv
<1>6. InRing' = [i \in 1..(Len(ring) - 1) |-> InRing[i + 1]]
  <2>1. InRing' = [i \in 1..Len(ring') |-> ring'[i].id]
    BY DEF InRing
  <2>2. ASSUME NEW i \in 1..Len(ring') PROVE ring'[i].id = InRing[i + 1]
    <3>1. i + 1 \in 1..Len(ring)
      BY <1>2
    <3> QED BY <1>2, <1>5, <3>1
  <2> QED BY <1>2, <2>1, <2>2
<1>7. InRing' \in Seq(Nat) /\ Len(InRing') = Len(ring) - 1
  <2>1. \A i \in 1..(Len(ring) - 1) : InRing[i + 1] \in Nat
    BY <1>2, <1>5, ElementOfSeq
  <2> QED BY <1>2, <1>6, <2>1
<1>8. <<h>> \o InRing' = InRing
  <2>1. <<h>> \in Seq(Nat) /\ Len(<<h>>) = 1 /\ <<h>>[1] = h
    BY <1>3
  <2> HIDE DEF h
  <2>2. /\ <<h>> \o InRing' \in Seq(Nat) /\ Len(<<h>> \o InRing') = Len(ring)
        /\ \A i \in 1..Len(ring) : (<<h>> \o InRing')[i] = IF i <= 1 THEN h ELSE InRing'[i - 1]
    BY <1>2, <1>7, <2>1, ConcatProperties
  <2>3. InRing[1] = h
    BY <1>2, <1>5 DEF h
  <2>4. \A i \in 1..Len(ring) : (<<h>> \o InRing')[i] = InRing[i]
    BY <1>2, <1>6, <2>2, <2>3
  <2> QED BY <1>5, <2>2, <2>4, SeqEqual
<1>9. InHand' \o InRing' = InHand \o InRing
  BY <1>4, <1>5, <1>8, ConcatEmptySeq
<1> QED BY <1>9 DEF Read, HeldStays, Held, Backlog, Counted, sending

\* The event goes into the channel, or is lost between what was read before and
\* what is still in the ring buffer.
LEMMA SendHeld ==
  ASSUME IInv, Send
  PROVE  HeldStays \/ HeldLoses
<1>1. hand \in Nat /\ hand # 0 /\ hand' = 0 /\ InHand = <<hand>> /\ InHand' = <<>>
  BY SizeAssumption DEF Send, InHand, IInv, TypeOK
<1>2. Backlog' = Backlog /\ InRing' = InRing /\ emitted' = emitted
  BY DEF Send, Backlog, InRing, kernel, sending
<1>3. /\ Backlog \in Seq(Nat) /\ channel \in Seq(Nat) /\ InRing \in Seq(Nat)
      /\ <<hand>> \in Seq(Nat) /\ <<>> \in Seq(Nat)
  BY <1>1, HeldType DEF IInv
<1>4. InHand' \o InRing' = InRing
  BY <1>1, <1>2, <1>3, ConcatEmptySeq
<1>5. Held' = Backlog \o (channel' \o InRing)
  BY <1>2, <1>4 DEF Held
<1>6. Held = Backlog \o (channel \o (<<hand>> \o InRing))
  BY <1>1 DEF Held
<1>7. CASE Len(channel) < ChannelSize
  <2>1. channel' = Append(channel, hand) /\ chanDrops' = chanDrops
    BY <1>7 DEF Send
  <2>2. channel' = channel \o <<hand>>
    BY <1>1, <1>3, <2>1, AppendIsConcat
  <2>3. channel' \o InRing = channel \o (<<hand>> \o InRing)
    BY <1>3, <2>2, ConcatNat
  <2> QED BY <1>2, <1>5, <1>6, <2>1, <2>3 DEF HeldStays, Send, Counted, kernel, sending
<1>8. CASE ~(Len(channel) < ChannelSize)
  <2>1. channel' = channel /\ chanDrops' = chanDrops + 1
    BY <1>8 DEF Send
  <2> DEFINE s == Backlog \o channel
             t == <<hand>>
             u == InRing
  <2>2. s \in Seq(Nat) /\ t \in Seq(Nat) /\ u \in Seq(Nat) /\ t \o u \in Seq(Nat)
    BY <1>3, ConcatProperties
  <2>3. Held' = s \o u
    <3>1. Backlog \in Seq(Nat) /\ channel \in Seq(Nat) /\ InRing \in Seq(Nat)
      BY <1>3
    <3>2. (Backlog \o channel) \o InRing = Backlog \o (channel \o InRing)
      BY <3>1, ConcatNat, Zenon
    <3> QED BY <1>5, <2>1, <3>2
  <2>4. Held = s \o (t \o u)
    <3> DEFINE w == t \o u
    <3>1. Held = Backlog \o (channel \o w)
      BY <1>6
    <3>2. Backlog \in Seq(Nat) /\ channel \in Seq(Nat) /\ w \in Seq(Nat)
      BY <1>3, <2>2
    <3> HIDE DEF w
    <3>3. (Backlog \o channel) \o w = Backlog \o (channel \o w)
      BY <3>2, ConcatNat, Zenon
    <3> QED BY <3>1, <3>3 DEF w
  <2>5. Counted' = Counted + Len(t)
    <3>1. Len(t) = 1
      OBVIOUS
    <3>2. /\ drops.trace \in Nat /\ drops.deny \in Nat /\ chanDrops \in Nat
          /\ evicted \in Nat /\ acked \in Nat
      BY DEF IInv, TypeOK
    <3>3. UNCHANGED <<drops, evicted, acked>>
      BY DEF Send, kernel, sending
    <3> HIDE DEF t
    <3> QED BY <2>1, <3>1, <3>2, <3>3 DEF Counted
  <2> HIDE DEF s, t, u
  <2> QED BY <1>2, <2>2, <2>3, <2>4, <2>5 DEF HeldLoses
<1> QED BY <1>7, <1>8

\* The backlog takes over the next event of the channel.
LEMMA ReceiveHeld ==
  ASSUME IInv, Receive
  PROVE  HeldStays
<1> DEFINE e == Head(channel)
<1>1. BacklogGrows
  BY ReceiveGrows
<1>2. /\ Backlog \in Seq(Nat) /\ channel \in Seq(Nat) /\ channel # <<>>
      /\ InHand \o InRing \in Seq(Nat)
  BY HeldType DEF IInv, Receive
<1>3. e \in Nat /\ Tail(channel) \in Seq(Nat) /\ <<e>> \in Seq(Nat)
  BY <1>2, HeadTailProperties
<1>4. Backlog' = Backlog \o <<e>>
  BY <1>1, <1>2, <1>3, AppendIsConcat DEF BacklogGrows
<1>5. channel = <<e>> \o Tail(channel)
  <2>1. /\ Len(channel) \in Nat /\ Len(channel) > 0 /\ Len(Tail(channel)) = Len(channel) - 1
        /\ e = channel[1] /\ \A i \in 1..Len(Tail(channel)) : Tail(channel)[i] = channel[i + 1]
    BY <1>2, HeadTailProperties, LenProperties, EmptySeq
  <2>2. Len(<<e>>) = 1 /\ <<e>>[1] = e
    OBVIOUS
  <2> HIDE DEF e
  <2>3. /\ <<e>> \o Tail(channel) \in Seq(Nat) /\ Len(<<e>> \o Tail(channel)) = Len(channel)
        /\ \A i \in 1..Len(channel) :
             (<<e>> \o Tail(channel))[i] = IF i <= 1 THEN e ELSE Tail(channel)[i - 1]
    BY <1>3, <2>1, <2>2, ConcatProperties
  <2>4. \A i \in 1..Len(channel) : channel[i] = (<<e>> \o Tail(channel))[i]
    BY <2>1, <2>3
  <2> QED BY <1>2, <2>3, <2>4, SeqEqual
<1>6. channel' = Tail(channel) /\ UNCHANGED <<kernel, reader, evicted, acked>>
  BY <1>1 DEF Receive, BacklogGrows
<1>7. InHand' = InHand /\ InRing' = InRing
  BY <1>6 DEF InHand, InRing, kernel, reader
<1> DEFINE T == Tail(channel)
           Q == InHand \o InRing
<1>8. Held' = (Backlog \o <<e>>) \o (T \o Q)
  BY <1>4, <1>6, <1>7 DEF Held
<1>9. Held = Backlog \o ((<<e>> \o T) \o Q)
  BY <1>5 DEF Held
<1> HIDE DEF e, T, Q
<1>10. T \in Seq(Nat) /\ Q \in Seq(Nat) /\ <<e>> \in Seq(Nat) /\ T \o Q \in Seq(Nat)
  <2>1. T \in Seq(Nat) /\ Q \in Seq(Nat) /\ <<e>> \in Seq(Nat)
    BY <1>2, <1>3 DEF T, Q
  <2> QED BY <2>1, ConcatProperties
<1>11. (<<e>> \o T) \o Q = <<e>> \o (T \o Q)
  BY <1>10, ConcatNat, Zenon
<1>12. (Backlog \o <<e>>) \o (T \o Q) = Backlog \o (<<e>> \o (T \o Q))
  <2>1. Backlog \in Seq(Nat) /\ <<e>> \in Seq(Nat) /\ T \o Q \in Seq(Nat)
    BY <1>2, <1>10
  <2> QED BY <2>1, ConcatNat, Zenon
<1>13. Held' = Held
  BY <1>8, <1>9, <1>11, <1>12
<1> QED BY <1>6, <1>13 DEF HeldStays, Counted, kernel, reader

\* A flush moves the backlog into the request.
LEMMA FlushHeld ==
  ASSUME IInv, Ticker \/ LastFlush
  PROVE  HeldStays
<1>1. BacklogStays
  BY FlushStays
<1>2. UNCHANGED <<kernel, reader, channel>>
  BY DEF Ticker, LastFlush
<1> QED BY <1>1, <1>2 DEF BacklogStays, HeldStays, Held, InHand, InRing, Counted, kernel, reader

\* A sequence is its first k elements and the others.
LEMMA SplitSeq ==
  ASSUME NEW S, NEW q \in Seq(S), NEW k \in 0..Len(q)
  PROVE  q = SubSeq(q, 1, k) \o SubSeq(q, k + 1, Len(q))
<1>1. Len(q) \in Nat
  BY LenProperties
<1>2. 1 \in 1..(Len(q) + 1) /\ k \in (1 - 1)..Len(q) /\ Len(q) \in k..Len(q)
  BY <1>1
<1>3. SubSeq(q, 1, k) \o SubSeq(q, k + 1, Len(q)) = SubSeq(q, 1, Len(q))
  BY <1>2, ConcatAdjacentSubSeq
<1> QED BY <1>3, SubSeqFull

\* A request takes events off the front, all or the oldest.
LEMMA PostHeld ==
  ASSUME IInv, PostOk \/ PostFails
  PROVE  HeldLoses
<1>1. UNCHANGED <<kernel, reader, channel>>
  BY DEF PostOk, PostFails
<1>2. Rest' = Rest
  BY <1>1 DEF Rest, InHand, InRing, kernel, reader
<1>3. /\ Backlog \in Seq(Nat) /\ Rest \in Seq(Nat) /\ Held = Backlog \o Rest
      /\ Len(Backlog) \in Nat /\ <<>> \in Seq(Nat)
  BY HeldType, LenProperties DEF IInv
<1>4. Held' = Backlog' \o Rest
  <2>1. Held' = Backlog' \o Rest'
    BY DEF Held, Rest
  <2> QED BY <1>2, <2>1
<1>5. drops.trace \in Nat /\ drops.deny \in Nat /\ chanDrops \in Nat /\ evicted \in Nat /\ acked \in Nat
  BY DEF IInv, TypeOK
<1>6. CASE PostOk
  <2>1. BacklogSent
    BY <1>6, PostEnds
  <2>2. Counted' = Counted + Len(Backlog)
    BY <1>1, <1>3, <1>5, <2>1 DEF BacklogSent, Counted, kernel, reader
  <2>3. Held' = <<>> \o Rest
    BY <1>4, <2>1 DEF BacklogSent
  <2>4. Held = <<>> \o (Backlog \o Rest)
    BY <1>3, HeldType, ConcatEmptySeq DEF IInv
  <2> QED BY <1>1, <1>3, <2>2, <2>3, <2>4 DEF HeldLoses, kernel
<1>7. CASE PostFails
  <2> DEFINE k == Overflow
             t == SubSeq(Backlog, 1, k)
             v == SubSeq(Backlog, k + 1, Len(Backlog))
  <2>1. BacklogCut
    BY <1>7, PostEnds
  <2>2. k \in 0..Len(Backlog) /\ Backlog' = v /\ evicted' = evicted + k /\ acked' = acked
    BY <2>1 DEF BacklogCut
  <2> HIDE DEF k
  <2>3. \A i \in 1..Len(Backlog) : Backlog[i] \in Nat
    BY <1>3, ElementOfSeq
  <2>4. t \in Seq(Nat) /\ Len(t) = k
    BY <1>3, <2>2, <2>3, SubSeqProperties
  <2>5. v \in Seq(Nat)
    BY <1>3, <2>2, <2>3, SubSeqProperties
  <2>6. Backlog = t \o v
    BY <1>3, <2>2, SplitSeq
  <2> HIDE DEF t, v
  <2> DEFINE u == v \o Rest
  <2>7. u \in Seq(Nat) /\ t \o u \in Seq(Nat)
    BY <1>3, <2>4, <2>5, ConcatProperties
  <2>8. Held' = <<>> \o u
    BY <1>4, <2>2, <2>7, ConcatEmptySeq
  <2>9. Held = <<>> \o (t \o u)
    <3>0. t \in Seq(Nat) /\ v \in Seq(Nat) /\ Rest \in Seq(Nat)
      BY <1>3, <2>4, <2>5
    <3>1. (t \o v) \o Rest = t \o (v \o Rest)
      BY <3>0, ConcatNat, Zenon
    <3>2. Held = t \o u
      BY <1>3, <2>6, <3>1
    <3> QED BY <2>7, <3>2, ConcatEmptySeq
  <2>10. Counted' = Counted + Len(t)
    BY <1>1, <1>3, <1>5, <2>2, <2>4 DEF Counted, kernel, reader
  <2> HIDE DEF u
  <2> QED BY <1>1, <1>3, <2>4, <2>7, <2>8, <2>9, <2>10 DEF HeldLoses, kernel
<1> QED BY <1>6, <1>7

\* Close takes the end of what is held, the ring buffer.
LEMMA CloseCuts ==
  ASSUME IInv, Close
  PROVE  HeldCut /\ Len(Held) <= Len(Held') + RingSize
<1> DEFINE s == Backlog \o (channel \o InHand)
<1>1. /\ Backlog \in Seq(Nat) /\ channel \in Seq(Nat) /\ InHand \in Seq(Nat)
      /\ InRing \in Seq(Nat) /\ <<>> \in Seq(Nat)
  BY HeldType DEF IInv
<1>2. channel \o InHand \in Seq(Nat)
  BY <1>1, ConcatProperties
<1>3. s \in Seq(Nat)
  BY <1>1, <1>2, ConcatProperties
<1>4. Held = s \o InRing
  <2>0. channel \in Seq(Nat) /\ InHand \in Seq(Nat) /\ InRing \in Seq(Nat)
    BY <1>1
  <2>1. (channel \o InHand) \o InRing = channel \o (InHand \o InRing)
    BY <2>0, ConcatNat, Zenon
  <2> DEFINE w == channel \o InHand
  <2>2. w \in Seq(Nat)
    BY <1>2
  <2> HIDE DEF w
  <2>4. Backlog \in Seq(Nat) /\ InRing \in Seq(Nat)
    BY <1>1
  <2>3. (Backlog \o w) \o InRing = Backlog \o (w \o InRing)
    BY <2>2, <2>4, ConcatNat, Zenon
  <2> QED BY <2>1, <2>3 DEF Held, w
<1>5. Held' = s
  <2>1. ring' = <<>> /\ UNCHANGED <<hand, channel, sending>>
    BY DEF Close
  <2>2. InRing' = <<>>
    BY <2>1 DEF InRing
  <2>3. InHand' = InHand /\ Backlog' = Backlog
    BY <2>1 DEF InHand, Backlog, sending
  <2>4. InHand \o <<>> = InHand
    BY <1>1, ConcatEmptySeq
  <2> QED BY <2>1, <2>2, <2>3, <2>4 DEF Held
<1> HIDE DEF s
<1>6. Held = s \o (InRing \o <<>>) /\ Held' = s \o <<>>
  BY <1>1, <1>3, <1>4, <1>5, ConcatEmptySeq
<1>7. emitted' = emitted /\ Counted' = Counted
  BY DEF Close, Counted, sending
<1>8. HeldCut
  BY <1>1, <1>3, <1>6, <1>7 DEF HeldCut
<1>9. Len(Held) = Len(s) + Len(InRing) /\ Len(s) \in Nat
  BY <1>1, <1>3, <1>4, ConcatProperties, LenProperties
<1>10. Len(InRing) \in Nat /\ Len(InRing) <= RingSize
  <2>1. Len(ring) \in Nat /\ Len(ring) <= RingSize
    BY LenProperties DEF IInv, TypeOK, ReaderInv
  <2> QED BY <2>1 DEF InRing
<1> QED BY <1>5, <1>8, <1>9, <1>10, SizeAssumption

\* What is held is never more than there is room for.
LEMMA HeldFits ==
  ASSUME IInv
  PROVE  /\ Len(Held) \in Nat
         /\ Len(Held) <= Len(ring) + ChannelSize + 1 + SpoolCap + FlushAt
<1>1. /\ Backlog \in Seq(Nat) /\ channel \in Seq(Nat) /\ InHand \in Seq(Nat)
      /\ InRing \in Seq(Nat) /\ InHand \o InRing \in Seq(Nat) /\ Rest \in Seq(Nat)
      /\ Held = Backlog \o Rest
  BY HeldType DEF IInv
<1>2. /\ Len(Backlog) \in Nat /\ Len(channel) \in Nat /\ Len(InHand) \in Nat
      /\ Len(InRing) \in Nat
  BY <1>1, LenProperties
<1>3. /\ Len(InHand \o InRing) = Len(InHand) + Len(InRing)
      /\ Len(Held) = Len(Backlog) + Len(Rest)
  BY <1>1, ConcatProperties
<1>4. Len(Rest) = Len(channel) + Len(InHand \o InRing)
  BY <1>1, ConcatProperties DEF Rest
<1>5. Len(InRing) = Len(ring) /\ Len(InHand) <= 1
  <2>1. Len(ring) \in Nat
    BY LenProperties DEF IInv, TypeOK
  <2> QED BY <2>1 DEF InRing, InHand
<1>6. Len(channel) <= ChannelSize
  BY DEF IInv, ReaderInv
<1>7. Len(Backlog) <= SpoolCap + FlushAt
  BY <1>2, BacklogFits, SizeAssumption DEF BacklogIsBounded
<1> QED BY <1>2, <1>3, <1>4, <1>5, <1>6, <1>7, SizeAssumption

\* The end of the process takes all.
LEMMA EndsCuts ==
  ASSUME IInv, Ends
  PROVE  HeldCut /\ Len(Held') = 0
<1>1. Held \in Seq(Nat) /\ <<>> \in Seq(Nat)
  BY HeldType DEF IInv
<1>2. Held' = <<>>
  <2>1. Backlog' = <<>> /\ channel' = <<>>
    BY EndsAbandons DEF BacklogAbandoned, Ends
  <2>2. InRing' = <<>> /\ InHand' = <<>>
    BY DEF Ends, InRing, InHand
  <2>3. Held' = <<>> \o (<<>> \o (<<>> \o <<>>))
    BY <2>1, <2>2 DEF Held
  <2> QED BY <1>1, <2>3, ConcatEmptySeq
<1>3. Held = <<>> \o (Held \o <<>>) /\ Held' = <<>> \o <<>>
  BY <1>1, <1>2, ConcatEmptySeq
<1>4. emitted' = emitted /\ Counted' = Counted
  BY DEF Ends, Counted
<1> QED BY <1>1, <1>2, <1>3, <1>4 DEF HeldCut

\* These are all the ways what is held changes; only the end of the programs and
\* that of the process take what no counter has.
LEMMA HeldMoves ==
  ASSUME IInv, [Next]_vars
  PROVE  \/ /\ HeldStays \/ HeldGrows \/ HeldLoses \/ HeldPassed
            /\ tracing' = tracing /\ (Running' <=> Running)
         \/ Close /\ HeldCut
         \/ Running /\ Ends /\ HeldCut
<1>1. CASE ProcessEnds \/ Killed
  <2>1. Ends
    BY <1>1 DEF ProcessEnds, Killed
  <2>2. Running \/ UNCHANGED vars
    BY DEF Next
  <2>3. CASE Running
    BY <2>1, <2>3, EndsCuts
  <2>4. CASE UNCHANGED vars
    <3>1. UNCHANGED <<tracing, sender>> /\ HeldStays
      BY <2>4 DEF vars, kernel, reader, sending, HeldStays, Held, Backlog, InHand, InRing, Counted
    <3> QED BY <3>1 DEF Running
  <2> QED BY <2>2, <2>3, <2>4
<1>2. CASE Close
  BY <1>2, CloseCuts
<1>3. CASE UNCHANGED vars
  <2>1. UNCHANGED <<tracing, sender>> /\ HeldStays
    BY <1>3 DEF vars, kernel, reader, sending, HeldStays, Held, Backlog, InHand, InRing, Counted
  <2> QED BY <2>1 DEF Running
<1>4. CASE Next /\ ~Close /\ ~(ProcessEnds \/ Killed)
  <2>1. Running /\ Running'
    BY <1>4, EndIsFinal DEF IInv
  <2>2. tracing' = tracing
    BY <1>4 DEF Next, Reserve, Submit, Read, Send, ReaderReturns, Receive, Ticker, LastFlush,
                PostOk, PostFails, Cancel, reader
  <2>3. HeldStays \/ HeldGrows \/ HeldLoses \/ HeldPassed
    <3>1. CASE \E c \in Cpus : \E kind \in {"trace", "deny"} : Reserve(c, kind)
      BY <3>1, ReserveHeld
    <3>2. CASE \E c \in Cpus : Submit(c)
      BY <3>2, SubmitHeld
    <3>3. CASE ReaderReturns \/ Cancel
      <4>1. UNCHANGED <<emitted, ring, drops, hand, chanDrops, channel, sending>>
        BY <3>3 DEF ReaderReturns, Cancel, kernel, reader
      <4> QED BY <4>1 DEF HeldStays, Held, Backlog, InHand, InRing, Counted, sending
    <3> QED
      BY <1>4, <3>1, <3>2, <3>3, ReadHeld, SendHeld, ReceiveHeld, FlushHeld, PostHeld DEF Next
  <2> QED BY <2>1, <2>2, <2>3
<1> QED BY <1>1, <1>2, <1>3, <1>4

\* At the start nothing is held.
LEMMA InitHeld ==
  ASSUME Init
  PROVE  Len(Held) = 0
<1>1. TypeOK
  BY InitIInv DEF IInv
<1>2. Len(Backlog) = 0 /\ Len(channel) = 0 /\ Len(InHand) = 0
  <2>1. Len(spool) = 0 /\ Len(flight) = 0 /\ Len(buffer) = 0
    BY DEF Init
  <2>2. Len(Backlog) = 0
    BY <1>1, <2>1, BacklogType
  <2> QED BY <2>2 DEF Init, InHand
<1>3. Len(InRing) = 0
  <2>1. Len(ring) = 0
    BY DEF Init
  <2> QED BY <2>1 DEF InRing
<1>4. Len(InHand \o InRing) = 0
  BY <1>1, <1>2, <1>3, HeldType, ConcatProperties
<1>5. Len(Rest) = 0
  BY <1>1, <1>2, <1>4, HeldType, ConcatProperties DEF Rest
<1> QED BY <1>1, <1>2, <1>5, HeldType, ConcatProperties

\* What a piece taken out of a sequence leaves of it: t is gone, and what was
\* after it has moved down.
LEMMA PieceOut ==
  ASSUME NEW s \in Seq(Nat), NEW t \in Seq(Nat), NEW u \in Seq(Nat)
  PROVE  /\ s \o (t \o u) \in Seq(Nat) /\ s \o u \in Seq(Nat)
         /\ Len(s) \in Nat /\ Len(t) \in Nat /\ Len(u) \in Nat
         /\ Len(s \o (t \o u)) = Len(s) + Len(t) + Len(u)
         /\ Len(s \o u) = Len(s) + Len(u)
         /\ \A i \in 1..(Len(s) + Len(u)) :
              (s \o u)[i] = (s \o (t \o u))[IF i <= Len(s) THEN i ELSE i + Len(t)]
<1>1. Len(s) \in Nat /\ Len(t) \in Nat /\ Len(u) \in Nat
  BY LenProperties
<1>2. /\ t \o u \in Seq(Nat) /\ Len(t \o u) = Len(t) + Len(u)
      /\ \A i \in 1..(Len(t) + Len(u)) : (t \o u)[i] = IF i <= Len(t) THEN t[i] ELSE u[i - Len(t)]
  BY ConcatProperties
<1>3. /\ s \o u \in Seq(Nat) /\ Len(s \o u) = Len(s) + Len(u)
      /\ \A i \in 1..(Len(s) + Len(u)) : (s \o u)[i] = IF i <= Len(s) THEN s[i] ELSE u[i - Len(s)]
  BY ConcatProperties
<1> DEFINE tu == t \o u
<1> HIDE DEF tu
<1>4. /\ s \o tu \in Seq(Nat) /\ Len(s \o tu) = Len(s) + Len(tu)
      /\ \A i \in 1..(Len(s) + Len(tu)) : (s \o tu)[i] = IF i <= Len(s) THEN s[i] ELSE tu[i - Len(s)]
  BY <1>2, ConcatProperties DEF tu
<1>5. Len(tu) = Len(t) + Len(u)
  BY <1>2 DEF tu
<1>6. ASSUME NEW i \in 1..(Len(s) + Len(u))
      PROVE  (s \o u)[i] = (s \o tu)[IF i <= Len(s) THEN i ELSE i + Len(t)]
  <2>1. CASE i <= Len(s)
    BY <1>1, <1>3, <1>4, <1>5, <2>1
  <2>2. CASE ~(i <= Len(s))
    <3>1. i + Len(t) \in 1..(Len(s) + Len(tu)) /\ ~(i + Len(t) <= Len(s))
      BY <1>1, <1>5, <2>2
    <3>2. (s \o tu)[i + Len(t)] = tu[i + Len(t) - Len(s)]
      BY <1>4, <3>1
    <3>3. /\ i + Len(t) - Len(s) \in 1..(Len(t) + Len(u)) /\ ~(i + Len(t) - Len(s) <= Len(t))
          /\ i + Len(t) - Len(s) - Len(t) = i - Len(s)
      BY <1>1, <2>2
    <3>4. tu[i + Len(t) - Len(s)] = u[i - Len(s)]
      BY <1>2, <3>3 DEF tu
    <3> QED BY <1>3, <2>2, <3>2, <3>4
  <2> QED BY <2>1, <2>2
<1>7. Len(s \o tu) = Len(s) + Len(t) + Len(u)
  BY <1>1, <1>4, <1>5
<1> QED BY <1>1, <1>3, <1>4, <1>6, <1>7 DEF tu

\* What is lost uncounted: nothing while the programs are attached, then at most
\* a ring buffer, and with the process all that was held besides.
LossInv ==
  /\ Counted + Len(Held) <= emitted
  /\ tracing => emitted = Counted + Len(Held)
  /\ Running => emitted <= Counted + Len(Held) + (RingSize - Len(ring))
  /\ emitted <= Counted + Len(Held) + Capacity

\* Whatever the programs, the sizes, the signals and the failures of the requests:
\* while a sensor is not told to stop, an event is held, acknowledged or counted
\* as dropped; the end of a process loses no more than its memory holds.
THEOREM EventsAreCounted == Spec => []NothingUncounted
<1>1. Init => LossInv
  <2> SUFFICES ASSUME Init PROVE LossInv OBVIOUS
  <2>1. drops.trace = 0 /\ drops.deny = 0 /\ chanDrops = 0 /\ evicted = 0 /\ acked = 0 /\ emitted = 0
    BY DEF Init
  <2>2. Len(ring) = 0
    BY DEF Init
  <2> QED BY <2>1, <2>2, InitHeld, SizeAssumption DEF Counted, LossInv, Capacity
<1>2. IInv /\ LossInv /\ [Next]_vars => LossInv'
  <2> SUFFICES ASSUME IInv, LossInv, [Next]_vars PROVE LossInv' OBVIOUS
  <2>0. IInv'
    BY NextIInv
  <2>1. Counted \in Nat
    <3>1. /\ drops.trace \in Nat /\ drops.deny \in Nat /\ chanDrops \in Nat
          /\ evicted \in Nat /\ acked \in Nat
      BY DEF IInv, TypeOK
    <3> QED BY <3>1 DEF Counted
  <2>2. Held \in Seq(Nat) /\ Len(Held) \in Nat /\ emitted \in Nat
    BY HeldType, LenProperties DEF IInv, TypeOK
  <2>3. /\ Len(ring) \in Nat /\ Len(ring) <= RingSize
        /\ Len(ring') \in Nat /\ Len(ring') <= RingSize
    BY <2>0, LenProperties DEF IInv, TypeOK, ReaderInv
  <2>4. (~tracing => Len(ring) = 0) /\ (~tracing' => Len(ring') = 0)
    BY <2>0 DEF IInv, ReaderInv
  <2>5. /\ Counted + Len(Held) <= emitted
        /\ tracing => emitted = Counted + Len(Held)
        /\ Running => emitted <= Counted + Len(Held) + (RingSize - Len(ring))
        /\ emitted <= Counted + Len(Held) + Capacity
    BY DEF LossInv
  <2>6. CASE /\ HeldStays \/ HeldGrows \/ HeldLoses \/ HeldPassed
             /\ tracing' = tracing /\ (Running' <=> Running)
    <3>1. PICK d \in {0, 1} :
            /\ emitted' = emitted + d
            /\ Counted' \in Nat /\ Len(Held') \in Nat
            /\ Counted' + Len(Held') = Counted + Len(Held) + d
      <4>1. CASE HeldStays
        BY <2>1, <2>2, <4>1 DEF HeldStays
      <4>2. CASE HeldGrows
        <5>1. Len(Held') = Len(Held) + 1
          BY <2>2, <4>2, AppendProperties DEF HeldGrows
        <5> QED BY <2>1, <2>2, <4>2, <5>1 DEF HeldGrows
      <4>3. CASE HeldLoses
        <5>1. PICK s \in Seq(Nat), t \in Seq(Nat), u \in Seq(Nat) :
                /\ Held = s \o (t \o u) /\ Held' = s \o u
                /\ emitted' = emitted /\ Counted' = Counted + Len(t)
          BY <4>3 DEF HeldLoses
        <5>2. /\ Len(s) \in Nat /\ Len(t) \in Nat /\ Len(u) \in Nat
              /\ Len(Held) = Len(s) + Len(t) + Len(u) /\ Len(Held') = Len(s) + Len(u)
          BY <5>1, PieceOut
        <5>3. emitted' = emitted /\ Counted' = Counted + Len(t)
          BY <5>1
        <5> QED BY <2>1, <2>2, <5>2, <5>3
      <4>4. CASE HeldPassed
        BY <2>1, <2>2, <4>4 DEF HeldPassed
      <4> QED BY <2>6, <4>1, <4>2, <4>3, <4>4
    <3>2. Capacity \in Nat
      BY SizeAssumption DEF Capacity
    <3>3. Counted' + Len(Held') <= emitted'
      BY <2>1, <2>2, <2>5, <3>1
    <3>4. tracing' => emitted' = Counted' + Len(Held')
      BY <2>1, <2>2, <2>5, <2>6, <3>1
    <3>5. Running' => emitted' <= Counted' + Len(Held') + (RingSize - Len(ring'))
      <4>1. CASE tracing'
        BY <2>1, <2>2, <2>3, <3>1, <3>4, <4>1, SizeAssumption
      <4>2. CASE ~tracing'
        BY <2>1, <2>2, <2>4, <2>5, <2>6, <3>1, <4>2, SizeAssumption
      <4> QED BY <4>1, <4>2
    <3>6. emitted' <= Counted' + Len(Held') + Capacity
      BY <2>1, <2>2, <2>5, <3>1, <3>2
    <3> QED BY <3>3, <3>4, <3>5, <3>6 DEF LossInv, Capacity
  <2>7. CASE (Close /\ HeldCut) \/ (Running /\ Ends /\ HeldCut)
    <3>1. /\ Len(Held') \in Nat /\ Len(Held') <= Len(Held)
          /\ emitted' = emitted /\ Counted' = Counted
      <4>1. PICK s \in Seq(Nat), t \in Seq(Nat), u \in Seq(Nat) :
              /\ Held = s \o (t \o u) /\ Held' = s \o u
              /\ emitted' = emitted /\ Counted' = Counted
        BY <2>7 DEF HeldCut
      <4>2. /\ Len(s) \in Nat /\ Len(t) \in Nat /\ Len(u) \in Nat
            /\ Len(Held) = Len(s) + Len(t) + Len(u) /\ Len(Held') = Len(s) + Len(u)
        BY <4>1, PieceOut
      <4>3. emitted' = emitted /\ Counted' = Counted
        BY <4>1
      <4> QED BY <4>2, <4>3
    <3>2. ~tracing' /\ Len(ring') = 0
      BY <2>7 DEF Close, Ends
    <3>3. CASE Close
      <4>1. Len(Held) <= Len(Held') + RingSize
        BY <3>3, CloseCuts
      <4>2. tracing
        BY <3>3 DEF Close
      <4>3. emitted' <= Counted' + Len(Held') + RingSize
        BY <2>1, <2>2, <2>5, <3>1, <4>1, <4>2, SizeAssumption
      <4>4. emitted' <= Counted' + Len(Held') + Capacity
        BY <2>1, <2>2, <3>1, <4>3, SizeAssumption DEF Capacity
      <4>5. Counted' + Len(Held') <= emitted'
        BY <2>1, <2>2, <2>5, <3>1
      <4>6. emitted' <= Counted' + Len(Held') + (RingSize - Len(ring'))
        BY <3>2, <4>3, SizeAssumption
      <4> QED BY <3>2, <4>4, <4>5, <4>6 DEF LossInv, Capacity
    <3>4. CASE Running /\ Ends
      <4>1. Len(Held') = 0 /\ Len(Held) <= Len(ring) + ChannelSize + 1 + SpoolCap + FlushAt
        BY <3>4, EndsCuts, HeldFits
      <4>2. emitted <= Counted + Len(Held) + (RingSize - Len(ring))
        BY <2>5, <3>4
      <4>3. emitted <= Counted + Capacity
        BY <2>1, <2>2, <2>3, <4>1, <4>2, SizeAssumption DEF Capacity
      <4>4. ~Running'
        BY <3>4 DEF Ends, Running
      <4>5. emitted' <= Counted' + Len(Held') + Capacity
        BY <2>1, <3>1, <4>1, <4>3, SizeAssumption DEF Capacity
      <4>6. Counted' + Len(Held') <= emitted'
        BY <2>1, <2>2, <2>5, <3>1
      <4> QED BY <3>2, <4>4, <4>5, <4>6 DEF LossInv, Capacity
    <3> QED BY <2>7, <3>3, <3>4
  <2> QED BY <2>6, <2>7, HeldMoves
<1>3. IInv /\ LossInv => NothingUncounted
  BY DEF LossInv, NothingUncounted, IInv, ReaderInv
<1> QED BY <1>1, <1>2, <1>3, EventTypes, PTL DEF Spec

\* Whatever the sizes and the failures: the events leave in the order in which
\* their records were reserved, and none twice.  What makes it inductive is that
\* all that is held was emitted before what will be.
THEOREM EventsInOrder == Spec => []OrderIsKept
<1> DEFINE Ordered == OrderIsKept /\ \A i \in 1..Len(Held) : Held[i] <= emitted
<1>1. Init => Ordered
  BY InitHeld DEF OrderIsKept
<1>2. IInv /\ Ordered /\ [Next]_vars => Ordered'
  <2> SUFFICES ASSUME IInv, Ordered, [Next]_vars PROVE Ordered' OBVIOUS
  <2>1. /\ Held \in Seq(Nat) /\ Len(Held) \in Nat /\ emitted \in Nat
        /\ \A i \in 1..Len(Held) : Held[i] \in Nat
    BY HeldType, LenProperties, ElementOfSeq DEF IInv, TypeOK
  <2>2. CASE HeldStays
    <3>1. Held' = Held /\ emitted' = emitted
      BY <2>2 DEF HeldStays
    <3>2. OrderIsKept'
      BY <3>1 DEF OrderIsKept
    <3>3. \A i \in 1..Len(Held') : Held'[i] <= emitted'
      BY <3>1
    <3> QED BY <3>2, <3>3
  <2>3. CASE HeldGrows
    <3>1. /\ Len(Held') = Len(Held) + 1 /\ emitted' = emitted + 1
          /\ \A i \in 1..Len(Held) : Held'[i] = Held[i]
          /\ Held'[Len(Held) + 1] = emitted + 1
      BY <2>1, <2>3, AppendProperties DEF HeldGrows
    <3>2. ASSUME NEW i \in 1..Len(Held') PROVE Held'[i] <= emitted'
      <4>1. CASE i \in 1..Len(Held)
        BY <2>1, <3>1, <4>1
      <4>2. CASE i = Len(Held) + 1
        BY <2>1, <3>1, <4>2
      <4> QED BY <2>1, <3>1, <4>1, <4>2
    <3>3. ASSUME NEW i \in 1..Len(Held'), NEW j \in 1..Len(Held'), i < j
          PROVE  Held'[i] < Held'[j]
      <4>1. i \in 1..Len(Held) /\ Held'[i] = Held[i] /\ Held[i] \in Nat /\ Held[i] <= emitted
        BY <2>1, <3>1, <3>3
      <4>2. CASE j \in 1..Len(Held)
        BY <3>1, <3>3, <4>1, <4>2 DEF OrderIsKept
      <4>3. CASE j = Len(Held) + 1
        BY <2>1, <3>1, <4>1, <4>3
      <4> QED BY <2>1, <3>1, <4>2, <4>3
    <3>4. OrderIsKept'
      BY <3>3 DEF OrderIsKept
    <3> QED BY <3>2, <3>4
  <2>4. CASE HeldLoses \/ HeldCut
    <3>1. PICK s \in Seq(Nat), t \in Seq(Nat), u \in Seq(Nat) :
            Held = s \o (t \o u) /\ Held' = s \o u /\ emitted' = emitted
      BY <2>4 DEF HeldLoses, HeldCut
    <3> DEFINE at(i) == IF i <= Len(s) THEN i ELSE i + Len(t)
    <3>2. /\ Len(s) \in Nat /\ Len(t) \in Nat /\ Len(u) \in Nat
          /\ Len(Held) = Len(s) + Len(t) + Len(u) /\ Len(Held') = Len(s) + Len(u)
      BY <3>1, PieceOut
    <3>3. \A i \in 1..Len(Held') : Held'[i] = Held[at(i)]
      BY <3>1, <3>2, PieceOut
    <3>4. \A i \in 1..Len(Held') : at(i) \in 1..Len(Held)
      BY <3>2
    <3>5. \A i, j \in 1..Len(Held') : i < j => at(i) < at(j)
      BY <3>2
    <3> HIDE DEF at
    <3>6. OrderIsKept'
      BY <3>4, <3>5, <3>3 DEF OrderIsKept
    <3>7. \A i \in 1..Len(Held') : Held'[i] <= emitted'
      BY <3>1, <3>4, <3>3
    <3> QED BY <3>6, <3>7
  <2>5. CASE HeldPassed
    BY <2>1, <2>5 DEF HeldPassed, OrderIsKept
  <2> QED BY <2>2, <2>3, <2>4, <2>5, HeldMoves
<1> QED BY <1>1, <1>2, EventTypes, PTL DEF Spec
=============================================================================
