-------------------------- MODULE EventStreamProofs --------------------------
(* Proofs about EventStream: types, the flush protocol, the exit of the      *)
(* target, and that the stream implements EventPipe.                         *)
EXTENDS EventStream, TLAPS, SequenceTheorems

----------------------------------------------------------------------------
(* Queues end to end *)

\* Three queues end to end: a record written to the last one, ...
LEMMA WrittenAtTheEnd ==
  ASSUME NEW S, NEW a \in Seq(S), NEW c \in Seq(S), NEW r \in S
  PROVE  a \o Append(c, r) = Append(a \o c, r)
<1>1. <<r>> \in Seq(S)
  OBVIOUS
<1>2. a \o (c \o <<r>>) = (a \o c) \o <<r>>
  BY <1>1, ConcatAssociative
<1>3. Append(c, r) = c \o <<r>>
  BY AppendIsConcat
<1>4. Append(a \o c, r) = (a \o c) \o <<r>>
  BY AppendIsConcat, ConcatProperties
<1> QED  BY <1>2, <1>3, <1>4

\* ... read from the last one into the reader's hand, ...
LEMMA ReadKeepsQueue ==
  ASSUME NEW S, NEW a \in Seq(S), NEW c \in Seq(S), c # << >>
  PROVE  (a \o << >>) \o c = (a \o <<Head(c)>>) \o Tail(c)
<1>1. Head(c) \in S /\ Tail(c) \in Seq(S) /\ Len(c) \in Nat \ {0}
  BY HeadTailProperties, EmptySeq
<1>2. <<Head(c)>> \in Seq(S)
  BY <1>1
<1>3. c = <<Head(c)>> \o Tail(c)
  <2>1. SubSeq(c, 1, Len(c)) = <<c[1]>> \o SubSeq(c, 2, Len(c))
    BY <1>1, SubSeqRecursiveFirst
  <2>2. Head(c) = c[1]
    OBVIOUS
  <2> QED  BY <2>1, <2>2, SubSeqFull, TailIsSubSeq
<1>4. (a \o <<Head(c)>>) \o Tail(c) = a \o (<<Head(c)>> \o Tail(c))
  BY <1>1, <1>2, ConcatAssociative
<1> QED  BY <1>3, <1>4, ConcatEmptySeq

\* ... sent from there to the first one, ...
LEMMA SendKeepsQueue ==
  ASSUME NEW S, NEW a \in Seq(S), NEW c \in Seq(S), NEW r \in S
  PROVE  (a \o <<r>>) \o c = (Append(a, r) \o << >>) \o c
<1>1. Append(a, r) = a \o <<r>> /\ Append(a, r) \in Seq(S)
  BY AppendIsConcat, AppendProperties
<1> QED  BY <1>1, ConcatEmptySeq

\* ... and received from the first one.
LEMMA ReceivedFromTheFront ==
  ASSUME NEW S, NEW a \in Seq(S), NEW c \in Seq(S), a # << >>
  PROVE  a \o c # << >> /\ Head(a \o c) = Head(a) /\ Tail(a \o c) = Tail(a) \o c
<1>1. Len(a) \in Nat \ {0} /\ Len(c) \in Nat
  BY EmptySeq, LenProperties
<1>2. a \o c \in Seq(S) /\ Len(a \o c) = Len(a) + Len(c) /\ (a \o c)[1] = a[1]
  BY <1>1, ConcatProperties
<1>3. a \o c # << >>
  BY <1>1, <1>2, EmptySeq
<1>4. Head(a) \in S /\ Tail(a) \in Seq(S) /\ <<Head(a)>> \in Seq(S)
  BY HeadTailProperties
<1>5. a = <<Head(a)>> \o Tail(a)
  <2>1. SubSeq(a, 1, Len(a)) = <<a[1]>> \o SubSeq(a, 2, Len(a))
    BY <1>1, SubSeqRecursiveFirst
  <2>2. Head(a) = a[1]
    OBVIOUS
  <2> QED  BY <2>1, <2>2, SubSeqFull, TailIsSubSeq
<1>6. Head(a \o c) \in S /\ Tail(a \o c) \in Seq(S) /\ <<Head(a \o c)>> \in Seq(S)
  BY <1>2, <1>3, HeadTailProperties
<1>7. a \o c = <<Head(a \o c)>> \o Tail(a \o c)
  <2> DEFINE q == a \o c
  <2>1. SubSeq(q, 1, Len(q)) = <<q[1]>> \o SubSeq(q, 2, Len(q))
    BY <1>1, <1>2, SubSeqRecursiveFirst
  <2>2. Head(q) = q[1]
    OBVIOUS
  <2> HIDE DEF q
  <2>3. q \in Seq(S) /\ q # << >>
    BY <1>2, <1>3 DEF q
  <2>4. q = <<Head(q)>> \o Tail(q)
    BY <2>1, <2>2, <2>3, SubSeqFull, TailIsSubSeq
  <2> QED  BY <2>4 DEF q
<1>8. Head(a \o c) = Head(a)
  BY <1>2
<1>9. a \o c = <<Head(a)>> \o (Tail(a) \o c)
  BY <1>4, <1>5, ConcatAssociative
<1>10. Tail(a) \o c \in Seq(S)
  BY <1>4, ConcatProperties
<1>11. Tail(a \o c) = Tail(a) \o c
  BY <1>4, <1>6, <1>7, <1>8, <1>9, <1>10, ConcatSimplifications
<1> QED  BY <1>3, <1>8, <1>11

\* The records that are left when all but the first queue is lost.
LEMMA FrontIsSubSeq ==
  ASSUME NEW S, NEW a \in Seq(S), NEW c \in Seq(S)
  PROVE  SubSeq(a \o c, 1, Len(a)) = a /\ Len(a) \in 0 .. Len(a \o c)
<1>1. Len(a) \in Nat /\ Len(c) \in Nat /\ Len(a \o c) = Len(a) + Len(c) /\ a \o c \in Seq(S)
  BY ConcatProperties, LenProperties
<1>2. CASE Len(a) = 0
  BY <1>1, <1>2, SubSeqEmpty, EmptySeq
<1>3. CASE Len(a) # 0
  BY <1>1, <1>3, SubSeqOfConcat1, SubSeqFull
<1> QED  BY <1>1, <1>2, <1>3

----------------------------------------------------------------------------
(* Types *)

Flags ==
  /\ flushRequested \in BOOLEAN /\ readerClosed \in BOOLEAN /\ done \in BOOLEAN
  /\ target \in BOOLEAN /\ pollFailed \in BOOLEAN /\ canceled \in BOOLEAN
  /\ targetClosed \in BOOLEAN /\ targetExited \in BOOLEAN

Data ==
  /\ ring \in Seq(Records) /\ Len(ring) <= RingCapacity
  /\ events \in Seq(Records) /\ Len(events) <= EventsCapacity
  /\ errors \in 0 .. 1 /\ flushed \in 0 .. 1 /\ closed \subseteq Channels
  /\ reader \in {"reading", "sending", "flushing", "failing", "exiting", "gone"}
  /\ hand \in Records \cup {NoRecord} /\ (hand # NoRecord <=> reader = "sending")
  /\ watcher \in {"polling", "exited", "signalling", "gone"}
  /\ collector \in {"looping", "flushing", "draining", "advancing", "closing", "stopped"}
  /\ observed \in Records \cup {NoRecord}
  /\ owed \in Nat \cup {NoFlush}

\* The type invariant, split by the prover its parts are for.
LEMMA TypeParts == TypeOK <=> Flags /\ Data
BY DEF TypeOK, Flags, Data

LEMMA InitType == Init => Flags /\ Data
<1>1. Init => Flags
  BY DEF Init, Flags
<1>2. Init => Data
  BY CapacityAssumption, RecordsAssumption DEF Init, Data, NoFlush, NoRecord
<1> QED  BY <1>1, <1>2

\* The record in the reader's hand, as a queue.
InHand == IF hand = NoRecord THEN << >> ELSE <<hand>>

\* What is under way is a queue of records: channel, reader's hand, ring buffer.
LEMMA PipeIsQueue ==
  ASSUME Data
  PROVE  /\ InHand \in Seq(Records) /\ Pipe \in Seq(Records) /\ Len(Pipe) \in Nat
         /\ Len(Pipe) = IF Broken THEN Len(events) ELSE Len(events) + Len(InHand) + Len(ring)
<1>1. InHand \in Seq(Records)
  BY DEF Data, InHand
<1>2. /\ (events \o InHand) \o ring \in Seq(Records)
      /\ Len((events \o InHand) \o ring) = Len(events) + Len(InHand) + Len(ring)
  BY <1>1, ConcatProperties, LenProperties DEF Data
<1>3. Pipe = IF Broken THEN events ELSE (events \o InHand) \o ring
  BY DEF Pipe, InHand
<1> QED  BY <1>1, <1>2, <1>3, LenProperties DEF Data

LEMMA FlagsStep == Flags /\ [Next]_vars => Flags'
<1> SUFFICES ASSUME Flags, [Next]_vars  PROVE  Flags'
  OBVIOUS
<1> USE DEF Flags, channelVars, readerVars, targetVars, collectorVars, ReaderFrame,
            WatcherFrame, CollectorFrame, CloseFrame
<1>1. ASSUME NEW record \in Records, Emit(record)  PROVE  Flags'
  BY <1>1, Zenon DEF Emit
<1>2. CASE Exit \/ Cancel
  BY <1>2, Zenon DEF Exit, Cancel
<1>3. CASE Reader
  BY <1>3, Zenon DEF Reader, ReadRecord, ReadBadRecord, ReadFlushed, ReadClosed, ReadError, SendEvent,
             SendFlushed, SendError, SeeDone, CloseChannel
<1>4. CASE Watcher
  BY <1>4, Zenon DEF Watcher, PollExited, PollFails, PollTimeout, CheckDone, SignalTargetExit
<1>5. CASE Collector
  <2>1. CASE Branch
    BY <2>1, Zenon DEF Branch, SelectCanceled, SelectTargetExited, SelectClosed, SelectError, Return,
               SelectEvent, ReceiveEvent, SelectTimer, SelectFlushed
  <2>2. CASE DrainEvent \/ EndDrain \/ Report \/ Close
    BY <2>2, Zenon DEF DrainEvent, ReceiveEvent, EndDrain, Report, Close, CloseDone, CloseReader,
               CloseTarget
  <2> QED  BY <1>5, <2>1, <2>2 DEF Collector
<1>6. CASE UNCHANGED vars
  BY <1>6, Zenon DEF vars
<1> QED  BY <1>1, <1>2, <1>3, <1>4, <1>5, <1>6 DEF Next

\* Buffers stay within their capacity, and hold records only.
LEMMA DataStep == Data /\ [Next]_vars => Data'
<1> SUFFICES ASSUME Data, [Next]_vars  PROVE  Data'
  OBVIOUS
<1> USE DEF Data
<1>1. ASSUME NEW record \in Records, Emit(record)  PROVE  Data'
  <2>1. /\ Append(ring, record) \in Seq(Records)
        /\ Len(Append(ring, record)) = Len(ring) + 1 /\ Len(ring) \in Nat
    BY AppendProperties, LenProperties
  <2>2. Len(ring') <= RingCapacity
    BY <1>1, <2>1, CapacityAssumption DEF Emit
  <2> QED  BY <1>1, <2>1, <2>2 DEF Emit, channelVars, readerVars, targetVars, collectorVars
<1>2. CASE Exit \/ Cancel
  BY <1>2 DEF Exit, Cancel, channelVars, readerVars, targetVars, collectorVars
<1>3. CASE Reader
  <2> USE DEF ReaderFrame, channelVars, readerVars, targetVars, collectorVars
  <2>1. CASE ReadRecord \/ ReadBadRecord
    <3>1. ring # << >>
      BY <2>1 DEF ReadRecord, ReadBadRecord
    <3>2. /\ Head(ring) \in Records /\ Tail(ring) \in Seq(Records)
          /\ Len(Tail(ring)) = Len(ring) - 1 /\ Len(ring) \in Nat
      BY <3>1, HeadTailProperties, LenProperties
    <3>3. Len(Tail(ring)) <= RingCapacity
      BY <3>2, CapacityAssumption
    <3>4. Head(ring) # NoRecord
      BY <3>2, RecordsAssumption
    <3> QED  BY <2>1, <3>2, <3>3, <3>4 DEF ReadRecord, ReadBadRecord
  <2>2. CASE ReadFlushed \/ ReadClosed \/ ReadError
    BY <2>2 DEF ReadFlushed, ReadClosed, ReadError
  <2>3. CASE SendEvent
    BY <2>3, AppendProperties, LenProperties, CapacityAssumption DEF SendEvent, NoRecord
  <2>4. CASE SendFlushed \/ SendError \/ SeeDone
    BY <2>4 DEF SendFlushed, SendError, SeeDone
  <2>5. CASE CloseChannel
    BY <2>5 DEF CloseChannel, Channels
  <2> QED  BY <1>3, <2>1, <2>2, <2>3, <2>4, <2>5 DEF Reader
<1>4. CASE Watcher
  BY <1>4 DEF Watcher, PollExited, PollFails, PollTimeout, CheckDone, SignalTargetExit,
              WatcherFrame, channelVars, readerVars, targetVars, collectorVars
<1>5. CASE Collector
  <2> USE DEF CollectorFrame, CloseFrame, channelVars, readerVars, targetVars, collectorVars
  <2>1. CASE SelectCanceled \/ SelectTargetExited \/ SelectClosed \/ SelectError
    BY <2>1 DEF SelectCanceled, SelectTargetExited, SelectClosed, SelectError, Return
  <2>2. CASE SelectEvent \/ DrainEvent
    <3>1. events # << >> /\ ReceiveEvent
      BY <2>2 DEF SelectEvent, DrainEvent
    <3>2. /\ Head(events) \in Records /\ Tail(events) \in Seq(Records)
          /\ Len(Tail(events)) = Len(events) - 1 /\ Len(events) \in Nat
      BY <3>1, HeadTailProperties, LenProperties
    <3>3. Len(Tail(events)) <= EventsCapacity
      BY <3>2, CapacityAssumption
    <3>4. (IF owed > 0 THEN owed - 1 ELSE owed) \in Nat \cup {NoFlush}
      BY DEF NoFlush
    <3> QED  BY <3>1, <3>2, <3>3, <3>4 DEF ReceiveEvent
  <2>3. CASE SelectTimer
    <3>1. Len(Pipe) \in Nat
      BY PipeIsQueue
    <3> QED  BY <2>3, <3>1 DEF SelectTimer
  <2>4. CASE SelectFlushed \/ EndDrain \/ Report
    BY <2>4 DEF SelectFlushed, EndDrain, Report
  <2>5. CASE Close
    BY <2>5 DEF Close, CloseDone, CloseReader, CloseTarget
  <2> QED  BY <1>5, <2>1, <2>2, <2>3, <2>4, <2>5 DEF Collector, Branch
<1>6. CASE UNCHANGED vars
  BY <1>6 DEF vars, channelVars, readerVars, targetVars, collectorVars
<1> QED  BY <1>1, <1>2, <1>3, <1>4, <1>5, <1>6 DEF Next

----------------------------------------------------------------------------
(* The protocol of a flush *)

\* The state at which a flush, asked for, has got to: the request, the reader's turn, the
\* token.  There is one at most, and none outside a flush.
Requested == flushRequested
Passing == reader = "flushing"
Token == flushed = 1

FlushInv ==
  /\ ~(Requested /\ Passing) /\ ~(Requested /\ Token) /\ ~(Passing /\ Token)
  /\ collector \in {"looping", "draining", "advancing"} => ~Requested /\ ~Passing /\ ~Token

\* What the pending flush waits for is on its way, and in the channel when the token is.
BarrierInv ==
  /\ collector = "looping" => owed = NoFlush
  /\ collector = "flushing" =>
       /\ owed \in Nat
       /\ Requested /\ ~Broken => owed <= Len(Pipe)
       /\ Passing \/ Token => owed <= Len(events)
  /\ collector = "draining" => owed \in Nat /\ owed <= Len(events)
  /\ collector = "advancing" => owed = 0

\* Close goes on in order, and the watcher has seen the target's end unless it is told.
CloseInv ==
  /\ targetClosed => readerClosed
  /\ readerClosed => done
  /\ done => Stopping
  /\ watcher = "exited" => ~target \/ pollFailed \/ done
  /\ watcher = "signalling" => ~target \/ pollFailed
  /\ ExitIsReal

StreamInv == Flags /\ Data /\ FlushInv /\ BarrierInv /\ CloseInv

LEMMA InitInv == Init => FlushInv /\ BarrierInv /\ CloseInv
<1>1. Init => CloseInv
  BY DEF Init, CloseInv, ExitIsReal
<1>2. Init => FlushInv
  BY DEF Init, FlushInv, Requested, Passing, Token
<1>3. Init => BarrierInv
  BY DEF Init, BarrierInv
<1> QED  BY <1>1, <1>2, <1>3

\* Close is called by an ended run only, and goes on in its order.
LEMMA CloseStep == Flags /\ CloseInv /\ [Next]_vars => CloseInv'
<1> SUFFICES ASSUME Flags, CloseInv, [Next]_vars  PROVE  CloseInv'
  OBVIOUS
<1> USE DEF CloseInv, Stopping, ExitIsReal, Flags, channelVars, readerVars, targetVars, collectorVars,
            ReaderFrame, WatcherFrame, CollectorFrame, CloseFrame
<1>1. ASSUME NEW record \in Records, Emit(record)  PROVE  CloseInv'
  BY <1>1 DEF Emit
<1>2. CASE Exit \/ Cancel
  BY <1>2 DEF Exit, Cancel
<1>3. CASE Reader
  <2>1. UNCHANGED <<readerClosed, done, targetVars, targetClosed, collectorVars>>
    BY <1>3, Zenon DEF Reader, ReadRecord, ReadBadRecord, ReadFlushed, ReadClosed, ReadError, SendEvent,
               SendFlushed, SendError, SeeDone, CloseChannel
  <2> QED  BY <2>1
<1>4. CASE Watcher
  <2>1. CASE PollExited \/ PollFails
    BY <2>1 DEF PollExited, PollFails
  <2>2. CASE PollTimeout \/ SignalTargetExit
    BY <2>2 DEF PollTimeout, SignalTargetExit
  <2>3. CASE CheckDone
    BY <2>3 DEF CheckDone
  <2> QED  BY <1>4, <2>1, <2>2, <2>3 DEF Watcher
<1>5. CASE Collector
  <2>1. CASE Branch \/ DrainEvent \/ EndDrain \/ Report
    <3>1. ~Stopping /\ UNCHANGED <<targetClosed, readerClosed, done, watcher, target, pollFailed, targetExited>>
      BY <2>1 DEF Branch, SelectCanceled, SelectTargetExited, SelectClosed, SelectError, Return,
               SelectEvent, ReceiveEvent, SelectTimer, SelectFlushed, Selecting,
               DrainEvent, EndDrain, Report
    <3> QED  BY <3>1
  <2>2. CASE Close
    BY <2>2 DEF Close, CloseDone, CloseReader, CloseTarget
  <2> QED  BY <1>5, <2>1, <2>2 DEF Collector
<1>6. CASE UNCHANGED vars
  BY <1>6 DEF vars
<1> QED  BY <1>1, <1>2, <1>3, <1>4, <1>5, <1>6 DEF Next

\* A flush goes from request to reader to token, and is over when the token is taken.
LEMMA FlushStep == Data /\ FlushInv /\ [Next]_vars => FlushInv'
<1> SUFFICES ASSUME Data, FlushInv, [Next]_vars  PROVE  FlushInv'
  OBVIOUS
<1> USE DEF FlushInv, Requested, Passing, Token, channelVars, readerVars, targetVars, collectorVars,
            ReaderFrame, WatcherFrame, CollectorFrame, CloseFrame
<1>1. ASSUME NEW record \in Records, Emit(record)  PROVE  FlushInv'
  BY <1>1 DEF Emit
<1>2. CASE Exit \/ Cancel
  BY <1>2 DEF Exit, Cancel
<1>3. CASE Reader
  <2>1. CASE ReadRecord \/ ReadBadRecord \/ ReadClosed \/ ReadError
    BY <2>1 DEF ReadRecord, ReadBadRecord, ReadClosed, ReadError
  <2>2. CASE ReadFlushed
    BY <2>2 DEF ReadFlushed
  <2>3. CASE SendEvent \/ SendError \/ SeeDone
    BY <2>3 DEF SendEvent, SendError, SeeDone
  <2>4. CASE SendFlushed
    BY <2>4 DEF SendFlushed, Data
  <2>5. CASE CloseChannel
    <3>1. reader' # "flushing" /\ UNCHANGED <<flushRequested, flushed, collector>>
      BY <2>5 DEF CloseChannel
    <3> QED  BY <3>1
  <2> QED  BY <1>3, <2>1, <2>2, <2>3, <2>4, <2>5 DEF Reader
<1>4. CASE Watcher
  BY <1>4 DEF Watcher, PollExited, PollFails, PollTimeout, CheckDone, SignalTargetExit
<1>5. CASE Collector
  <2>1. CASE SelectCanceled \/ SelectTargetExited \/ SelectClosed \/ SelectError
    BY <2>1 DEF SelectCanceled, SelectTargetExited, SelectClosed, SelectError, Return
  <2>2. CASE SelectEvent \/ DrainEvent
    BY <2>2 DEF SelectEvent, DrainEvent, ReceiveEvent
  <2>3. CASE SelectTimer
    BY <2>3 DEF SelectTimer
  <2>4. CASE SelectFlushed
    BY <2>4 DEF SelectFlushed, Data
  <2>5. CASE EndDrain \/ Report
    BY <2>5 DEF EndDrain, Report
  <2>6. CASE Close
    BY <2>6 DEF Close, CloseDone, CloseReader, CloseTarget
  <2> QED  BY <1>5, <2>1, <2>2, <2>3, <2>4, <2>5, <2>6 DEF Collector, Branch
<1>6. CASE UNCHANGED vars
  BY <1>6 DEF vars
<1> QED  BY <1>1, <1>2, <1>3, <1>4, <1>5, <1>6 DEF Next

----------------------------------------------------------------------------
(* What the steps do to the pipe *)

\* Whoever leaves buffers and reader alone leaves the pipe as it is; ...
LEMMA OthersOnPipe ==
  ASSUME UNCHANGED <<ring, hand, reader, events>>
  PROVE  Pipe' = Pipe /\ Broken' = Broken
BY DEF Pipe, Broken

\* ... a record enters at its end, unless it is cut off; ...
LEMMA EmitOnPipe ==
  ASSUME Data, NEW record \in Records, Emit(record)
  PROVE  /\ Broken' = Broken /\ events' = events
         /\ Pipe' = IF Broken THEN Pipe ELSE Append(Pipe, record)
<1>1. UNCHANGED <<events, hand, reader>> /\ ring' = Append(ring, record)
  BY DEF Emit, channelVars, readerVars
<1>2. Broken' = Broken /\ InHand' = InHand
  BY <1>1 DEF Broken, InHand
<1>3. InHand \in Seq(Records) /\ events \o InHand \in Seq(Records)
  BY PipeIsQueue, ConcatProperties DEF Data
<1>4. (events \o InHand) \o Append(ring, record) = Append((events \o InHand) \o ring, record)
  BY <1>3, WrittenAtTheEnd DEF Data
<1>5. Pipe = IF Broken THEN events ELSE (events \o InHand) \o ring
  BY DEF Pipe, InHand
<1>6. Pipe' = IF Broken' THEN events' ELSE (events' \o InHand') \o ring'
  BY DEF Pipe, InHand
<1> QED  BY <1>1, <1>2, <1>4, <1>5, <1>6

\* ... the collector takes its first record; ...
LEMMA ReceiveOnPipe ==
  ASSUME Data, events # << >>, ReceiveEvent
  PROVE  /\ Broken' = Broken
         /\ Pipe # << >> /\ observed' = Head(Pipe) /\ Pipe' = Tail(Pipe)
         /\ Len(events) \in Nat \ {0} /\ Len(events') = Len(events) - 1
<1>1. /\ UNCHANGED <<ring, hand, reader>>
      /\ events' = Tail(events) /\ observed' = Head(events)
  BY DEF ReceiveEvent, CollectorFrame, readerVars
<1>2. Broken' = Broken /\ InHand' = InHand
  BY <1>1 DEF Broken, InHand
<1>3. InHand \in Seq(Records) /\ InHand \o ring \in Seq(Records) /\ Tail(events) \in Seq(Records)
  BY PipeIsQueue, ConcatProperties, HeadTailProperties DEF Data
<1>4. /\ (events \o InHand) \o ring = events \o (InHand \o ring)
      /\ (Tail(events) \o InHand) \o ring = Tail(events) \o (InHand \o ring)
  <2>1. events \in Seq(Records) /\ ring \in Seq(Records)
    BY DEF Data
  <2>2. (events \o InHand) \o ring = events \o (InHand \o ring)
    BY <1>3, <2>1, ConcatAssociative
  <2>3. (Tail(events) \o InHand) \o ring = Tail(events) \o (InHand \o ring)
    BY <1>3, <2>1, ConcatAssociative
  <2> QED  BY <2>2, <2>3
<1>5. LET rest == InHand \o ring IN
        events \o rest # << >> /\ Head(events \o rest) = Head(events)
        /\ Tail(events \o rest) = Tail(events) \o rest
  BY <1>3, ReceivedFromTheFront DEF Data
<1>6. Pipe = IF Broken THEN events ELSE (events \o InHand) \o ring
  BY DEF Pipe, InHand
<1>7. Pipe' = IF Broken' THEN events' ELSE (events' \o InHand') \o ring'
  BY DEF Pipe, InHand
<1>8. Len(events) \in Nat \ {0} /\ Len(Tail(events)) = Len(events) - 1
  BY HeadTailProperties, EmptySeq DEF Data
<1> QED  BY <1>1, <1>2, <1>4, <1>5, <1>6, <1>7, <1>8

\* The reader moves records along the pipe, and the end of the reader cuts it off behind
\* the channel.
Kept == Broken' = Broken /\ Pipe' = Pipe /\ Len(events') >= Len(events)
CutOff == ~Broken /\ Broken' /\ Pipe' = events /\ events' = events

\* ... the reader moves records along, or fails and leaves what is in the channel, ...
LEMMA ReaderOnPipe ==
  ASSUME Data, Reader
  PROVE  Kept \/ CutOff
<1>1. events \in Seq(Records) /\ ring \in Seq(Records) /\ Len(events) \in Nat
  BY LenProperties DEF Data
<1>2. CASE ReadRecord
  <2>1. /\ UNCHANGED <<events>> /\ ring # << >> /\ ring' = Tail(ring) /\ hand' = Head(ring)
        /\ hand = NoRecord /\ ~Broken /\ ~Broken' /\ Broken' = Broken
    BY <1>2 DEF ReadRecord, channelVars, Data, Broken
  <2>2. hand' # NoRecord
    BY <1>1, <2>1, HeadTailProperties, RecordsAssumption
  <2>3. Pipe' = (events \o <<Head(ring)>>) \o Tail(ring) /\ Pipe = (events \o << >>) \o ring
    BY <2>1, <2>2 DEF Pipe
  <2>4. Pipe' = Pipe
    BY <1>1, <2>1, <2>3, ReadKeepsQueue
  <2>5. Broken' = Broken /\ Len(events') >= Len(events)
    BY <1>1, <2>1
  <2> QED  BY <2>4, <2>5 DEF Kept
<1>3. CASE ReadBadRecord \/ ReadClosed \/ ReadError
  BY <1>3 DEF ReadBadRecord, ReadClosed, ReadError, channelVars, CutOff, Broken, Pipe
<1>4. CASE ReadFlushed \/ SendFlushed
  <2>1. UNCHANGED <<events, hand, ring>> /\ ~Broken /\ ~Broken' /\ Broken' = Broken
    BY <1>4 DEF ReadFlushed, SendFlushed, channelVars, Broken
  <2>2. Pipe' = Pipe /\ Broken' = Broken /\ events' = events
    BY <2>1 DEF Pipe
  <2> QED  BY <1>1, <2>2 DEF Kept
<1>5. CASE SendEvent
  <2>1. /\ events' = Append(events, hand) /\ hand' = NoRecord /\ ring' = ring
        /\ hand \in Records /\ hand # NoRecord /\ ~Broken /\ ~Broken' /\ Broken' = Broken
    BY <1>5 DEF SendEvent, Data, Broken
  <2>2. Pipe' = (Append(events, hand) \o << >>) \o ring /\ Pipe = (events \o <<hand>>) \o ring
    BY <2>1 DEF Pipe
  <2>3. Pipe' = Pipe
    BY <1>1, <2>1, <2>2, SendKeepsQueue
  <2>4. Broken' = Broken /\ Len(events') >= Len(events)
    BY <1>1, <2>1, AppendProperties
  <2> QED  BY <2>3, <2>4 DEF Kept
<1>6. CASE SendError
  <2>1. events' = events /\ Broken /\ Broken'
    BY <1>6 DEF SendError, Broken
  <2> QED  BY <1>1, <2>1 DEF Kept, Pipe
<1>7. CASE SeeDone
  <2>1. events' = events /\ Broken'
    BY <1>7 DEF SeeDone, channelVars, Broken
  <2>2. CASE Broken
    <3>1. Broken' = Broken
      BY <1>7, <2>2 DEF SeeDone, Broken
    <3> QED  BY <1>1, <2>1, <2>2, <3>1 DEF Kept, Pipe
  <2>3. CASE ~Broken
    BY <2>1, <2>3 DEF CutOff, Pipe
  <2> QED  BY <2>2, <2>3
<1>8. CASE CloseChannel
  <2>1. events' = events /\ Broken /\ Broken'
    BY <1>8 DEF CloseChannel, Broken
  <2> QED  BY <1>1, <2>1 DEF Kept, Pipe
<1> QED  BY <1>2, <1>3, <1>4, <1>5, <1>6, <1>7, <1>8 DEF Reader

\* ... which is the front of the pipe.
LEMMA CutOffIsTheFront ==
  ASSUME Data
  PROVE  Len(events) \in 0 .. Len(Pipe) /\ events = SubSeq(Pipe, 1, Len(events))
<1>1. Pipe = IF Broken THEN events ELSE (events \o InHand) \o ring
  BY DEF Pipe, InHand
<1>2. InHand \in Seq(Records) /\ InHand \o ring \in Seq(Records)
  BY PipeIsQueue, ConcatProperties DEF Data
<1>3. (events \o InHand) \o ring = events \o (InHand \o ring)
  BY <1>2, ConcatAssociative DEF Data
<1>4. CASE Broken
  BY <1>1, <1>4, SubSeqFull, LenProperties DEF Data
<1>5. CASE ~Broken
  BY <1>1, <1>2, <1>3, <1>5, FrontIsSubSeq DEF Data
<1> QED  BY <1>4, <1>5

----------------------------------------------------------------------------
(* The barrier *)

\* What a flush waits for does not grow, and is in the channel before the token.
LEMMA BarrierStep == Data /\ Data' /\ FlushInv /\ BarrierInv /\ [Next]_vars => BarrierInv'
<1> SUFFICES ASSUME Data, Data', FlushInv, BarrierInv, [Next]_vars  PROVE  BarrierInv'
  OBVIOUS
<1>1. Len(events) \in Nat /\ Len(Pipe) \in Nat /\ Len(events) <= Len(Pipe)
  BY CutOffIsTheFront, PipeIsQueue, LenProperties DEF Data
<1>2. ASSUME NEW record \in Records, Emit(record)  PROVE  BarrierInv'
  <2>1. Len(Pipe') >= Len(Pipe) /\ events' = events /\ Broken' = Broken
    BY <1>1, <1>2, EmitOnPipe, PipeIsQueue, AppendProperties
  <2>2. UNCHANGED <<flushRequested, reader, flushed, collector, owed>>
    BY <1>2 DEF Emit, channelVars, readerVars, collectorVars
  <2>3. Len(Pipe') \in Nat
    BY <1>1, <1>2, EmitOnPipe, PipeIsQueue, AppendProperties
  <2> QED  BY <1>1, <2>1, <2>2, <2>3 DEF BarrierInv, Requested, Passing, Token
<1>3. CASE Exit \/ Cancel \/ Watcher \/ Close \/ UNCHANGED vars
  <2>1. /\ UNCHANGED <<ring, hand, reader, events, flushRequested, flushed, owed>>
        /\ collector' = collector \/ collector' = "stopped"
    BY <1>3 DEF Exit, Cancel, Watcher, PollExited, PollFails, PollTimeout, CheckDone,
               SignalTargetExit, WatcherFrame, Close, CloseDone, CloseReader, CloseTarget, CloseFrame,
               vars, channelVars, readerVars, targetVars, collectorVars
  <2> QED  BY <2>1, OthersOnPipe DEF BarrierInv, Requested, Passing, Token
<1>4. CASE Reader
  <2>1. UNCHANGED <<collector, owed>>
    BY <1>4 DEF Reader, ReadRecord, ReadBadRecord, ReadFlushed, ReadClosed, ReadError, SendEvent,
               SendFlushed, SendError, SeeDone, CloseChannel, ReaderFrame, collectorVars
  <2>2. (Kept \/ CutOff) /\ Len(events') \in Nat
    BY <1>4, ReaderOnPipe, LenProperties DEF Data
  <2>3. CASE ReadFlushed
    <3>1. Len(Pipe) = Len(events)
      BY <2>3, PipeIsQueue DEF ReadFlushed, Data, InHand, Broken
    <3>2. /\ flushRequested /\ ~flushRequested' /\ reader' = "flushing" /\ ~Broken
          /\ UNCHANGED <<events, flushed>>
      BY <2>3 DEF ReadFlushed, channelVars, Broken
    <3> QED  BY <1>1, <2>1, <3>1, <3>2 DEF BarrierInv, Requested, Passing, Token
  <2>4. CASE SendFlushed
    <3>1. /\ reader = "flushing" /\ reader' = "reading"
          /\ UNCHANGED <<events, flushRequested>>
      BY <2>4 DEF SendFlushed
    <3> QED  BY <2>1, <3>1 DEF BarrierInv, FlushInv, Requested, Passing, Token
  <2>5. CASE ~ReadFlushed /\ ~SendFlushed
    <3>1. UNCHANGED <<flushRequested, flushed>> /\ (reader' = "flushing" => reader = "flushing")
      BY <1>4, <2>5 DEF Reader, ReadRecord, ReadBadRecord, ReadClosed, ReadError, SendEvent,
               SendError, SeeDone, CloseChannel, channelVars
    <3> QED  BY <1>1, <2>1, <2>2, <3>1 DEF BarrierInv, Requested, Passing, Token, Kept, CutOff
  <2> QED  BY <2>3, <2>4, <2>5
<1>5. CASE SelectCanceled \/ SelectTargetExited \/ SelectClosed \/ SelectError
  <2>1. collector' = "closing"
    BY <1>5 DEF SelectCanceled, SelectTargetExited, SelectClosed, SelectError, Return
  <2> QED  BY <2>1 DEF BarrierInv
<1>6. CASE SelectEvent \/ DrainEvent
  <2>1. events # << >> /\ ReceiveEvent
    BY <1>6 DEF SelectEvent, DrainEvent
  <2>2. /\ Broken' = Broken /\ Len(events') = Len(events) - 1 /\ Len(events) > 0
        /\ Len(Pipe') = Len(Pipe) - 1
    BY <1>1, <2>1, ReceiveOnPipe, PipeIsQueue, HeadTailProperties
  <2>3. /\ UNCHANGED <<flushRequested, flushed, reader, collector>>
        /\ owed' = IF owed > 0 THEN owed - 1 ELSE owed
    BY <2>1 DEF ReceiveEvent, CollectorFrame, readerVars
  <2>4. collector \in {"looping", "flushing", "draining"}
    BY <1>6 DEF SelectEvent, DrainEvent, Selecting
  <2> QED  BY <1>1, <2>2, <2>3, <2>4 DEF BarrierInv, Requested, Passing, Token, NoFlush
<1>7. CASE SelectTimer
  <2>1. /\ collector = "looping" /\ collector' = "flushing" /\ owed' = Len(Pipe)
        /\ UNCHANGED <<ring, hand, reader, events, flushed>>
    BY <1>7 DEF SelectTimer, CollectorFrame, readerVars
  <2> QED  BY <1>1, <2>1, OthersOnPipe DEF BarrierInv, FlushInv, Requested, Passing, Token
<1>8. CASE SelectFlushed
  BY <1>8 DEF SelectFlushed, BarrierInv, Token, Data
<1>9. CASE EndDrain
  <2>1. owed = 0
    BY <1>9, EmptySeq DEF EndDrain, BarrierInv
  <2> QED  BY <1>9, <2>1 DEF EndDrain, BarrierInv
<1>10. CASE Report
  BY <1>10 DEF Report, BarrierInv
<1> QED
  BY <1>2, <1>3, <1>4, <1>5, <1>6, <1>7, <1>8, <1>9, <1>10 DEF Next, Collector, Branch

----------------------------------------------------------------------------
(* The steps of EventPipe *)

LEMMA PipeInitially == Init => Pipeline!Init
BY ConcatEmptySeq DEF Init, Pipeline!Init, Pipeline!NoRecord, Pipeline!NoFlush, Pipe, Broken, Stopping,
       NoRecord, NoFlush

\* Each step is one of EventPipe, or none.
LEMMA PipeStep == StreamInv /\ [Next]_vars => [Pipeline!Next]_(Pipeline!vars)
<1> SUFFICES ASSUME StreamInv, [Next]_vars  PROVE  [Pipeline!Next]_(Pipeline!vars)
  OBVIOUS
<1> DEFINE Queue == IF Stopping THEN << >> ELSE Pipe
<1>0. Data /\ BarrierInv /\ CloseInv
  BY DEF StreamInv
<1>1. ASSUME NEW record \in Records, Emit(record)  PROVE  [Pipeline!Next]_(Pipeline!vars)
  <2>1. /\ Broken' = Broken
        /\ Pipe' = IF Broken THEN Pipe ELSE Append(Pipe, record)
    BY <1>0, <1>1, EmitOnPipe
  <2>2. UNCHANGED <<observed, owed>> /\ Stopping' = Stopping
    BY <1>1 DEF Emit, collectorVars, Stopping
  <2>3. CASE Broken \/ Stopping
    BY <2>1, <2>2, <2>3 DEF Pipeline!vars
  <2>4. CASE ~Broken /\ ~Stopping
    <3>1. Pipeline!Write(record)
      BY <2>1, <2>2, <2>4 DEF Pipeline!Write
    <3> QED  BY <3>1 DEF Pipeline!Next
  <2> QED  BY <2>3, <2>4
<1>2. CASE Exit \/ Cancel \/ Watcher \/ Close \/ UNCHANGED vars
  <2>1. /\ UNCHANGED <<ring, hand, reader, events, observed, owed>>
        /\ collector' = collector \/ (collector = "closing" /\ collector' = "stopped")
    BY <1>2 DEF Exit, Cancel, Watcher, PollExited, PollFails, PollTimeout, CheckDone,
               SignalTargetExit, WatcherFrame, Close, CloseDone, CloseReader, CloseTarget, CloseFrame,
               vars, channelVars, readerVars, targetVars, collectorVars
  <2>2. Stopping' = Stopping /\ Pipe' = Pipe /\ Broken' = Broken
    BY <2>1, OthersOnPipe DEF Stopping
  <2> QED  BY <2>1, <2>2 DEF Pipeline!vars
<1>3. CASE Reader
  <2>1. UNCHANGED <<observed, owed>> /\ Stopping' = Stopping
    BY <1>3 DEF Reader, ReadRecord, ReadBadRecord, ReadFlushed, ReadClosed, ReadError, SendEvent,
               SendFlushed, SendError, SeeDone, CloseChannel, ReaderFrame, collectorVars, Stopping
  <2>2. CASE Kept
    BY <2>1, <2>2 DEF Kept, Pipeline!vars
  <2>3. CASE CutOff
    <3>1. \E n \in 0 .. Len(Queue) : Queue' = SubSeq(Queue, 1, n)
      <4>1. CASE Stopping
        BY <2>1, <4>1, SubSeqEmpty, EmptySeq
      <4>2. CASE ~Stopping
        BY <1>0, <2>1, <2>3, <4>2, CutOffIsTheFront DEF CutOff
      <4> QED  BY <4>1, <4>2
    <3>2. Pipeline!Break
      BY <2>1, <2>3, <3>1 DEF Pipeline!Break, CutOff
    <3> QED  BY <3>2 DEF Pipeline!Next
  <2> QED  BY <1>0, <1>3, <2>2, <2>3, ReaderOnPipe
<1>4. ASSUME ~Stopping, Stopping', UNCHANGED <<ring, hand, reader, events, observed>>
      PROVE  [Pipeline!Next]_(Pipeline!vars)
  <2>1. Broken' = Broken
    BY <1>4, OthersOnPipe
  <2>2. Pipeline!Stop
    BY <1>4, <2>1 DEF Pipeline!Stop, Pipeline!NoFlush, NoFlush
  <2> QED  BY <2>2 DEF Pipeline!Next
<1>5. CASE SelectCanceled \/ SelectTargetExited \/ SelectClosed \/ SelectError
  <2>1. ~Stopping /\ Stopping' /\ UNCHANGED <<ring, hand, reader, events, observed>>
    BY <1>5 DEF SelectCanceled, SelectTargetExited, SelectClosed, SelectError, Return, Selecting,
               Stopping, CollectorFrame, readerVars
  <2> QED  BY <1>4, <2>1
<1>6. CASE SelectEvent \/ DrainEvent
  <2>1. events # << >> /\ ReceiveEvent
    BY <1>6 DEF SelectEvent, DrainEvent
  <2>2. /\ ~Stopping /\ ~Stopping' /\ Stopping' = Stopping
        /\ owed' = IF owed > 0 THEN owed - 1 ELSE owed
    BY <1>6, <2>1 DEF SelectEvent, DrainEvent, Selecting, Stopping, ReceiveEvent
  <2>3. /\ Broken' = Broken /\ Pipe # << >> /\ observed' = Head(Pipe) /\ Pipe' = Tail(Pipe)
    BY <1>0, <2>1, ReceiveOnPipe
  <2>4. Pipeline!Observe
    BY <2>2, <2>3 DEF Pipeline!Observe
  <2> QED  BY <2>4 DEF Pipeline!Next
<1>7. CASE SelectTimer
  <2>1. /\ ~Stopping /\ ~Stopping' /\ Stopping' = Stopping
        /\ owed' = Len(Pipe) /\ owed = NoFlush
        /\ UNCHANGED <<ring, hand, reader, events, observed>>
    BY <1>0, <1>7 DEF SelectTimer, Stopping, CollectorFrame, readerVars, BarrierInv
  <2>2. Pipeline!Flush
    BY <2>1, OthersOnPipe DEF Pipeline!Flush, Pipeline!NoFlush, NoFlush
  <2> QED  BY <2>2 DEF Pipeline!Next
<1>8. CASE SelectFlushed \/ EndDrain
  <2>1. /\ ~Stopping /\ ~Stopping' /\ Stopping' = Stopping
        /\ UNCHANGED <<ring, hand, reader, events, observed, owed>>
    BY <1>8 DEF SelectFlushed, EndDrain, Stopping, CollectorFrame, readerVars
  <2> QED  BY <2>1, OthersOnPipe DEF Pipeline!vars
<1>9. CASE Report
  <2>1. /\ ~Stopping /\ owed = 0 /\ owed' = NoFlush
        /\ UNCHANGED <<ring, hand, reader, events, observed>>
    BY <1>0, <1>9 DEF Report, Stopping, CollectorFrame, readerVars, BarrierInv
  <2>2. CASE Stopping'
    BY <1>4, <2>1, <2>2
  <2>3. CASE ~Stopping'
    <3>1. Stopping' = Stopping
      BY <1>9, <2>3 DEF Report, Stopping
    <3>2. Pipeline!Flushed
      BY <2>1, <2>3, <3>1, OthersOnPipe DEF Pipeline!Flushed, Pipeline!NoFlush, NoFlush
    <3> QED  BY <3>2 DEF Pipeline!Next
  <2> QED  BY <2>2, <2>3
<1> QED
  BY <1>1, <1>2, <1>3, <1>5, <1>6, <1>7, <1>8, <1>9 DEF Next, Collector, Branch

----------------------------------------------------------------------------
(* The theorems *)

\* The inductive invariant: types, one flush at a time, what it waits for, the order of Close.
THEOREM StreamInvariant == Spec => []StreamInv
<1>1. Init => StreamInv
  BY InitType, InitInv DEF StreamInv
<1>2. StreamInv /\ [Next]_vars => StreamInv'
  <2> SUFFICES ASSUME StreamInv, [Next]_vars  PROVE  StreamInv'
    OBVIOUS
  <2>1. Flags' /\ Data'
    BY FlagsStep, DataStep DEF StreamInv
  <2>2. FlushInv' /\ BarrierInv' /\ CloseInv'
    BY <2>1, FlushStep, BarrierStep, CloseStep DEF StreamInv
  <2> QED  BY <2>1, <2>2 DEF StreamInv
<1> QED  BY <1>1, <1>2, PTL DEF Spec

\* The channels never hold more than their capacity, and the state has its types.
THEOREM TypeCorrect == Spec => []TypeOK
<1>1. StreamInv => TypeOK
  BY TypeParts DEF StreamInv
<1> QED  BY <1>1, StreamInvariant, PTL

\* Nothing is left of an earlier flush when the collector is in its loop (Flush,
\* readEvents, flushSchedulerEvents).
THEOREM FlushesDoNotLinger == Spec => []NoStaleFlush
<1>1. StreamInv => NoStaleFlush
  BY DEF StreamInv, FlushInv, Requested, Passing, Token, NoStaleFlush, Data
<1> QED  BY <1>1, StreamInvariant, PTL

\* The target is said to have exited only when it has, or when it cannot be polled
\* (watchTarget, Close).
THEOREM ExitsAreReal == Spec => []ExitIsReal
<1>1. StreamInv => ExitIsReal
  BY DEF StreamInv, CloseInv
<1> QED  BY <1>1, StreamInvariant, PTL

\* The stream with its goroutines and channels implements the queue with a flush barrier:
\* nothing is reordered or lost but a tail, and a boundary is reported when all that was
\* written before the flush has been observed, for buffers of any size.
THEOREM StreamImplementsPipe == Spec => PipeSpec
<1>1. Spec => []StreamInv
  BY StreamInvariant
<1> QED  BY <1>1, PipeInitially, PipeStep, PTL DEF Spec, PipeSpec, Pipeline!Spec
=============================================================================
