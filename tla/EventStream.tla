----------------------------- MODULE EventStream -----------------------------
(***************************************************************************)
(* The scheduler-event stream of the ebpf backend (stream_linux.go) with   *)
(* the collector's loop that reads it (runSchedulerEvents,                 *)
(* flushSchedulerEvents, drainSchedulerEvents): the reader goroutine, the  *)
(* goroutine that watches the target, the channels between them and the    *)
(* collector, and Close.                                                   *)
(*                                                                         *)
(* The ring buffer, its reader (github.com/cilium/ebpf/ringbuf) and pidfds *)
(* are external.  After Flush, Read returns what is in the ring and then,  *)
(* when the ring is empty, ErrFlushed; after Close, ErrClosed.             *)
(*                                                                         *)
(* The timer may fire in any turn of the loop: time is in EventRun.        *)
(***************************************************************************)
EXTENDS Integers, Sequences

CONSTANTS
  Records,         \* the records the kernel may write
  RingCapacity,    \* how many records the ring buffer holds
  EventsCapacity   \* the capacity of the channel events

ASSUME CapacityAssumption ==
  /\ RingCapacity \in Nat \ {0}
  /\ EventsCapacity \in Nat \ {0}

VARIABLES
  ring,            \* the records in the ring buffer
  flushRequested,  \* the poller was told to flush, Read has not returned ErrFlushed
  readerClosed,    \* s.reader is closed
  events,          \* the channel s.events
  errors,          \* how many errors the channel s.errors holds
  flushed,         \* how many tokens the channel s.flushed holds
  closed,          \* which of these channels are closed
  done,            \* s.done is closed
  reader,          \* where readEvents is
  hand,            \* the event readEvents is about to send
  target,          \* whether the target process lives
  pollFailed,      \* poll has failed with an error that is not EINTR
  targetClosed,    \* s.targetFD is closed
  targetExited,    \* s.targetExited is closed
  watcher,         \* where watchTarget is
  canceled,        \* the context is canceled
  collector,       \* where the collector is
  observed,        \* the last event given to the accumulator
  owed             \* how many events the pending flush still waits for

readerVars == <<reader, hand>>
channelVars == <<events, errors, flushed, closed>>
targetVars == <<target, pollFailed, targetExited, watcher>>
collectorVars == <<collector, observed, owed>>
vars == <<ring, flushRequested, readerClosed, channelVars, done, readerVars,
          targetVars, targetClosed, canceled, collectorVars>>

NoRecord == "none"
NoFlush == -1

ASSUME RecordsAssumption == NoRecord \notin Records

Channels == {"flushed", "errors", "events"}

Init ==
  /\ ring = << >> /\ flushRequested = FALSE /\ readerClosed = FALSE
  /\ events = << >> /\ errors = 0 /\ flushed = 0 /\ closed = {}
  /\ done = FALSE /\ reader = "reading" /\ hand = NoRecord
  /\ target = TRUE /\ pollFailed = FALSE /\ targetClosed = FALSE
  /\ targetExited = FALSE /\ watcher = "polling" /\ canceled = FALSE
  /\ collector = "looping" /\ observed = NoRecord /\ owed = NoFlush

----------------------------------------------------------------------------
(* The kernel and the user *)

\* emit_task_event; a record that does not fit is lost.
Emit(record) ==
  /\ target /\ ~readerClosed
  /\ Len(ring) < RingCapacity
  /\ ring' = Append(ring, record)
  /\ UNCHANGED <<flushRequested, readerClosed, channelVars, done, readerVars,
                 targetVars, targetClosed, canceled, collectorVars>>

Exit ==
  /\ target /\ target' = FALSE
  /\ UNCHANGED <<ring, flushRequested, readerClosed, channelVars, done, readerVars,
                 pollFailed, targetExited, watcher, targetClosed, canceled, collectorVars>>

Cancel ==
  /\ ~canceled /\ canceled' = TRUE
  /\ UNCHANGED <<ring, flushRequested, readerClosed, channelVars, done, readerVars,
                 targetVars, targetClosed, collectorVars>>

----------------------------------------------------------------------------
(* readEvents *)

ReaderFrame == UNCHANGED <<readerClosed, done, targetVars, targetClosed, canceled, collectorVars>>

ReadRecord ==
  /\ reader = "reading" /\ ring # << >>
  /\ ring' = Tail(ring) /\ hand' = Head(ring) /\ reader' = "sending"
  /\ UNCHANGED <<flushRequested, channelVars>> /\ ReaderFrame

\* decodeEvent rejects the record.
ReadBadRecord ==
  /\ reader = "reading" /\ ring # << >>
  /\ ring' = Tail(ring) /\ reader' = "failing"
  /\ UNCHANGED <<flushRequested, channelVars, hand>> /\ ReaderFrame

ReadFlushedBug == \* ErrFlushed passed over
  /\ reader = "reading" /\ ring = << >> /\ flushRequested
  /\ flushRequested' = FALSE
  /\ UNCHANGED <<ring, channelVars, readerVars>> /\ ReaderFrame
ReadFlushed ==
  /\ reader = "reading" /\ ring = << >> /\ flushRequested
  /\ flushRequested' = FALSE /\ reader' = "flushing"
  /\ UNCHANGED <<ring, channelVars, hand>> /\ ReaderFrame

ReadClosed ==
  /\ reader = "reading" /\ readerClosed
  /\ reader' = "exiting"
  /\ UNCHANGED <<ring, flushRequested, channelVars, hand>> /\ ReaderFrame

ReadError ==
  /\ reader = "reading" /\ ~readerClosed
  /\ reader' = "failing"
  /\ UNCHANGED <<ring, flushRequested, channelVars, hand>> /\ ReaderFrame

SendEventBug == \* a slot too many
  /\ reader = "sending" /\ Len(events) <= EventsCapacity
  /\ events' = Append(events, hand) /\ hand' = NoRecord /\ reader' = "reading"
  /\ UNCHANGED <<ring, flushRequested, errors, flushed, closed>> /\ ReaderFrame
SendEvent ==
  /\ reader = "sending" /\ Len(events) < EventsCapacity
  /\ events' = Append(events, hand) /\ hand' = NoRecord /\ reader' = "reading"
  /\ UNCHANGED <<ring, flushRequested, errors, flushed, closed>> /\ ReaderFrame

SendFlushed ==
  /\ reader = "flushing" /\ flushed < 1
  /\ flushed' = flushed + 1 /\ reader' = "reading"
  /\ UNCHANGED <<ring, flushRequested, events, errors, closed, hand>> /\ ReaderFrame

SendError ==
  /\ reader = "failing" /\ errors < 1
  /\ errors' = errors + 1 /\ reader' = "exiting"
  /\ UNCHANGED <<ring, flushRequested, events, flushed, closed, hand>> /\ ReaderFrame

\* Each send is in a select with s.done.
SeeDoneBug == \* the send of an event not in a select with s.done
  /\ reader \in {"flushing", "failing"} /\ done
  /\ reader' = "exiting" /\ hand' = NoRecord
  /\ UNCHANGED <<ring, flushRequested, channelVars>> /\ ReaderFrame
SeeDone ==
  /\ reader \in {"sending", "flushing", "failing"} /\ done
  /\ reader' = "exiting" /\ hand' = NoRecord
  /\ UNCHANGED <<ring, flushRequested, channelVars>> /\ ReaderFrame

\* The deferred calls close the channels, the last one deferred first.
CloseChannel ==
  /\ reader = "exiting"
  /\ closed' = CASE "flushed" \notin closed -> closed \cup {"flushed"}
                 [] "errors" \notin closed -> closed \cup {"errors"}
                 [] OTHER -> closed \cup {"events"}
  /\ reader' = IF closed' = Channels THEN "gone" ELSE "exiting"
  /\ UNCHANGED <<ring, flushRequested, events, errors, flushed, hand>> /\ ReaderFrame

Reader ==
  \/ ReadRecord \/ ReadBadRecord \/ ReadFlushed \/ ReadClosed \/ ReadError
  \/ SendEvent \/ SendFlushed \/ SendError \/ SeeDone \/ CloseChannel

----------------------------------------------------------------------------
(* watchTarget *)

WatcherFrame ==
  UNCHANGED <<ring, flushRequested, readerClosed, channelVars, done, readerVars,
              target, targetClosed, canceled, collectorVars>>

\* pollTargetExited: a closed descriptor is reported as ready (POLLNVAL), and one
\* that was opened again with the same number may be.
PollExitedBug == \* the mask of the events without POLLIN
  /\ watcher = "polling" /\ targetClosed
  /\ watcher' = "exited"
  /\ UNCHANGED <<pollFailed, targetExited>> /\ WatcherFrame
PollExited ==
  /\ watcher = "polling" /\ (~target \/ targetClosed)
  /\ watcher' = "exited"
  /\ UNCHANGED <<pollFailed, targetExited>> /\ WatcherFrame

PollFails ==
  /\ watcher = "polling"
  /\ watcher' = "exited" /\ pollFailed' = TRUE
  /\ UNCHANGED targetExited /\ WatcherFrame

\* The timeout of the poll.
PollTimeout ==
  /\ watcher = "polling" /\ done
  /\ watcher' = "gone"
  /\ UNCHANGED <<pollFailed, targetExited>> /\ WatcherFrame

CheckDone ==
  /\ watcher = "exited"
  /\ watcher' = IF done THEN "gone" ELSE "signalling"
  /\ UNCHANGED <<pollFailed, targetExited>> /\ WatcherFrame

SignalTargetExit ==
  /\ watcher = "signalling"
  /\ targetExited' = TRUE /\ watcher' = "gone"
  /\ UNCHANGED pollFailed /\ WatcherFrame

Watcher == PollExited \/ PollFails \/ PollTimeout \/ CheckDone \/ SignalTargetExit

----------------------------------------------------------------------------
(* The collector *)

CollectorFrame == UNCHANGED <<ring, readerClosed, closed, done, readerVars, targetVars,
                              targetClosed, canceled>>

Selecting == collector \in {"looping", "flushing"}

\* A return from the loop, with nil or an error: the deferred Close comes next.
Return ==
  /\ collector' = "closing"
  /\ UNCHANGED <<flushRequested, events, errors, flushed, observed, owed>> /\ CollectorFrame

SelectCanceled == Selecting /\ canceled /\ Return

SelectTargetExited == Selecting /\ targetExited /\ Return

\* A closed channel is ready when its buffer is empty.
SelectClosed ==
  /\ Selecting
  /\ \/ "events" \in closed /\ events = << >>
     \/ "errors" \in closed /\ errors = 0
     \/ collector = "flushing" /\ "flushed" \in closed /\ flushed = 0
  /\ Return

SelectError ==
  /\ Selecting /\ errors > 0
  /\ errors' = errors - 1 /\ collector' = "closing"
  /\ UNCHANGED <<flushRequested, events, flushed, observed, owed>> /\ CollectorFrame

ReceiveEvent ==
  /\ events' = Tail(events) /\ observed' = Head(events)
  /\ owed' = IF owed > 0 THEN owed - 1 ELSE owed
  /\ UNCHANGED <<flushRequested, errors, flushed, collector>> /\ CollectorFrame

SelectEvent == Selecting /\ events # << >> /\ ReceiveEvent

Broken == reader \in {"failing", "exiting", "gone"}

\* What is written and will still reach the collector.
Pipe == IF Broken THEN events
        ELSE events \o (IF hand = NoRecord THEN << >> ELSE <<hand>>) \o ring

SelectTimerBug == \* the flush not waited for
  /\ collector = "looping"
  /\ flushRequested' = TRUE /\ collector' = "draining" /\ owed' = Len(Pipe)
  /\ UNCHANGED <<events, errors, flushed, observed>> /\ CollectorFrame
SelectTimer ==
  /\ collector = "looping"
  /\ flushRequested' = TRUE /\ collector' = "flushing" /\ owed' = Len(Pipe)
  /\ UNCHANGED <<events, errors, flushed, observed>> /\ CollectorFrame

SelectFlushedBug == \* the channel not drained after the token
  /\ collector = "flushing" /\ flushed > 0
  /\ flushed' = flushed - 1 /\ collector' = "advancing"
  /\ UNCHANGED <<flushRequested, events, errors, observed, owed>> /\ CollectorFrame
SelectFlushed ==
  /\ collector = "flushing" /\ flushed > 0
  /\ flushed' = flushed - 1 /\ collector' = "draining"
  /\ UNCHANGED <<flushRequested, events, errors, observed, owed>> /\ CollectorFrame

DrainEvent == collector = "draining" /\ events # << >> /\ ReceiveEvent

EndDrain ==
  /\ collector = "draining" /\ events = << >>
  /\ collector' = "advancing"
  /\ UNCHANGED <<flushRequested, events, errors, flushed, observed, owed>>
  /\ CollectorFrame

\* Advance and the emission of the report, which may be the last one of the count or
\* fail.
Report ==
  /\ collector = "advancing"
  /\ owed' = NoFlush
  /\ collector' \in {"looping", "closing"}
  /\ UNCHANGED <<flushRequested, events, errors, flushed, observed>> /\ CollectorFrame

\* Close, step by step.
CloseFrame == UNCHANGED <<ring, flushRequested, channelVars, readerVars, targetVars,
                          canceled, observed, owed>>

CloseDone ==
  /\ collector = "closing" /\ ~done
  /\ done' = TRUE
  /\ UNCHANGED <<readerClosed, targetClosed, collector>> /\ CloseFrame

CloseReader ==
  /\ collector = "closing" /\ done /\ ~readerClosed
  /\ readerClosed' = TRUE
  /\ UNCHANGED <<done, targetClosed, collector>> /\ CloseFrame

CloseTargetBug == \* the descriptor closed before the goroutines are told
  /\ collector = "closing" /\ ~targetClosed
  /\ targetClosed' = TRUE /\ collector' = IF readerClosed THEN "stopped" ELSE "closing"
  /\ UNCHANGED <<done, readerClosed>> /\ CloseFrame
CloseTarget ==
  /\ collector = "closing" /\ readerClosed
  /\ targetClosed' = TRUE /\ collector' = "stopped"
  /\ UNCHANGED <<done, readerClosed>> /\ CloseFrame

Branch == SelectCanceled \/ SelectTargetExited \/ SelectClosed \/ SelectError \/ SelectEvent
          \/ SelectTimer \/ SelectFlushed
Close == CloseDone \/ CloseReader \/ CloseTarget
Collector == Branch \/ DrainEvent \/ EndDrain \/ Report \/ Close

----------------------------------------------------------------------------

Next ==
  \/ \E record \in Records : Emit(record)
  \/ Exit \/ Cancel \/ Reader \/ Watcher \/ Collector

Stopping == collector \in {"closing", "stopped"}

\* The target is not faster than the reader and the collector for ever: while the run
\* goes on, it pauses, and all that was written is observed, again and again.
TargetPauses == []<>(Pipe = << >> \/ Stopping)

\* The goroutines and the collector are scheduled.  A select takes each of its ready
\* branches with the same probability, so that none that is ready again and again is
\* passed over for ever; the same goes for the end of the drain and of a flush.
Fairness ==
  /\ WF_vars(Reader) /\ SF_vars(ReadFlushed)
  /\ WF_vars(PollExited \/ PollTimeout \/ CheckDone \/ SignalTargetExit)
  /\ WF_vars(Collector) /\ SF_vars(EndDrain)
  /\ SF_vars(SelectCanceled \/ SelectTargetExited \/ SelectClosed \/ SelectError)
  /\ SF_vars(SelectEvent) /\ SF_vars(SelectFlushed)

Spec == Init /\ [][Next]_vars
FairSpec == Spec /\ Fairness /\ TargetPauses

----------------------------------------------------------------------------
(* Properties *)

\* The state has the types of the channels and of the Go structure.
TypeOK ==
  /\ ring \in Seq(Records) /\ Len(ring) <= RingCapacity
  /\ events \in Seq(Records) /\ Len(events) <= EventsCapacity
  /\ errors \in 0 .. 1 /\ flushed \in 0 .. 1 /\ closed \subseteq Channels
  /\ flushRequested \in BOOLEAN /\ readerClosed \in BOOLEAN /\ done \in BOOLEAN
  /\ target \in BOOLEAN /\ pollFailed \in BOOLEAN /\ canceled \in BOOLEAN
  /\ targetClosed \in BOOLEAN /\ targetExited \in BOOLEAN
  /\ reader \in {"reading", "sending", "flushing", "failing", "exiting", "gone"}
  /\ hand \in Records \cup {NoRecord} /\ (hand # NoRecord <=> reader = "sending")
  /\ watcher \in {"polling", "exited", "signalling", "gone"}
  /\ collector \in {"looping", "flushing", "draining", "advancing", "closing", "stopped"}
  /\ observed \in Records \cup {NoRecord}
  /\ owed \in Nat \cup {NoFlush}

\* Whenever the collector is in its loop, nothing is left of an earlier flush: an old
\* request or token would end the next flush before its events are observed (Flush,
\* readEvents, flushSchedulerEvents).
NoStaleFlush ==
  collector = "looping" => ~flushRequested /\ flushed = 0 /\ reader # "flushing"

\* The target is said to have exited only when it has, or when it cannot be polled:
\* never because Close has closed the descriptor under the watcher (watchTarget, Close).
ExitIsReal == targetExited => ~target \/ pollFailed

\* What the stream promises: nothing is reordered or lost but a tail, and a boundary is
\* reported when all that was written before the flush has been observed.
Pipeline == INSTANCE EventPipe WITH
  queue <- IF Stopping THEN << >> ELSE Pipe,
  owed <- IF Stopping THEN NoFlush ELSE owed,
  broken <- Broken, stopped <- Stopping

PipeSpec == Pipeline!Spec

\* A boundary does not wait for ever: the flush and the drain come to an end
\* (readEvents, flushSchedulerEvents, drainSchedulerEvents).  Neither need end when the
\* target does not pause: Read returns ErrFlushed only when the ring is empty, and the
\* drain goes on while there are events.
FlushEnds == collector = "flushing" ~> collector \in {"looping", "stopped"}

\* The end of the target, a cancelation and a failure of the stream each stop the run,
\* in whichever select the collector is (watchTarget, runSchedulerEvents).
RunStops == (~target \/ canceled \/ reader = "failing") ~> collector = "stopped"

\* Close leaves no goroutine behind, also one that is about to send to a full channel
\* (Close, readEvents, watchTarget).
StopIsClean ==
  collector = "closing" ~> (collector = "stopped" /\ reader = "gone" /\ watcher = "gone")
=============================================================================
