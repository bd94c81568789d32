# TLA+ models of tsastat

tsastat reports, for each thread of one Linux process and for each interval,
how much time the thread spent in which state: on a CPU, runnable, sleeping,
waiting.  It reads scheduler events from eBPF programs, or samples `/proc` and
the kernel's taskstats, or all of these.  The figures are useful only when they
are right, and when the program says so if they may not be.  This directory
models the parts of the program that decide that, checks them with TLC and
proves the central ones with TLAPS.

All paths below are relative to the repository; `file.go:12` is a line.

## The system

| Component | State | Operations | Talks to |
| --- | --- | --- | --- |
| BPF programs `internal/backend/ebpf/bpf/scheduler.c` | ring buffer, lost-event counter | one handler per tracepoint: timestamp, reserve, submit or count as lost | kernel scheduler; ring buffer |
| Event stream `internal/backend/ebpf/stream_linux.go` | channels `events`, `errors`, `flushed`, `done`, `targetExited`; the ring reader; a pidfd | goroutines `readEvents` and `watchTarget`; `Flush`, `LostEvents`, `Close` | ring buffer; collector, through channels |
| Event collector loop `internal/collector/collector.go:84-136`, `360-404` | timer, number of reports | a `select` over cancelation, exit, events, errors and the timer; flush, drain, advance, emit | stream; event accumulator |
| Event accumulator `internal/collector/event_accumulator.go` | a track per TID, open windows, next window, watermark | `Observe(event)`, `Advance(boundary, lost)` | called by the loop only |
| proc backend `internal/backend/proc` | none | `Snapshot`: list the TIDs, read each between two readings of its identity | `/proc` |
| taskstats backend `internal/backend/taskstats` | the client, opened for the first scan | `Snapshot`, like proc's, with a request per TID | `/proc`, netlink client |
| Netlink client `internal/backend/taskstats/netlink_linux.go` | a socket, the sequence number of the last request | `exchange`: send, poll until an answer with this number, an error, the end of the context or a deadline | kernel |
| Snapshot accumulator `internal/collector/accumulator.go` | the previous samples, open windows, next window | `Observe(snapshot)`, which returns the reports that are complete | called by the loops only |
| Snapshot collector loop `collector.go:45-82` | ticker, number of reports | scan, observe, emit | proc, taskstats or hybrid backend |
| Hybrid backend `internal/backend/hybrid` | active and unavailable sources, whether taskstats is disabled | `Snapshot` merges two scans or falls back; `SourceStatus` | proc, taskstats, event stream |
| Hybrid collector loop `collector.go:138-358` | both accumulators, reports waiting to be merged | as the event loop, with scans on a ticker and at each boundary; merge | all of these |
| Application and configuration `internal/app`, `internal/backend/registry.go` | the configuration | parse the command line, choose backend and renderer, run the collector, turn its result into the exit status | collector, output |
| Report filter and output `internal/output` | none | which rows of a report are shown, in which order and form | called for each report |
| procfs parser `internal/procfs` | none | parse the text of the files | proc and taskstats backends |
| doctor `internal/doctor` | none | print facts of the system | `/proc`, kernel |

What makes it hard:

* **Concurrency.**  Kernel, reader goroutine, watcher goroutine and collector run
  side by side.  A record is written after its timestamp was taken, so events of
  different threads arrive out of order, and some after the boundary they are
  before.  The flush that is to prevent this crosses two goroutines and two
  channels, and `select` picks any ready branch.
* **Incomplete knowledge.**  The ring buffer may be full; the initial scan is not
  atomic and `/proc` cannot tell running from runnable; TIDs are reused; threads
  come and go between two scans.
* **Names.**  A thread is read in several steps, by its TID, which may pass to
  another thread between them; an answer of the kernel may come when nobody waits
  for it any more; the event stream and `/proc` give start times in different
  units and namespaces.
* **Time.**  Segments and gaps cross boundaries; a window may be reported only
  when all of its time is known, and never changes after that.  One slow scan may
  close several windows.
* **Ends.**  The target exits, the user cancels, the stream or a scan fails, while a
  goroutine may be blocked on a full channel, and in each phase of a run another
  piece of code notices.

What makes each part correct: the event accumulator credits every instant of a
live thread once, to the right window, row and state, or leaves evidence that it
may not have; the stream delivers in order, drops nothing silently, and its flush
is a real barrier; runs end, and leave nothing behind; a scan finds the threads
that are there and gives each the counters that are its own; the snapshot
accumulator neither loses nor invents time or counter increments; a run writes the
reports it was asked for, shows the threads that worked, and its status tells how it
went.

## The modules

| Module | Models | Checked by |
| --- | --- | --- |
| `EventAccumulator` | the event accumulator | `MCEventAccumulator` |
| `EventAccumulatorProofs` | proofs about it | TLAPS |
| `EventRun` | kernel, BPF programs, initial scan and collector loop around it, with the truth | `MCEventRun` |
| `EventRunProofs` | proofs about it and `StartTime` | TLAPS |
| `EventGaps` | `EventRun`, with what was missed and heard of each thread | `MCEventGaps` |
| `StartTime` | start times in nanoseconds and in clock ticks, with the widths of Go's integers | `MCEventRun` |
| `EventPipe` | what the collector expects of an event stream | refinement, by `EventStream` |
| `EventStream`, `EventStreamProofs` | event stream and collector loop in detail, without time | `EventStream*.cfg`; TLAPS |
| `SnapshotAccumulator`, `SnapshotProofs` | the snapshot accumulator | `MCSnapshotAccumulator`; TLAPS |
| `HybridRun`, `HybridRunProofs` | the hybrid loop around it, with the merge of its reports | `MCHybridRun`; TLAPS |
| `Netlink` | the loop of a request to the kernel | `MCTaskScan` |
| `TaskScan`, `TaskScanProofs` | a scan by proc, taskstats or both, step by step, over `Netlink` | `MCTaskScan`; TLAPS |
| `Config` | the command line and what it decides | `MCApp` |
| `App`, `AppProofs` | a whole run, from the command line to the exit status, around `SnapshotAccumulator` | `MCApp`; TLAPS |
| `SumProofs` | lemmas about sums over finite sets, for the proofs | TLAPS |

### EventAccumulator

The variables are the fields of `EventAccumulator`, and the reports returned so
far.  `Observe(e)` is the disjunction of the ways through the function: behind the
watermark, before the sample, before the origin, out of order, in order.  Each
includes the look-up of the track (`TrackOf`: a new track, a replaced one, an
identity completed) that the function does first.  `Advance(lost)` closes the
segments of the live tracks and emits a report; its callers only ever pass
`NextBoundary()`, so its loop runs once.  Windows are functions from indices to
records, rows functions from identities `(tid, ticks, ns)`; an absent entry reads
as an empty one, as in the code.  Times are natural numbers; comm, PID and CPU are
left out, and so is the order of rows.

The module leaves the order of the events open.  What holds here holds whatever
the stream does.

### EventRun

`EventRun` EXTENDS `EventAccumulator` with those who drive it.  Threads of the
kernel run, sleep, wake up, are preempted, exit, and reuse TIDs (`Wakeup`,
`SwitchIn`, `SwitchOut`, `Spawn`); each of these takes a timestamp (`Fires`), and
`Submit` writes the record into the ring, or counts it as lost.  Events of one
thread enter the ring in order, since its run-queue is locked; those of different
threads need not.  `StartFlush` and `FinishFlush` are the timer branch of the
loop; the barrier is the number of records in the ring when the flush was asked
for, which `EventStream` shows to be what the real flush does.  `RunInit` is the
initial scan: per thread a history with at most one event, a sample that was read
in a bracket of time and has the middle of the bracket as its timestamp, and the
events in the ring in any order.

A switch-out carries what `scheduler.c` sends, the bits of the task state and whether
the thread was preempted; `stateAfterSwitch` looks at the bits in the order of the code.
The start time goes through `StartTime`.

`timeline` records what the threads really did.  The properties compare it with
the reports.  `MCEventRun` runs scenarios, each with the bounds that let one kind of
case happen; the threads of different scenarios have different start times.

### EventGaps

`EventGaps` adds two history variables to `EventRun` and changes nothing else: per TID,
when the events were that were lost or late (`missed`), and when the switches were that
have been applied (`heard`).  They are for a property on single rows, and in a module of
their own since they multiply the states.

### StartTime

`parseBoottimeOffset` and `procStartTimeTicks`, with products, sums and negations that
wrap as Go's do, for any width.  `ProcTicks` is what the kernel shows in
`/proc/<pid>/stat` for the same thread.  It is external.

### EventStream and EventPipe

One action per step of `readEvents`, `watchTarget`, `Close` and the loops of the
collector that another goroutine could see: each branch of each `select`, each
close of a channel.  The two selects of the collector (`runSchedulerEvents` and
`flushSchedulerEvents`) have the same branches but for the timer and the token.
`EventPipe` is a queue with a flush barrier; the refinement mapping puts channel,
reader's hand and ring end to end.

### SnapshotAccumulator

The variables are the fields of `Accumulator`, the reports, and three history
variables (`finished`, `since`, `counted`) that only the properties and the order
of scans use.  `Observe(snapshot)` is the whole function.  The functions that
visit the windows of a gap one after the other (`recordGap`, `addSegment`,
`recordTransition`, `addSchedstatDelta`, `addDelayDelta`) are one operator,
`CreditGap`, that adds a gap to a row.  Of the quality fields the number of scans
and the longest gap are kept.  The samples are the ones any backend gives; merged
scans of the hybrid backend may have two samples with the same TID.

### HybridRun

`HybridRun` EXTENDS `SnapshotAccumulator` with the hybrid loop, the backend's
sources and a target whose threads begin, end and reuse TIDs while a scan is under
way.  A scan of taskstats and then one of proc (`MergedSnapshots`), or of proc alone
(`ProcSnapshots`), find each thread that lives all through them, at any instant;
`TakeSnapshot` is `Snapshot` with its fall-back, followed by what the loop does with
the result: the decision on `auxEnabled`, or `observeAuxSnapshot`.  `collector` is
where the loop is: before it, in its select, in a scan of the ticker or of the
boundary, or about to emit.  `Emit` is `Advance`, `mergeHybridReport`,
`withSourceStatus` and the emission, of rows that the event accumulator may have:
of any threads that lived in the window, with the identity that the stream can give
them.  The values of counters are left out here; the stream's branches of the select
are those of `EventStream`, and what is inside a scan is in `TaskScan`.

### Netlink and TaskScan

`Netlink` is `exchange`: each turn of its loop, its three ends, and a kernel that
answers when it likes, or never.  `requests` counts without a width what `sequence`
counts with one, so that a property can say whose answer came.

`TaskScan` EXTENDS it with `Snapshot` of the three backends.  The reading of a thread
is one action per system call: a file is opened (`OpenFile`) and read, and between the
two its thread may end, which is an error other than that of a file that is not there.
A thread is its TID and a number, and the number stands for its start time and for the
values of its counters; a sample says which number was read in each step, so that a
property can compare them.  `steady` has the threads that have lived all through the
scan.  The client stays open between scans, and the answers to the requests of an
earlier scan are still in its socket.

### Config and App

`Config` has the tests of `parseConfig` in their effect: which command lines are
refused, and the configuration of the others.  Durations wrap round as `int64`.

`App` EXTENDS `SnapshotAccumulator` and `Config`.  `phase` is where the process is:
before the flags are parsed, opening the events, in the first scan, between scans, in a
scan, in the loop over events, or at its end.  The reports that a scan closes are
filtered and written one by one (`Emit`), and each write may fail, reach the count, or
meet a sort field that does not exist; `StatusOf` is the last lines of `Run`.  A scan
takes time, during which the ticker's channel holds one tick.  Of the loop over events
there are its ends and the reports; the rest is in `EventStream` and `HybridRun`.

## The runs

| Run | Question | States |
| --- | --- | --- |
| `EventAccumulator` | Types, closed windows, coverage, latency and counters, for three events in any order, two reports | 247 k |
| `EventRun` | Are the reports true, or is there evidence?  Rows of a TID disjoint, one row per thread, latencies part of the runnable time, every event accounted for, the same start times as in `/proc` | 1.0 M |
| `EventGaps` | How far does a lost or late event reach: which rows of which threads may it make wrong? | 1.0 M |
| `EventRunSeed` | *violated:* does R in the initial scan stay unknown until it is proven? | |
| `EventStream` | Flush protocol, real exits, refinement of `EventPipe` | 1.7 M |
| `EventStreamLive` | Do flushes end, do runs stop, does Close clean up? | 57 k |
| `SnapshotAccumulator` | Coverage, disjoint rows, conserved counters, with an origin of its own and a given one | 47 k |
| `HybridRun` | Does each report get the delays of its window, and each thread its own?  Coverage with real scans | 202 k |
| `HybridRunSources` | *violated:* are the sources of a report those used for it? | |
| `TaskScan` | Does a scan give each thread its own counters, and find those that are there?  Does it end? | 374 k |
| `TaskScanExit` | *violated:* does a run survive the end of a thread? | |
| `App` | The count, the exit status, tickers, shown rows, and the end of a run | 347 k |

**Bounds.**  The interval has two instants, so that a segment can start, end and
be cut inside a window; two or three windows are enough for an event to be late,
early and on time, and for an error to be carried into a window that did not see
its cause.  Three events on one TID Three events on one TID are what a lost event, a late one and a reuse
of the TID need.  `EventGaps` has windows of one instant, so that a gap has windows before it,
in it, and after the switch that ends it, with one thread or two.  The ring buffer of `EventRun` has one slot: it is full as soon as
two records are under way.  `maxFlight` lets a record enter the ring after the
boundary its timestamp is before.  Each scenario of `MCEventRun` has the instants and
events for its kind of case: reuse of a TID with slow records, two threads, a long
initial scan, start times that a word of the kernel cannot hold.  `EventStream` has two records, so that order
shows, and a channel and a ring that are full with two of them; the liveness run
has one of each, since its state graph is searched for cycles.  The snapshot runs
have four scans, some of which cross a boundary, two threads with one TID, and a
third thread.  The hybrid runs have two threads that share a TID, and windows
of one instant: with three instants two of them are reported, a scan may cross both
boundaries, and a thread that ends on a boundary has a row in the window after it,
beside that of the thread that has got its TID.  `TaskScan` has two TIDs, each with two
threads in turn, the deadline of one poll, and seven requests: one to open the client and
two per TID in the first scan, so that answers to requests that were given up are still to
come when a second attempt, or a second scan, asks for the same TID.  There are six
sequence numbers, and the seventh request has that of the first.  `MaySend` assumes that
the kernel does not answer a request after all other sequence numbers, 2^32 in the code,
have been used.  The collector makes no further scan after one that failed; the interface
of a backend allows it, and so does `TaskScan`.  In `App` a second is two units, and
durations wrap at four: five seconds are an interval of two units, as some large numbers
of seconds are a short interval in the code.  A run over snapshots is followed if it has
the one interval of the accumulator (`Followed`); a scan takes up to one instant, and
there are instants enough for two windows, which one scan may close when the process was
not scheduled between them.  One thread shows what the filter can do.  `CHECK_DEADLOCK`
is off because the bounds, and the end of a run,
stop the system.

**Fairness.**  In `TaskScan` the process runs and time passes (weak fairness of the
scanner's steps and of the clock during a request): what the kernel, the threads and the
signals do is left open, and `SnapshotsEnd` holds because of the deadline.  In `App` it is
the same: no failure, signal or end of the target has to happen.

In `EventStreamLive` goroutines are scheduled (weak fairness of
reader, watcher and collector).  Go's `select` chooses among ready branches at
random, with equal probability: a branch that is ready again and again is taken
in the end (strong fairness of the branches).  `TargetPauses` says that the target
does not outrun reader and collector for ever.  It is an assumption about the
environment, and needed: `Read` returns `ErrFlushed` only when the ring is empty,
and `drainSchedulerEvents` returns only when the channel is; with a target that
never lets either happen, no boundary is ever reported.  Nothing is assumed of the
target's end, of cancelation or of failures: they need not happen.

### What the runs found

* **A thread seeded as unknown becomes runnable while it runs** (`EventRunSeed`).
  `README.md:318-319` promises unknown until an event proves which.  A wakeup proves
  nothing when the thread has not left its run-queue yet, and `applyTransition`
  ignores such wakeups for tracks it knows to be on a CPU, but not for unknown ones.
* **The sources of a report are those of the moment it is emitted**
  (`HybridRunSources`).  `README.md:287-288` says that they describe the path used for
  the interval.  When taskstats fails in the scan at a boundary, the report before
  the boundary has its counters and lists it as unavailable.
* **The end of a thread may end the run** (`TaskScanExit`).  A thread that ends after its
  stat file was opened and before it is read gives `ESRCH`; `proc.go:153` and
  `taskstats.go:135` know only `ENOENT`.  A run over proc fails, a hybrid run loses
  taskstats for good; `README.md:415` says that such a thread is estimated.

How long a late event does harm is no disagreement: `README.md:315-316` says that such events
are rejected, and only that.  `Observe` rejects the transition with the event, and counts it
once, in the window that is open then; the track stays in a state the thread has left.
`EventGaps` shows the reach of this.  Rows may be wrong in any number of reports, of which
only one has a late event, but they are rows of the same thread, and no longer than until
its next switch is applied, whatever state the track was left in.  A wakeup is not enough:
`applyTransition` ignores it for a track that is on a CPU.  `InexactReportsLeaveEvidence`
shows that a wrong report is never without a lost or late event in the reports up to the
next one.

`TickersArePositive` holds, but not because large numbers of seconds are refused:
`config.go:151` multiplies without a test, later tests refuse the products that are not
positive, and `18446744074` seconds are accepted as 290 milliseconds.

## The proofs

`EventAccumulatorProofs` proves for every interval, every set of
events and every initial snapshot that satisfy the assumptions of the module:

1. `TypeCorrect`: `Spec => []TypeOK`.
2. `TimelineInvariant`, with the inductive invariant on time: no track starts
   before the origin or the last report, the watermark is the start of the next
   window, no open window is reported.  From it `ReportedWindowsAreClosed`
   (`OpenWindowsAreUnreported`).  The property is not inductive by itself: that
   `recordEvent` does not touch a reported window rests on the watermark check in
   `Observe`, hence on the relation of watermark and next window.
3. `CoverageInvariant`: between `seedAt` and `since`, the row of a track in each open
   window has at least the overlap.  It needs `TimelineInvariant`, and facts about
   how `AddSegments` changes a window (lemmas on `Overlap`, `TouchedWindows` and
   `WindowIndex`), because a segment may start in a reported window, and because
   the key of the row changes when an event completes the identity.  From it
   `TrackedTimeCredited` and, as an action property, `LiveThreadsCovered`.
4. `PendingWakeupRunnable` (`PendingWakeupIsRunnable`), which is inductive together
   with types and time.  Before the origin no wakeup is pending: one that were would
   be older than its track's last event, and the event that is applied is not.
5. `RowsConsistent` (`RowsAreConsistent`): each operator that
   changes a window keeps its rows consistent, `CountEvent` by a lemma on products
   (`LatencyBound`).

The assumptions are those of the module: a positive interval; events with a
non-zero start time in nanoseconds, as the BPF programs always send it; the same
conversion to clock ticks for all events of a run (`ConversionAssumption`: the
conversion is fixed when the stream is opened, `stream_linux.go:118`); samples taken
before the end of their scan.

`EventRunProofs` proves about a run of the `ebpf` backend, for every scenario of any size
(`ScenariosAssumption`), any ring buffer and any conversion of start times:

1. `RunImplementsAccumulator`: every step of `EventRun` is one of `EventAccumulator` or leaves
   it alone, so that all that is proved there holds in a run.  It rests on
   `StreamAssumption`: what the kernel may send is among the events of the accumulator.
2. `OrderInvariant`, which the others stand on.  The events of a TID are on their way in the
   order of their timestamps and of the threads that made them (`PendingInOrder`), and no
   track is ahead of them: an event that is still on its way is not older than the last
   segment of its track, unless that ended at a boundary, and not of a thread before the
   track's (`TrackInOrder`).  So only the watermark can make an event late, and a TID goes
   from thread to thread forwards, whatever is lost.
3. `StartTimesAgree` (`StartTimesAgreeWithProc`).  A track of the initial scan keeps the
   ticks of `/proc` when an event completes its identity, which is wrong if the event is of
   another thread with the same ticks, or none.  `FirstThreadIsHeard` says that then the
   last event of the first thread is still on its way or is known to be missing or late, and
   a late one is counted no later than in the report that is wrong.
4. `OneRowForAThread` (`ThreadsHaveOneRow`).  The rows of a TID in an open window are of the
   thread of its track and of those before it, and none is without a start time in
   nanoseconds while the window is open: a row gets into a window with an event that
   completed the identity, or at its end.  This is why completing an identity never leaves
   a row behind.
5. `RowsAreDisjoint` (`RowsOfOneTidAreDisjoint`): the rows of a TID in a window have together
   at most the part of the window before the end of the last segment.
6. `NoEventIsForgotten` (`EventsAreAccounted`).  Events from before the end of the scan are
   not counted, and must not be late either: `ScanEventsComeFirst` says that the first flush
   waits for them, so that they come before any boundary is passed.
7. `LatencyIsCovered` (`LatencyIsRunnableTime`).  Runnable time may lie in other windows than
   the latency it is part of, so the invariant is about all windows and reports: runnable
   time less latency is at least what is owed to a wakeup that is not measured yet.
8. `OffsetIsExact` and `StartTicksAgree`, for integers of any width: an offset which is
   accepted is the one in the file, and the ticks of an event are those that `/proc` shows,
   unless the conversion says that it cannot tell.  The case that needs care is the most
   negative offset, which has no positive counterpart.
9. `EvidenceIsLeft` (`InexactReportsLeaveEvidence`), the statement about the whole: a row of
   a report has more of a state than the thread spent in it only if the run shows that an
   event was lost, late or is still on its way.  `TruthInvariant` has the invariant that
   holds until an event is lost or late.  For each TID there is a path: the thread
   before the events in the ring, after each of them, and after the one in flight, where each
   event leads from one to the next (`Joined`), and the timeline is on the path at every
   instant since the start of the segment (`Shown`).  The track is in the state in which the
   path starts, as far as the initial scan could know it (`Starts`), and a row of an open
   window has at most as much of a state as there are instants before the segment at which
   the thread was in it (`RowsAreTrue`).  Applying the head of the ring takes
   the first step of the path off, and credits a segment that the path has just shown
   to be right.  `RecentInvariant` says that what is on its way is not older than the last
   report: from it follows that evidence stays, and that a late event
   is counted no later than in the report after the one it makes wrong (`EvidenceStays`).
   `ExactInvariant` has the three parts together.

   The theorem has two hypotheses, which every scenario of `MCEventRun` satisfies
   (`ScenariosAreOfTheTheorem`).  `SwitchesAreRead`: what `stateAfterSwitch` makes of the bits of
   a task is its state, or unknown; the bits are the kernel's.  `FlightIsShort`: no record
   takes longer than an interval from its timestamp into the ring.  The BPF programs do
   nothing in between that waits.  `parseInterval` refuses no interval that is positive, so
   that the theorem leaves out intervals shorter than the flight of a record (microseconds):
   there, an event could be late two reports after the one it makes wrong.

Three of these properties (5, 6, 7) are about sums.  `SumProofs` has what the provers need to
know of `SumFunction`: what adding, changing or removing a term does, sums of sums, sums that
telescope.  A sum is a fold, and the library's induction theorems cannot be used (below), so
each lemma is proved from a smallest set for which it would fail, which exists as the strict
subsets of a finite set are well-founded.

`TaskScanProofs` proves `AnswersAreOwn` and `CountersAreOfTheirThread` for any TIDs,
number of threads, payloads, deadline, and number of sequence numbers.  `ExchangeInv` says
that a request or an answer under way has the sequence number of its request modulo
`Modulus`, and that the request is one of the last `Modulus`; so an equal sequence number
is an equal request.  `ScanInv` orders what was read of a thread: the number in the first
stat file is not above that of the counters, nor this above that in the second file.
When the first and the last are equal, so is the one in between.

`SteadyFound` (`SteadyThreadsAreFound`) says that a scan that ends well has every thread that
lived all through it, by each source that it lists.  `SteadyInv` says where such a thread is:
still to be read, being read, or in the samples.  `HoldInv` is what keeps it from being
dropped on the way: what has been read of it has its own number, and no answer to the
request that is current says that it does not exist; answers to earlier requests may.  That
is where the sequence numbers of `ExchangeInv` are needed again.  `TargetsAssumption` says
that a target is scanned by one of the three backends.

`SnapshotProofs` proves `ReportsCoverThreads` of the snapshot accumulator, for scans that
follow one another (`IsTimed`).  `TimeInv` puts the samples between the scans and the ends of
the reported windows before the last scan; `OpenInv` says that an open window has of a
thread exactly its overlap with the time between the first sample of the thread and
the last one.  A window is finished when every sample is behind it: the lemma
about the least sample time of a scan uses the well-foundedness of proper subsets of a
finite set in place of an induction.

`TypeCorrect` has the types, of which one takes an argument: the shares of a counter's
increment that go to the windows of a gap are differences of rounded quotients, and are not
negative as a later window has the larger quotient.  `RowsAreDisjoint`
(`RowsOfOneTidAreDisjoint`) says that the rows of a TID in a report share the interval, for
scans that read a TID once (`ReadsTidsOnce`): each row of an open window ends where the
thread was last sampled, and the next thread of the TID starts there.  It is assumed because it
does not hold of merged scans, which may have two samples with one TID.  `CountersConserved`
(`CountersAreConserved`) says that the windows and reports have together what was counted of
each thread: the shares of one increment telescope to the whole of it, also when part of
them is in windows that are reported in the same call.  `SampledAhead` is what it needs:
every thread was sampled after the last window that is reported, so that no share falls into a
window that is gone.  The assumptions on scans (`IsSnapshot`, `IsSample`) are that they have
finitely many samples and delays, as maps in memory do.

`HybridRunProofs` extends these lemmas to the hybrid loop and proves all four properties of
its run: a scan that is made for a boundary starts after it, so that the auxiliary
accumulator has passed the boundary when the report is merged (`AuxReportsAreMerged`),
and what waits are the reports from the boundary to the last window that the snapshots
have closed (`PendingReportsAreAhead`).  `DelaysStayWithTheirThread` needs that threads of
one TID differ both in ticks and in nanoseconds (`ThreadsAssumption`), as they do not
start in the same clock tick.

`AppProofs` proves the safety of a run: `CountIsKept`, as a run over
snapshots has written as many reports as the accumulator has closed while it goes on;
`StatusTellsOutcome`; `TickersArePositive`, from the tests of `parseConfig`, for any
width of a duration; and `WorkIsShown`.  `BusyInv`, for the last one, says that the row of
an open window has the time between two running samples, that idle and running time
together are at most the time of the row, so that a row with work is not all idle, and that
reported windows ended before the last sample of every thread, so that no work
comes too late for its report.

`EventStreamProofs` proves the safety properties of `EventStream`, and that it implements
`EventPipe`, for buffers of any size and any records (`RecordsAssumption`: the mark for "no
record" is not one).  `FlushInv` says that a flush is at one place at most: asked for, at the
reader, or done; and nowhere when the collector is in its loop.  `BarrierInv` is what the
refinement rests on: the records that were under way when the flush was asked for are
still in the pipe while the request waits, and in the channel once the reader has seen
the ring empty, so that a drained channel leaves none of them.  If the reader fails, what is
left of the pipe is its front, the channel.  `CloseInv` has the order of `Close`: `done`,
reader, descriptor; without it the watcher's view of a closed descriptor would look like the
end of the target.  Then every step is one of `EventPipe`, or a stutter.

Only model-checked:

* `GapsEndWithTheNextSwitch`.  The invariant behind `EvidenceIsLeft` holds until the first event
  of any thread is lost or late; this property needs one for each thread that holds again
  after its next switch.
* The liveness properties (`FlushEnds`, `RunStops`, `StopIsClean`, `SnapshotsEnd`,
  `RunsEnd`), which are out of the prover's reach.

## What is not modelled

* Text: the parsing of `/proc`, of the bytes of netlink messages and BPF records, tables and
  JSON, the order of the rows.  They are pure functions of their input; where a run depends on
  whether a text parses, the model has both cases.
* doctor reads and prints facts of the system once: pure I/O.  The web site is not part of the
  program.
* The set-up of the stream in `OpenSchedulerEvents`: a sequence whose error paths call `Close`.
  `App` has its success and its failure.  The loader code `scheduler_bpfel.go` and
  `scheduler_bpfeb.go` is generated.
* The uncertainty of the clock calibration: a constant copied into the reports.
* Returns that cannot happen in a run: an error of `Flush` (`collector.go:361`) while the
  reader is open, one of `doctor.Run`, which always returns nil.
* The last switch of a task that ends, if it comes after the pidfd says so: `EventStream` writes
  records while the target lives.
* 64-bit overflow of times: an interval is at most hours, a run years.  The widths that matter,
  of start times, durations and sequence numbers, are modelled.
* A target that ends and whose PID passes to another process while a run over snapshots looks
  at it by number: nothing in the code is against it, and the documentation promises nothing.

## Plan

1. A proof of `GapsEndWithTheNextSwitch`, from a per-thread form of `TruthInvariant`.
2. The event accumulator itself beside the snapshots of `HybridRun`, so that lost events
   reach the merge.
3. What the uncertainty of a report over snapshots says about its error, with scans over a
   timeline of the threads.

## Running

    tlc -config MCEventAccumulator.cfg MCEventAccumulator
    tlapm EventAccumulatorProofs.tla

`PROJECT.json` lists the runs, a mutant for each property (a plausible bug that the
property catches), the lines each definition models, hazards, findings and theorems.
