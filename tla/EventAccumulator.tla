-------------------------- MODULE EventAccumulator --------------------------
(***************************************************************************)
(* The scheduler-event accumulator: collector/event_accumulator.go.        *)
(*                                                                         *)
(* It turns the stream of scheduler events of one process into one report  *)
(* per interval.  Each TID has a track (the state the thread is in and     *)
(* since when); every event closes a segment of the track and credits it   *)
(* to the windows the segment crosses, Advance closes the segments of all  *)
(* the live tracks at a boundary and emits the window that ends there.     *)
(*                                                                         *)
(* Time is a natural number, NoTime the zero time.Time.  PID, comm, CPU    *)
(* and the order of the rows of a report are left out.                     *)
(***************************************************************************)
EXTENDS Integers

CONSTANTS
  Interval,   \* the reporting interval
  Events,     \* the events the stream may deliver
  Snapshots   \* the initial snapshots: records [finished, samples]

NoTime == 0

SchedulerStates == {"unknown", "on_cpu", "runnable", "sleeping",
  "uninterruptible", "stopped", "tracing_stop", "idle", "dead"}

EventKinds == {"wakeup", "switch_in", "switch_out"}

\* The states procfs gives for a sampled thread.
ThreadStates == {"running", "sleeping", "uninterruptible", "stopped",
  "tracing_stop", "idle", "dead", "zombie", "unknown"}

\* A start time of 0 (in ticks or in nanoseconds) is one the source does not know.
EventType == [tid : Int, ticks : Nat, ns : Nat \ {0}, kind : EventKinds,
              state : SchedulerStates, at : Nat]

\* procfs gives the start time in ticks only.
SampleType == [ticks : Nat, state : ThreadStates, at : Nat]

ASSUME IntervalAssumption == Interval \in Nat \ {0}
ASSUME EventsAssumption == Events \subseteq EventType
\* decodeEvent computes the ticks from the nanoseconds, the same way for all the
\* events of a stream.
ASSUME ConversionAssumption ==
  \A e, f \in Events : e.ns = f.ns => e.ticks = f.ticks
\* The samples of a snapshot by TID.  A scan starts after the epoch and ends
\* when the last sample has been taken.
ASSUME SnapshotsAssumption == \A s \in Snapshots :
  /\ s.finished \in Nat
  /\ s.samples \in [DOMAIN s.samples -> SampleType]
  /\ DOMAIN s.samples \subseteq Int
  /\ \A tid \in DOMAIN s.samples : s.samples[tid].at <= s.finished

VARIABLES
  origin,      \* acc.origin: the instant at which the first window starts
  tracks,      \* acc.tracks: from TIDs to tracks
  windows,     \* acc.windows: from indices to open windows
  nextWindow,  \* acc.nextWindow: the first window not reported yet
  watermark,   \* acc.watermark
  advanced,    \* acc.advanced
  reports      \* the reports Advance has returned, from window indices to reports

vars == <<origin, tracks, windows, nextWindow, watermark, advanced, reports>>

----------------------------------------------------------------------------
(* Windows of time *)

later(left, right) == IF right > left THEN right ELSE left
earlier(left, right) == IF right < left THEN right ELSE left

WindowStart(index) == origin + index * Interval
WindowEnd(index) == origin + (index + 1) * Interval
NextBoundary == WindowEnd(nextWindow)

WindowIndex(at) == IF at > origin THEN (at - origin) \div Interval ELSE 0

\* How much of the segment [from, to) lies in a window.
Overlap(index, from, to) ==
  LET start == later(from, WindowStart(index))
      end == earlier(to, WindowEnd(index))
  IN IF end > start THEN end - start ELSE 0

----------------------------------------------------------------------------
(* Rows and windows of statistics *)

Identity(tid, track) == [tid |-> tid, ticks |-> track.ticks, ns |-> track.ns]

NoRow == [observed |-> 0, time |-> [s \in SchedulerStates |-> 0], events |-> 0,
          slices |-> 0, wakeups |-> 0, latency |-> 0, latencyMax |-> 0,
          incomplete |-> 0]

NoWindow == [stats |-> << >>, events |-> 0, late |-> 0, incomplete |-> 0, races |-> 0]

\* The lookups of Go's maps: an absent key reads as an empty entry.
RowOf(window, id) == IF id \in DOMAIN window.stats THEN window.stats[id] ELSE NoRow
WindowOf(ws, index) == IF index \in DOMAIN ws THEN ws[index] ELSE NoWindow

WithWindow(ws, index, window) ==
  [i \in DOMAIN ws \cup {index} |-> IF i = index THEN window ELSE ws[i]]

\* The windows forEachWindow visits; it skips those already reported.
TouchedWindowsBug(from, to) == \* the segment goes to the window it ends in
  {i \in {WindowIndex(to)} : Overlap(i, from, to) > 0}
TouchedWindows(from, to) ==
  {i \in nextWindow .. WindowIndex(to) : Overlap(i, from, to) > 0}

CreditState(time, state, delta) == [time EXCEPT ![state] = @ + delta]
CreditRow(row, state, delta) ==
  [row EXCEPT !.observed = @ + delta, !.time = CreditState(@, state, delta)]

\* addTrackSegment for each of the tracks in ts whose TID is in tids, from its
\* "since" to the instant "to".  Different TIDs have different rows, so the
\* order of the tracks does not matter.
AddSegments(ws, ts, tids, to) ==
  LET Touches(tid, i) == i \in TouchedWindows(ts[tid].since, to)
      Ids(i) == {Identity(tid, ts[tid]) : tid \in {t \in tids : Touches(t, i)}}
      Credited(i) ==
        LET w == WindowOf(ws, i) IN
        [w EXCEPT !.stats = [id \in DOMAIN w.stats \cup Ids(i) |->
           IF id \in Ids(i)
           THEN CreditRow(RowOf(w, id), ts[id.tid].state,
                          Overlap(i, ts[id.tid].since, to))
           ELSE w.stats[id]]]
      touched == UNION {TouchedWindows(ts[tid].since, to) : tid \in tids}
  IN [i \in DOMAIN ws \cup touched |-> IF i \in touched THEN Credited(i) ELSE ws[i]]

RecordLateEvent(ws) ==
  LET w == WindowOf(ws, nextWindow)
  IN WithWindow(ws, nextWindow, [w EXCEPT !.late = @ + 1])

RecordInitializationRace(ws, at) ==
  LET index == IF at >= origin THEN later(nextWindow, WindowIndex(at)) ELSE nextWindow
      w == WindowOf(ws, index)
  IN WithWindow(ws, index, [w EXCEPT !.races = @ + 1])

----------------------------------------------------------------------------
(* Events *)

Breaks(track, e) == e.kind = "switch_out" /\ track.wakeupAt # NoTime
Measures(track, e) ==
  e.kind = "switch_in" /\ track.wakeupAt # NoTime /\ e.at >= track.wakeupAt

\* recordEvent, in the row of the thread
CountEventBug(row, track, e) == \* the comparison of the maximum turned round
  [row EXCEPT !.events = @ + 1,
              !.wakeups = @ + (IF Measures(track, e) THEN 1 ELSE 0),
              !.latency = @ + (IF Measures(track, e) THEN e.at - track.wakeupAt ELSE 0)]
CountEvent(row, track, e) ==
  LET latency == IF Measures(track, e) THEN e.at - track.wakeupAt ELSE 0 IN
  [observed |-> row.observed, time |-> row.time,
   events |-> row.events + 1,
   incomplete |-> row.incomplete + (IF Breaks(track, e) THEN 1 ELSE 0),
   slices |-> row.slices + (IF e.kind = "switch_in" THEN 1 ELSE 0),
   wakeups |-> row.wakeups + (IF Measures(track, e) THEN 1 ELSE 0),
   latency |-> row.latency + latency,
   latencyMax |-> later(row.latencyMax, latency)]

\* recordEvent, in the window the event falls in
RecordEvent(ws, track, e) ==
  LET w == WindowOf(ws, WindowIndex(e.at))
      id == Identity(e.tid, track)
  IN WithWindow(ws, WindowIndex(e.at),
       [stats |-> [i \in DOMAIN w.stats \cup {id} |->
                     IF i = id THEN CountEvent(RowOf(w, id), track, e) ELSE w.stats[i]],
        events |-> w.events + 1,
        incomplete |-> w.incomplete + (IF Breaks(track, e) THEN 1 ELSE 0),
        late |-> w.late, races |-> w.races])

\* applyTransition
ApplyTransitionBug(track, e, measureWakeup) == \* switch-out keeps the wakeup
  [track EXCEPT !.state = CASE e.kind = "wakeup" -> "runnable"
                            [] e.kind = "switch_in" -> "on_cpu"
                            [] e.kind = "switch_out" -> e.state,
                !.wakeupAt = IF e.kind = "wakeup" /\ measureWakeup THEN e.at
                             ELSE IF e.kind = "switch_in" THEN NoTime ELSE @]
ApplyTransitionAnnounced(track, e, measureWakeup) == \* a switch-in only after its wakeup
  CASE e.kind = "wakeup" ->
         IF track.state = "on_cpu" THEN track
         ELSE [track EXCEPT !.state = "runnable",
                 !.wakeupAt = IF measureWakeup /\ e.at >= origin THEN e.at ELSE @]
    [] e.kind = "switch_in" ->
         [track EXCEPT !.state = IF @ = "sleeping" THEN @ ELSE "on_cpu", !.wakeupAt = NoTime]
    [] e.kind = "switch_out" ->
         [track EXCEPT !.state = e.state, !.wakeupAt = NoTime,
                       !.alive = (@ /\ e.state # "dead")]
ApplyTransition(track, e, measureWakeup) ==
  CASE e.kind = "wakeup" ->
         IF track.state = "on_cpu" THEN track
         ELSE [track EXCEPT !.state = "runnable",
                 !.wakeupAt = IF measureWakeup /\ e.at >= origin THEN e.at ELSE @]
    [] e.kind = "switch_in" ->
         [track EXCEPT !.state = "on_cpu", !.alive = TRUE, !.wakeupAt = NoTime]
    [] e.kind = "switch_out" ->
         [track EXCEPT !.state = e.state, !.wakeupAt = NoTime,
                       !.alive = (@ /\ e.state # "dead")]

\* The track after the event, in its new segment.
Applied(track, e, measureWakeup, since) ==
  [ApplyTransition(track, e, measureWakeup) EXCEPT !.since = since, !.lastEvent = e.at]

\* schedulerIdentityChanged: only start times that both sides know can differ.
IdentityChanged(track, e) ==
  \/ e.ticks # 0 /\ track.ticks # 0 /\ e.ticks # track.ticks
  \/ e.ns # 0 /\ track.ns # 0 /\ e.ns # track.ns

Known(e) == e.tid \in DOMAIN tracks
Replaces(e) == Known(e) /\ IdentityChanged(tracks[e.tid], e)

NewTrackBug(e) == \* the first segment not cut at the first event
  [ticks |-> e.ticks, ns |-> e.ns, state |-> "unknown",
   since |-> origin, seedAt |-> e.at, lastEvent |-> e.at,
   wakeupAt |-> NoTime, alive |-> TRUE]
NewTrack(e) ==
  [ticks |-> e.ticks, ns |-> e.ns, state |-> "unknown",
   since |-> later(origin, e.at), seedAt |-> e.at, lastEvent |-> e.at,
   wakeupAt |-> NoTime, alive |-> TRUE]

\* The track the event is applied to: a new one, or the old one that learns the
\* start times it did not know.
TrackOf(e) ==
  IF ~Known(e) \/ Replaces(e) THEN NewTrack(e)
  ELSE [tracks[e.tid] EXCEPT !.ticks = IF e.ticks # 0 THEN e.ticks ELSE @,
                             !.ns = IF e.ns # 0 THEN e.ns ELSE @]

WindowsAfterLookup(e) ==
  IF Replaces(e) THEN RecordInitializationRace(windows, e.at) ELSE windows

SetTrack(tid, track) ==
  tracks' = [t \in DOMAIN tracks \cup {tid} |-> IF t = tid THEN track ELSE tracks[t]]

Valid(e) == e.at # NoTime /\ e.tid > 0
BehindBug(e) == FALSE \* the check of the watermark forgotten
Behind(e) == advanced /\ e.at < watermark

ObserveBehindWatermark(e) ==
  /\ Valid(e) /\ Behind(e)
  /\ windows' = RecordLateEvent(windows)
  /\ UNCHANGED tracks

\* The initial scan saw the thread after this event.
ObserveBeforeSeed(e) ==
  /\ Valid(e) /\ ~Behind(e) /\ e.at < TrackOf(e).seedAt
  /\ windows' = WindowsAfterLookup(e)
  /\ SetTrack(e.tid, TrackOf(e))

\* An event between the thread's sample and the end of the initial scan sets
\* the state the first segment starts in.
ObserveBeforeOriginBug(e) == \* the event dropped, for it has no window
  LET track == TrackOf(e) IN
  /\ Valid(e) /\ ~Behind(e) /\ e.at >= track.seedAt /\ e.at < origin
  /\ windows' = WindowsAfterLookup(e)
  /\ SetTrack(e.tid, track)
ObserveBeforeOrigin(e) ==
  LET track == TrackOf(e) IN
  /\ Valid(e) /\ ~Behind(e) /\ e.at >= track.seedAt /\ e.at < origin
  /\ IF e.at < track.lastEvent
     THEN /\ windows' = RecordInitializationRace(WindowsAfterLookup(e), origin)
          /\ SetTrack(e.tid, track)
     ELSE /\ windows' = WindowsAfterLookup(e)
          /\ SetTrack(e.tid, Applied(track, e, FALSE, origin))

InOrder(track, e) == e.at >= track.since /\ e.at >= track.lastEvent

ObserveOutOfOrder(e) ==
  LET track == TrackOf(e) IN
  /\ Valid(e) /\ ~Behind(e) /\ e.at >= track.seedAt /\ e.at >= origin
  /\ ~InOrder(track, e)
  /\ windows' = RecordLateEvent(WindowsAfterLookup(e))
  /\ SetTrack(e.tid, track)

ObserveInOrderBug(e) == \* the segment closed before the identity is completed
  LET track == TrackOf(e)
      old == IF Known(e) /\ ~Replaces(e) THEN tracks[e.tid] ELSE track
      segment == AddSegments(WindowsAfterLookup(e), [tid \in {e.tid} |-> old],
                             {e.tid}, e.at)
  IN
  /\ Valid(e) /\ ~Behind(e) /\ e.at >= track.seedAt /\ e.at >= origin
  /\ InOrder(track, e)
  /\ windows' = RecordEvent(segment, track, e)
  /\ SetTrack(e.tid, Applied(track, e, TRUE, e.at))
ObserveInOrder(e) ==
  LET track == TrackOf(e)
      segment == AddSegments(WindowsAfterLookup(e), [tid \in {e.tid} |-> track],
                             {e.tid}, e.at)
  IN
  /\ Valid(e) /\ ~Behind(e) /\ e.at >= track.seedAt /\ e.at >= origin
  /\ InOrder(track, e)
  /\ windows' = RecordEvent(segment, track, e)
  /\ SetTrack(e.tid, Applied(track, e, TRUE, e.at))

Observe(e) ==
  /\ \/ ObserveBehindWatermark(e)
     \/ ObserveBeforeSeed(e)
     \/ ObserveBeforeOrigin(e)
     \/ ObserveOutOfOrder(e)
     \/ ObserveInOrder(e)
  /\ UNCHANGED <<origin, nextWindow, watermark, advanced, reports>>

----------------------------------------------------------------------------
(* Boundaries *)

\* The tracks Advance closes a segment of.
LiveBug == \* only the tracks with an event in this window
  {tid \in DOMAIN tracks : tracks[tid].alive /\ tracks[tid].lastEvent > watermark}
Live == {tid \in DOMAIN tracks : tracks[tid].alive /\ NextBoundary > tracks[tid].since}

\* The window that ends at the boundary, its last segments included.
ClosedWindow == WindowOf(AddSegments(windows, tracks, Live, NextBoundary), nextWindow)

ReportOf(window, lost) ==
  [start |-> WindowStart(nextWindow), end |-> NextBoundary,
   threads |-> window.stats, events |-> window.events, late |-> window.late,
   incomplete |-> window.incomplete, races |-> window.races, lost |-> lost,
   missed |-> (lost > 0 \/ window.late > 0 \/ window.incomplete > 0 \/ window.races > 0)]

\* Advance(watermark, lost) with the only watermark its callers pass, the next
\* boundary: the loop that emits the windows that have ended runs once.
Advance(lost) ==
  LET credited == AddSegments(windows, tracks, Live, NextBoundary) IN
  /\ watermark' = later(watermark, NextBoundary)
  /\ advanced' = TRUE
  /\ tracks' = [tid \in DOMAIN tracks |->
                  IF tid \in Live THEN [tracks[tid] EXCEPT !.since = NextBoundary]
                  ELSE tracks[tid]]
  /\ reports' = WithWindow(reports, nextWindow, ReportOf(ClosedWindow, lost))
  /\ windows' = [i \in DOMAIN credited \ {nextWindow} |-> credited[i]]
  /\ nextWindow' = nextWindow + 1
  /\ UNCHANGED origin

----------------------------------------------------------------------------

\* schedulerStateFromInitialSample: procfs has one state for running and runnable.
SeedStateBug(state) == \* a zombie leader not mapped
  IF state = "running" THEN "unknown" ELSE state
SeedState(state) ==
  CASE state \in {"running", "unknown"} -> "unknown"
    [] state \in {"dead", "zombie"} -> "dead"
    [] OTHER -> state

SeedTrack(sample, finished) ==
  LET seedAt == IF sample.at = NoTime THEN finished ELSE sample.at IN
  [ticks |-> sample.ticks, ns |-> 0, state |-> SeedState(sample.state),
   since |-> finished, seedAt |-> seedAt, lastEvent |-> seedAt,
   wakeupAt |-> NoTime, alive |-> TRUE]

\* NewEventAccumulator
InitFrom(snapshot) ==
  /\ origin = snapshot.finished
  /\ tracks = [tid \in DOMAIN snapshot.samples |->
                 SeedTrack(snapshot.samples[tid], snapshot.finished)]
  /\ windows = << >>
  /\ nextWindow = 0
  /\ watermark = snapshot.finished
  /\ advanced = FALSE
  /\ reports = << >>

Init == \E snapshot \in Snapshots : InitFrom(snapshot)

\* Events may come in any order here; EventRun has the order of the kernel's.
Next ==
  \/ \E e \in Events : Observe(e)
  \/ \E lost \in Nat : Advance(lost)

Spec == Init /\ [][Next]_vars

----------------------------------------------------------------------------
(* Properties *)

IdentityType == [tid : Int, ticks : Nat, ns : Nat]

TrackType ==
  [ticks : Nat, ns : Nat, state : SchedulerStates, since : Nat, seedAt : Nat,
   lastEvent : Nat, wakeupAt : Nat, alive : BOOLEAN]

RowType ==
  [observed : Nat, time : [SchedulerStates -> Nat], events : Nat, slices : Nat,
   wakeups : Nat, latency : Nat, latencyMax : Nat, incomplete : Nat]

IsStats(stats) ==
  /\ DOMAIN stats \subseteq IdentityType
  /\ stats \in [DOMAIN stats -> RowType]

IsWindow(w) ==
  /\ IsStats(w.stats)
  /\ w \in [stats : {w.stats}, events : Nat, late : Nat, incomplete : Nat, races : Nat]

IsReport(r) ==
  /\ IsStats(r.threads)
  /\ r \in [start : Nat, end : Nat, threads : {r.threads}, events : Nat, late : Nat,
            incomplete : Nat, races : Nat, lost : Nat, missed : BOOLEAN]

IsWindows(ws) == DOMAIN ws \subseteq Nat /\ \A i \in DOMAIN ws : IsWindow(ws[i])

\* The state has the types of the Go structures, and there is one report for
\* each window up to the next.
TypeOK ==
  /\ origin \in Nat /\ nextWindow \in Nat /\ watermark \in Nat
  /\ advanced \in BOOLEAN
  /\ DOMAIN tracks \subseteq Int
  /\ tracks \in [DOMAIN tracks -> TrackType]
  /\ IsWindows(windows)
  /\ DOMAIN reports = 0 .. nextWindow - 1
  /\ \A i \in DOMAIN reports : IsReport(reports[i])

\* What arrives after a window was reported never lands in it: it would be lost
\* in the map for ever (forEachWindow, recordLateEvent, recordInitializationRace
\* and recordEvent each keep to this in a way of their own).
OpenWindowsAreUnreported == \A i \in DOMAIN windows : i >= nextWindow

\* From the instant a thread is first known to the end of its last segment, all of
\* its time in the windows not reported yet is in the row of its identity, also
\* when an event has completed the identity in between (Observe, Advance).
TrackedTimeIsCredited ==
  \A tid \in DOMAIN tracks :
    LET track == tracks[tid] IN
    \A i \in nextWindow .. WindowIndex(track.since) :
      RowOf(WindowOf(windows, i), Identity(tid, track)).observed
        >= Overlap(i, later(origin, track.seedAt), track.since)

\* The report of a window has the whole interval of every live thread that was
\* known when the window started.
ReportsCoverLiveThreads ==
  [][nextWindow' # nextWindow =>
       \A tid \in DOMAIN tracks :
         LET id == Identity(tid, tracks[tid]) IN
         tracks[tid].alive /\ tracks[tid].seedAt <= WindowStart(nextWindow) =>
           /\ id \in DOMAIN reports'[nextWindow].threads
           /\ reports'[nextWindow].threads[id].observed >= Interval]_vars

\* A wakeup whose latency is not measured yet is the start of the runnable stretch
\* its thread is still in: the latency cannot span a sleep or a time slice, and is
\* never negative (applyTransition, recordEvent).
PendingWakeupIsRunnable ==
  \A tid \in DOMAIN tracks :
    LET track == tracks[tid] IN
    track.wakeupAt # NoTime =>
      /\ track.state = "runnable"
      /\ origin <= track.wakeupAt
      /\ track.wakeupAt <= track.lastEvent /\ track.wakeupAt <= track.since

\* The counters of a row agree: every measured wakeup is one time slice, every
\* slice and every broken wakeup one event, and the largest latency is one of
\* those in the total.
RowIsConsistent(row) ==
  /\ row.wakeups <= row.slices
  /\ row.slices + row.incomplete <= row.events
  /\ row.latencyMax <= row.latency
  /\ row.latency <= row.wakeups * row.latencyMax

RowsAreConsistent ==
  /\ \A i \in DOMAIN windows : \A id \in DOMAIN windows[i].stats :
       RowIsConsistent(windows[i].stats[id])
  /\ \A i \in DOMAIN reports : \A id \in DOMAIN reports[i].threads :
       RowIsConsistent(reports[i].threads[id])
=============================================================================
