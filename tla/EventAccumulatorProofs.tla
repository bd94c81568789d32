----------------------- MODULE EventAccumulatorProofs -----------------------
(* Theorems about EventAccumulator, for every interval, every set of events *)
(* in any order of arrival, and every initial scan.                         *)
EXTENDS EventAccumulator, TLAPS

----------------------------------------------------------------------------
(* Windows of time *)

LEMMA WindowIndexBounds ==
  ASSUME origin \in Nat, NEW at \in Nat
  PROVE  /\ WindowIndex(at) \in Nat
         /\ at >= origin => WindowStart(WindowIndex(at)) <= at
         /\ at < WindowEnd(WindowIndex(at))
<1> DEFINE d == at - origin
           q == d \div Interval
<1>1. CASE at > origin
  <2>1. d \in Nat
    BY <1>1
  <2>2. q \in Nat /\ q * Interval <= d /\ d < (q + 1) * Interval
    BY <2>1, IntervalAssumption, Z3
  <2> QED
    BY <1>1, <2>2, IntervalAssumption DEF WindowIndex, WindowStart, WindowEnd
<1>2. CASE ~(at > origin)
  BY <1>2, IntervalAssumption DEF WindowIndex, WindowStart, WindowEnd
<1> QED
  BY <1>1, <1>2

LEMMA WindowBounds ==
  ASSUME origin \in Nat, NEW i \in Nat
  PROVE  /\ WindowStart(i) \in Nat /\ WindowEnd(i) \in Nat
         /\ origin <= WindowStart(i)
         /\ WindowEnd(i) = WindowStart(i) + Interval
         /\ WindowEnd(i) = WindowStart(i + 1)
<1>1. i * Interval \in Nat /\ (i + 1) * Interval = i * Interval + Interval
  BY IntervalAssumption
<1> QED
  BY <1>1, IntervalAssumption DEF WindowStart, WindowEnd

\* Windows are in the order of their indices.
LEMMA WindowOrder ==
  ASSUME origin \in Nat, NEW i \in Nat, NEW j \in Nat, i < j
  PROVE  WindowEnd(i) <= WindowStart(j)
<1>1. (i + 1) * Interval <= j * Interval
  BY IntervalAssumption
<1> QED
  BY <1>1, IntervalAssumption DEF WindowStart, WindowEnd

LEMMA OverlapType ==
  ASSUME origin \in Nat, NEW i \in Nat, NEW from \in Nat, NEW to \in Nat
  PROVE  Overlap(i, from, to) \in Nat
BY WindowBounds DEF Overlap, later, earlier

----------------------------------------------------------------------------
(* Type correctness *)

LEMMA NoRowType == NoRow \in RowType
BY DEF NoRow, RowType

LEMMA RowOfType ==
  ASSUME NEW w, IsWindow(w), NEW id
  PROVE  RowOf(w, id) \in RowType
BY NoRowType DEF RowOf, IsWindow, IsStats

LEMMA WindowOfType ==
  ASSUME NEW ws, IsWindows(ws), NEW i
  PROVE  IsWindow(WindowOf(ws, i))
<1>1. IsWindow(NoWindow)
  BY DEF IsWindow, IsStats, NoWindow
<1> QED
  BY <1>1 DEF WindowOf, IsWindows

LEMMA WithWindowType ==
  ASSUME NEW ws, IsWindows(ws), NEW i \in Nat, NEW w, IsWindow(w)
  PROVE  IsWindows(WithWindow(ws, i, w))
BY DEF WithWindow, IsWindows

LEMMA IdentityInType ==
  ASSUME NEW tid \in Int, NEW track \in TrackType
  PROVE  Identity(tid, track) \in IdentityType
BY DEF Identity, IdentityType, TrackType

LEMMA CreditRowType ==
  ASSUME NEW row \in RowType, NEW state \in SchedulerStates, NEW delta \in Nat
  PROVE  CreditRow(row, state, delta) \in RowType
<1>1. CreditState(row.time, state, delta) \in [SchedulerStates -> Nat]
  BY DEF CreditState, RowType
<1> DEFINE observed == [row EXCEPT !.observed = row.observed + delta]
<1>2. observed \in RowType
  BY DEF RowType
<1>3. [observed EXCEPT !.time = CreditState(row.time, state, delta)] \in RowType
  <2> HIDE DEF observed
  <2> QED
    BY <1>1, <1>2 DEF RowType
<1> QED
  BY <1>3 DEF CreditRow

\* The windows of a segment are open ones, and indices.
LEMMA TouchedWindowsType ==
  ASSUME origin \in Nat, nextWindow \in Nat, NEW from \in Nat, NEW to \in Nat
  PROVE  /\ TouchedWindows(from, to) \subseteq Nat
         /\ \A i \in TouchedWindows(from, to) : i >= nextWindow
BY WindowIndexBounds DEF TouchedWindows

LEMMA AddSegmentsType ==
  ASSUME origin \in Nat, nextWindow \in Nat,
         NEW ws, IsWindows(ws), NEW ts, NEW tids,
         DOMAIN ts \subseteq Int, ts \in [DOMAIN ts -> TrackType],
         tids \subseteq DOMAIN ts, NEW to \in Nat
  PROVE  /\ IsWindows(AddSegments(ws, ts, tids, to))
         /\ \A i \in DOMAIN AddSegments(ws, ts, tids, to) :
              i \in DOMAIN ws \/ i >= nextWindow
<1> DEFINE Touches(tid, i) == i \in TouchedWindows(ts[tid].since, to)
           Ids(i) == {Identity(tid, ts[tid]) : tid \in {t \in tids : Touches(t, i)}}
           w(i) == WindowOf(ws, i)
           Stats(i) == [id \in DOMAIN w(i).stats \cup Ids(i) |->
                          IF id \in Ids(i)
                          THEN CreditRow(RowOf(w(i), id), ts[id.tid].state,
                                         Overlap(i, ts[id.tid].since, to))
                          ELSE w(i).stats[id]]
           Credited(i) == [w(i) EXCEPT !.stats = Stats(i)]
           touched == UNION {TouchedWindows(ts[tid].since, to) : tid \in tids}
<1>1. AddSegments(ws, ts, tids, to) =
        [i \in DOMAIN ws \cup touched |-> IF i \in touched THEN Credited(i) ELSE ws[i]]
  BY DEF AddSegments
<1>2. touched \subseteq Nat /\ \A i \in touched : i >= nextWindow
  <2>1. \A tid \in tids : ts[tid].since \in Nat
    BY DEF TrackType
  <2> QED
    BY <2>1, TouchedWindowsType
<1>3. ASSUME NEW i \in Nat
      PROVE  IsWindow(Credited(i))
  <2>1. IsWindow(w(i))
    BY WindowOfType
  <2>2. Ids(i) \subseteq IdentityType
    BY IdentityInType
  <2>3. ASSUME NEW id \in Ids(i)
        PROVE  CreditRow(RowOf(w(i), id), ts[id.tid].state, Overlap(i, ts[id.tid].since, to))
                 \in RowType
    <3>1. PICK tid \in tids : id = Identity(tid, ts[tid])
      OBVIOUS
    <3>2. id.tid = tid
      BY <3>1 DEF Identity
    <3>3. ts[tid].state \in SchedulerStates /\ ts[tid].since \in Nat
      BY DEF TrackType
    <3> QED
      BY <2>1, <3>2, <3>3, RowOfType, OverlapType, CreditRowType
  <2>4. IsStats(Stats(i))
    BY <2>1, <2>2, <2>3 DEF IsStats, IsWindow
  <2> HIDE DEF Stats
  <2> QED
    BY <2>1, <2>4 DEF IsWindow
<1> HIDE DEF touched, Credited
<1> QED
  BY <1>1, <1>2, <1>3 DEF IsWindows

LEMMA RecordLateEventType ==
  ASSUME NEW ws, IsWindows(ws), nextWindow \in Nat
  PROVE  IsWindows(RecordLateEvent(ws))
<1> DEFINE w == WindowOf(ws, nextWindow)
<1>1. IsWindow(w)
  BY WindowOfType
<1>2. IsWindow([w EXCEPT !.late = w.late + 1])
  BY <1>1 DEF IsWindow
<1> QED
  BY <1>2, WithWindowType DEF RecordLateEvent

LEMMA RaceWindow ==
  ASSUME origin \in Nat, nextWindow \in Nat, NEW at \in Nat
  PROVE  LET index == IF at >= origin THEN later(nextWindow, WindowIndex(at))
                      ELSE nextWindow
         IN index \in Nat /\ index >= nextWindow
BY WindowIndexBounds DEF later

LEMMA RecordInitializationRaceType ==
  ASSUME origin \in Nat, nextWindow \in Nat, NEW ws, IsWindows(ws), NEW at \in Nat
  PROVE  IsWindows(RecordInitializationRace(ws, at))
<1> DEFINE index == IF at >= origin THEN later(nextWindow, WindowIndex(at)) ELSE nextWindow
           w == WindowOf(ws, index)
<1>1. IsWindow(w)
  BY WindowOfType
<1>2. IsWindow([w EXCEPT !.races = w.races + 1])
  BY <1>1 DEF IsWindow
<1>3. index \in Nat
  BY RaceWindow
<1> HIDE DEF index
<1>4. IsWindows(WithWindow(ws, index, [w EXCEPT !.races = w.races + 1]))
  BY <1>2, <1>3, WithWindowType
<1> QED
  BY <1>4 DEF RecordInitializationRace, index

LEMMA CountEventType ==
  ASSUME NEW row \in RowType, NEW track \in TrackType, NEW e \in EventType
  PROVE  CountEvent(row, track, e) \in RowType
<1>1. Measures(track, e) => e.at - track.wakeupAt \in Nat
  BY DEF Measures, EventType, TrackType
<1> QED
  BY <1>1 DEF CountEvent, RowType, later

LEMMA RecordEventType ==
  ASSUME origin \in Nat, NEW ws, IsWindows(ws), NEW track \in TrackType, NEW e \in EventType
  PROVE  IsWindows(RecordEvent(ws, track, e))
<1> DEFINE index == WindowIndex(e.at)
           w == WindowOf(ws, index)
           id == Identity(e.tid, track)
           stats == [i \in DOMAIN w.stats \cup {id} |->
                       IF i = id THEN CountEvent(RowOf(w, id), track, e) ELSE w.stats[i]]
           broken == IF Breaks(track, e) THEN 1 ELSE 0
           new == [stats |-> stats, events |-> w.events + 1,
                   incomplete |-> w.incomplete + broken, late |-> w.late, races |-> w.races]
<1>1. index \in Nat
  BY WindowIndexBounds DEF EventType
<1>2. IsWindow(w)
  BY WindowOfType
<1>3. id \in IdentityType
  BY IdentityInType DEF EventType
<1>4. CountEvent(RowOf(w, id), track, e) \in RowType
  BY <1>2, RowOfType, CountEventType
<1>5. IsStats(stats)
  <2> HIDE DEF w, id
  <2> QED
    BY <1>2, <1>3, <1>4 DEF IsStats, IsWindow
<1>6. IsWindow(new)
  <2> HIDE DEF w, stats
  <2> QED
    BY <1>2, <1>5 DEF IsWindow
<1>7. RecordEvent(ws, track, e) = WithWindow(ws, index, new)
  BY DEF RecordEvent
<1> HIDE DEF new, index
<1> QED
  BY <1>1, <1>6, <1>7, WithWindowType

\* Assigning one field of a track keeps its type.
LEMMA TrackFieldType ==
  ASSUME NEW track \in TrackType, NEW n \in Nat
  PROVE  /\ [track EXCEPT !.ticks = n] \in TrackType
         /\ [track EXCEPT !.ns = n] \in TrackType
         /\ [track EXCEPT !.since = n] \in TrackType
         /\ [track EXCEPT !.lastEvent = n] \in TrackType
         /\ [track EXCEPT !.wakeupAt = n] \in TrackType
         /\ \A state \in SchedulerStates : [track EXCEPT !.state = state] \in TrackType
         /\ \A alive \in BOOLEAN : [track EXCEPT !.alive = alive] \in TrackType
BY DEF TrackType

LEMMA ApplyTransitionType ==
  ASSUME NEW track \in TrackType, NEW e \in EventType, NEW measure \in BOOLEAN
  PROVE  /\ ApplyTransition(track, e, measure) \in TrackType
         /\ ApplyTransition(track, e, measure).ticks = track.ticks
         /\ ApplyTransition(track, e, measure).ns = track.ns
         /\ ApplyTransition(track, e, measure).seedAt = track.seedAt
BY DEF ApplyTransition, TrackType, EventType, EventKinds, SchedulerStates, NoTime

LEMMA AppliedFields ==
  ASSUME NEW track \in TrackType, NEW e \in EventType, NEW measure \in BOOLEAN, NEW n \in Nat
  PROVE  LET t == Applied(track, e, measure, n)
             applied == ApplyTransition(track, e, measure)
         IN /\ t \in TrackType
            /\ t.since = n /\ t.lastEvent = e.at
            /\ t.ticks = track.ticks /\ t.ns = track.ns /\ t.seedAt = track.seedAt
            /\ t.state = applied.state /\ t.wakeupAt = applied.wakeupAt
            /\ t.alive = applied.alive
<1> DEFINE applied == ApplyTransition(track, e, measure)
           moved == [applied EXCEPT !.since = n]
           t == [moved EXCEPT !.lastEvent = e.at]
<1>1. /\ applied \in TrackType
      /\ applied.ticks = track.ticks /\ applied.ns = track.ns /\ applied.seedAt = track.seedAt
  BY ApplyTransitionType
<1>2. Applied(track, e, measure, n) = t
  BY DEF Applied
<1> HIDE DEF applied
<1>3. /\ moved \in TrackType /\ moved.since = n
      /\ moved.ticks = applied.ticks /\ moved.ns = applied.ns /\ moved.seedAt = applied.seedAt
      /\ moved.state = applied.state /\ moved.wakeupAt = applied.wakeupAt
      /\ moved.alive = applied.alive
  BY <1>1 DEF TrackType
<1> HIDE DEF moved
<1>4. /\ t \in TrackType /\ t.lastEvent = e.at /\ t.since = moved.since
      /\ t.ticks = moved.ticks /\ t.ns = moved.ns /\ t.seedAt = moved.seedAt
      /\ t.state = moved.state /\ t.wakeupAt = moved.wakeupAt /\ t.alive = moved.alive
  BY <1>3 DEF TrackType, EventType
<1> HIDE DEF t
<1> QED
  BY <1>1, <1>2, <1>3, <1>4 DEF applied

LEMMA TrackOfType ==
  ASSUME TypeOK, NEW e \in EventType
  PROVE  TrackOf(e) \in TrackType
<1>1. NewTrack(e) \in TrackType
  BY DEF NewTrack, TrackType, EventType, SchedulerStates, NoTime, TypeOK, later
<1>2. Known(e) => tracks[e.tid] \in TrackType
  BY DEF Known, TypeOK
<1> QED
  BY <1>1, <1>2, TrackFieldType DEF TrackOf, EventType, TrackType

LEMMA SetTrackType ==
  ASSUME TypeOK, NEW tid \in Int, NEW track \in TrackType, SetTrack(tid, track)
  PROVE  DOMAIN tracks' \subseteq Int /\ tracks' \in [DOMAIN tracks' -> TrackType]
BY DEF SetTrack, TypeOK

LEMMA WindowsAfterLookupType ==
  ASSUME TypeOK, NEW e \in EventType
  PROVE  IsWindows(WindowsAfterLookup(e))
BY RecordInitializationRaceType DEF WindowsAfterLookup, TypeOK, EventType

\* The segment the event closes and the windows it is credited to.
LEMMA SegmentType ==
  ASSUME TypeOK, NEW e \in EventType
  PROVE  LET ws == AddSegments(WindowsAfterLookup(e), [tid \in {e.tid} |-> TrackOf(e)],
                               {e.tid}, e.at)
         IN /\ IsWindows(ws)
            /\ \A i \in DOMAIN ws : i \in DOMAIN WindowsAfterLookup(e) \/ i >= nextWindow
<1> DEFINE ts == [tid \in {e.tid} |-> TrackOf(e)]
<1>1. DOMAIN ts \subseteq Int /\ ts \in [DOMAIN ts -> TrackType] /\ {e.tid} \subseteq DOMAIN ts
  BY TrackOfType DEF EventType
<1>2. e.at \in Nat
  BY DEF EventType
<1> HIDE DEF ts
<1>3. /\ IsWindows(AddSegments(WindowsAfterLookup(e), ts, {e.tid}, e.at))
      /\ \A i \in DOMAIN AddSegments(WindowsAfterLookup(e), ts, {e.tid}, e.at) :
           i \in DOMAIN WindowsAfterLookup(e) \/ i >= nextWindow
  BY <1>1, <1>2, WindowsAfterLookupType, AddSegmentsType DEF TypeOK
<1> QED
  BY <1>3 DEF ts

LEMMA CreditedType ==
  ASSUME TypeOK
  PROVE  LET ws == AddSegments(windows, tracks, Live, NextBoundary)
         IN /\ IsWindows(ws)
            /\ \A i \in DOMAIN ws : i \in DOMAIN windows \/ i >= nextWindow
<1>1. Live \subseteq DOMAIN tracks
  BY DEF Live
<1>2. NextBoundary \in Nat
  BY WindowBounds DEF NextBoundary, TypeOK
<1> QED
  BY <1>1, <1>2, AddSegmentsType DEF TypeOK

LEMMA ObserveType ==
  ASSUME TypeOK, NEW e \in EventType, Observe(e)
  PROVE  TypeOK'
<1>1. /\ DOMAIN tracks' \subseteq Int
      /\ tracks' \in [DOMAIN tracks' -> TrackType]
      /\ IsWindows(windows')
  <2>1. CASE ObserveBehindWatermark(e)
    BY <2>1, RecordLateEventType DEF ObserveBehindWatermark, TypeOK
  <2>2. CASE ObserveBeforeSeed(e)
    BY <2>2, WindowsAfterLookupType, TrackOfType, SetTrackType
    DEF ObserveBeforeSeed, EventType
  <2>3. CASE ObserveBeforeOrigin(e)
    <3> DEFINE track == TrackOf(e)
    <3>1. track \in TrackType
      BY TrackOfType
    <3>2. Applied(track, e, FALSE, origin) \in TrackType
      BY <3>1, AppliedFields DEF TypeOK
    <3>3. CASE e.at < track.lastEvent
      <4>1. windows' = RecordInitializationRace(WindowsAfterLookup(e), origin)
            /\ SetTrack(e.tid, track)
        BY <2>3, <3>3 DEF ObserveBeforeOrigin
      <4>2. IsWindows(windows')
        BY <4>1, WindowsAfterLookupType, RecordInitializationRaceType DEF TypeOK
      <4> QED
        BY <3>1, <4>1, <4>2, SetTrackType DEF EventType
    <3>4. CASE ~(e.at < track.lastEvent)
      <4>1. windows' = WindowsAfterLookup(e)
            /\ SetTrack(e.tid, Applied(track, e, FALSE, origin))
        BY <2>3, <3>4 DEF ObserveBeforeOrigin
      <4> QED
        BY <3>2, <4>1, WindowsAfterLookupType, SetTrackType DEF EventType
    <3> QED
      BY <3>3, <3>4
  <2>4. CASE ObserveOutOfOrder(e)
    BY <2>4, WindowsAfterLookupType, RecordLateEventType, TrackOfType, SetTrackType
    DEF ObserveOutOfOrder, EventType, TypeOK
  <2>5. CASE ObserveInOrder(e)
    <3> DEFINE track == TrackOf(e)
               ws == AddSegments(WindowsAfterLookup(e), [tid \in {e.tid} |-> track],
                                 {e.tid}, e.at)
    <3>1. track \in TrackType
      BY TrackOfType
    <3>2. Applied(track, e, TRUE, e.at) \in TrackType
      BY <3>1, AppliedFields DEF EventType
    <3>3. IsWindows(ws)
      BY SegmentType
    <3>4. windows' = RecordEvent(ws, track, e)
          /\ SetTrack(e.tid, Applied(track, e, TRUE, e.at))
      BY <2>5 DEF ObserveInOrder
    <3> HIDE DEF ws, track
    <3> QED
      BY <3>1, <3>2, <3>3, <3>4, RecordEventType, SetTrackType DEF EventType, TypeOK
  <2> QED
    BY <2>1, <2>2, <2>3, <2>4, <2>5 DEF Observe
<1> QED
  BY <1>1 DEF Observe, TypeOK

LEMMA AdvanceType ==
  ASSUME TypeOK, NEW lost \in Nat, Advance(lost)
  PROVE  TypeOK'
<1> DEFINE credited == AddSegments(windows, tracks, Live, NextBoundary)
           report == ReportOf(ClosedWindow, lost)
<1>1. NextBoundary \in Nat /\ WindowStart(nextWindow) \in Nat
  BY WindowBounds DEF NextBoundary, TypeOK
<1>2. IsWindows(credited)
  BY CreditedType
<1>3. IsWindow(ClosedWindow)
  BY <1>2, WindowOfType DEF ClosedWindow
<1>4. IsReport(report)
  BY <1>1, <1>3 DEF IsReport, ReportOf, IsWindow
<1>5. DOMAIN tracks' \subseteq Int /\ tracks' \in [DOMAIN tracks' -> TrackType]
  <2>1. \A tid \in DOMAIN tracks : [tracks[tid] EXCEPT !.since = NextBoundary] \in TrackType
    BY <1>1, TrackFieldType DEF TypeOK
  <2> QED
    BY <2>1 DEF Advance, TypeOK
<1>6. IsWindows(windows')
  BY <1>2 DEF Advance, IsWindows
<1>7. DOMAIN reports' = 0 .. nextWindow' - 1 /\ \A i \in DOMAIN reports' : IsReport(reports'[i])
  <2>1. reports' = WithWindow(reports, nextWindow, report) /\ nextWindow' = nextWindow + 1
    BY DEF Advance
  <2> HIDE DEF report
  <2> QED
    BY <1>4, <2>1 DEF WithWindow, TypeOK
<1>8. watermark' \in Nat /\ advanced' \in BOOLEAN /\ origin' \in Nat /\ nextWindow' \in Nat
  BY <1>1 DEF Advance, TypeOK, later
<1> QED
  BY <1>5, <1>6, <1>7, <1>8 DEF TypeOK

LEMMA InitType == Init => TypeOK
<1> SUFFICES ASSUME NEW snapshot \in Snapshots,
                    origin = snapshot.finished,
                    tracks = [tid \in DOMAIN snapshot.samples |->
                                SeedTrack(snapshot.samples[tid], snapshot.finished)],
                    windows = << >>, nextWindow = 0, watermark = snapshot.finished,
                    advanced = FALSE, reports = << >>
             PROVE  TypeOK
  BY DEF Init, InitFrom
<1>1. ASSUME NEW tid \in DOMAIN snapshot.samples
      PROVE  SeedTrack(snapshot.samples[tid], snapshot.finished) \in TrackType
  <2>1. snapshot.samples[tid] \in SampleType /\ snapshot.finished \in Nat
    BY SnapshotsAssumption
  <2>2. SeedState(snapshot.samples[tid].state) \in SchedulerStates
    BY <2>1 DEF SeedState, SampleType, ThreadStates, SchedulerStates
  <2> QED
    BY <2>1, <2>2 DEF SeedTrack, TrackType, SampleType, NoTime
<1>2. DOMAIN windows = {} /\ DOMAIN reports = {}
  OBVIOUS
<1>3. DOMAIN tracks \subseteq Int /\ tracks \in [DOMAIN tracks -> TrackType]
  BY <1>1, SnapshotsAssumption
<1>4. origin \in Nat
  BY SnapshotsAssumption
<1>5. 0 .. nextWindow - 1 = {}
  OBVIOUS
<1> QED
  BY <1>2, <1>3, <1>4, <1>5 DEF TypeOK, IsWindows

\* The state keeps its types, whatever events arrive and in whatever order.
THEOREM TypeCorrect == Spec => []TypeOK
<1>1. TypeOK /\ [Next]_vars => TypeOK'
  <2> SUFFICES ASSUME TypeOK, [Next]_vars
               PROVE  TypeOK'
    OBVIOUS
  <2>1. CASE \E e \in Events : Observe(e)
    BY <2>1, EventsAssumption, ObserveType
  <2>2. CASE \E lost \in Nat : Advance(lost)
    BY <2>2, AdvanceType
  <2>3. CASE UNCHANGED vars
    BY <2>3 DEF vars, TypeOK
  <2> QED
    BY <2>1, <2>2, <2>3 DEF Next
<1> QED
  BY <1>1, InitType, PTL DEF Spec

----------------------------------------------------------------------------
(* Reported windows are closed *)

\* The watermark is the start of the first window not reported.
Timeline == watermark = WindowStart(nextWindow) /\ (nextWindow > 0 => advanced)

\* The last segment of a track ended after the track was first known, and, when the
\* track is live, no earlier than the last boundary.
Bounded(track) ==
  /\ origin <= track.since /\ track.seedAt <= track.since
  /\ track.alive => WindowStart(nextWindow) <= track.since

TracksAreBounded == \A tid \in DOMAIN tracks : Bounded(tracks[tid])

TimelineInv == TypeOK /\ Timeline /\ OpenWindowsAreUnreported /\ TracksAreBounded

\* An event that is not behind the watermark falls in an open window.
LEMMA NotBehindIsOpen ==
  ASSUME TypeOK, Timeline, NEW e \in EventType, ~Behind(e)
  PROVE  /\ WindowStart(nextWindow) <= later(origin, e.at)
         /\ nextWindow > 0 => WindowStart(nextWindow) <= e.at
         /\ WindowIndex(e.at) \in Nat /\ WindowIndex(e.at) >= nextWindow
<1> DEFINE index == WindowIndex(e.at)
<1>1. e.at \in Nat /\ origin \in Nat /\ nextWindow \in Nat
  BY DEF TypeOK, EventType
<1>2. index \in Nat /\ e.at < WindowEnd(index)
  BY <1>1, WindowIndexBounds
<1>3. nextWindow > 0 => WindowStart(nextWindow) <= e.at
  BY <1>1, WindowBounds DEF Behind, Timeline
<1>4. nextWindow = 0 => WindowStart(nextWindow) = origin
  BY <1>1, IntervalAssumption DEF WindowStart
<1>5. index >= nextWindow
  <2>1. SUFFICES ASSUME index < nextWindow
                 PROVE  FALSE
    BY <1>1, <1>2
  <2>2. WindowEnd(index) <= WindowStart(nextWindow)
    BY <1>1, <1>2, <2>1, WindowOrder
  <2>3. WindowStart(nextWindow) <= e.at
    BY <1>1, <1>2, <1>3, <2>1
  <2> QED
    BY <1>1, <1>2, <2>2, <2>3, WindowBounds
<1>6. WindowStart(nextWindow) <= later(origin, e.at)
  BY <1>1, <1>3, <1>4, WindowBounds DEF later
<1> QED
  BY <1>2, <1>3, <1>5, <1>6

LEMMA TrackOfBounded ==
  ASSUME TimelineInv, NEW e \in EventType, ~Behind(e)
  PROVE  Bounded(TrackOf(e))
<1>1. e.at \in Nat /\ origin \in Nat
  BY DEF TimelineInv, TypeOK, EventType
<1>2. Bounded(NewTrack(e))
  BY <1>1, NotBehindIsOpen DEF TimelineInv, Bounded, NewTrack, later
<1>3. ASSUME Known(e)
      PROVE  LET t == [tracks[e.tid] EXCEPT !.ticks = IF e.ticks # 0 THEN e.ticks ELSE @,
                                            !.ns = IF e.ns # 0 THEN e.ns ELSE @]
             IN Bounded(t)
  <2>1. Bounded(tracks[e.tid]) /\ tracks[e.tid] \in TrackType
    BY <1>3 DEF TimelineInv, TracksAreBounded, Known, TypeOK
  <2> QED
    BY <2>1 DEF Bounded, TrackType
<1> QED
  BY <1>2, <1>3 DEF TrackOf

LEMMA AppliedBounded ==
  ASSUME NEW track \in TrackType, NEW e \in EventType, NEW measure \in BOOLEAN,
         NEW n \in Nat, origin <= n, track.seedAt <= n, WindowStart(nextWindow) <= n
  PROVE  Bounded(Applied(track, e, measure, n))
BY AppliedFields DEF Bounded

LEMMA SetTrackBounded ==
  ASSUME TracksAreBounded, NEW tid, NEW track, Bounded(track), SetTrack(tid, track),
         UNCHANGED <<origin, nextWindow>>
  PROVE  TracksAreBounded'
BY DEF SetTrack, TracksAreBounded, Bounded, WindowStart

IsOpen(ws) == \A i \in DOMAIN ws : i >= nextWindow

LEMMA WithWindowOpen ==
  ASSUME NEW ws, IsOpen(ws), NEW i, i >= nextWindow, NEW w
  PROVE  IsOpen(WithWindow(ws, i, w))
BY DEF IsOpen, WithWindow

LEMMA RecordLateEventOpen ==
  ASSUME nextWindow \in Nat, NEW ws, IsOpen(ws)
  PROVE  IsOpen(RecordLateEvent(ws))
BY WithWindowOpen DEF RecordLateEvent

LEMMA RecordInitializationRaceOpen ==
  ASSUME origin \in Nat, nextWindow \in Nat, NEW ws, IsOpen(ws), NEW at \in Nat
  PROVE  IsOpen(RecordInitializationRace(ws, at))
BY RaceWindow, WithWindowOpen DEF RecordInitializationRace

LEMMA WindowsAfterLookupOpen ==
  ASSUME TypeOK, OpenWindowsAreUnreported, NEW e \in EventType
  PROVE  IsOpen(WindowsAfterLookup(e))
BY RecordInitializationRaceOpen
DEF WindowsAfterLookup, TypeOK, EventType, OpenWindowsAreUnreported, IsOpen

LEMMA ObserveTimeline ==
  ASSUME TimelineInv, NEW e \in EventType, Observe(e)
  PROVE  Timeline' /\ OpenWindowsAreUnreported' /\ TracksAreBounded'
<1> USE DEF TimelineInv
<1>1. UNCHANGED <<origin, nextWindow, watermark, advanced>>
  BY DEF Observe
<1>2. Timeline'
  BY <1>1 DEF Timeline, WindowStart
<1>3. IsOpen(windows') => OpenWindowsAreUnreported'
  BY <1>1 DEF IsOpen, OpenWindowsAreUnreported
<1>4. IsOpen(WindowsAfterLookup(e))
  BY WindowsAfterLookupOpen
<1>5. TrackOf(e) \in TrackType /\ e.at \in Nat /\ origin \in Nat /\ nextWindow \in Nat
  BY TrackOfType DEF TypeOK, EventType
<1>6. CASE ObserveBehindWatermark(e)
  <2>1. IsOpen(windows)
    BY DEF IsOpen, OpenWindowsAreUnreported
  <2>2. IsOpen(windows') /\ tracks' = tracks
    BY <1>5, <1>6, <2>1, RecordLateEventOpen DEF ObserveBehindWatermark
  <2> QED
    BY <1>1, <1>2, <1>3, <2>2 DEF TracksAreBounded, Bounded, WindowStart
<1>7. CASE ObserveBeforeSeed(e)
  <2>1. IsOpen(windows')
    BY <1>4, <1>7 DEF ObserveBeforeSeed
  <2>2. TracksAreBounded'
    BY <1>1, <1>7, TrackOfBounded, SetTrackBounded DEF ObserveBeforeSeed
  <2> QED
    BY <1>2, <1>3, <2>1, <2>2
<1>8. CASE ObserveBeforeOrigin(e)
  <2>1. ~Behind(e) /\ e.at < origin /\ e.at >= TrackOf(e).seedAt
    BY <1>8 DEF ObserveBeforeOrigin
  <2>2. Bounded(TrackOf(e))
    BY <2>1, TrackOfBounded
  <2>3. nextWindow = 0 /\ WindowStart(nextWindow) = origin
    <3>1. ~(nextWindow > 0)
      BY <1>5, <2>1, NotBehindIsOpen, WindowBounds
    <3> QED
      BY <1>5, <3>1, IntervalAssumption DEF WindowStart
  <2>4. CASE e.at < TrackOf(e).lastEvent
    <3>1. windows' = RecordInitializationRace(WindowsAfterLookup(e), origin)
          /\ SetTrack(e.tid, TrackOf(e))
      BY <1>8, <2>4 DEF ObserveBeforeOrigin
    <3>2. IsOpen(windows')
      BY <1>4, <1>5, <3>1, RecordInitializationRaceOpen
    <3> QED
      BY <1>1, <1>2, <1>3, <2>2, <3>1, <3>2, SetTrackBounded
  <2>5. CASE ~(e.at < TrackOf(e).lastEvent)
    <3>1. windows' = WindowsAfterLookup(e)
          /\ SetTrack(e.tid, Applied(TrackOf(e), e, FALSE, origin))
      BY <1>8, <2>5 DEF ObserveBeforeOrigin
    <3>2. TrackOf(e).seedAt <= origin /\ WindowStart(nextWindow) <= origin /\ origin <= origin
      BY <1>5, <2>1, <2>3 DEF TrackType
    <3>3. Bounded(Applied(TrackOf(e), e, FALSE, origin))
      BY <1>5, <3>2, AppliedBounded, Zenon
    <3> QED
      BY <1>1, <1>2, <1>3, <1>4, <3>1, <3>3, SetTrackBounded
  <2> QED
    BY <2>4, <2>5
<1>9. CASE ObserveOutOfOrder(e)
  <2>1. IsOpen(windows')
    BY <1>4, <1>5, <1>9, RecordLateEventOpen DEF ObserveOutOfOrder
  <2>2. TracksAreBounded'
    BY <1>1, <1>9, TrackOfBounded, SetTrackBounded DEF ObserveOutOfOrder
  <2> QED
    BY <1>2, <1>3, <2>1, <2>2
<1>10. CASE ObserveInOrder(e)
  <2> DEFINE track == TrackOf(e)
             ws == AddSegments(WindowsAfterLookup(e), [tid \in {e.tid} |-> track],
                               {e.tid}, e.at)
  <2>1. /\ ~Behind(e) /\ e.at >= origin /\ e.at >= track.seedAt
        /\ windows' = RecordEvent(ws, track, e)
        /\ SetTrack(e.tid, Applied(track, e, TRUE, e.at))
    BY <1>10 DEF ObserveInOrder
  <2>2. IsOpen(ws)
    BY <1>4, SegmentType DEF IsOpen
  <2>3. WindowIndex(e.at) >= nextWindow /\ WindowStart(nextWindow) <= e.at
    BY <1>5, <2>1, NotBehindIsOpen DEF later
  <2> HIDE DEF ws
  <2>4. IsOpen(windows')
    BY <2>1, <2>2, <2>3, WithWindowOpen DEF RecordEvent
  <2>5. track.seedAt <= e.at
    BY <1>5, <2>1 DEF TrackType
  <2>6. TracksAreBounded'
    BY <1>1, <1>5, <2>1, <2>3, <2>5, AppliedBounded, SetTrackBounded
  <2> QED
    BY <1>2, <1>3, <2>4, <2>6
<1> QED
  BY <1>6, <1>7, <1>8, <1>9, <1>10 DEF Observe

LEMMA AdvanceTimeline ==
  ASSUME TimelineInv, NEW lost \in Nat, Advance(lost)
  PROVE  Timeline' /\ OpenWindowsAreUnreported' /\ TracksAreBounded'
<1> USE DEF TimelineInv
<1>1. origin \in Nat /\ nextWindow \in Nat /\ origin' = origin /\ nextWindow' = nextWindow + 1
  BY DEF Advance, TypeOK
<1>2. /\ NextBoundary \in Nat /\ WindowStart(nextWindow) \in Nat
      /\ WindowStart(nextWindow)' = NextBoundary
      /\ WindowStart(nextWindow) <= NextBoundary /\ origin <= NextBoundary
  BY <1>1, WindowBounds, IntervalAssumption DEF NextBoundary, WindowStart, WindowEnd
<1>3. Timeline'
  BY <1>1, <1>2 DEF Advance, Timeline, later
<1>4. OpenWindowsAreUnreported'
  <2> DEFINE credited == AddSegments(windows, tracks, Live, NextBoundary)
  <2>1. \A i \in DOMAIN credited : i \in Nat /\ i >= nextWindow
    BY CreditedType DEF IsWindows, OpenWindowsAreUnreported
  <2>2. DOMAIN windows' = DOMAIN credited \ {nextWindow}
    BY DEF Advance
  <2> HIDE DEF credited
  <2> QED
    BY <1>1, <2>1, <2>2 DEF OpenWindowsAreUnreported
<1>5. TracksAreBounded'
  <2> SUFFICES ASSUME NEW tid \in DOMAIN tracks
               PROVE  Bounded(tracks[tid])'
    BY DEF TracksAreBounded, Advance
  <2>1. tracks[tid] \in TrackType /\ Bounded(tracks[tid])
    BY DEF TypeOK, TracksAreBounded
  <2>2. CASE tid \in Live
    <3>1. tracks'[tid] = [tracks[tid] EXCEPT !.since = NextBoundary]
      BY <2>2 DEF Advance
    <3>2. tracks[tid].since < NextBoundary
      BY <1>2, <2>1, <2>2 DEF Live, TrackType
    <3> QED
      BY <1>1, <1>2, <2>1, <3>1, <3>2 DEF Bounded, TrackType
  <2>3. CASE tid \notin Live
    <3>1. tracks'[tid] = tracks[tid]
      BY <2>3 DEF Advance
    <3>2. tracks[tid].alive => NextBoundary <= tracks[tid].since
      BY <1>2, <2>1, <2>3 DEF Live, TrackType
    <3> QED
      BY <1>1, <1>2, <2>1, <3>1, <3>2 DEF Bounded
  <2> QED
    BY <2>2, <2>3
<1> QED
  BY <1>3, <1>4, <1>5

LEMMA InitTimeline == Init => TimelineInv
<1> SUFFICES ASSUME Init
             PROVE  TimelineInv
  OBVIOUS
<1>1. TypeOK
  BY InitType
<1>2. nextWindow = 0 /\ watermark = origin /\ DOMAIN windows = {}
  BY DEF Init, InitFrom
<1>3. WindowStart(nextWindow) = origin
  BY <1>1, <1>2, IntervalAssumption DEF WindowStart, TypeOK
<1>4. Timeline /\ OpenWindowsAreUnreported
  BY <1>2, <1>3 DEF Timeline, OpenWindowsAreUnreported
<1>5. TracksAreBounded
  <2>1. PICK snapshot \in Snapshots :
          /\ origin = snapshot.finished
          /\ tracks = [tid \in DOMAIN snapshot.samples |->
                         SeedTrack(snapshot.samples[tid], snapshot.finished)]
    BY DEF Init, InitFrom
  <2>2. ASSUME NEW tid \in DOMAIN tracks
        PROVE  Bounded(tracks[tid])
    <3>1. /\ tracks[tid] = SeedTrack(snapshot.samples[tid], origin)
          /\ snapshot.samples[tid].at <= origin /\ origin \in Nat
      BY <2>1, SnapshotsAssumption
    <3> QED
      BY <1>3, <3>1 DEF Bounded, SeedTrack
  <2> QED
    BY <2>2 DEF TracksAreBounded
<1> QED
  BY <1>1, <1>4, <1>5 DEF TimelineInv

LEMMA TimelineStep == TimelineInv /\ [Next]_vars => TimelineInv'
<1> SUFFICES ASSUME TimelineInv, [Next]_vars
             PROVE  TimelineInv'
  OBVIOUS
<1>1. CASE \E e \in Events : Observe(e)
  BY <1>1, EventsAssumption, ObserveType, ObserveTimeline DEF TimelineInv
<1>2. CASE \E lost \in Nat : Advance(lost)
  BY <1>2, AdvanceType, AdvanceTimeline DEF TimelineInv
<1>3. CASE UNCHANGED vars
  BY <1>3 DEF vars, TimelineInv, TypeOK, Timeline, OpenWindowsAreUnreported,
              TracksAreBounded, Bounded, WindowStart
<1> QED
  BY <1>1, <1>2, <1>3 DEF Next

THEOREM TimelineInvariant == Spec => []TimelineInv
BY InitTimeline, TimelineStep, PTL DEF Spec

\* Nothing ever lands in a window that was reported.
THEOREM ReportedWindowsAreClosed == Spec => []OpenWindowsAreUnreported
BY TimelineInvariant, PTL DEF TimelineInv

----------------------------------------------------------------------------
(* All the time of a tracked thread is credited *)

LEMMA OverlapAdds ==
  ASSUME origin \in Nat, NEW i \in Nat, NEW a \in Nat, NEW m \in Nat, NEW b \in Nat,
         a <= m, m <= b
  PROVE  Overlap(i, a, b) = Overlap(i, a, m) + Overlap(i, m, b)
<1>1. /\ WindowStart(i) \in Nat /\ WindowEnd(i) \in Nat
      /\ WindowStart(i) <= WindowEnd(i)
  BY WindowBounds, IntervalAssumption
<1> QED
  BY <1>1 DEF Overlap, later, earlier

LEMMA OverlapEmpty ==
  ASSUME origin \in Nat, NEW i \in Nat, NEW a \in Nat, NEW b \in Nat,
         b <= a \/ b <= WindowStart(i)
  PROVE  Overlap(i, a, b) = 0
BY WindowBounds DEF Overlap, later, earlier

LEMMA OverlapFull ==
  ASSUME origin \in Nat, NEW i \in Nat, NEW a \in Nat, NEW b \in Nat,
         a <= WindowStart(i), WindowEnd(i) <= b
  PROVE  Overlap(i, a, b) = Interval
<1>1. /\ WindowStart(i) \in Nat /\ WindowEnd(i) \in Nat
      /\ WindowEnd(i) = WindowStart(i) + Interval /\ Interval \in Nat /\ Interval > 0
  BY WindowBounds, IntervalAssumption
<1> QED
  BY <1>1 DEF Overlap, later, earlier

LEMMA WindowStartMonotone ==
  ASSUME origin \in Nat, NEW i \in Nat, NEW j \in Nat, i <= j
  PROVE  WindowStart(i) <= WindowStart(j)
<1>1. i * Interval <= j * Interval
  BY IntervalAssumption
<1> QED
  BY <1>1, IntervalAssumption DEF WindowStart

\* The time credited to an identity in a window.
Observed(ws, i, id) == RowOf(WindowOf(ws, i), id).observed

LEMMA ObservedType ==
  ASSUME NEW ws, IsWindows(ws), NEW i, NEW id
  PROVE  Observed(ws, i, id) \in Nat
<1>1. RowOf(WindowOf(ws, i), id) \in RowType
  BY WindowOfType, RowOfType
<1> QED
  BY <1>1 DEF Observed, RowType

\* Counting late events, races and events leaves the times alone.
LEMMA SameStatsObserved ==
  ASSUME NEW ws, NEW j, NEW w, w.stats = WindowOf(ws, j).stats, NEW i, NEW id
  PROVE  Observed(WithWindow(ws, j, w), i, id) = Observed(ws, i, id)
BY DEF Observed, WithWindow, WindowOf, RowOf

LEMMA RecordLateEventObserved ==
  ASSUME nextWindow \in Nat, NEW ws, IsWindows(ws), NEW i, NEW id
  PROVE  Observed(RecordLateEvent(ws), i, id) = Observed(ws, i, id)
<1> DEFINE w == WindowOf(ws, nextWindow)
           new == [w EXCEPT !.late = w.late + 1]
<1>1. new.stats = w.stats
  BY WindowOfType DEF IsWindow
<1> HIDE DEF new
<1>2. Observed(WithWindow(ws, nextWindow, new), i, id) = Observed(ws, i, id)
  BY <1>1, SameStatsObserved
<1> QED
  BY <1>2 DEF RecordLateEvent, new

LEMMA RecordInitializationRaceObserved ==
  ASSUME NEW ws, IsWindows(ws), NEW at, NEW i, NEW id
  PROVE  Observed(RecordInitializationRace(ws, at), i, id) = Observed(ws, i, id)
<1> DEFINE index == IF at >= origin THEN later(nextWindow, WindowIndex(at)) ELSE nextWindow
           w == WindowOf(ws, index)
           new == [w EXCEPT !.races = w.races + 1]
<1>1. new.stats = w.stats
  BY WindowOfType DEF IsWindow
<1> HIDE DEF new, index
<1>2. Observed(WithWindow(ws, index, new), i, id) = Observed(ws, i, id)
  BY <1>1, SameStatsObserved
<1> QED
  BY <1>2 DEF RecordInitializationRace, new, index

LEMMA WindowsAfterLookupObserved ==
  ASSUME TypeOK, NEW e, NEW i, NEW id
  PROVE  Observed(WindowsAfterLookup(e), i, id) = Observed(windows, i, id)
BY RecordInitializationRaceObserved DEF WindowsAfterLookup, TypeOK

LEMMA RecordEventObserved ==
  ASSUME NEW ws, NEW track, NEW e, NEW i, NEW id
  PROVE  Observed(RecordEvent(ws, track, e), i, id) = Observed(ws, i, id)
<1> DEFINE j == WindowIndex(e.at)
           w == WindowOf(ws, j)
           me == Identity(e.tid, track)
           stats == [k \in DOMAIN w.stats \cup {me} |->
                       IF k = me THEN CountEvent(RowOf(w, me), track, e) ELSE w.stats[k]]
           new == [stats |-> stats, events |-> w.events + 1,
                   incomplete |-> w.incomplete + (IF Breaks(track, e) THEN 1 ELSE 0),
                   late |-> w.late, races |-> w.races]
<1>1. RecordEvent(ws, track, e) = WithWindow(ws, j, new)
  BY DEF RecordEvent
<1>2. new.stats = stats
  OBVIOUS
<1>3. RowOf(new, id).observed = RowOf(w, id).observed
  <2>1. CountEvent(RowOf(w, me), track, e).observed = RowOf(w, me).observed
    BY DEF CountEvent
  <2> HIDE DEF new, w, me
  <2> QED
    BY <1>2, <2>1 DEF RowOf
<1>4. WindowOf(WithWindow(ws, j, new), i) = IF i = j THEN new ELSE WindowOf(ws, i)
  BY DEF WithWindow, WindowOf
<1> HIDE DEF new
<1> QED
  BY <1>1, <1>3, <1>4 DEF Observed

\* Each of the tracks gets exactly the part of its segment in the window, and no
\* row gets shorter.
LEMMA AddSegmentsObserved ==
  ASSUME origin \in Nat, nextWindow \in Nat,
         NEW ws, IsWindows(ws), NEW ts, NEW tids,
         DOMAIN ts \subseteq Int, ts \in [DOMAIN ts -> TrackType],
         tids \subseteq DOMAIN ts, NEW to \in Nat,
         NEW i \in Nat, i >= nextWindow
  PROVE  /\ \A tid \in tids :
              Observed(AddSegments(ws, ts, tids, to), i, Identity(tid, ts[tid]))
                = Observed(ws, i, Identity(tid, ts[tid])) + Overlap(i, ts[tid].since, to)
         /\ \A id : Observed(AddSegments(ws, ts, tids, to), i, id) >= Observed(ws, i, id)
<1> DEFINE Touches(tid, j) == j \in TouchedWindows(ts[tid].since, to)
           Ids(j) == {Identity(tid, ts[tid]) : tid \in {t \in tids : Touches(t, j)}}
           w(j) == WindowOf(ws, j)
           Stats(j) == [id \in DOMAIN w(j).stats \cup Ids(j) |->
                          IF id \in Ids(j)
                          THEN CreditRow(RowOf(w(j), id), ts[id.tid].state,
                                         Overlap(j, ts[id.tid].since, to))
                          ELSE w(j).stats[id]]
           Credited(j) == [w(j) EXCEPT !.stats = Stats(j)]
           touched == UNION {TouchedWindows(ts[tid].since, to) : tid \in tids}
           new == AddSegments(ws, ts, tids, to)
<1>1. new = [j \in DOMAIN ws \cup touched |-> IF j \in touched THEN Credited(j) ELSE ws[j]]
  BY DEF AddSegments
<1>2. IsWindow(w(i))
  BY WindowOfType
<1>3. Credited(i).stats = Stats(i)
  BY <1>2 DEF IsWindow
<1>4. \A tid \in tids : ts[tid] \in TrackType /\ ts[tid].since \in Nat
                      /\ ts[tid].state \in SchedulerStates /\ Identity(tid, ts[tid]).tid = tid
  BY DEF TrackType, Identity
<1>5. \A id : RowOf(w(i), id) \in RowType /\ RowOf(w(i), id).observed \in Nat
  BY <1>2, RowOfType DEF RowType
<1>6. \A tid \in tids : Identity(tid, ts[tid]) \in Ids(i) <=> Touches(tid, i)
  BY <1>4
<1>7. ASSUME NEW id \in Ids(i)
      PROVE  /\ i \in touched
             /\ Observed(new, i, id) = Observed(ws, i, id) + Overlap(i, ts[id.tid].since, to)
             /\ Overlap(i, ts[id.tid].since, to) \in Nat
  <2>1. PICK tid \in tids : id = Identity(tid, ts[tid]) /\ Touches(tid, i)
    OBVIOUS
  <2>2. id.tid = tid /\ i \in touched
    BY <1>4, <2>1
  <2>3. WindowOf(new, i) = Credited(i)
    <3> HIDE DEF Credited, touched, new
    <3> QED
      BY <1>1, <2>2 DEF WindowOf
  <2>4. RowOf(Credited(i), id)
          = CreditRow(RowOf(w(i), id), ts[tid].state, Overlap(i, ts[tid].since, to))
    <3> HIDE DEF w, Credited, Ids
    <3> QED
      BY <1>3, <2>2 DEF RowOf
  <2>5. CreditRow(RowOf(w(i), id), ts[tid].state, Overlap(i, ts[tid].since, to)).observed
          = RowOf(w(i), id).observed + Overlap(i, ts[tid].since, to)
    BY <1>5 DEF CreditRow, RowType
  <2>6. Overlap(i, ts[tid].since, to) \in Nat
    BY <1>4, OverlapType
  <2> HIDE DEF Credited, w, new, touched
  <2> QED
    BY <2>2, <2>3, <2>4, <2>5, <2>6 DEF Observed, w
<1>8. ASSUME NEW id, id \notin Ids(i)
      PROVE  Observed(new, i, id) = Observed(ws, i, id)
  <2>1. CASE i \in touched
    <3>1. WindowOf(new, i) = Credited(i)
      <4> HIDE DEF Credited, touched, new
      <4> QED
        BY <1>1, <2>1 DEF WindowOf
    <3>2. RowOf(Credited(i), id) = RowOf(w(i), id)
      <4> HIDE DEF w, Credited, Ids
      <4> QED
        BY <1>3, <1>8 DEF RowOf
    <3> HIDE DEF Credited, new
    <3> QED
      BY <3>1, <3>2 DEF Observed
  <2>2. CASE i \notin touched
    <3>1. WindowOf(new, i) = w(i)
      <4> HIDE DEF Credited, touched, new
      <4> QED
        BY <1>1, <2>2 DEF WindowOf
    <3> QED
      BY <3>1 DEF Observed
  <2> QED
    BY <2>1, <2>2
<1>9. ASSUME NEW tid \in tids, ~Touches(tid, i)
      PROVE  Overlap(i, ts[tid].since, to) = 0
  <2>1. CASE i <= WindowIndex(to)
    BY <1>4, <1>9, <2>1, OverlapType, WindowIndexBounds DEF TouchedWindows
  <2>2. CASE ~(i <= WindowIndex(to))
    <3>1. WindowIndex(to) \in Nat /\ WindowIndex(to) < i /\ to < WindowEnd(WindowIndex(to))
      BY <2>2, WindowIndexBounds
    <3>2. WindowEnd(WindowIndex(to)) <= WindowStart(i)
      BY <3>1, WindowOrder
    <3>3. to <= WindowStart(i)
      BY <3>1, <3>2, WindowBounds
    <3> QED
      BY <1>4, <3>3, OverlapEmpty
  <2> QED
    BY <2>1, <2>2
<1>10. ASSUME NEW tid \in tids
       PROVE  Observed(new, i, Identity(tid, ts[tid]))
                = Observed(ws, i, Identity(tid, ts[tid])) + Overlap(i, ts[tid].since, to)
  <2>1. CASE Touches(tid, i)
    BY <1>4, <1>6, <1>7, <2>1
  <2>2. CASE ~Touches(tid, i)
    <3> HIDE DEF new, Ids
    <3> QED
      BY <1>5, <1>6, <1>8, <1>9, <2>2 DEF Observed
  <2> QED
    BY <2>1, <2>2
<1>11. ASSUME NEW id
       PROVE  Observed(new, i, id) >= Observed(ws, i, id)
  <2>1. Observed(ws, i, id) \in Nat
    BY ObservedType
  <2> HIDE DEF new, Ids
  <2> QED
    BY <1>7, <1>8, <2>1
<1> QED
  BY <1>10, <1>11

First(track) == later(origin, track.seedAt)

\* In the windows not reported yet, the row of the track has its time so far.
Covered(ws, tid, track) ==
  \A i \in Nat : i >= nextWindow =>
    Observed(ws, i, Identity(tid, track)) >= Overlap(i, First(track), track.since)

\* A track that has met no event is live and was closed at the last boundary.
Fresh(track) == track.ns = 0 => track.alive /\ track.since = WindowStart(nextWindow)

\* The events of a thread cannot complete its identity twice.
Complete(track) ==
  track.ns # 0 /\ track.ticks = 0 => \A f \in Events : f.ns = track.ns => f.ticks = 0

TracksAreCovered ==
  \A tid \in DOMAIN tracks :
    Covered(windows, tid, tracks[tid]) /\ Fresh(tracks[tid]) /\ Complete(tracks[tid])

CoverageInv == TimelineInv /\ TracksAreCovered

LEMMA EmptyIsCovered ==
  ASSUME TypeOK, NEW ws, IsWindows(ws), NEW tid, NEW track \in TrackType,
         track.since <= First(track) \/ track.since <= WindowStart(nextWindow)
  PROVE  Covered(ws, tid, track)
<1> SUFFICES ASSUME NEW i \in Nat, i >= nextWindow
             PROVE  Observed(ws, i, Identity(tid, track)) >= Overlap(i, First(track), track.since)
  BY DEF Covered
<1>1. /\ origin \in Nat /\ nextWindow \in Nat /\ First(track) \in Nat /\ track.since \in Nat
  BY DEF TypeOK, TrackType, First, later
<1>2. WindowStart(nextWindow) <= WindowStart(i)
  BY <1>1, WindowStartMonotone
<1>3. track.since <= First(track) \/ track.since <= WindowStart(i)
  BY <1>1, <1>2, WindowBounds
<1>4. Overlap(i, First(track), track.since) = 0
  BY <1>1, <1>3, OverlapEmpty
<1> QED
  BY <1>4, ObservedType

LEMMA SameObservedCovered ==
  ASSUME NEW ws, NEW new, IsWindows(ws), IsWindows(new), TypeOK,
         \A i \in Nat : i >= nextWindow =>
           \A id : Observed(new, i, id) >= Observed(ws, i, id),
         NEW tid, NEW track \in TrackType, Covered(ws, tid, track)
  PROVE  Covered(new, tid, track)
<1> SUFFICES ASSUME NEW i \in Nat, i >= nextWindow
             PROVE  Observed(new, i, Identity(tid, track)) >= Overlap(i, First(track), track.since)
  BY DEF Covered
<1> DEFINE id == Identity(tid, track)
<1>1. /\ Observed(ws, i, id) \in Nat /\ Observed(new, i, id) \in Nat
      /\ Observed(new, i, id) >= Observed(ws, i, id)
  BY ObservedType
<1>2. Observed(ws, i, id) >= Overlap(i, First(track), track.since)
  BY DEF Covered
<1>3. Overlap(i, First(track), track.since) \in Nat
  BY OverlapType DEF TypeOK, TrackType, First, later
<1> QED
  BY <1>1, <1>2, <1>3

\* The track an event is applied to is covered, though its identity may just have
\* become another one.
LEMMA TrackOfCovered ==
  ASSUME CoverageInv, NEW e \in Events, ~Behind(e)
  PROVE  /\ Covered(windows, e.tid, TrackOf(e))
         /\ TrackOf(e).ns = e.ns /\ Complete(TrackOf(e))
<1> USE DEF CoverageInv, TimelineInv
<1> DEFINE track == TrackOf(e)
           old == tracks[e.tid]
<1>1. e \in EventType /\ e.ns \in Nat /\ e.ns # 0 /\ e.ticks \in Nat /\ e.at \in Nat
  BY EventsAssumption DEF EventType
<1>2. track \in TrackType /\ IsWindows(windows)
  BY <1>1, TrackOfType DEF TypeOK
<1>3. CASE ~Known(e) \/ Replaces(e)
  <2>1. track = NewTrack(e)
    BY <1>3 DEF TrackOf
  <2>2. track.since = First(track) /\ track.ns = e.ns /\ track.ticks = e.ticks
    BY <2>1 DEF NewTrack, First
  <2>3. Covered(windows, e.tid, track)
    BY <1>2, <2>2, EmptyIsCovered DEF TypeOK, TrackType
  <2>4. Complete(track)
    BY <2>2, ConversionAssumption DEF Complete
  <2> QED
    BY <2>2, <2>3, <2>4
<1>4. CASE Known(e) /\ ~Replaces(e)
  <2>1. e.tid \in DOMAIN tracks /\ old \in TrackType /\ ~IdentityChanged(old, e)
    BY <1>4 DEF Known, Replaces, TypeOK
  <2>2. track = [old EXCEPT !.ticks = IF e.ticks # 0 THEN e.ticks ELSE old.ticks,
                            !.ns = IF e.ns # 0 THEN e.ns ELSE old.ns]
    BY <1>4 DEF TrackOf
  <2>3. /\ track.ns = e.ns /\ track.ticks = (IF e.ticks # 0 THEN e.ticks ELSE old.ticks)
        /\ track.since = old.since /\ track.seedAt = old.seedAt
    BY <1>1, <2>1, <2>2 DEF TrackType
  <2>4. Covered(windows, e.tid, old) /\ Fresh(old) /\ Complete(old)
    BY <2>1 DEF TracksAreCovered
  <2>5. Complete(track)
    <3>1. track.ticks = 0 => e.ticks = 0
      BY <1>1, <2>3
    <3> QED
      BY <2>3, <3>1, ConversionAssumption DEF Complete
  <2>6. CASE old.ns = 0
    <3>1. track.since = WindowStart(nextWindow)
      BY <2>3, <2>4, <2>6 DEF Fresh
    <3>2. track.since <= WindowStart(nextWindow)
      BY <1>2, <3>1 DEF TrackType
    <3>3. Covered(windows, e.tid, track)
      BY <1>2, <3>2, EmptyIsCovered
    <3> QED
      BY <2>3, <2>5, <3>3
  <2>7. CASE old.ns # 0
    <3>1. old.ns = e.ns
      BY <1>1, <2>1, <2>7 DEF IdentityChanged
    <3>2. track.ticks = old.ticks
      <4>1. CASE e.ticks = 0
        BY <2>3, <4>1
      <4>2. CASE e.ticks # 0
        <5>1. old.ticks # 0
          BY <2>4, <2>7, <3>1, <4>2 DEF Complete
        <5>2. old.ticks = e.ticks
          BY <2>1, <4>2, <5>1 DEF IdentityChanged
        <5> QED
          BY <2>3, <4>2, <5>2
      <4> QED
        BY <4>1, <4>2
    <3>3. Identity(e.tid, track) = Identity(e.tid, old) /\ First(track) = First(old)
      BY <2>3, <3>1, <3>2 DEF Identity, First
    <3>4. Covered(windows, e.tid, track)
      BY <2>3, <2>4, <3>3 DEF Covered
    <3> QED
      BY <2>3, <2>5, <3>4
  <2> QED
    BY <2>6, <2>7
<1> QED
  BY <1>3, <1>4

\* What is left to show of an event: that the windows lose no time, and that the
\* track it leaves behind is covered.
LEMMA SetTrackCovered ==
  ASSUME CoverageInv, NEW tid, NEW track \in TrackType, SetTrack(tid, track),
         UNCHANGED <<origin, nextWindow>>, IsWindows(windows'),
         \A i \in Nat : i >= nextWindow =>
           \A id : Observed(windows', i, id) >= Observed(windows, i, id),
         Covered(windows', tid, track), track.ns # 0, Complete(track)
  PROVE  TracksAreCovered'
<1>1. ASSUME NEW t \in DOMAIN tracks'
      PROVE  Covered(windows', t, tracks'[t]) /\ Fresh(tracks'[t]) /\ Complete(tracks'[t])
  <2>1. CASE t = tid
    <3>1. tracks'[t] = track
      BY <2>1 DEF SetTrack
    <3> QED
      BY <2>1, <3>1 DEF Fresh
  <2>2. CASE t # tid
    <3>1. t \in DOMAIN tracks /\ tracks'[t] = tracks[t]
      BY <2>2 DEF SetTrack
    <3>2. /\ tracks[t] \in TrackType /\ TypeOK /\ IsWindows(windows)
          /\ Covered(windows, t, tracks[t]) /\ Fresh(tracks[t]) /\ Complete(tracks[t])
      BY <3>1 DEF CoverageInv, TimelineInv, TypeOK, TracksAreCovered
    <3>3. Covered(windows', t, tracks[t])
      BY <3>2, SameObservedCovered
    <3> QED
      BY <3>1, <3>2, <3>3
  <2> QED
    BY <2>1, <2>2
<1> QED
  BY <1>1 DEF TracksAreCovered, Covered, Fresh, Complete, Observed, RowOf, WindowOf,
              Overlap, WindowStart, WindowEnd, First, later, earlier, Identity

LEMMA ObserveCoverage ==
  ASSUME CoverageInv, NEW e \in Events, Observe(e)
  PROVE  TracksAreCovered'
<1> USE DEF CoverageInv, TimelineInv
<1> DEFINE track == TrackOf(e)
           looked == WindowsAfterLookup(e)
           Keeps(ws) == \A i \in Nat : i >= nextWindow =>
                          \A id : Observed(ws, i, id) >= Observed(windows, i, id)
           Same(ws) == \A i \in Nat : i >= nextWindow =>
                         \A id : Observed(ws, i, id) = Observed(windows, i, id)
<1>1. /\ e \in EventType /\ e.at \in Nat /\ e.ns # 0
      /\ origin \in Nat /\ nextWindow \in Nat
  BY EventsAssumption DEF EventType, TypeOK
<1>2. UNCHANGED <<origin, nextWindow>> /\ TypeOK' /\ IsWindows(windows')
  <2>1. TypeOK'
    BY <1>1, ObserveType
  <2> QED
    BY <2>1 DEF Observe, TypeOK
<1>3. track \in TrackType /\ IsWindows(windows) /\ IsWindows(looked)
  BY <1>1, TrackOfType, WindowsAfterLookupType DEF TypeOK
<1>4. Same(looked)
  BY WindowsAfterLookupObserved
<1>5. ASSUME NEW ws, IsWindows(ws), Same(ws)
      PROVE  Keeps(ws)
  BY <1>3, <1>5, ObservedType
<1>6. ASSUME ~Behind(e)
      PROVE  track.ns # 0 /\ Complete(track) /\ Covered(windows, e.tid, track)
  BY <1>1, <1>6, TrackOfCovered
<1>7. \A measure \in BOOLEAN, n \in Nat :
        LET t == Applied(track, e, measure, n) IN
        /\ t \in TrackType /\ t.since = n /\ t.ns = track.ns /\ t.ticks = track.ticks
        /\ Identity(e.tid, t) = Identity(e.tid, track) /\ First(t) = First(track)
        /\ Complete(track) => Complete(t)
  BY <1>1, <1>3, AppliedFields DEF Identity, First, Complete
<1> HIDE DEF track, looked
<1>8. CASE ObserveBehindWatermark(e)
  <2>1. windows' = RecordLateEvent(windows) /\ tracks' = tracks
    BY <1>8 DEF ObserveBehindWatermark
  <2>2. Keeps(windows')
    BY <1>1, <1>2, <1>3, <1>5, <2>1, RecordLateEventObserved
  <2>3. ASSUME NEW t \in DOMAIN tracks
        PROVE  Covered(windows', t, tracks[t]) /\ Fresh(tracks[t]) /\ Complete(tracks[t])
    <3>1. tracks[t] \in TrackType /\ Covered(windows, t, tracks[t])
          /\ Fresh(tracks[t]) /\ Complete(tracks[t])
      BY DEF TypeOK, TracksAreCovered
    <3> QED
      BY <1>2, <1>3, <2>2, <3>1, SameObservedCovered
  <2> QED
    BY <1>2, <2>1, <2>3
    DEF TracksAreCovered, Covered, Fresh, Complete, Observed, RowOf, WindowOf,
        Overlap, WindowStart, WindowEnd, First, later, earlier, Identity
<1>9. CASE ObserveBeforeSeed(e)
  <2>1. ~Behind(e) /\ windows' = looked /\ SetTrack(e.tid, track)
    BY <1>9 DEF ObserveBeforeSeed, looked, track
  <2>2. Keeps(windows')
    BY <1>3, <1>4, <1>5, <2>1
  <2>3. Covered(windows', e.tid, track)
    BY <1>2, <1>3, <1>6, <2>1, <2>2, SameObservedCovered
  <2> QED
    BY <1>2, <1>3, <1>6, <2>1, <2>2, <2>3, SetTrackCovered
<1>10. CASE ObserveOutOfOrder(e)
  <2>1. ~Behind(e) /\ windows' = RecordLateEvent(looked) /\ SetTrack(e.tid, track)
    BY <1>10 DEF ObserveOutOfOrder, looked, track
  <2>2. Keeps(windows')
    <3>1. Same(windows')
      BY <1>1, <1>3, <1>4, <2>1, RecordLateEventObserved
    <3> QED
      BY <1>2, <1>5, <3>1
  <2>3. Covered(windows', e.tid, track)
    BY <1>2, <1>3, <1>6, <2>1, <2>2, SameObservedCovered
  <2> QED
    BY <1>2, <1>3, <1>6, <2>1, <2>2, <2>3, SetTrackCovered
<1>11. CASE ObserveBeforeOrigin(e)
  <2>1. ~Behind(e) /\ e.at >= track.seedAt /\ e.at < origin
    BY <1>11 DEF ObserveBeforeOrigin, track
  <2>2. CASE e.at < track.lastEvent
    <3>1. windows' = RecordInitializationRace(looked, origin) /\ SetTrack(e.tid, track)
      BY <1>11, <2>2 DEF ObserveBeforeOrigin, looked, track
    <3>2. Keeps(windows')
      <4>1. Same(windows')
        BY <1>3, <1>4, <3>1, RecordInitializationRaceObserved
      <4> QED
        BY <1>2, <1>5, <4>1
    <3>3. Covered(windows', e.tid, track)
      BY <1>2, <1>3, <1>6, <2>1, <3>2, SameObservedCovered
    <3> QED
      BY <1>2, <1>3, <1>6, <2>1, <3>1, <3>2, <3>3, SetTrackCovered
  <2>3. CASE ~(e.at < track.lastEvent)
    <3> DEFINE t == Applied(track, e, FALSE, origin)
    <3>1. windows' = looked /\ SetTrack(e.tid, t)
      BY <1>11, <2>3 DEF ObserveBeforeOrigin, looked, track
    <3>2. t \in TrackType /\ t.since = origin /\ t.ns = track.ns /\ First(t) = First(track)
          /\ (Complete(track) => Complete(t))
      BY <1>1, <1>7
    <3> HIDE DEF t
    <3>3. Keeps(windows')
      BY <1>3, <1>4, <1>5, <3>1
    <3>4. t.since <= First(t)
      BY <1>1, <3>2, <1>3 DEF First, later, TrackType
    <3>5. Covered(windows', e.tid, t)
      BY <1>2, <3>2, <3>4, EmptyIsCovered
    <3> QED
      BY <1>2, <1>6, <2>1, <3>1, <3>2, <3>3, <3>5, SetTrackCovered
  <2> QED
    BY <2>2, <2>3
<1>12. CASE ObserveInOrder(e)
  <2> DEFINE ts == [tid \in {e.tid} |-> track]
             ws == AddSegments(looked, ts, {e.tid}, e.at)
             t == Applied(track, e, TRUE, e.at)
             id == Identity(e.tid, track)
  <2>1. /\ ~Behind(e) /\ e.at >= track.seedAt /\ e.at >= origin /\ e.at >= track.since
        /\ windows' = RecordEvent(ws, track, e) /\ SetTrack(e.tid, t)
    BY <1>12 DEF ObserveInOrder, InOrder, looked, track
  <2>2. t \in TrackType /\ t.since = e.at /\ t.ns = track.ns
        /\ Identity(e.tid, t) = id /\ First(t) = First(track)
        /\ (Complete(track) => Complete(t))
    BY <1>1, <1>7
  <2>3. ASSUME NEW i \in Nat, i >= nextWindow
        PROVE  /\ Observed(ws, i, id) = Observed(looked, i, id) + Overlap(i, track.since, e.at)
               /\ \A x : Observed(ws, i, x) >= Observed(looked, i, x)
    <3>1. DOMAIN ts \subseteq Int /\ ts \in [DOMAIN ts -> TrackType]
          /\ {e.tid} \subseteq DOMAIN ts /\ ts[e.tid] = track
      BY <1>1, <1>3 DEF EventType
    <3> HIDE DEF ts
    <3> QED
      BY <1>1, <1>3, <2>3, <3>1, AddSegmentsObserved
  <2> HIDE DEF ts, ws, t
  <2>4. \A i \in Nat : \A x : Observed(windows', i, x) = Observed(ws, i, x)
    BY <2>1, RecordEventObserved
  <2>5. Keeps(windows')
    BY <1>4, <2>3, <2>4
  <2>6. Covered(windows', e.tid, t)
    <3> SUFFICES ASSUME NEW i \in Nat, i >= nextWindow
                 PROVE  Observed(windows', i, id) >= Overlap(i, First(track), e.at)
      BY <2>2 DEF Covered
    <3>1. Observed(windows', i, id)
            = Observed(windows, i, id) + Overlap(i, track.since, e.at)
      BY <1>4, <2>3, <2>4
    <3>2. Observed(windows, i, id) >= Overlap(i, First(track), track.since)
      BY <1>6, <2>1 DEF Covered
    <3>3. First(track) \in Nat /\ track.since \in Nat /\ First(track) <= track.since
      <4>1. Bounded(track)
        BY <1>1, <2>1, TrackOfBounded DEF track
      <4> QED
        BY <1>1, <1>3, <4>1 DEF First, later, TrackType, Bounded
    <3>4. Overlap(i, First(track), e.at)
            = Overlap(i, First(track), track.since) + Overlap(i, track.since, e.at)
      BY <1>1, <2>1, <3>3, OverlapAdds
    <3>5. /\ Overlap(i, First(track), track.since) \in Nat
          /\ Overlap(i, track.since, e.at) \in Nat /\ Observed(windows, i, id) \in Nat
      BY <1>1, <1>3, <3>3, OverlapType, ObservedType
    <3> QED
      BY <3>1, <3>2, <3>4, <3>5
  <2> QED
    BY <1>2, <1>6, <2>1, <2>2, <2>5, <2>6, SetTrackCovered
<1> QED
  BY <1>8, <1>9, <1>10, <1>11, <1>12 DEF Observe

\* The rows once Advance has closed the last segments of the window.
LEMMA CreditedCovers ==
  ASSUME CoverageInv, NEW tid \in DOMAIN tracks, NEW i \in Nat, i >= nextWindow
  PROVE  LET credited == AddSegments(windows, tracks, Live, NextBoundary)
             end == IF tid \in Live THEN NextBoundary ELSE tracks[tid].since
         IN Observed(credited, i, Identity(tid, tracks[tid]))
              >= Overlap(i, First(tracks[tid]), end)
<1> USE DEF CoverageInv, TimelineInv
<1> DEFINE track == tracks[tid]
           id == Identity(tid, track)
           credited == AddSegments(windows, tracks, Live, NextBoundary)
<1>1. /\ origin \in Nat /\ nextWindow \in Nat /\ NextBoundary \in Nat
      /\ IsWindows(windows) /\ Live \subseteq DOMAIN tracks
      /\ DOMAIN tracks \subseteq Int /\ tracks \in [DOMAIN tracks -> TrackType]
  BY WindowBounds DEF TypeOK, NextBoundary, Live
<1>2. /\ \A t \in Live : Observed(credited, i, Identity(t, tracks[t]))
             = Observed(windows, i, Identity(t, tracks[t])) + Overlap(i, tracks[t].since, NextBoundary)
      /\ \A x : Observed(credited, i, x) >= Observed(windows, i, x)
  BY <1>1, AddSegmentsObserved
<1>3. /\ track \in TrackType /\ track.since \in Nat /\ First(track) \in Nat
      /\ First(track) <= track.since
  BY <1>1 DEF TrackType, First, later, TracksAreBounded, Bounded
<1>4. Observed(windows, i, id) >= Overlap(i, First(track), track.since)
  BY DEF TracksAreCovered, Covered
<1>5. /\ Overlap(i, First(track), track.since) \in Nat /\ Observed(windows, i, id) \in Nat
      /\ Observed(credited, i, id) \in Nat
  BY <1>1, <1>3, OverlapType, ObservedType, CreditedType
<1> DEFINE end == IF tid \in Live THEN NextBoundary ELSE track.since
<1>6. Observed(credited, i, id) >= Overlap(i, First(track), end)
  <2>1. CASE tid \in Live
    <3>1. track.since <= NextBoundary
      BY <1>1, <1>3, <2>1 DEF Live
    <3>2. Observed(credited, i, id)
            = Observed(windows, i, id) + Overlap(i, track.since, NextBoundary)
      BY <1>2, <2>1
    <3> HIDE DEF credited, id, track
    <3> DEFINE first == First(track)
               since == track.since
    <3>3. /\ origin \in Nat /\ NextBoundary \in Nat /\ first \in Nat /\ since \in Nat
          /\ first <= since /\ since <= NextBoundary
      BY <1>1, <1>3, <3>1
    <3> HIDE DEF first, since
    <3>4. Overlap(i, first, NextBoundary)
            = Overlap(i, first, since) + Overlap(i, since, NextBoundary)
      BY <3>3, OverlapAdds
    <3>5. Overlap(i, since, NextBoundary) \in Nat
      BY <3>3, OverlapType
    <3> QED
      BY <1>4, <1>5, <2>1, <3>2, <3>4, <3>5 DEF first, since
  <2>2. CASE tid \notin Live
    <3>1. Observed(credited, i, id) >= Observed(windows, i, id)
      BY <1>2
    <3> HIDE DEF credited, id, track
    <3> QED
      BY <1>4, <1>5, <2>2, <3>1
  <2> QED
    BY <2>1, <2>2
<1> QED
  BY <1>6

LEMMA AdvanceCoverage ==
  ASSUME CoverageInv, NEW lost \in Nat, Advance(lost)
  PROVE  TracksAreCovered'
<1> USE DEF CoverageInv, TimelineInv
<1> DEFINE credited == AddSegments(windows, tracks, Live, NextBoundary)
<1>1. /\ origin' = origin /\ nextWindow' = nextWindow + 1 /\ nextWindow \in Nat
      /\ WindowStart(nextWindow)' = NextBoundary
      /\ NextBoundary \in Nat /\ WindowStart(nextWindow) < NextBoundary
      /\ WindowStart(nextWindow) \in Nat
      /\ windows' = [i \in DOMAIN credited \ {nextWindow} |-> credited[i]]
      /\ tracks' = [tid \in DOMAIN tracks |->
                      IF tid \in Live THEN [tracks[tid] EXCEPT !.since = NextBoundary]
                      ELSE tracks[tid]]
  BY WindowBounds, IntervalAssumption
  DEF Advance, TypeOK, NextBoundary, WindowStart, WindowEnd
<1>2. \A i \in Nat : \A id : i >= nextWindow + 1 => Observed(windows', i, id) = Observed(credited, i, id)
  <2> HIDE DEF credited
  <2> QED
    BY <1>1 DEF Observed, WindowOf
<1> SUFFICES ASSUME NEW tid \in DOMAIN tracks
             PROVE  /\ Covered(windows, tid, tracks[tid])'
                    /\ Fresh(tracks[tid])' /\ Complete(tracks[tid])'
  BY <1>1 DEF TracksAreCovered
<1> DEFINE track == tracks[tid]
           end == IF tid \in Live THEN NextBoundary ELSE track.since
           new == tracks'[tid]
<1>3. track \in TrackType /\ Fresh(track) /\ Complete(track) /\ track.since \in Nat
  BY DEF TypeOK, TracksAreCovered, TrackType
<1>4. /\ new.since = end /\ new.ns = track.ns /\ new.ticks = track.ticks
      /\ new.seedAt = track.seedAt /\ new.alive = track.alive
  BY <1>1, <1>3 DEF TrackType
<1>5. Complete(tracks[tid])'
  BY <1>3, <1>4 DEF Complete
<1>6. Fresh(tracks[tid])'
  <2>1. ASSUME track.ns = 0
        PROVE  track.alive /\ tid \in Live
    BY <1>1, <1>3, <2>1 DEF Fresh, Live
  <2> QED
    BY <1>1, <1>4, <2>1 DEF Fresh
<1>7. Covered(windows, tid, tracks[tid])'
  <2> SUFFICES ASSUME NEW i \in Nat, i >= nextWindow + 1
               PROVE  Observed(windows', i, Identity(tid, track)) >= Overlap(i, First(track), end)
    BY <1>1, <1>4
    DEF Covered, Observed, RowOf, WindowOf, Identity, First, Overlap, WindowStart,
        WindowEnd, later, earlier
  <2>1. i >= nextWindow
    BY <1>1
  <2>2. Observed(credited, i, Identity(tid, track)) >= Overlap(i, First(track), end)
    BY <2>1, CreditedCovers
  <2> QED
    BY <1>2, <2>2
<1> QED
  BY <1>5, <1>6, <1>7

LEMMA InitCoverage == Init => CoverageInv
<1> SUFFICES ASSUME Init
             PROVE  CoverageInv
  OBVIOUS
<1>1. TimelineInv /\ TypeOK
  BY InitTimeline DEF TimelineInv
<1>2. ASSUME NEW tid \in DOMAIN tracks
      PROVE  Covered(windows, tid, tracks[tid]) /\ Fresh(tracks[tid]) /\ Complete(tracks[tid])
  <2>1. PICK snapshot \in Snapshots :
          /\ origin = snapshot.finished /\ nextWindow = 0
          /\ tracks = [t \in DOMAIN snapshot.samples |->
                         SeedTrack(snapshot.samples[t], snapshot.finished)]
    BY DEF Init, InitFrom
  <2>2. tracks[tid].since = origin /\ tracks[tid].ns = 0 /\ tracks[tid].alive
    BY <2>1 DEF SeedTrack
  <2>3. WindowStart(nextWindow) = origin /\ origin <= origin
    BY <1>1, <2>1, IntervalAssumption DEF WindowStart, TypeOK
  <2>4. tracks[tid] \in TrackType /\ IsWindows(windows)
    BY <1>1 DEF TypeOK
  <2>5. Covered(windows, tid, tracks[tid])
    BY <1>1, <2>2, <2>3, <2>4, EmptyIsCovered
  <2> QED
    BY <2>2, <2>3, <2>5 DEF Fresh, Complete
<1> QED
  BY <1>1, <1>2 DEF CoverageInv, TracksAreCovered

LEMMA CoverageStep == CoverageInv /\ [Next]_vars => CoverageInv'
<1> SUFFICES ASSUME CoverageInv, [Next]_vars
             PROVE  TracksAreCovered'
  BY TimelineStep DEF CoverageInv
<1>1. CASE \E e \in Events : Observe(e)
  BY <1>1, ObserveCoverage
<1>2. CASE \E lost \in Nat : Advance(lost)
  BY <1>2, AdvanceCoverage
<1>3. CASE UNCHANGED vars
  BY <1>3 DEF vars, CoverageInv, TracksAreCovered, Covered, Fresh, Complete, Observed,
              RowOf, WindowOf, Overlap, WindowStart, WindowEnd, First, later, earlier, Identity
<1> QED
  BY <1>1, <1>2, <1>3 DEF Next

THEOREM CoverageInvariant == Spec => []CoverageInv
BY InitCoverage, CoverageStep, PTL DEF Spec

\* From the end of the initial scan, or its first event, to the end of its last
\* segment, no time of a tracked thread is missing from the windows still open.
THEOREM TrackedTimeCredited == Spec => []TrackedTimeIsCredited
<1>1. CoverageInv => TrackedTimeIsCredited
  <2> SUFFICES ASSUME CoverageInv, NEW tid \in DOMAIN tracks,
                      NEW i \in nextWindow .. WindowIndex(tracks[tid].since)
               PROVE  Observed(windows, i, Identity(tid, tracks[tid]))
                        >= Overlap(i, First(tracks[tid]), tracks[tid].since)
    BY DEF TrackedTimeIsCredited, Observed, First
  <2>1. nextWindow \in Nat /\ WindowIndex(tracks[tid].since) \in Nat
    BY WindowIndexBounds DEF CoverageInv, TimelineInv, TypeOK, TrackType
  <2>2. i \in Nat /\ i >= nextWindow
    BY <2>1
  <2> QED
    BY <2>2 DEF CoverageInv, TracksAreCovered, Covered
<1> QED
  BY <1>1, CoverageInvariant, PTL

\* A report has the whole interval of every live thread known at its start.
THEOREM LiveThreadsCovered == Spec => ReportsCoverLiveThreads
<1> DEFINE Whole ==
      nextWindow' # nextWindow =>
        \A tid \in DOMAIN tracks :
          LET id == Identity(tid, tracks[tid]) IN
          tracks[tid].alive /\ tracks[tid].seedAt <= WindowStart(nextWindow) =>
            /\ id \in DOMAIN reports'[nextWindow].threads
            /\ reports'[nextWindow].threads[id].observed >= Interval
<1>1. CoverageInv /\ [Next]_vars => [Whole]_vars
  <2> SUFFICES ASSUME CoverageInv, NEW lost \in Nat, Advance(lost)
               PROVE  Whole
    BY DEF Next, Observe, vars
  <2> USE DEF CoverageInv, TimelineInv
  <2> SUFFICES ASSUME NEW tid \in DOMAIN tracks, tracks[tid].alive,
                      tracks[tid].seedAt <= WindowStart(nextWindow)
               PROVE  LET id == Identity(tid, tracks[tid]) IN
                      /\ id \in DOMAIN reports'[nextWindow].threads
                      /\ reports'[nextWindow].threads[id].observed >= Interval
    OBVIOUS
  <2> DEFINE track == tracks[tid]
             id == Identity(tid, track)
             credited == AddSegments(windows, tracks, Live, NextBoundary)
             w == WindowOf(credited, nextWindow)
             end == IF tid \in Live THEN NextBoundary ELSE track.since
  <2>1. reports'[nextWindow].threads = w.stats
    BY DEF Advance, WithWindow, ReportOf, ClosedWindow
  <2>2. /\ origin \in Nat /\ nextWindow \in Nat /\ NextBoundary \in Nat
        /\ track \in TrackType /\ track.since \in Nat /\ First(track) \in Nat
    BY WindowBounds DEF TypeOK, NextBoundary, TrackType, First, later
  <2>3. First(track) <= WindowStart(nextWindow)
    BY <2>2, WindowBounds DEF First, later, TrackType
  <2>4. end \in Nat /\ WindowEnd(nextWindow) <= end
    BY <2>2 DEF Live, NextBoundary
  <2>5. Overlap(nextWindow, First(track), end) = Interval
    BY <2>2, <2>3, <2>4, OverlapFull
  <2>6. Observed(credited, nextWindow, id) >= Overlap(nextWindow, First(track), end)
    BY <2>2, CreditedCovers
  <2>7. Observed(credited, nextWindow, id) >= Interval
    BY <2>5, <2>6
  <2>8. RowOf(w, id).observed >= Interval
    BY <2>7 DEF Observed
  <2> HIDE DEF w
  <2>9. id \in DOMAIN w.stats
    BY <2>8, IntervalAssumption DEF RowOf, NoRow
  <2> QED
    BY <2>1, <2>8, <2>9 DEF RowOf
<1> QED
  BY <1>1, CoverageInvariant, PTL DEF Spec, ReportsCoverLiveThreads

----------------------------------------------------------------------------
(* A pending wakeup is the start of a runnable stretch *)

PendingIsRunnable(track) ==
  track.wakeupAt # NoTime =>
    /\ track.state = "runnable"
    /\ origin <= track.wakeupAt
    /\ track.wakeupAt <= track.lastEvent /\ track.wakeupAt <= track.since

WakeupInv == TimelineInv /\ PendingWakeupIsRunnable

LEMMA TrackOfPending ==
  ASSUME WakeupInv, NEW e \in EventType
  PROVE  PendingIsRunnable(TrackOf(e))
<1>1. PendingIsRunnable(NewTrack(e))
  BY DEF PendingIsRunnable, NewTrack
<1>2. ASSUME Known(e)
      PROVE  LET t == [tracks[e.tid] EXCEPT !.ticks = IF e.ticks # 0 THEN e.ticks ELSE @,
                                            !.ns = IF e.ns # 0 THEN e.ns ELSE @]
             IN PendingIsRunnable(t)
  <2>1. PendingIsRunnable(tracks[e.tid]) /\ tracks[e.tid] \in TrackType
    BY <1>2 DEF WakeupInv, TimelineInv, PendingWakeupIsRunnable, PendingIsRunnable, Known, TypeOK
  <2> QED
    BY <2>1 DEF PendingIsRunnable, TrackType
<1> QED
  BY <1>1, <1>2 DEF TrackOf

\* An event at or after the origin, and after what the track has seen, may start a
\* runnable stretch, or ends the one there is.
LEMMA AppliedInOrderPending ==
  ASSUME origin \in Nat, NEW track \in TrackType, NEW e \in EventType,
         PendingIsRunnable(track), e.at >= origin, InOrder(track, e)
  PROVE  PendingIsRunnable(Applied(track, e, TRUE, e.at))
<1> DEFINE applied == ApplyTransition(track, e, TRUE)
           t == Applied(track, e, TRUE, e.at)
<1>1. e.at \in Nat
  BY DEF EventType
<1>2. /\ t.since = e.at /\ t.lastEvent = e.at
      /\ t.state = applied.state /\ t.wakeupAt = applied.wakeupAt
  BY <1>1, AppliedFields
<1>3. applied.wakeupAt # NoTime =>
        /\ applied.state = "runnable"
        /\ origin <= applied.wakeupAt /\ applied.wakeupAt <= e.at
  <2>1. CASE e.kind = "wakeup" /\ track.state = "on_cpu"
    BY <2>1 DEF ApplyTransition, PendingIsRunnable
  <2>2. CASE e.kind = "wakeup" /\ track.state # "on_cpu"
    <3>1. applied = [[track EXCEPT !.state = "runnable"] EXCEPT !.wakeupAt = e.at]
      BY <2>2 DEF ApplyTransition
    <3> HIDE DEF applied
    <3>2. applied.state = "runnable" /\ applied.wakeupAt = e.at
      BY <3>1 DEF TrackType
    <3> QED
      BY <1>1, <3>2
  <2>3. CASE e.kind = "switch_in"
    BY <2>3 DEF ApplyTransition, TrackType
  <2>4. CASE e.kind = "switch_out"
    BY <2>4 DEF ApplyTransition, TrackType
  <2> QED
    BY <2>1, <2>2, <2>3, <2>4 DEF EventType, EventKinds
<1> HIDE DEF applied, t
<1> QED
  BY <1>2, <1>3 DEF PendingIsRunnable, t

\* Before the origin there is no pending wakeup, and none is made.
LEMMA AppliedBeforeOriginPending ==
  ASSUME origin \in Nat, NEW track \in TrackType, NEW e \in EventType,
         PendingIsRunnable(track), e.at < origin, ~(e.at < track.lastEvent)
  PROVE  PendingIsRunnable(Applied(track, e, FALSE, origin))
<1>1. track.wakeupAt = NoTime
  BY DEF PendingIsRunnable, TrackType, EventType
<1>2. ApplyTransition(track, e, FALSE).wakeupAt = NoTime
  BY <1>1 DEF ApplyTransition, TrackType, EventType, EventKinds
<1>3. Applied(track, e, FALSE, origin).wakeupAt = NoTime
  BY <1>2, AppliedFields
<1> QED
  BY <1>3 DEF PendingIsRunnable

LEMMA SetTrackPending ==
  ASSUME PendingWakeupIsRunnable, NEW tid, NEW track, PendingIsRunnable(track),
         SetTrack(tid, track), UNCHANGED origin
  PROVE  PendingWakeupIsRunnable'
BY DEF SetTrack, PendingWakeupIsRunnable, PendingIsRunnable, NoTime

LEMMA ObservePending ==
  ASSUME WakeupInv, NEW e \in EventType, Observe(e)
  PROVE  PendingWakeupIsRunnable'
<1>1. PendingWakeupIsRunnable /\ UNCHANGED origin
  BY DEF WakeupInv, Observe
<1>2. TrackOf(e) \in TrackType /\ origin \in Nat /\ PendingIsRunnable(TrackOf(e))
  BY TrackOfType, TrackOfPending DEF WakeupInv, TimelineInv, TypeOK
<1>3. CASE ObserveBehindWatermark(e)
  BY <1>1, <1>3 DEF ObserveBehindWatermark, PendingWakeupIsRunnable, NoTime
<1>4. CASE ObserveBeforeSeed(e)
  BY <1>1, <1>2, <1>4, SetTrackPending DEF ObserveBeforeSeed
<1>5. CASE ObserveBeforeOrigin(e)
  <2>1. CASE e.at < TrackOf(e).lastEvent
    BY <1>1, <1>2, <1>5, <2>1, SetTrackPending DEF ObserveBeforeOrigin
  <2>2. CASE ~(e.at < TrackOf(e).lastEvent)
    <3>1. e.at < origin /\ SetTrack(e.tid, Applied(TrackOf(e), e, FALSE, origin))
      BY <1>5, <2>2 DEF ObserveBeforeOrigin
    <3> QED
      BY <1>1, <1>2, <2>2, <3>1, AppliedBeforeOriginPending, SetTrackPending
  <2> QED
    BY <2>1, <2>2
<1>6. CASE ObserveOutOfOrder(e)
  BY <1>1, <1>2, <1>6, SetTrackPending DEF ObserveOutOfOrder
<1>7. CASE ObserveInOrder(e)
  <2>1. /\ e.at >= origin /\ InOrder(TrackOf(e), e)
        /\ SetTrack(e.tid, Applied(TrackOf(e), e, TRUE, e.at))
    BY <1>7 DEF ObserveInOrder
  <2> QED
    BY <1>1, <1>2, <2>1, AppliedInOrderPending, SetTrackPending
<1> QED
  BY <1>3, <1>4, <1>5, <1>6, <1>7 DEF Observe

\* A boundary moves the start of a segment forward only.
LEMMA AdvancePending ==
  ASSUME WakeupInv, NEW lost \in Nat, Advance(lost)
  PROVE  PendingWakeupIsRunnable'
<1> SUFFICES ASSUME NEW tid \in DOMAIN tracks
             PROVE  PendingIsRunnable(tracks[tid])'
  BY DEF PendingWakeupIsRunnable, PendingIsRunnable, Advance, NoTime
<1>1. /\ tracks[tid] \in TrackType /\ PendingIsRunnable(tracks[tid])
      /\ origin' = origin /\ origin \in Nat /\ nextWindow \in Nat
  BY DEF WakeupInv, TimelineInv, TypeOK, PendingWakeupIsRunnable, PendingIsRunnable, Advance
<1>2. NextBoundary \in Nat
  BY <1>1, WindowBounds DEF NextBoundary
<1>3. CASE tid \in Live
  <2>1. tracks'[tid] = [tracks[tid] EXCEPT !.since = NextBoundary]
    BY <1>3 DEF Advance
  <2>2. tracks[tid].since <= NextBoundary
    BY <1>1, <1>2, <1>3 DEF Live, TrackType
  <2> QED
    BY <1>1, <1>2, <2>1, <2>2 DEF PendingIsRunnable, TrackType, NoTime
<1>4. CASE tid \notin Live
  <2>1. tracks'[tid] = tracks[tid]
    BY <1>4 DEF Advance
  <2> QED
    BY <1>1, <2>1 DEF PendingIsRunnable, NoTime
<1> QED
  BY <1>3, <1>4

LEMMA InitPending == Init => PendingWakeupIsRunnable
BY DEF Init, InitFrom, SeedTrack, PendingWakeupIsRunnable

LEMMA WakeupStep == WakeupInv /\ [Next]_vars => WakeupInv'
<1> SUFFICES ASSUME WakeupInv, [Next]_vars
             PROVE  WakeupInv'
  OBVIOUS
<1>1. TimelineInv'
  BY TimelineStep DEF WakeupInv
<1>2. CASE \E e \in Events : Observe(e)
  BY <1>1, <1>2, EventsAssumption, ObservePending DEF WakeupInv
<1>3. CASE \E lost \in Nat : Advance(lost)
  BY <1>1, <1>3, AdvancePending DEF WakeupInv
<1>4. CASE UNCHANGED vars
  BY <1>1, <1>4 DEF vars, WakeupInv, PendingWakeupIsRunnable, NoTime
<1> QED
  BY <1>2, <1>3, <1>4 DEF Next

\* A wakeup that waits for its latency is the start of the runnable stretch its thread
\* is still in, whatever was lost, late or reordered (applyTransition, recordEvent).
THEOREM PendingWakeupRunnable == Spec => []PendingWakeupIsRunnable
<1>1. Init => WakeupInv
  BY InitTimeline, InitPending DEF WakeupInv
<1>2. WakeupInv => PendingWakeupIsRunnable
  BY DEF WakeupInv
<1> QED
  BY <1>1, <1>2, WakeupStep, PTL DEF Spec

----------------------------------------------------------------------------
(* The counters in a row agree with each other *)

LEMMA NoRowConsistent == RowIsConsistent(NoRow)
BY DEF RowIsConsistent, NoRow

\* A segment leaves the counters alone.
LEMMA CreditRowConsistent ==
  ASSUME NEW row \in RowType, RowIsConsistent(row), NEW state, NEW delta
  PROVE  RowIsConsistent(CreditRow(row, state, delta))
<1> DEFINE observed == [row EXCEPT !.observed = row.observed + delta]
           new == [observed EXCEPT !.time = CreditState(row.time, state, delta)]
<1>1. /\ new.wakeups = row.wakeups /\ new.slices = row.slices /\ new.events = row.events
      /\ new.incomplete = row.incomplete
      /\ new.latency = row.latency /\ new.latencyMax = row.latencyMax
  BY DEF RowType
<1>2. CreditRow(row, state, delta) = new
  BY DEF CreditRow
<1> HIDE DEF new
<1> QED
  BY <1>1, <1>2 DEF RowIsConsistent

LEMMA ProductIsMonotone ==
  ASSUME NEW k \in Nat, NEW a \in Nat, NEW b \in Nat, a <= b
  PROVE  k * a <= k * b
BY Z3

\* One more latency is in the total at most as often as the largest.
LEMMA LatencyBound ==
  ASSUME NEW n \in Nat, NEW total \in Nat, NEW largest \in Nat, NEW one \in Nat,
         total <= n * largest, largest <= total
  PROVE  /\ later(largest, one) <= total + one
         /\ total + one <= (n + 1) * later(largest, one)
<1> DEFINE m == later(largest, one)
<1>1. m \in Nat /\ largest <= m /\ one <= m /\ (m = largest \/ m = one)
  BY DEF later
<1> HIDE DEF m
<1>2. n * largest <= n * m
  BY <1>1, ProductIsMonotone
<1>3. (n + 1) * m = n * m + m
  BY <1>1
<1>4. n * largest \in Nat /\ n * m \in Nat
  BY <1>1
<1>5. total + one <= (n + 1) * m
  BY <1>1, <1>2, <1>3, <1>4
<1>6. m <= total + one
  BY <1>1
<1> QED
  BY <1>5, <1>6 DEF m

LEMMA CountEventConsistent ==
  ASSUME NEW row \in RowType, RowIsConsistent(row), NEW track \in TrackType, NEW e \in EventType
  PROVE  RowIsConsistent(CountEvent(row, track, e))
<1> DEFINE new == CountEvent(row, track, e)
<1>1. /\ row.wakeups \in Nat /\ row.slices \in Nat /\ row.events \in Nat
      /\ row.incomplete \in Nat /\ row.latency \in Nat /\ row.latencyMax \in Nat
  BY DEF RowType
<1>2. /\ row.wakeups <= row.slices /\ row.slices + row.incomplete <= row.events
      /\ row.latencyMax <= row.latency /\ row.latency <= row.wakeups * row.latencyMax
  BY DEF RowIsConsistent
<1>3. CASE Measures(track, e)
  <2> DEFINE one == e.at - track.wakeupAt
  <2>1. one \in Nat /\ e.kind = "switch_in" /\ ~Breaks(track, e)
    BY <1>3 DEF Measures, Breaks, EventType, TrackType
  <2>2. /\ new.events = row.events + 1 /\ new.incomplete = row.incomplete + 0
        /\ new.slices = row.slices + 1 /\ new.wakeups = row.wakeups + 1
        /\ new.latency = row.latency + one /\ new.latencyMax = later(row.latencyMax, one)
    BY <1>3, <2>1 DEF CountEvent
  <2> HIDE DEF new, one
  <2>3. new.latencyMax <= new.latency /\ new.latency <= new.wakeups * new.latencyMax
    BY <1>1, <1>2, <2>1, <2>2, LatencyBound
  <2> QED
    BY <1>1, <1>2, <2>2, <2>3 DEF RowIsConsistent, new
<1>4. CASE ~Measures(track, e)
  <2>1. /\ new.events = row.events + 1 /\ new.wakeups = row.wakeups + 0
        /\ new.incomplete = row.incomplete + (IF Breaks(track, e) THEN 1 ELSE 0)
        /\ new.slices = row.slices + (IF e.kind = "switch_in" THEN 1 ELSE 0)
        /\ new.latency = row.latency + 0 /\ new.latencyMax = later(row.latencyMax, 0)
    BY <1>4 DEF CountEvent
  <2>2. later(row.latencyMax, 0) = row.latencyMax
    BY <1>1 DEF later
  <2>3. ~(Breaks(track, e) /\ e.kind = "switch_in")
    BY DEF Breaks
  <2>4. new.latency = row.latency /\ new.latencyMax = row.latencyMax /\ new.wakeups = row.wakeups
    BY <1>1, <2>1, <2>2
  <2> HIDE DEF new
  <2>5. new.wakeups <= new.slices /\ new.slices + new.incomplete <= new.events
    BY <1>1, <1>2, <2>1, <2>3, <2>4
  <2>6. new.latencyMax <= new.latency /\ new.latency <= new.wakeups * new.latencyMax
    BY <1>2, <2>4
  <2> QED
    BY <2>5, <2>6 DEF RowIsConsistent, new
<1> QED
  BY <1>3, <1>4

----------------------------------------------------------------------------
(* Windows *)

StatsAreConsistent(stats) == \A id \in DOMAIN stats : RowIsConsistent(stats[id])
WindowsAreConsistent(ws) == \A i \in DOMAIN ws : StatsAreConsistent(ws[i].stats)

LEMMA WindowOfConsistent ==
  ASSUME NEW ws, WindowsAreConsistent(ws), NEW i
  PROVE  StatsAreConsistent(WindowOf(ws, i).stats)
BY DEF WindowOf, NoWindow, WindowsAreConsistent, StatsAreConsistent

LEMMA RowOfConsistent ==
  ASSUME NEW w, StatsAreConsistent(w.stats), NEW id
  PROVE  RowIsConsistent(RowOf(w, id))
BY NoRowConsistent DEF RowOf, StatsAreConsistent

LEMMA WithWindowConsistent ==
  ASSUME NEW ws, WindowsAreConsistent(ws), NEW i, NEW w, StatsAreConsistent(w.stats)
  PROVE  WindowsAreConsistent(WithWindow(ws, i, w))
BY DEF WithWindow, WindowsAreConsistent

LEMMA RecordLateEventConsistent ==
  ASSUME NEW ws, IsWindows(ws), WindowsAreConsistent(ws)
  PROVE  WindowsAreConsistent(RecordLateEvent(ws))
<1> DEFINE w == WindowOf(ws, nextWindow)
           new == [w EXCEPT !.late = w.late + 1]
<1>1. IsWindow(w) /\ StatsAreConsistent(w.stats)
  BY WindowOfType, WindowOfConsistent
<1> HIDE DEF w
<1>2. new.stats = w.stats
  BY <1>1 DEF IsWindow
<1> HIDE DEF new
<1>3. WindowsAreConsistent(WithWindow(ws, nextWindow, new))
  BY <1>1, <1>2, WithWindowConsistent
<1> QED
  BY <1>3 DEF RecordLateEvent, new, w

LEMMA RecordInitializationRaceConsistent ==
  ASSUME NEW ws, IsWindows(ws), WindowsAreConsistent(ws), NEW at
  PROVE  WindowsAreConsistent(RecordInitializationRace(ws, at))
<1> DEFINE index == IF at >= origin THEN later(nextWindow, WindowIndex(at)) ELSE nextWindow
           w == WindowOf(ws, index)
           new == [w EXCEPT !.races = w.races + 1]
<1> HIDE DEF index
<1>1. IsWindow(w) /\ StatsAreConsistent(w.stats)
  BY WindowOfType, WindowOfConsistent
<1> HIDE DEF w
<1>2. new.stats = w.stats
  BY <1>1 DEF IsWindow
<1> HIDE DEF new
<1>3. WindowsAreConsistent(WithWindow(ws, index, new))
  BY <1>1, <1>2, WithWindowConsistent
<1> QED
  BY <1>3 DEF RecordInitializationRace, new, w, index

LEMMA AddSegmentsConsistent ==
  ASSUME NEW ws, IsWindows(ws), WindowsAreConsistent(ws), NEW ts, NEW tids, NEW to
  PROVE  WindowsAreConsistent(AddSegments(ws, ts, tids, to))
<1> DEFINE Touches(tid, i) == i \in TouchedWindows(ts[tid].since, to)
           Ids(i) == {Identity(tid, ts[tid]) : tid \in {t \in tids : Touches(t, i)}}
           w(i) == WindowOf(ws, i)
           Stats(i) == [id \in DOMAIN w(i).stats \cup Ids(i) |->
                          IF id \in Ids(i)
                          THEN CreditRow(RowOf(w(i), id), ts[id.tid].state,
                                         Overlap(i, ts[id.tid].since, to))
                          ELSE w(i).stats[id]]
           Credited(i) == [w(i) EXCEPT !.stats = Stats(i)]
           touched == UNION {TouchedWindows(ts[tid].since, to) : tid \in tids}
<1>1. AddSegments(ws, ts, tids, to) =
        [i \in DOMAIN ws \cup touched |-> IF i \in touched THEN Credited(i) ELSE ws[i]]
  BY DEF AddSegments
<1>2. ASSUME NEW i
      PROVE  StatsAreConsistent(Credited(i).stats)
  <2>1. IsWindow(w(i)) /\ StatsAreConsistent(w(i).stats)
    BY WindowOfType, WindowOfConsistent
  <2>2. \A id : RowOf(w(i), id) \in RowType /\ RowIsConsistent(RowOf(w(i), id))
    BY <2>1, RowOfType, RowOfConsistent
  <2>3. StatsAreConsistent(Stats(i))
    <3> HIDE DEF w, Ids
    <3> QED
      BY <2>1, <2>2, CreditRowConsistent DEF StatsAreConsistent
  <2> HIDE DEF Stats
  <2>4. Credited(i).stats = Stats(i)
    BY <2>1 DEF IsWindow
  <2> QED
    BY <2>3, <2>4
<1> HIDE DEF touched, Credited
<1> QED
  BY <1>1, <1>2 DEF WindowsAreConsistent

LEMMA RecordEventConsistent ==
  ASSUME NEW ws, IsWindows(ws), WindowsAreConsistent(ws),
         NEW track \in TrackType, NEW e \in EventType
  PROVE  WindowsAreConsistent(RecordEvent(ws, track, e))
<1> DEFINE index == WindowIndex(e.at)
           w == WindowOf(ws, index)
           id == Identity(e.tid, track)
           stats == [i \in DOMAIN w.stats \cup {id} |->
                       IF i = id THEN CountEvent(RowOf(w, id), track, e) ELSE w.stats[i]]
           broken == IF Breaks(track, e) THEN 1 ELSE 0
           new == [stats |-> stats, events |-> w.events + 1,
                   incomplete |-> w.incomplete + broken, late |-> w.late, races |-> w.races]
<1>1. IsWindow(w) /\ StatsAreConsistent(w.stats)
  BY WindowOfType, WindowOfConsistent
<1>2. RowIsConsistent(CountEvent(RowOf(w, id), track, e))
  BY <1>1, RowOfType, RowOfConsistent, CountEventConsistent
<1>3. StatsAreConsistent(stats)
  <2> HIDE DEF w, id
  <2> QED
    BY <1>1, <1>2 DEF StatsAreConsistent
<1>4. new.stats = stats
  OBVIOUS
<1>5. RecordEvent(ws, track, e) = WithWindow(ws, index, new)
  BY DEF RecordEvent
<1> HIDE DEF new, index, stats
<1> QED
  BY <1>3, <1>4, <1>5, WithWindowConsistent

----------------------------------------------------------------------------
(* Steps *)

RowsInv == TypeOK /\ RowsAreConsistent

LEMMA WindowsAfterLookupConsistent ==
  ASSUME RowsInv, NEW e
  PROVE  WindowsAreConsistent(WindowsAfterLookup(e))
<1>1. IsWindows(windows) /\ WindowsAreConsistent(windows)
  BY DEF RowsInv, TypeOK, RowsAreConsistent, WindowsAreConsistent, StatsAreConsistent
<1> QED
  BY <1>1, RecordInitializationRaceConsistent DEF WindowsAfterLookup

LEMMA ObserveConsistent ==
  ASSUME RowsInv, NEW e \in EventType, Observe(e)
  PROVE  RowsAreConsistent'
<1>1. IsWindows(windows) /\ WindowsAreConsistent(windows)
  BY DEF RowsInv, TypeOK, RowsAreConsistent, WindowsAreConsistent, StatsAreConsistent
<1>2. IsWindows(WindowsAfterLookup(e)) /\ WindowsAreConsistent(WindowsAfterLookup(e))
  BY WindowsAfterLookupType, WindowsAfterLookupConsistent DEF RowsInv
<1>3. WindowsAreConsistent(windows')
  <2>1. CASE ObserveBehindWatermark(e)
    BY <1>1, <2>1, RecordLateEventConsistent DEF ObserveBehindWatermark
  <2>2. CASE ObserveBeforeSeed(e)
    BY <1>2, <2>2 DEF ObserveBeforeSeed
  <2>3. CASE ObserveBeforeOrigin(e)
    BY <1>2, <2>3, RecordInitializationRaceConsistent DEF ObserveBeforeOrigin
  <2>4. CASE ObserveOutOfOrder(e)
    BY <1>2, <2>4, RecordLateEventConsistent DEF ObserveOutOfOrder
  <2>5. CASE ObserveInOrder(e)
    <3> DEFINE ws == AddSegments(WindowsAfterLookup(e), [tid \in {e.tid} |-> TrackOf(e)],
                                 {e.tid}, e.at)
    <3>1. IsWindows(ws) /\ TrackOf(e) \in TrackType
      BY SegmentType, TrackOfType DEF RowsInv
    <3>2. WindowsAreConsistent(ws)
      BY <1>2, AddSegmentsConsistent
    <3>3. windows' = RecordEvent(ws, TrackOf(e), e)
      BY <2>5 DEF ObserveInOrder
    <3> HIDE DEF ws
    <3> QED
      BY <3>1, <3>2, <3>3, RecordEventConsistent
  <2> QED
    BY <2>1, <2>2, <2>3, <2>4, <2>5 DEF Observe
<1>4. reports' = reports
  BY DEF Observe
<1> QED
  BY <1>3, <1>4
  DEF RowsInv, RowsAreConsistent, WindowsAreConsistent, StatsAreConsistent, RowIsConsistent

LEMMA AdvanceConsistent ==
  ASSUME RowsInv, NEW lost \in Nat, Advance(lost)
  PROVE  RowsAreConsistent'
<1> DEFINE credited == AddSegments(windows, tracks, Live, NextBoundary)
           report == ReportOf(ClosedWindow, lost)
<1>1. IsWindows(windows) /\ WindowsAreConsistent(windows)
  BY DEF RowsInv, TypeOK, RowsAreConsistent, WindowsAreConsistent, StatsAreConsistent
<1>2. WindowsAreConsistent(credited)
  BY <1>1, AddSegmentsConsistent
<1>3. StatsAreConsistent(report.threads)
  BY <1>2, WindowOfConsistent DEF ReportOf, ClosedWindow
<1>4. windows' = [i \in DOMAIN credited \ {nextWindow} |-> credited[i]]
      /\ reports' = WithWindow(reports, nextWindow, report)
  BY DEF Advance
<1> HIDE DEF credited, report
<1>5. \A i \in DOMAIN windows' : StatsAreConsistent(windows'[i].stats)
  BY <1>2, <1>4 DEF WindowsAreConsistent
<1>6. \A i \in DOMAIN reports : StatsAreConsistent(reports[i].threads)
  BY DEF RowsInv, RowsAreConsistent, StatsAreConsistent
<1>7. \A i \in DOMAIN reports' : StatsAreConsistent(reports'[i].threads)
  BY <1>3, <1>4, <1>6 DEF WithWindow
<1> QED
  BY <1>5, <1>7 DEF RowsAreConsistent, StatsAreConsistent, RowIsConsistent

LEMMA RowsStep == RowsInv /\ [Next]_vars => RowsInv'
<1> SUFFICES ASSUME RowsInv, [Next]_vars
             PROVE  RowsInv'
  OBVIOUS
<1>1. CASE \E e \in Events : Observe(e)
  BY <1>1, EventsAssumption, ObserveType, ObserveConsistent DEF RowsInv
<1>2. CASE \E lost \in Nat : Advance(lost)
  BY <1>2, AdvanceType, AdvanceConsistent DEF RowsInv
<1>3. CASE UNCHANGED vars
  BY <1>3 DEF vars, RowsInv, TypeOK, RowsAreConsistent, RowIsConsistent
<1> QED
  BY <1>1, <1>2, <1>3 DEF Next

LEMMA InitRows == Init => RowsInv
<1> SUFFICES ASSUME Init
             PROVE  RowsInv
  OBVIOUS
<1>1. DOMAIN windows = {} /\ DOMAIN reports = {}
  BY DEF Init, InitFrom
<1> QED
  BY <1>1, InitType DEF RowsInv, RowsAreConsistent

\* The counters of a row agree, in open windows and in reports, whatever was lost, late
\* or reordered: no latency without its time slice, and no maximum above the total
\* (recordEvent).
THEOREM RowsConsistent == Spec => []RowsAreConsistent
<1>1. RowsInv => RowsAreConsistent
  BY DEF RowsInv
<1> QED
  BY <1>1, InitRows, RowsStep, PTL DEF Spec
=============================================================================
