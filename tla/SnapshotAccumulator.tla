------------------------- MODULE SnapshotAccumulator -------------------------
(***************************************************************************)
(* The snapshot accumulator: collector/accumulator.go.                     *)
(*                                                                         *)
(* It turns the snapshots of the proc, taskstats and hybrid backends into  *)
(* one report per interval.  Between two samples of a thread there is a gap:   *)
(* its time and the increase of the thread's counters are divided among    *)
(* the windows the gap crosses.  A window is reported when all the threads *)
(* have been sampled after its end.                                        *)
(*                                                                         *)
(* Time is a natural number, NoTime the zero time.Time.  Of the quality    *)
(* fields a window keeps the number of its scans and its longest gap.      *)
(***************************************************************************)
EXTENDS Integers, FiniteSets, FiniteSetsExt, Functions

CONSTANTS
  Interval,     \* the reporting interval
  Origins,      \* the origins given to NewAccumulatorAt; NoTime stands for NewAccumulator
  Counters,     \* the counters of schedstat
  Snapshots     \* the snapshots a backend may return

NoTime == 0

ThreadStates == {"running", "sleeping", "uninterruptible", "stopped",
  "tracing_stop", "idle", "dead", "zombie", "unknown"}

IdentityType == [tid : Int, ticks : Nat]

\* A sample has its counters or, when they could not be read, none: schedstat has them
\* all or not, of the delay counters the kernel's version has some.
IsSample(s) ==
  /\ s.state \in ThreadStates /\ s.at \in Nat \ {NoTime}
  /\ s.schedstat \in [Counters -> Nat] \/ DOMAIN s.schedstat = {}
  /\ s.delays \in [DOMAIN s.delays -> [count : Nat, total : Nat]] /\ IsFiniteSet(DOMAIN s.delays)

\* The scans of proc and of taskstats read a TID once.  The hybrid backend merges two
\* scans: when a TID was reused between them, its snapshot has samples of both threads.
IsSnapshot(s) ==
  /\ s.started \in Nat /\ s.finished \in Nat /\ s.started <= s.finished
  /\ DOMAIN s.samples \subseteq IdentityType /\ IsFiniteSet(DOMAIN s.samples)
  /\ \A id \in DOMAIN s.samples :
       /\ IsSample(s.samples[id])
       /\ s.started <= s.samples[id].at /\ s.samples[id].at <= s.finished

ASSUME IntervalAssumption == Interval \in Nat \ {0}
ASSUME OriginsAssumption == Origins \subseteq Nat
ASSUME SnapshotsAssumption == \A s \in Snapshots : IsSnapshot(s)

VARIABLES
  initialized,  \* a.initialized
  origin,       \* a.origin
  previous,     \* a.previous: from identities to their last samples
  windows,      \* a.windows: from indices to open windows
  nextWindow,   \* a.nextWindow
  reports,      \* the reports returned so far, from window indices to windows
  finished,     \* when the last scan ended
  since,        \* per identity, the first of its samples without one missing
  counted       \* per identity, the increases of its counters that gaps have shown

ghosts == <<finished, since, counted>>
vars == <<initialized, origin, previous, windows, nextWindow, reports, ghosts>>

----------------------------------------------------------------------------
(* Windows of time *)

earlier(left, right) == IF right < left THEN right ELSE left
later(left, right) == IF right > left THEN right ELSE left

WindowStart(index) == origin + index * Interval
WindowEnd(index) == origin + (index + 1) * Interval
WindowIndex(at) == IF at > origin THEN (at - origin) \div Interval ELSE 0

\* overlapDuration, of a window and the time [from, to)
Overlap(index, from, to) ==
  LET start == later(from, WindowStart(index))
      end == earlier(to, WindowEnd(index))
  IN IF end > start THEN end - start ELSE 0

\* The windows forEachWindow visits.
TouchedWindowsBug(from, to) == \* the window in which the time starts forgotten
  {i \in nextWindow .. WindowIndex(to) : Overlap(i, from, to) > 0 /\ WindowStart(i) >= from}
TouchedWindows(from, to) ==
  {i \in nextWindow .. WindowIndex(to) : Overlap(i, from, to) > 0}

----------------------------------------------------------------------------
(* Gaps *)

\* What is known of the time between two samples of a thread, or between its last
\* sample and the start of the first scan that does not find it.
NoDeltas == << >>

IsReset(before, after) == \E c \in Counters : after[c] < before[c]

\* observeSchedstat: one counter that runs backwards invalidates them all.
SchedstatDeltaBug(before, after) == \* a reset not noticed
  IF DOMAIN before = {} \/ DOMAIN after = {} THEN NoDeltas
  ELSE [c \in Counters |-> after[c] - before[c]]
SchedstatDelta(before, after) ==
  IF DOMAIN before = {} \/ DOMAIN after = {} \/ IsReset(before, after) THEN NoDeltas
  ELSE [c \in Counters |-> after[c] - before[c]]

SchedstatReset(before, after) ==
  DOMAIN before # {} /\ DOMAIN after # {} /\ IsReset(before, after)

\* calculateDelayCounterDelta: each delay counter is valid or reset on its own.
ResetDelays(before, after) ==
  {k \in DOMAIN before \cap DOMAIN after :
     after[k].count < before[k].count \/ after[k].total < before[k].total}

DelayDelta(before, after) ==
  [k \in (DOMAIN before \cap DOMAIN after) \ ResetDelays(before, after) |->
     [count |-> after[k].count - before[k].count, total |-> after[k].total - before[k].total]]

\* observeGap
SampledGap(before, after) ==
  [start |-> before.at, end |-> after.at, left |-> before.state, right |-> after.state,
   changed |-> before.state # after.state, sampled |-> TRUE,
   schedstat |-> SchedstatDelta(before.schedstat, after.schedstat),
   reset |-> SchedstatReset(before.schedstat, after.schedstat),
   delays |-> DelayDelta(before.delays, after.delays),
   resets |-> Cardinality(ResetDelays(before.delays, after.delays))]

\* observeDisappearance
LastGap(before, end) ==
  [start |-> before.at, end |-> end, left |-> before.state, right |-> "unknown",
   changed |-> TRUE, sampled |-> FALSE, schedstat |-> NoDeltas, reset |-> FALSE,
   delays |-> << >>, resets |-> 0]

\* Where the time of a thread ends in a snapshot: at its sample, or where the scan that
\* does not find it starts.
GapEndBug(id, snapshot) == \* at the end of that scan
  IF id \in DOMAIN snapshot.samples THEN snapshot.samples[id].at ELSE snapshot.finished
GapEnd(id, snapshot) ==
  IF id \in DOMAIN snapshot.samples THEN snapshot.samples[id].at ELSE snapshot.started

GapOf(id, snapshot) ==
  IF id \in DOMAIN snapshot.samples THEN SampledGap(previous[id], snapshot.samples[id])
  ELSE LastGap(previous[id], GapEnd(id, snapshot))

\* midpointTime
Midpoint(gap) == gap.start + (gap.end - gap.start) \div 2

----------------------------------------------------------------------------
(* Rows and windows of statistics *)

NoRow == [samples |-> 0, observed |-> 0, time |-> [s \in ThreadStates |-> 0],
          gap |-> 0, transitions |-> 0, uncertainty |-> 0,
          schedstat |-> [c \in Counters |-> 0], pairs |-> 0, resets |-> 0,
          delays |-> << >>, delayPairs |-> 0, delayResets |-> 0]
NoWindow == [stats |-> << >>, scans |-> 0, gap |-> 0]

\* The lookups of Go's maps: an absent key reads as an empty entry.
RowOf(window, id) == IF id \in DOMAIN window.stats THEN window.stats[id] ELSE NoRow
WindowOf(index) == IF index \in DOMAIN windows THEN windows[index] ELSE NoWindow

\* multiplyDivide, at the two ends of the part of the gap in a window.  The products
\* have 128 bits.
ShareBug(value, gap, index) == \* each share rounded on its own
  (value * Overlap(index, gap.start, gap.end)) \div (gap.end - gap.start)
Share(value, gap, index) ==
  LET Upto(at) == (value * (at - gap.start)) \div (gap.end - gap.start) IN
  Upto(earlier(gap.end, WindowEnd(index))) - Upto(later(gap.start, WindowStart(index)))

DelayOf(delays, k) == IF k \in DOMAIN delays THEN delays[k] ELSE [count |-> 0, total |-> 0]

\* recordGap, addSegment, recordTransition, addSchedstatDelta, recordSchedstatReset
\* and addDelayDelta, in the row of the thread in one window
CreditGap(row, gap, index) ==
  LET middle == Midpoint(gap)
      left == Overlap(index, gap.start, middle)
      right == Overlap(index, middle, gap.end)
  IN [samples |-> row.samples,
      observed |-> row.observed + left + right,
      time |-> [s \in ThreadStates |->
                  row.time[s] + (IF s = gap.left THEN left ELSE 0)
                              + (IF s = gap.right THEN right ELSE 0)],
      gap |-> later(row.gap, gap.end - gap.start),
      transitions |-> row.transitions + (IF gap.changed THEN 1 ELSE 0),
      uncertainty |-> row.uncertainty + (IF gap.changed THEN later(left, right) ELSE 0),
      schedstat |-> IF gap.schedstat = NoDeltas THEN row.schedstat
                    ELSE [c \in Counters |->
                            row.schedstat[c] + Share(gap.schedstat[c], gap, index)],
      pairs |-> row.pairs + (IF gap.schedstat = NoDeltas THEN 0 ELSE 1),
      resets |-> row.resets + (IF gap.reset THEN 1 ELSE 0),
      delays |-> [k \in DOMAIN row.delays \cup DOMAIN gap.delays |->
                    IF k \notin DOMAIN gap.delays THEN row.delays[k]
                    ELSE [count |-> DelayOf(row.delays, k).count
                                      + Share(gap.delays[k].count, gap, index),
                          total |-> DelayOf(row.delays, k).total
                                      + Share(gap.delays[k].total, gap, index)]],
      delayPairs |-> row.delayPairs + (IF gap.delays = << >> THEN 0 ELSE 1),
      delayResets |-> row.delayResets + gap.resets]

----------------------------------------------------------------------------
(* Snapshots *)

\* scanWindowIndices
ScannedWindows(snapshot) ==
  LET touched == TouchedWindows(snapshot.started, snapshot.finished) IN
  CASE snapshot.finished <= origin -> {0}
    [] snapshot.finished > origin /\ touched # {} -> touched
    [] OTHER -> {WindowIndex(snapshot.finished)}

SampledIn(id, snapshot, index) ==
  id \in DOMAIN snapshot.samples /\ WindowIndex(snapshot.samples[id].at) = index

GapTouches(id, snapshot, index) ==
  index \in TouchedWindows(previous[id].at, GapEnd(id, snapshot))

\* A window with what the snapshot adds to it.
Credited(index, snapshot) ==
  LET window == WindowOf(index)
      gapped == {id \in DOMAIN previous : GapTouches(id, snapshot, index)}
      sampled == {id \in DOMAIN snapshot.samples : SampledIn(id, snapshot, index)}
      Counted(id) == LET row == RowOf(window, id) IN
        IF id \in sampled THEN [row EXCEPT !.samples = @ + 1] ELSE row
      Row(id) == IF id \in gapped THEN CreditGap(Counted(id), GapOf(id, snapshot), index)
                 ELSE Counted(id)
      gaps == {GapEnd(id, snapshot) - previous[id].at : id \in gapped}
  IN [stats |-> [id \in DOMAIN window.stats \cup gapped \cup sampled |-> Row(id)],
      scans |-> window.scans + (IF index \in ScannedWindows(snapshot) THEN 1 ELSE 0),
      gap |-> Max({window.gap} \cup gaps)]

\* The windows the snapshot adds something to; those reported are left alone.
Affected(snapshot) ==
  {i \in nextWindow .. WindowIndex(snapshot.finished) :
     \/ i \in ScannedWindows(snapshot)
     \/ \E id \in DOMAIN snapshot.samples : SampledIn(id, snapshot, i)
     \/ \E id \in DOMAIN previous : GapTouches(id, snapshot, i)}

\* How far all the threads have been observed.
EndsBug(snapshot) == \* a thread that is new is not waited for
  {snapshot.finished} \cup {GapEnd(id, snapshot) : id \in DOMAIN previous}
Ends(snapshot) ==
  {snapshot.finished} \cup {GapEnd(id, snapshot) : id \in DOMAIN previous}
    \cup {snapshot.samples[id].at : id \in DOMAIN snapshot.samples \ DOMAIN previous}
Watermark(snapshot) == Min(Ends(snapshot))

\* finalizeThrough: the windows that end at or before the watermark
WindowsThrough(watermark) ==
  IF watermark < origin THEN nextWindow
  ELSE later(nextWindow, (watermark - origin) \div Interval)

\* The increase of a counter in a gap, less the part before the origin.
Increase(value, gap) ==
  IF gap.end <= origin THEN 0
  ELSE value - (value * (later(gap.start, origin) - gap.start)) \div (gap.end - gap.start)

CountedBefore(id) == IF id \in DOMAIN counted THEN counted[id] ELSE [c \in Counters |-> 0]

CountedAfter(id, snapshot) ==
  LET gap == GapOf(id, snapshot) IN
  IF id \in DOMAIN previous /\ gap.end > gap.start /\ gap.schedstat # NoDeltas
  THEN [c \in Counters |-> CountedBefore(id)[c] + Increase(gap.schedstat[c], gap)]
  ELSE CountedBefore(id)

Remember(snapshot) ==
  /\ previous' = snapshot.samples
  /\ finished' = snapshot.finished
  /\ since' = [id \in DOMAIN snapshot.samples |->
                 IF id \in DOMAIN previous THEN since[id] ELSE snapshot.samples[id].at]
  /\ counted' = [id \in DOMAIN previous \cup DOMAIN counted |-> CountedAfter(id, snapshot)]

\* The first snapshot is the baseline: there is no gap yet, and its samples are counted
\* in the first window.
ObserveFirst(snapshot) ==
  /\ ~initialized /\ initialized' = TRUE
  /\ origin' = IF origin = NoTime THEN snapshot.finished ELSE origin
  /\ UNCHANGED <<nextWindow, reports>>
  /\ LET scanned == ScannedWindows(snapshot)'
         ids == DOMAIN snapshot.samples
     IN windows' = [i \in scanned \cup (IF ids = {} THEN {} ELSE {0}) |->
          [stats |-> [id \in IF i = 0 THEN ids ELSE {} |-> [NoRow EXCEPT !.samples = 1]],
           scans |-> IF i \in scanned THEN 1 ELSE 0, gap |-> 0]]

ObserveNext(snapshot) ==
  LET credited == [i \in DOMAIN windows \cup Affected(snapshot) |->
        IF i \in Affected(snapshot) THEN Credited(i, snapshot) ELSE windows[i]]
      next == WindowsThrough(Watermark(snapshot))
  IN
  /\ initialized
  /\ reports' = [i \in 0 .. next - 1 |->
       IF i < nextWindow THEN reports[i]
       ELSE IF i \in DOMAIN credited THEN credited[i] ELSE NoWindow]
  /\ windows' = [i \in {j \in DOMAIN credited : j >= next} |-> credited[i]]
  /\ nextWindow' = next
  /\ UNCHANGED <<initialized, origin>>

Observe(snapshot) ==
  /\ ObserveFirst(snapshot) \/ ObserveNext(snapshot)
  /\ Remember(snapshot)

Init ==
  /\ initialized = FALSE /\ origin \in Origins /\ previous = << >>
  /\ windows = << >> /\ nextWindow = 0 /\ reports = << >>
  /\ finished = NoTime /\ since = << >> /\ counted = << >>

\* The scans of a run follow one another.
Next == \E snapshot \in Snapshots : snapshot.started >= finished /\ Observe(snapshot)

Spec == Init /\ [][Next]_vars

----------------------------------------------------------------------------
(* Properties *)

IsRow(row) ==
  /\ row.delays \in [DOMAIN row.delays -> [count : Nat, total : Nat]]
  /\ row \in [samples : Nat, observed : Nat, time : [ThreadStates -> Nat], gap : Nat,
              transitions : Nat, uncertainty : Nat, schedstat : [Counters -> Nat],
              pairs : Nat, resets : Nat, delays : {row.delays}, delayPairs : Nat,
              delayResets : Nat]

IsWindow(w) ==
  /\ DOMAIN w.stats \subseteq IdentityType
  /\ \A id \in DOMAIN w.stats : IsRow(w.stats[id])
  /\ w \in [stats : {w.stats}, scans : Nat, gap : Nat]

\* The state has the types of the Go structures; the windows before nextWindow are
\* reported and the others open.
TypeOK ==
  /\ initialized \in BOOLEAN /\ origin \in Nat /\ nextWindow \in Nat /\ finished \in Nat
  /\ DOMAIN previous \subseteq IdentityType
  /\ \A id \in DOMAIN previous : IsSample(previous[id])
  /\ DOMAIN windows \subseteq Nat /\ \A i \in DOMAIN windows : i >= nextWindow /\ IsWindow(windows[i])
  /\ DOMAIN reports = 0 .. nextWindow - 1 /\ \A i \in DOMAIN reports : IsWindow(reports[i])
  /\ since \in [DOMAIN previous -> Nat]
  /\ counted \in [DOMAIN counted -> [Counters -> Nat]]

\* The report of a window has the whole interval of every thread that was sampled
\* before the window started and has been found by every scan since: a window is not
\* closed before all of its time is in it (Observe, finalizeThrough).
ReportsCoverThreads ==
  \A i \in DOMAIN reports : \A id \in DOMAIN previous :
    since[id] <= WindowStart(i) =>
      id \in DOMAIN reports[i].stats /\ reports[i].stats[id].observed = Interval

RowsOfOneTid(stats, tid) == {id \in DOMAIN stats : id.tid = tid}

\* The rows of a TID in one report are of different threads, and no time is in two of
\* them, also when a TID is reused between two scans (observeGap, observeDisappearance).
\* The scans must read a TID once: with merged scans it does not hold.
RowsOfOneTidAreDisjoint ==
  \A i \in DOMAIN reports : \A tid \in {id.tid : id \in DOMAIN reports[i].stats} :
    SumFunction([id \in RowsOfOneTid(reports[i].stats, tid) |-> reports[i].stats[id].observed])
      <= Interval

Total(ws, id, c) == SumFunction([i \in DOMAIN ws |-> RowOf(ws[i], id).schedstat[c]])

\* The rows of a thread have all the increase of its counters and no more, however the
\* gaps cross the windows: nothing is lost to rounding or to a window that was reported
\* already (README.md:395; addSchedstatDelta, forEachWindow).
CountersAreConserved ==
  \A id \in DOMAIN counted : \A c \in Counters :
    Total(windows, id, c) + Total(reports, id, c) = counted[id][c]
=============================================================================
