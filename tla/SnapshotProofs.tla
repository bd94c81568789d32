---------------------------- MODULE SnapshotProofs ----------------------------
(***************************************************************************)
(* Proofs about the snapshot accumulator, for every interval, origin and   *)
(* set of snapshots: its types, that the report of a window has all the    *)
(* time of the threads that were sampled before it and found ever since,   *)
(* that no time of a TID is in two rows, and that the rows of a thread add *)
(* up to the increase of its counters.                                     *)
(***************************************************************************)
EXTENDS SnapshotAccumulator, SumProofs

----------------------------------------------------------------------------
(* The first of a set of instants *)

LEMMA MinIsLeast ==
  ASSUME NEW S \in SUBSET Nat, S # {}
  PROVE  Min(S) \in S /\ \A y \in S : Min(S) <= y
BY LeastExists DEF Min

----------------------------------------------------------------------------
(* Windows *)

LEMMA WindowBounds ==
  ASSUME origin \in Nat, NEW i \in Nat
  PROVE  /\ WindowStart(i) \in Nat /\ WindowEnd(i) \in Nat
         /\ WindowEnd(i) = WindowStart(i) + Interval
<1>1. i * Interval \in Nat /\ (i + 1) * Interval = i * Interval + Interval
  BY IntervalAssumption
<1> QED
  BY <1>1, IntervalAssumption DEF WindowStart, WindowEnd

LEMMA WindowOrder ==
  ASSUME origin \in Nat, NEW i \in Nat, NEW j \in Nat, i < j
  PROVE  WindowEnd(i) <= WindowStart(j)
<1>1. (i + 1) * Interval <= j * Interval
  BY IntervalAssumption
<1> QED
  BY <1>1, IntervalAssumption DEF WindowStart, WindowEnd

LEMMA DivisionBounds ==
  ASSUME NEW d \in Nat
  PROVE  LET q == d \div Interval
         IN q \in Nat /\ q * Interval <= d /\ d < (q + 1) * Interval
BY IntervalAssumption, Z3

\* A window that time up to an instant touches is not behind the window of the instant.
LEMMA TouchedIsReached ==
  ASSUME origin \in Nat, NEW i \in Nat, NEW from \in Nat, NEW to \in Nat, NEW now \in Nat,
         to <= now, Overlap(i, from, to) > 0
  PROVE  i <= WindowIndex(now)
<1>1. WindowStart(i) \in Nat /\ WindowEnd(i) \in Nat /\ WindowStart(i) < now
  BY WindowBounds DEF Overlap, later, earlier
<1>2. i * Interval \in Nat /\ now > origin /\ now - origin \in Nat
  BY <1>1, IntervalAssumption DEF WindowStart
<1> DEFINE q == (now - origin) \div Interval
<1>3. q \in Nat /\ now - origin < (q + 1) * Interval
  BY <1>2, DivisionBounds
<1> HIDE DEF q
<1>4. now < WindowEnd(q)
  BY <1>2, <1>3, IntervalAssumption DEF WindowEnd
<1>5. ~(q < i)
  BY <1>1, <1>3, <1>4, WindowOrder, WindowBounds
<1> QED  BY <1>2, <1>3, <1>5 DEF WindowIndex, q

\* A window that is reported ends at the watermark or before.
LEMMA ReportedIsOver ==
  ASSUME origin \in Nat, nextWindow \in Nat, NEW w \in Nat
  PROVE  /\ WindowsThrough(w) \in Nat /\ WindowsThrough(w) >= nextWindow
         /\ \A i \in Nat : nextWindow <= i /\ i < WindowsThrough(w) => WindowEnd(i) <= w
<1>1. CASE w < origin
  BY <1>1 DEF WindowsThrough
<1>2. CASE ~(w < origin)
  <2> DEFINE q == (w - origin) \div Interval
  <2>1. q \in Nat /\ q * Interval <= w - origin
    BY <1>2, DivisionBounds
  <2>2. WindowsThrough(w) = later(nextWindow, q)
    BY <1>2 DEF WindowsThrough
  <2> HIDE DEF q
  <2>3. ASSUME NEW i \in Nat, i < q  PROVE  WindowEnd(i) <= w
    <3>1. (i + 1) * Interval <= q * Interval
      BY <2>1, <2>3, IntervalAssumption
    <3>2. (i + 1) * Interval \in Nat /\ q * Interval \in Nat
      BY <2>1, IntervalAssumption
    <3> QED  BY <3>1, <3>2, <2>1, <1>2 DEF WindowEnd
  <2> QED  BY <2>1, <2>2, <2>3 DEF later
<1> QED  BY <1>1, <1>2

LEMMA OverlapAdds ==
  ASSUME origin \in Nat, NEW i \in Nat, NEW a \in Nat, NEW m \in Nat, NEW b \in Nat,
         a <= m, m <= b
  PROVE  Overlap(i, a, b) = Overlap(i, a, m) + Overlap(i, m, b)
<1>1. /\ WindowStart(i) \in Nat /\ WindowEnd(i) \in Nat
      /\ WindowStart(i) <= WindowEnd(i)
  BY WindowBounds, IntervalAssumption
<1> QED
  BY <1>1 DEF Overlap, later, earlier

LEMMA OverlapType ==
  ASSUME origin \in Nat, NEW i \in Nat, NEW a \in Nat, NEW b \in Nat
  PROVE  Overlap(i, a, b) \in Nat
BY WindowBounds DEF Overlap, later, earlier

LEMMA OverlapEmpty ==
  ASSUME origin \in Nat, NEW i \in Nat, NEW a \in Nat, NEW b \in Nat,
         b <= a \/ b <= WindowStart(i)
  PROVE  Overlap(i, a, b) = 0
BY WindowBounds DEF Overlap, later, earlier

LEMMA OverlapFull ==
  ASSUME origin \in Nat, NEW i \in Nat, NEW a \in Nat, NEW b \in Nat,
         a <= WindowStart(i), WindowEnd(i) <= b
  PROVE  Overlap(i, a, b) = Interval
<1>1. /\ WindowStart(i) \in Nat /\ WindowEnd(i) \in Nat
      /\ WindowEnd(i) = WindowStart(i) + Interval /\ Interval \in Nat /\ Interval > 0
  BY WindowBounds, IntervalAssumption
<1> QED
  BY <1>1 DEF Overlap, later, earlier

----------------------------------------------------------------------------
(* What the snapshots add to a window *)

IsCounted(row) == "observed" \in DOMAIN row /\ row.observed \in Nat

\* Samples are between the scans: a thread was last seen before the last scan ended.
TimeInv ==
  /\ initialized \in BOOLEAN /\ origin \in Nat /\ nextWindow \in Nat /\ finished \in Nat
  /\ ~initialized => nextWindow = 0 /\ DOMAIN previous = {}
  /\ DOMAIN windows \subseteq Nat
  /\ \A i \in DOMAIN windows : \A id \in DOMAIN windows[i].stats :
       IsCounted(windows[i].stats[id])
  /\ DOMAIN reports = 0 .. nextWindow - 1
  /\ \A i \in DOMAIN reports : WindowEnd(i) <= finished
  /\ \A id \in DOMAIN previous :
       /\ previous[id].at \in Nat /\ since[id] \in Nat
       /\ since[id] <= previous[id].at /\ previous[id].at <= finished

\* Of a snapshot, its times are what counts here.
IsTimed(s) ==
  /\ s.started \in Nat /\ s.finished \in Nat /\ s.started <= s.finished
  /\ DOMAIN s.samples \subseteq IdentityType
  /\ \A id \in DOMAIN s.samples :
       /\ s.samples[id].at \in Nat
       /\ s.started <= s.samples[id].at /\ s.samples[id].at <= s.finished

Observed(window, id) == RowOf(window, id).observed

\* What a gap adds to the time of a thread in a window.
Gain(i, id, snapshot) ==
  IF id \in DOMAIN previous THEN Overlap(i, previous[id].at, GapEnd(id, snapshot)) ELSE 0

\* The window after the snapshot, whether it will be reported or not.
After(i, snapshot) ==
  IF i \in Affected(snapshot) THEN Credited(i, snapshot) ELSE WindowOf(i)

LEMMA SnapshotType ==
  ASSUME TimeInv, NEW snapshot, IsTimed(snapshot), snapshot.started >= finished
  PROVE  /\ snapshot.started \in Nat /\ snapshot.finished \in Nat
         /\ finished <= snapshot.started /\ snapshot.started <= snapshot.finished
         /\ \A id \in DOMAIN snapshot.samples :
              /\ snapshot.samples[id].at \in Nat
              /\ snapshot.started <= snapshot.samples[id].at
              /\ snapshot.samples[id].at <= snapshot.finished
         /\ \A id \in DOMAIN previous :
              /\ GapEnd(id, snapshot) \in Nat /\ previous[id].at <= GapEnd(id, snapshot)
              /\ GapEnd(id, snapshot) <= snapshot.finished
<1>1. /\ snapshot.started \in Nat /\ snapshot.finished \in Nat
      /\ finished <= snapshot.started /\ snapshot.started <= snapshot.finished
  BY DEF IsTimed, TimeInv
<1>2. \A id \in DOMAIN snapshot.samples :
        /\ snapshot.samples[id].at \in Nat
        /\ snapshot.started <= snapshot.samples[id].at
        /\ snapshot.samples[id].at <= snapshot.finished
  BY DEF IsTimed
<1> QED  BY <1>1, <1>2 DEF GapEnd, TimeInv

LEMMA RowOfType ==
  ASSUME TimeInv, NEW i, NEW id
  PROVE  IsCounted(RowOf(WindowOf(i), id))
<1>1. IsCounted(NoRow)
  BY DEF IsCounted, NoRow
<1>2. CASE i \in DOMAIN windows /\ id \in DOMAIN windows[i].stats
  BY <1>2 DEF RowOf, WindowOf, TimeInv
<1>3. CASE i \in DOMAIN windows /\ id \notin DOMAIN windows[i].stats
  BY <1>1, <1>3 DEF RowOf, WindowOf
<1>4. CASE i \notin DOMAIN windows
  BY <1>1, <1>4 DEF RowOf, WindowOf, NoWindow
<1> QED  BY <1>2, <1>3, <1>4

\* The two halves of a gap are the whole of it.
LEMMA CreditGapObserved ==
  ASSUME TimeInv, NEW i \in Nat, NEW row, IsCounted(row),
         NEW gap, gap.start \in Nat, gap.end \in Nat, gap.start <= gap.end
  PROVE  /\ IsCounted(CreditGap(row, gap, i))
         /\ CreditGap(row, gap, i).observed = row.observed + Overlap(i, gap.start, gap.end)
<1> DEFINE middle == Midpoint(gap)
<1>1. middle \in Nat /\ gap.start <= middle /\ middle <= gap.end
  BY DEF Midpoint
<1> HIDE DEF middle
<1> DEFINE credited == CreditGap(row, gap, i)
<1>2. credited.observed = row.observed + Overlap(i, gap.start, middle) + Overlap(i, middle, gap.end)
  BY DEF CreditGap, middle
<1>3. /\ Overlap(i, gap.start, middle) \in Nat /\ Overlap(i, middle, gap.end) \in Nat
      /\ Overlap(i, gap.start, gap.end) =
           Overlap(i, gap.start, middle) + Overlap(i, middle, gap.end)
  <2>1. origin \in Nat
    BY DEF TimeInv
  <2>2. Overlap(i, gap.start, middle) \in Nat /\ Overlap(i, middle, gap.end) \in Nat
    BY <1>1, <2>1, OverlapType
  <2> QED  BY <1>1, <2>1, <2>2, OverlapAdds
<1>4. "observed" \in DOMAIN credited
  BY DEF CreditGap
<1> HIDE DEF credited
<1>5. credited.observed = row.observed + Overlap(i, gap.start, gap.end)
      /\ credited.observed \in Nat
  BY <1>2, <1>3 DEF IsCounted
<1> QED  BY <1>4, <1>5 DEF IsCounted, credited

LEMMA AfterObserved ==
  ASSUME TimeInv, NEW snapshot, IsTimed(snapshot), snapshot.started >= finished,
         NEW i \in Nat, i >= nextWindow, NEW id
  PROVE  /\ IsCounted(RowOf(After(i, snapshot), id))
         /\ Observed(After(i, snapshot), id) =
              Observed(WindowOf(i), id) + Gain(i, id, snapshot)
<1> DEFINE window == WindowOf(i)
           gapped == {x \in DOMAIN previous : GapTouches(x, snapshot, i)}
           sampled == {x \in DOMAIN snapshot.samples : SampledIn(x, snapshot, i)}
           Counted == IF id \in sampled THEN [RowOf(window, id) EXCEPT !.samples = @ + 1]
                      ELSE RowOf(window, id)
           Row == IF id \in gapped THEN CreditGap(Counted, GapOf(id, snapshot), i) ELSE Counted
<1>1. IsCounted(RowOf(window, id)) /\ IsCounted(NoRow) /\ NoRow.observed = 0
  BY RowOfType DEF IsCounted, NoRow
<1>2. \A x \in DOMAIN previous :
        /\ previous[x].at \in Nat /\ GapEnd(x, snapshot) \in Nat
        /\ previous[x].at <= GapEnd(x, snapshot) /\ GapEnd(x, snapshot) <= snapshot.finished
        /\ snapshot.finished \in Nat
  BY SnapshotType DEF TimeInv
<1>3. ASSUME NEW x \in DOMAIN previous, Overlap(i, previous[x].at, GapEnd(x, snapshot)) # 0
      PROVE  x \in gapped /\ i \in Affected(snapshot)
  <2>1. Overlap(i, previous[x].at, GapEnd(x, snapshot)) > 0
    <3>1. origin \in Nat
      BY DEF TimeInv
    <3>2. previous[x].at \in Nat /\ GapEnd(x, snapshot) \in Nat
      BY <1>2
    <3>3. Overlap(i, previous[x].at, GapEnd(x, snapshot)) \in Nat
      BY <3>1, <3>2, OverlapType
    <3> QED  BY <3>3, <1>3
  <2>2. i <= WindowIndex(GapEnd(x, snapshot)) /\ i <= WindowIndex(snapshot.finished)
    BY <1>2, <2>1, TouchedIsReached DEF TimeInv
  <2>3. x \in gapped
    BY <2>1, <2>2 DEF GapTouches, TouchedWindows
  <2> QED  BY <2>2, <2>3 DEF Affected
<1>4. id \notin gapped => Gain(i, id, snapshot) = 0
  BY <1>3 DEF Gain
<1>5. IsCounted(Counted) /\ Counted.observed = Observed(window, id)
  BY <1>1 DEF IsCounted, Observed
<1> HIDE DEF Counted
<1>6. IsCounted(Row) /\ Row.observed = Observed(window, id) + Gain(i, id, snapshot)
  <2>1. CASE id \in gapped
    <3>1. GapOf(id, snapshot).start = previous[id].at
          /\ GapOf(id, snapshot).end = GapEnd(id, snapshot)
      BY <2>1 DEF GapOf, GapEnd, SampledGap, LastGap
    <3>2. previous[id].at \in Nat /\ GapEnd(id, snapshot) \in Nat
          /\ previous[id].at <= GapEnd(id, snapshot)
      BY <2>1, <1>2
    <3> DEFINE gap == GapOf(id, snapshot)
    <3>3. /\ IsCounted(CreditGap(Counted, gap, i))
          /\ CreditGap(Counted, gap, i).observed =
               Counted.observed + Overlap(i, gap.start, gap.end)
      BY <3>1, <3>2, <1>5, CreditGapObserved
    <3>4. Row = CreditGap(Counted, gap, i)
      BY <2>1
    <3>5. Gain(i, id, snapshot) = Overlap(i, gap.start, gap.end)
      BY <2>1, <3>1 DEF Gain
    <3> HIDE DEF gap, Row
    <3> QED  BY <3>3, <3>4, <3>5, <1>5
  <2>2. CASE id \notin gapped
    <3>1. Row = Counted
      BY <2>2
    <3> QED  BY <2>2, <3>1, <1>4, <1>5 DEF IsCounted
  <2> QED  BY <2>1, <2>2
<1>7. CASE i \in Affected(snapshot)
  <2>1. After(i, snapshot) = Credited(i, snapshot)
    BY <1>7 DEF After
  <2>2. CASE id \in DOMAIN window.stats \cup gapped \cup sampled
    <3>1. RowOf(Credited(i, snapshot), id) = Row
      BY <2>2 DEF Credited, RowOf, Counted
    <3> QED  BY <2>1, <3>1, <1>6 DEF Observed
  <2>3. CASE id \notin DOMAIN window.stats \cup gapped \cup sampled
    <3>1. RowOf(Credited(i, snapshot), id) = NoRow /\ RowOf(window, id) = NoRow
      BY <2>3 DEF Credited, RowOf
    <3> QED  BY <2>1, <2>3, <3>1, <1>1, <1>4 DEF Observed
  <2> QED  BY <2>2, <2>3
<1>8. CASE i \notin Affected(snapshot)
  <2>1. Gain(i, id, snapshot) = 0
    BY <1>3, <1>8 DEF Gain
  <2> QED  BY <2>1, <1>1, <1>8 DEF After, Observed, IsCounted
<1> QED  BY <1>7, <1>8

----------------------------------------------------------------------------
(* The time of the threads *)

\* Open windows have the time between the first and the last sample of a thread, and
\* none that is still to come.
OpenInv ==
  \A i \in Nat : i >= nextWindow =>
    /\ \A id \in DOMAIN previous : since[id] <= WindowStart(i) =>
         Observed(WindowOf(i), id) = Overlap(i, since[id], previous[id].at)
    /\ finished <= WindowStart(i) => \A id \in IdentityType : Observed(WindowOf(i), id) = 0

CoverInv == TimeInv /\ OpenInv /\ ReportsCoverThreads

LEMMA InitCovers == Init => CoverInv
<1> SUFFICES ASSUME Init  PROVE  CoverInv
  OBVIOUS
<1>1. /\ origin \in Nat /\ nextWindow = 0 /\ finished = 0 /\ DOMAIN previous = {}
      /\ DOMAIN windows = {} /\ DOMAIN reports = {} /\ initialized = FALSE
  BY OriginsAssumption DEF Init, NoTime
<1>2. TimeInv
  <2>1. 0 .. nextWindow - 1 = {}
    BY <1>1
  <2> QED  BY <1>1, <2>1 DEF TimeInv
<1>3. OpenInv
  BY <1>1 DEF OpenInv, Observed, WindowOf, RowOf, NoWindow, NoRow
<1> QED  BY <1>1, <1>2, <1>3 DEF CoverInv, ReportsCoverThreads

LEMMA RememberTimes ==
  ASSUME TimeInv, NEW snapshot, IsTimed(snapshot), snapshot.started >= finished, Remember(snapshot)
  PROVE  /\ finished' = snapshot.finished /\ finished' \in Nat /\ finished <= finished'
         /\ DOMAIN previous' = DOMAIN snapshot.samples
         /\ DOMAIN previous' \subseteq IdentityType
         /\ \A id \in DOMAIN previous' :
              /\ previous'[id].at = snapshot.samples[id].at
              /\ previous'[id].at \in Nat /\ since'[id] \in Nat
              /\ finished <= previous'[id].at
              /\ since'[id] <= previous'[id].at /\ previous'[id].at <= finished'
              /\ since'[id] = IF id \in DOMAIN previous THEN since[id] ELSE previous'[id].at
<1>1. previous' = snapshot.samples /\ finished' = snapshot.finished
  BY DEF Remember
<1>2. \A id \in DOMAIN previous' :
        since'[id] = IF id \in DOMAIN previous THEN since[id] ELSE previous'[id].at
  BY <1>1 DEF Remember
<1>3. DOMAIN previous' \subseteq IdentityType
  BY <1>1 DEF IsTimed
<1>4. /\ finished' \in Nat /\ finished <= finished' /\ finished \in Nat
      /\ \A id \in DOMAIN previous' :
           previous'[id].at \in Nat /\ finished <= previous'[id].at /\ previous'[id].at <= finished'
  BY <1>1, SnapshotType DEF TimeInv
<1>5. \A id \in DOMAIN previous : since[id] \in Nat /\ since[id] <= finished
  BY <1>4 DEF TimeInv
<1>6. \A id \in DOMAIN previous' : since'[id] \in Nat /\ since'[id] <= previous'[id].at
  BY <1>2, <1>4, <1>5
<1> QED  BY <1>1, <1>2, <1>3, <1>4, <1>6

\* The baseline adds no time.
LEMMA FirstCovers ==
  ASSUME CoverInv, NEW snapshot, IsTimed(snapshot), snapshot.started >= finished,
         ObserveFirst(snapshot), Remember(snapshot)
  PROVE  CoverInv'
<1>1. TimeInv /\ DOMAIN previous = {} /\ nextWindow = 0 /\ DOMAIN reports = {}
  BY DEF CoverInv, TimeInv, ObserveFirst
<1>2. /\ initialized' = TRUE /\ nextWindow' = nextWindow /\ reports' = reports
      /\ origin' = IF origin = NoTime THEN snapshot.finished ELSE origin
  BY DEF ObserveFirst
<1>3. /\ finished' = snapshot.finished /\ finished' \in Nat
      /\ \A id \in DOMAIN previous' :
           /\ previous'[id].at \in Nat /\ since'[id] \in Nat
           /\ since'[id] = previous'[id].at /\ previous'[id].at <= finished'
  BY <1>1, RememberTimes
<1>4. origin' \in Nat
  BY <1>1, <1>2, <1>3 DEF TimeInv
<1> DEFINE scanned == ScannedWindows(snapshot)'
           ids == DOMAIN snapshot.samples
           first == [i \in scanned \cup (IF ids = {} THEN {} ELSE {0}) |->
             [stats |-> [id \in IF i = 0 THEN ids ELSE {} |-> [NoRow EXCEPT !.samples = 1]],
              scans |-> IF i \in scanned THEN 1 ELSE 0, gap |-> 0]]
<1>5. windows' = first
  BY DEF ObserveFirst
<1>6. scanned \subseteq Nat
  <2>1. CASE snapshot.finished <= origin'
    <3>1. ~(snapshot.finished > origin')
      BY <2>1, <1>3, <1>4
    <3> QED  BY <2>1, <3>1 DEF ScannedWindows
  <2>2. CASE snapshot.finished > origin'
    <3>1. WindowIndex(snapshot.finished)' \in Nat
      <4>1. snapshot.finished - origin' \in Nat
        BY <2>2, <1>3, <1>4
      <4> QED  BY <2>2, <4>1, DivisionBounds DEF WindowIndex
    <3>2. TouchedWindows(snapshot.started, snapshot.finished)' \subseteq Nat
      BY <1>1, <1>2 DEF TouchedWindows
    <3> QED  BY <2>2, <3>1, <3>2 DEF ScannedWindows
  <2>3. snapshot.finished \in Nat
    BY <1>3
  <2> QED  BY <2>1, <2>2, <2>3, <1>4
<1> HIDE DEF scanned, ids
<1>7. IsCounted([NoRow EXCEPT !.samples = 1]) /\ [NoRow EXCEPT !.samples = 1].observed = 0
  BY DEF IsCounted, NoRow
<1>8. \A i \in DOMAIN windows' : \A id \in DOMAIN windows'[i].stats :
        windows'[i].stats[id] = [NoRow EXCEPT !.samples = 1]
  BY <1>5
<1>9. DOMAIN windows' \subseteq Nat
  BY <1>5, <1>6
<1>10. TimeInv'
  BY <1>1, <1>2, <1>3, <1>4, <1>7, <1>8, <1>9 DEF TimeInv, IsCounted
<1>11. \A i \in Nat : \A id : Observed(WindowOf(i), id)' = 0
  BY <1>7, <1>8 DEF Observed, RowOf, WindowOf, NoWindow, NoRow
<1>12. OpenInv'
  <2>1. \A i \in Nat : \A id \in DOMAIN previous' :
          Overlap(i, since[id], previous[id].at)' = 0
    <3> SUFFICES ASSUME NEW i \in Nat, NEW at \in Nat
                 PROVE  Overlap(i, at, at)' = 0
      BY <1>3
    <3>1. WindowStart(i)' \in Nat /\ WindowEnd(i)' \in Nat
      <4>1. i * Interval \in Nat /\ (i + 1) * Interval \in Nat
        BY IntervalAssumption
      <4> QED  BY <4>1, <1>4 DEF WindowStart, WindowEnd
    <3> QED  BY <3>1 DEF Overlap, later, earlier
  <2> QED  BY <2>1, <1>11 DEF OpenInv
<1>13. ReportsCoverThreads'
  BY <1>1, <1>2 DEF ReportsCoverThreads
<1> QED  BY <1>10, <1>12, <1>13 DEF CoverInv

\* The watermark is the first of the ends that every thread has been observed to.
LEMMA WatermarkBounds ==
  ASSUME TimeInv, NEW snapshot, IsTimed(snapshot), snapshot.started >= finished
  PROVE  /\ Watermark(snapshot) \in Nat /\ Watermark(snapshot) <= snapshot.finished
         /\ \A id \in DOMAIN snapshot.samples : Watermark(snapshot) <= snapshot.samples[id].at
<1>1. Ends(snapshot) \in SUBSET Nat /\ snapshot.finished \in Ends(snapshot)
  BY SnapshotType DEF Ends
<1>2. \A id \in DOMAIN snapshot.samples : snapshot.samples[id].at \in Ends(snapshot)
  BY DEF Ends, GapEnd
<1> QED  BY <1>1, <1>2, MinIsLeast DEF Watermark

LEMMA NextWindows ==
  ASSUME TimeInv, NEW snapshot, IsTimed(snapshot), snapshot.started >= finished,
         ObserveNext(snapshot)
  PROVE  /\ UNCHANGED <<initialized, origin>> /\ initialized
         /\ nextWindow' \in Nat /\ nextWindow <= nextWindow'
         /\ DOMAIN windows' \subseteq Nat
         /\ \A i \in Nat : i >= nextWindow' => WindowOf(i)' = After(i, snapshot)
         /\ DOMAIN reports' = 0 .. nextWindow' - 1
         /\ \A i \in DOMAIN reports' :
              IF i < nextWindow THEN reports'[i] = reports[i]
              ELSE reports'[i] = After(i, snapshot) /\ WindowEnd(i) <= Watermark(snapshot)
<1> DEFINE next == WindowsThrough(Watermark(snapshot))
           touched == DOMAIN windows \cup Affected(snapshot)
           credited == [i \in touched |->
             IF i \in Affected(snapshot) THEN Credited(i, snapshot) ELSE windows[i]]
<1>1. /\ UNCHANGED <<initialized, origin>> /\ initialized /\ nextWindow' = next
      /\ reports' = [i \in 0 .. next - 1 |->
           IF i < nextWindow THEN reports[i]
           ELSE IF i \in DOMAIN credited THEN credited[i] ELSE NoWindow]
      /\ windows' = [i \in {j \in DOMAIN credited : j >= next} |-> credited[i]]
  BY DEF ObserveNext
<1>2. /\ next \in Nat /\ nextWindow <= next
      /\ \A i \in Nat : nextWindow <= i /\ i < next => WindowEnd(i) <= Watermark(snapshot)
  BY WatermarkBounds, ReportedIsOver DEF TimeInv
<1>3. \A i \in Nat : (IF i \in touched THEN credited[i] ELSE NoWindow) = After(i, snapshot)
  BY DEF After, WindowOf
<1>4. touched \subseteq Nat
  BY DEF TimeInv, Affected
<1>5. DOMAIN credited = touched
  OBVIOUS
<1> HIDE DEF next, touched, credited
<1>6. DOMAIN windows' \subseteq Nat
  BY <1>1, <1>4, <1>5
<1>7. \A i \in Nat : i >= nextWindow' => WindowOf(i)' = After(i, snapshot)
  BY <1>1, <1>3, <1>5 DEF WindowOf
<1>8. ASSUME NEW i \in DOMAIN reports'
      PROVE  IF i < nextWindow THEN reports'[i] = reports[i]
             ELSE reports'[i] = After(i, snapshot) /\ WindowEnd(i) <= Watermark(snapshot)
  <2>1. i \in Nat /\ i < next /\ nextWindow \in Nat
    BY <1>1, <1>2 DEF TimeInv
  <2>2. CASE i < nextWindow
    BY <1>1, <1>8, <2>2
  <2>3. CASE ~(i < nextWindow)
    <3>1. reports'[i] = After(i, snapshot)
      BY <1>1, <1>3, <1>5, <1>8, <2>1, <2>3
    <3>2. WindowEnd(i) <= Watermark(snapshot)
      BY <1>2, <2>1, <2>3
    <3> QED  BY <2>3, <3>1, <3>2
  <2> QED  BY <2>2, <2>3
<1> QED  BY <1>1, <1>2, <1>6, <1>7, <1>8

\* The watermark is not before the scan, and no window that ends by then stays open.
LEMMA ScanClosesWindows ==
  ASSUME TimeInv, NEW snapshot, IsTimed(snapshot), snapshot.started >= finished,
         ObserveNext(snapshot),
         NEW i \in Nat, WindowEnd(i) <= snapshot.started
  PROVE  i < nextWindow'
<1> DEFINE w == Watermark(snapshot)
<1>1. w \in Nat /\ snapshot.started <= w
  <2>1. Ends(snapshot) \in SUBSET Nat /\ Ends(snapshot) # {}
    BY SnapshotType DEF Ends
  <2>2. \A end \in Ends(snapshot) : snapshot.started <= end
    BY SnapshotType DEF Ends, GapEnd
  <2> QED  BY <2>1, <2>2, MinIsLeast DEF Watermark
<1>2. /\ origin \in Nat /\ nextWindow \in Nat /\ snapshot.started \in Nat
      /\ nextWindow' = WindowsThrough(w)
  BY DEF TimeInv, IsTimed, ObserveNext
<1> HIDE DEF w
<1> DEFINE q == (w - origin) \div Interval
<1>3. (i + 1) * Interval \in Nat /\ WindowEnd(i) = origin + (i + 1) * Interval
  BY IntervalAssumption DEF WindowEnd
<1>4. w - origin \in Nat /\ (i + 1) * Interval <= w - origin /\ ~(w < origin)
  BY <1>1, <1>2, <1>3
<1>5. q \in Nat /\ w - origin < (q + 1) * Interval
  BY <1>4, DivisionBounds
<1> HIDE DEF q
<1>6. (i + 1) * Interval < (q + 1) * Interval /\ (q + 1) * Interval \in Nat
  BY <1>3, <1>4, <1>5, IntervalAssumption
<1>7. i < q
  <2>1. ~(q <= i)
    <3>1. q <= i => (q + 1) * Interval <= (i + 1) * Interval
      BY <1>5, IntervalAssumption
    <3> QED  BY <3>1, <1>3, <1>6
  <2> QED  BY <2>1, <1>5
<1> QED  BY <1>2, <1>4, <1>5, <1>7 DEF WindowsThrough, later, q

\* The time between the samples of a thread has grown by its gap.
LEMMA AfterCovers ==
  ASSUME CoverInv, NEW snapshot, IsTimed(snapshot), snapshot.started >= finished,
         Remember(snapshot), NEW i \in Nat, i >= nextWindow
  PROVE  /\ \A id \in DOMAIN previous' : since'[id] <= WindowStart(i) =>
              Observed(After(i, snapshot), id) = Overlap(i, since'[id], previous'[id].at)
         /\ finished' <= WindowStart(i) =>
              \A id \in IdentityType : Observed(After(i, snapshot), id) = 0
<1> USE DEF CoverInv
<1>1. origin \in Nat /\ finished \in Nat /\ WindowStart(i) \in Nat
  BY WindowBounds DEF TimeInv
<1>2. \A id : Observed(After(i, snapshot), id) =
                Observed(WindowOf(i), id) + Gain(i, id, snapshot)
  BY AfterObserved
<1>3. ASSUME NEW id \in DOMAIN previous', since'[id] <= WindowStart(i)
      PROVE  Observed(After(i, snapshot), id) = Overlap(i, since'[id], previous'[id].at)
  <2>1. /\ previous'[id].at \in Nat /\ since'[id] \in Nat /\ id \in IdentityType
        /\ finished <= previous'[id].at /\ since'[id] <= previous'[id].at
        /\ since'[id] = IF id \in DOMAIN previous THEN since[id] ELSE previous'[id].at
        /\ previous'[id].at = snapshot.samples[id].at
        /\ DOMAIN previous' = DOMAIN snapshot.samples
    BY RememberTimes
  <2>2. CASE id \in DOMAIN previous
    <3>1. /\ previous[id].at \in Nat /\ since[id] <= previous[id].at
          /\ previous[id].at <= previous'[id].at
      BY <2>1, <2>2, <1>1 DEF TimeInv
    <3>2. GapEnd(id, snapshot) = previous'[id].at
      BY <2>1 DEF GapEnd
    <3>3. Observed(WindowOf(i), id) = Overlap(i, since[id], previous[id].at)
      BY <2>1, <2>2, <1>3 DEF OpenInv
    <3>4. Gain(i, id, snapshot) = Overlap(i, previous[id].at, previous'[id].at)
      BY <2>2, <3>2 DEF Gain
    <3>5. Overlap(i, since[id], previous'[id].at) =
            Overlap(i, since[id], previous[id].at) + Overlap(i, previous[id].at, previous'[id].at)
      BY <1>1, <2>1, <2>2, <3>1, OverlapAdds
    <3> QED  BY <1>2, <2>1, <2>2, <3>3, <3>4, <3>5
  <2>3. CASE id \notin DOMAIN previous
    <3>1. finished <= WindowStart(i)
      BY <1>1, <1>3, <2>1, <2>3
    <3>2. Observed(WindowOf(i), id) = 0
      BY <2>1, <3>1 DEF OpenInv
    <3>3. Gain(i, id, snapshot) = 0
      BY <2>3 DEF Gain
    <3>4. Overlap(i, since'[id], previous'[id].at) = 0
      BY <1>1, <2>1, <2>3, OverlapEmpty
    <3> QED  BY <1>2, <3>2, <3>3, <3>4
  <2> QED  BY <2>2, <2>3
<1>4. ASSUME finished' <= WindowStart(i), NEW id \in IdentityType
      PROVE  Observed(After(i, snapshot), id) = 0
  <2>1. finished' \in Nat /\ finished <= finished' /\ finished' = snapshot.finished
    BY RememberTimes
  <2>2. Observed(WindowOf(i), id) = 0
    <3>1. finished <= WindowStart(i)
      BY <1>1, <1>4, <2>1
    <3> QED  BY <3>1 DEF OpenInv
  <2>3. Gain(i, id, snapshot) = 0
    <3>1. CASE id \in DOMAIN previous
      <4>1. /\ previous[id].at \in Nat /\ GapEnd(id, snapshot) \in Nat
            /\ GapEnd(id, snapshot) <= snapshot.finished
        BY <3>1, SnapshotType DEF TimeInv
      <4>2. GapEnd(id, snapshot) <= WindowStart(i)
        BY <4>1, <2>1, <1>4, <1>1
      <4> QED  BY <4>1, <4>2, <3>1, <1>1, OverlapEmpty DEF Gain
    <3>2. CASE id \notin DOMAIN previous
      BY <3>2 DEF Gain
    <3> QED  BY <3>1, <3>2
  <2> QED  BY <1>2, <2>2, <2>3
<1> QED  BY <1>3, <1>4

LEMMA NextCovers ==
  ASSUME CoverInv, NEW snapshot, IsTimed(snapshot), snapshot.started >= finished,
         ObserveNext(snapshot), Remember(snapshot)
  PROVE  CoverInv'
<1>1. /\ UNCHANGED <<initialized, origin>> /\ initialized
      /\ nextWindow' \in Nat /\ nextWindow <= nextWindow'
      /\ DOMAIN windows' \subseteq Nat
      /\ \A i \in Nat : i >= nextWindow' => WindowOf(i)' = After(i, snapshot)
      /\ DOMAIN reports' = 0 .. nextWindow' - 1
      /\ \A i \in DOMAIN reports' :
           IF i < nextWindow THEN reports'[i] = reports[i]
           ELSE reports'[i] = After(i, snapshot) /\ WindowEnd(i) <= Watermark(snapshot)
  BY NextWindows DEF CoverInv
<1>2. /\ finished' = snapshot.finished /\ finished' \in Nat /\ finished <= finished'
      /\ DOMAIN previous' = DOMAIN snapshot.samples
      /\ DOMAIN previous' \subseteq IdentityType
      /\ \A id \in DOMAIN previous' :
           /\ previous'[id].at = snapshot.samples[id].at
           /\ previous'[id].at \in Nat /\ since'[id] \in Nat
           /\ finished <= previous'[id].at
           /\ since'[id] <= previous'[id].at /\ previous'[id].at <= finished'
           /\ since'[id] = IF id \in DOMAIN previous THEN since[id] ELSE previous'[id].at
  BY RememberTimes DEF CoverInv
<1>3. /\ Watermark(snapshot) \in Nat /\ Watermark(snapshot) <= finished'
      /\ \A id \in DOMAIN previous' : Watermark(snapshot) <= previous'[id].at
  BY <1>2, WatermarkBounds DEF CoverInv
<1>4. origin \in Nat /\ nextWindow \in Nat /\ finished \in Nat
  BY DEF CoverInv, TimeInv
<1>5. \A i \in Nat : WindowStart(i)' = WindowStart(i) /\ WindowEnd(i)' = WindowEnd(i)
  BY <1>1 DEF WindowStart, WindowEnd
<1>6. ASSUME NEW i \in Nat, i >= nextWindow
      PROVE  \A id : IsCounted(RowOf(After(i, snapshot), id))
  BY <1>6, AfterObserved DEF CoverInv
<1>7. TimeInv'
  <2>1. ASSUME NEW i \in DOMAIN windows', NEW id \in DOMAIN windows'[i].stats
        PROVE  IsCounted(windows'[i].stats[id])
    <3>1. i \in Nat /\ i >= nextWindow'
      BY <1>1 DEF ObserveNext
    <3>2. windows'[i] = After(i, snapshot) /\ i >= nextWindow
      BY <1>1, <1>4, <3>1 DEF WindowOf
    <3> QED  BY <3>1, <3>2, <1>6 DEF RowOf
  <2>2. ASSUME NEW i \in DOMAIN reports'  PROVE  WindowEnd(i) <= finished'
    <3>1. i \in Nat /\ WindowEnd(i) \in Nat
      BY <1>1, <1>4, WindowBounds
    <3>2. CASE i < nextWindow
      <4>1. WindowEnd(i) <= finished
        BY <3>1, <3>2, <1>4 DEF CoverInv, TimeInv
      <4> QED  BY <4>1, <3>1, <1>2, <1>4
    <3>3. CASE ~(i < nextWindow)
      BY <3>1, <3>3, <1>1, <1>2, <1>3
    <3> QED  BY <3>2, <3>3
  <2>3. \A i \in DOMAIN reports' : WindowEnd(i)' <= finished'
    BY <2>2, <1>1, <1>5
  <2>4. \A id \in DOMAIN previous' :
          /\ previous'[id].at \in Nat /\ since'[id] \in Nat
          /\ since'[id] <= previous'[id].at /\ previous'[id].at <= finished'
    BY <1>2
  <2> QED  BY <1>1, <1>2, <1>4, <2>1, <2>3, <2>4 DEF TimeInv
<1>8. OpenInv'
  <2>1. \A i \in Nat : \A id \in DOMAIN previous' :
          Overlap(i, since[id], previous[id].at)' = Overlap(i, since'[id], previous'[id].at)
    BY <1>5 DEF Overlap
  <2>2. ASSUME NEW i \in Nat, i >= nextWindow'
        PROVE  /\ \A id \in DOMAIN previous' : since'[id] <= WindowStart(i)' =>
                    Observed(WindowOf(i), id)' = Overlap(i, since[id], previous[id].at)'
               /\ finished' <= WindowStart(i)' =>
                    \A id \in IdentityType : Observed(WindowOf(i), id)' = 0
    <3>1. i >= nextWindow
      BY <2>2, <1>1, <1>4
    <3>2. \A id : Observed(WindowOf(i), id)' = Observed(After(i, snapshot), id)
      BY <2>2, <1>1 DEF Observed, RowOf
    <3>3. /\ \A id \in DOMAIN previous' : since'[id] <= WindowStart(i) =>
               Observed(After(i, snapshot), id) = Overlap(i, since'[id], previous'[id].at)
          /\ finished' <= WindowStart(i) =>
               \A id \in IdentityType : Observed(After(i, snapshot), id) = 0
      BY <3>1, AfterCovers
    <3> QED  BY <2>1, <3>2, <3>3, <1>5
  <2> QED  BY <2>2 DEF OpenInv
<1>9. ReportsCoverThreads'
  <2> SUFFICES ASSUME NEW i \in DOMAIN reports', NEW id \in DOMAIN previous',
                      since'[id] <= WindowStart(i)
               PROVE  /\ id \in DOMAIN reports'[i].stats
                      /\ reports'[i].stats[id].observed = Interval
    BY <1>1, <1>5 DEF ReportsCoverThreads
  <2>1. i \in Nat /\ WindowStart(i) \in Nat /\ WindowEnd(i) = WindowStart(i) + Interval
        /\ Interval \in Nat /\ Interval > 0
    <3>1. i \in Nat
      <4>1. i \in 0 .. nextWindow' - 1 /\ nextWindow' \in Nat
        BY <1>1
      <4> QED  BY <4>1
    <3>2. origin \in Nat
      BY <1>4
    <3> QED  BY <3>1, <3>2, WindowBounds, IntervalAssumption
  <2>2. CASE i < nextWindow
    <3>1. reports'[i] = reports[i] /\ i \in DOMAIN reports /\ WindowEnd(i) <= finished
      BY <1>1, <1>4, <2>1, <2>2 DEF CoverInv, TimeInv
    <3>2. id \in DOMAIN previous /\ since'[id] = since[id]
      BY <1>2, <1>4, <2>1, <3>1
    <3> QED  BY <3>1, <3>2 DEF CoverInv, ReportsCoverThreads
  <2>3. CASE ~(i < nextWindow)
    <3>1. reports'[i] = After(i, snapshot) /\ WindowEnd(i) <= Watermark(snapshot)
      BY <1>1, <2>3
    <3>2. Observed(After(i, snapshot), id) = Overlap(i, since'[id], previous'[id].at)
      BY <2>1, <2>3, <1>4, AfterCovers
    <3>3. Overlap(i, since'[id], previous'[id].at) = Interval
      <4>1. WindowEnd(i) <= previous'[id].at
        BY <3>1, <1>2, <1>3, <2>1
      <4> QED  BY <4>1, <1>2, <1>4, <2>1, OverlapFull
    <3>4. RowOf(reports'[i], id).observed = Interval
      BY <3>1, <3>2, <3>3 DEF Observed
    <3>5. NoRow.observed = 0
      BY DEF NoRow
    <3> QED  BY <3>4, <3>5, <2>1 DEF RowOf
  <2> QED  BY <2>2, <2>3
<1> QED  BY <1>7, <1>8, <1>9 DEF CoverInv

LEMMA ObserveCovers ==
  ASSUME CoverInv, NEW snapshot, IsTimed(snapshot), snapshot.started >= finished,
         Observe(snapshot)
  PROVE  CoverInv'
BY FirstCovers, NextCovers DEF Observe

LEMMA StutteringCovers ==
  ASSUME CoverInv, UNCHANGED vars
  PROVE  CoverInv'
BY DEF vars, ghosts, CoverInv, TimeInv, OpenInv, ReportsCoverThreads, Observed,
       RowOf, WindowOf, Overlap, WindowStart, WindowEnd

----------------------------------------------------------------------------
(* Theorems *)

THEOREM CoverInvariant == Spec => []CoverInv
<1>1. CoverInv /\ [Next]_vars => CoverInv'
  <2> SUFFICES ASSUME CoverInv, [Next]_vars  PROVE  CoverInv'
    OBVIOUS
  <2>1. CASE Next
    <3>1. PICK snapshot \in Snapshots : snapshot.started >= finished /\ Observe(snapshot)
      BY <2>1 DEF Next
    <3>2. IsTimed(snapshot)
      BY SnapshotsAssumption DEF IsSnapshot, IsSample, IsTimed
    <3> QED  BY <3>1, <3>2, ObserveCovers
  <2>2. CASE UNCHANGED vars
    BY <2>2, StutteringCovers
  <2> QED  BY <2>1, <2>2
<1> QED  BY <1>1, InitCovers, PTL DEF Spec

\* The report of a window has the whole interval of every thread that was sampled
\* before the window started and has been found by every scan since (Observe,
\* finalizeThrough).
THEOREM ThreadsCovered == Spec => []ReportsCoverThreads
<1>1. CoverInv => ReportsCoverThreads
  BY DEF CoverInv
<1> QED  BY <1>1, CoverInvariant, PTL

----------------------------------------------------------------------------
(* Parts of an increase *)

LEMMA Quotient ==
  ASSUME NEW d \in Nat \ {0}, NEW a \in Nat
  PROVE  a \div d \in Nat /\ (a \div d) * d <= a /\ a < (a \div d + 1) * d
BY Z3

LEMMA QuotientGrows ==
  ASSUME NEW d \in Nat \ {0}, NEW a \in Nat, NEW b \in Nat, a <= b
  PROVE  a \div d <= b \div d
<1> DEFINE p == a \div d
           q == b \div d
<1>1. p \in Nat /\ q \in Nat /\ p * d <= a /\ b < (q + 1) * d
  BY Quotient
<1> HIDE DEF p, q
<1>2. ASSUME q < p  PROVE  FALSE
  <2>1. (q + 1) * d <= p * d
    BY <1>1, <1>2
  <2>2. (q + 1) * d \in Nat /\ p * d \in Nat
    BY <1>1
  <2> QED  BY <1>1, <2>1, <2>2
<1>3. p <= q
  BY <1>1, <1>2
<1> QED  BY <1>3 DEF p, q

\* The part of a value that belongs to the time of a gap up to an instant of it.
Part(value, gap, at) == (value * (at - gap.start)) \div (gap.end - gap.start)

LEMMA PartBounds ==
  ASSUME NEW gap, gap.start \in Nat, gap.end \in Nat, gap.start < gap.end, NEW value \in Nat
  PROVE  /\ Part(value, gap, gap.start) = 0 /\ Part(value, gap, gap.end) = value
         /\ \A a \in gap.start .. gap.end :
              Part(value, gap, a) \in Nat /\ Part(value, gap, a) <= value
         /\ \A a, b \in gap.start .. gap.end :
              a <= b => Part(value, gap, a) <= Part(value, gap, b)
<1>0. PICK d \in Nat \ {0} : d = gap.end - gap.start
  OBVIOUS
<1>1. ASSUME NEW a \in gap.start .. gap.end
      PROVE  Part(value, gap, a) \in Nat
  <2>1. value * (a - gap.start) \in Nat
    BY <1>1
  <2> QED  BY <1>0, <2>1, Quotient DEF Part
<1>2. ASSUME NEW a \in gap.start .. gap.end, NEW b \in gap.start .. gap.end, a <= b
      PROVE  Part(value, gap, a) <= Part(value, gap, b)
  <2>1. PICK m \in Nat, n \in Nat : m = a - gap.start /\ n = b - gap.start
    BY <1>2
  <2>2. value * m \in Nat /\ value * n \in Nat /\ value * m <= value * n
    BY <1>2, <2>1
  <2> QED  BY <1>0, <2>1, <2>2, QuotientGrows DEF Part
<1>3. Part(value, gap, gap.start) = 0
  <2>1. value * (gap.start - gap.start) = 0 /\ 0 \div d = 0
    BY <1>0
  <2> QED  BY <1>0, <2>1 DEF Part
<1>4. Part(value, gap, gap.end) = value
  <2>1. PICK q \in Nat : q = (value * d) \div d /\ q * d <= value * d /\ value * d < (q + 1) * d
    <3>1. value * d \in Nat
      BY <1>0
    <3> QED  BY <3>1, Quotient
  <2>2. ~(value < q) /\ ~(q < value)
    <3>1. ASSUME value < q  PROVE  FALSE
      <4>1. (value + 1) * d <= q * d /\ (value + 1) * d = value * d + d
        BY <3>1
      <4> QED  BY <2>1, <4>1
    <3>2. ASSUME q < value  PROVE  FALSE
      <4>1. (q + 1) * d <= value * d /\ (q + 1) * d \in Nat /\ value * d \in Nat
        BY <3>2
      <4> QED  BY <2>1, <4>1
    <3> QED  BY <3>1, <3>2
  <2> QED  BY <1>0, <2>1, <2>2 DEF Part
<1>5. gap.end \in gap.start .. gap.end
  OBVIOUS
<1> QED  BY <1>1, <1>2, <1>3, <1>4, <1>5

\* The part of a gap in a window it touches.
LEMMA ShareIsPart ==
  ASSUME origin \in Nat, NEW i \in Nat, NEW gap, gap.start \in Nat, gap.end \in Nat,
         Overlap(i, gap.start, gap.end) > 0, NEW value \in Nat
  PROVE  /\ gap.start < gap.end
         /\ later(gap.start, WindowStart(i)) \in gap.start .. gap.end
         /\ earlier(gap.end, WindowEnd(i)) \in gap.start .. gap.end
         /\ later(gap.start, WindowStart(i)) <= earlier(gap.end, WindowEnd(i))
         /\ Share(value, gap, i) = Part(value, gap, earlier(gap.end, WindowEnd(i)))
                                     - Part(value, gap, later(gap.start, WindowStart(i)))
         /\ Share(value, gap, i) \in Nat
<1>1. WindowStart(i) \in Nat /\ WindowEnd(i) \in Nat
  BY WindowBounds
<1>2. /\ gap.start < gap.end
      /\ later(gap.start, WindowStart(i)) \in gap.start .. gap.end
      /\ earlier(gap.end, WindowEnd(i)) \in gap.start .. gap.end
      /\ later(gap.start, WindowStart(i)) <= earlier(gap.end, WindowEnd(i))
  BY <1>1 DEF Overlap, later, earlier
<1>3. Share(value, gap, i) = Part(value, gap, earlier(gap.end, WindowEnd(i)))
                               - Part(value, gap, later(gap.start, WindowStart(i)))
  BY DEF Share, Part
<1>4. /\ Part(value, gap, earlier(gap.end, WindowEnd(i))) \in Nat
      /\ Part(value, gap, later(gap.start, WindowStart(i))) \in Nat
      /\ Part(value, gap, later(gap.start, WindowStart(i)))
           <= Part(value, gap, earlier(gap.end, WindowEnd(i)))
  BY <1>2, PartBounds
<1> QED  BY <1>2, <1>3, <1>4

----------------------------------------------------------------------------
(* Types *)

LEMMA MaxIsGreatest ==
  ASSUME NEW S \in SUBSET Nat, S # {}, NEW bound \in Nat, \A y \in S : y <= bound
  PROVE  Max(S) \in S /\ \A y \in S : y <= Max(S)
<1> DEFINE bounds == {n \in Nat : \A y \in S : y <= n}
<1>1. bounds # {} /\ bounds \in SUBSET Nat
  OBVIOUS
<1>2. PICK n \in bounds : \A m \in bounds : n <= m
  <2> HIDE DEF bounds
  <2> QED  BY <1>1, LeastExists
<1>3. n \in S
  <2> SUFFICES ASSUME n \notin S  PROVE  FALSE
    OBVIOUS
  <2>1. \A y \in S : y <= n - 1
    OBVIOUS
  <2>2. n - 1 \in Nat
    <3>1. PICK y \in S : y \in Nat /\ y <= n /\ y # n
      BY <1>2
    <3>2. n \in Nat
      BY <1>2
    <3> HIDE DEF bounds
    <3> QED  BY <3>1, <3>2
  <2>3. n - 1 \in bounds
    BY <2>1, <2>2
  <2> QED  BY <1>2, <2>3
<1> QED  BY <1>2, <1>3 DEF Max

IsDelays(delays) == delays \in [DOMAIN delays -> [count : Nat, total : Nat]]

\* A gap of the code, whose counters are known or not.
IsGap(gap) ==
  /\ gap.start \in Nat /\ gap.end \in Nat
  /\ gap.left \in ThreadStates /\ gap.right \in ThreadStates
  /\ gap.schedstat = NoDeltas \/ gap.schedstat \in [Counters -> Nat]
  /\ IsDelays(gap.delays) /\ gap.resets \in Nat

LEMMA SchedstatDeltaType ==
  ASSUME NEW before, NEW after,
         before \in [Counters -> Nat] \/ DOMAIN before = {},
         after \in [Counters -> Nat] \/ DOMAIN after = {}
  PROVE  SchedstatDelta(before, after) = NoDeltas \/ SchedstatDelta(before, after) \in [Counters -> Nat]
<1> SUFFICES ASSUME DOMAIN before # {}, DOMAIN after # {}, ~IsReset(before, after)
             PROVE  SchedstatDelta(before, after) \in [Counters -> Nat]
  BY DEF SchedstatDelta
<1>1. before \in [Counters -> Nat] /\ after \in [Counters -> Nat]
  OBVIOUS
<1>2. \A c \in Counters : after[c] - before[c] \in Nat
  BY <1>1 DEF IsReset
<1> QED  BY <1>2 DEF SchedstatDelta

LEMMA DelayDeltaType ==
  ASSUME NEW before, NEW after, IsDelays(before), IsDelays(after), IsFiniteSet(DOMAIN before)
  PROVE  IsDelays(DelayDelta(before, after)) /\ Cardinality(ResetDelays(before, after)) \in Nat
<1> DEFINE known == (DOMAIN before \cap DOMAIN after) \ ResetDelays(before, after)
<1>1. ASSUME NEW k \in known
      PROVE  [count |-> after[k].count - before[k].count, total |-> after[k].total - before[k].total]
               \in [count : Nat, total : Nat]
  <2>1. /\ before[k] \in [count : Nat, total : Nat] /\ after[k] \in [count : Nat, total : Nat]
    BY DEF IsDelays
  <2>2. ~(after[k].count < before[k].count) /\ ~(after[k].total < before[k].total)
    BY DEF ResetDelays
  <2> QED  BY <2>1, <2>2
<1>2. DelayDelta(before, after) =
        [k \in known |->
           [count |-> after[k].count - before[k].count, total |-> after[k].total - before[k].total]]
  BY DEF DelayDelta
<1>3. IsFiniteSet(ResetDelays(before, after))
  <2>1. ResetDelays(before, after) \subseteq DOMAIN before
    BY DEF ResetDelays
  <2> QED  BY <2>1, FS_Subset
<1> HIDE DEF known
<1> QED  BY <1>1, <1>2, <1>3, FS_CardinalityType DEF IsDelays

\* What is typed in a state, apart from the reports: the samples and the windows.
SampledOK == \A id \in DOMAIN previous : IsSample(previous[id])

LEMMA GapType ==
  ASSUME TimeInv, SampledOK, NEW snapshot, IsSnapshot(snapshot), snapshot.started >= finished,
         NEW id \in DOMAIN previous
  PROVE  /\ IsGap(GapOf(id, snapshot))
         /\ GapOf(id, snapshot).start = previous[id].at /\ GapOf(id, snapshot).end = GapEnd(id, snapshot)
         /\ previous[id].at <= GapEnd(id, snapshot) /\ GapEnd(id, snapshot) <= snapshot.finished
<1>1. IsTimed(snapshot)
  BY DEF IsSnapshot, IsSample, IsTimed
<1>2. /\ GapEnd(id, snapshot) \in Nat /\ previous[id].at <= GapEnd(id, snapshot)
      /\ GapEnd(id, snapshot) <= snapshot.finished /\ previous[id].at \in Nat
  BY <1>1, SnapshotType DEF TimeInv
<1>3. IsSample(previous[id])
  BY DEF SampledOK
<1>4. "unknown" \in ThreadStates
  BY DEF ThreadStates
<1>5. CASE id \in DOMAIN snapshot.samples
  <2>1. PICK before, after : before = previous[id] /\ after = snapshot.samples[id]
    OBVIOUS
  <2>2. IsSample(before) /\ IsSample(after)
    BY <1>3, <1>5, <2>1 DEF IsSnapshot
  <2>3. GapOf(id, snapshot) = SampledGap(before, after) /\ GapEnd(id, snapshot) = after.at
    BY <1>5, <2>1 DEF GapOf, GapEnd
  <2>4. /\ IsDelays(DelayDelta(before.delays, after.delays))
        /\ Cardinality(ResetDelays(before.delays, after.delays)) \in Nat
    BY <2>2, DelayDeltaType DEF IsSample, IsDelays
  <2>5. \/ SchedstatDelta(before.schedstat, after.schedstat) = NoDeltas
        \/ SchedstatDelta(before.schedstat, after.schedstat) \in [Counters -> Nat]
    BY <2>2, SchedstatDeltaType DEF IsSample
  <2>6. before.state \in ThreadStates /\ after.state \in ThreadStates
    BY <2>2 DEF IsSample
  <2>7. /\ IsGap(SampledGap(before, after))
        /\ SampledGap(before, after).start = before.at /\ SampledGap(before, after).end = after.at
    BY <1>2, <2>1, <2>3, <2>4, <2>5, <2>6 DEF IsGap, SampledGap
  <2> QED  BY <1>2, <2>1, <2>3, <2>7
<1>6. CASE id \notin DOMAIN snapshot.samples
  <2>1. GapOf(id, snapshot) = LastGap(previous[id], GapEnd(id, snapshot))
    BY <1>6 DEF GapOf
  <2>2. IsDelays(<< >>)
    BY DEF IsDelays
  <2>3. previous[id].state \in ThreadStates
    BY <1>3 DEF IsSample
  <2>4. /\ LastGap(previous[id], GapEnd(id, snapshot)).start = previous[id].at
        /\ LastGap(previous[id], GapEnd(id, snapshot)).end = GapEnd(id, snapshot)
        /\ IsGap(LastGap(previous[id], GapEnd(id, snapshot)))
    BY <1>2, <1>4, <2>2, <2>3 DEF IsGap, LastGap
  <2> QED  BY <1>2, <2>1, <2>4
<1> QED  BY <1>5, <1>6

LEMMA RowFields ==
  ASSUME NEW row
  PROVE  IsRow(row) <=>
           /\ row = [samples |-> row.samples, observed |-> row.observed, time |-> row.time,
                     gap |-> row.gap, transitions |-> row.transitions,
                     uncertainty |-> row.uncertainty, schedstat |-> row.schedstat,
                     pairs |-> row.pairs, resets |-> row.resets, delays |-> row.delays,
                     delayPairs |-> row.delayPairs, delayResets |-> row.delayResets]
           /\ row.samples \in Nat /\ row.observed \in Nat /\ row.time \in [ThreadStates -> Nat]
           /\ row.gap \in Nat /\ row.transitions \in Nat /\ row.uncertainty \in Nat
           /\ row.schedstat \in [Counters -> Nat] /\ row.pairs \in Nat /\ row.resets \in Nat
           /\ IsDelays(row.delays) /\ row.delayPairs \in Nat /\ row.delayResets \in Nat
BY DEF IsRow, IsDelays

LEMMA CreditGapType ==
  ASSUME origin \in Nat, NEW row, IsRow(row), NEW gap, IsGap(gap),
         NEW i \in Nat, Overlap(i, gap.start, gap.end) > 0
  PROVE  IsRow(CreditGap(row, gap, i))
<1> DEFINE middle == Midpoint(gap)
           new == CreditGap(row, gap, i)
<1>1. gap.start \in Nat /\ gap.end \in Nat /\ IsDelays(gap.delays) /\ gap.resets \in Nat
  BY DEF IsGap
<1>2. gap.start < gap.end /\ \A value \in Nat : Share(value, gap, i) \in Nat
  BY <1>1, ShareIsPart
<1>3. middle \in Nat
  BY <1>1, <1>2 DEF Midpoint
<1> HIDE DEF middle
<1>4. PICK left \in Nat, right \in Nat :
        left = Overlap(i, gap.start, middle) /\ right = Overlap(i, middle, gap.end)
  BY <1>1, <1>3, OverlapType
<1>5. /\ row.samples \in Nat /\ row.observed \in Nat /\ row.time \in [ThreadStates -> Nat]
      /\ row.gap \in Nat /\ row.transitions \in Nat /\ row.uncertainty \in Nat
      /\ row.schedstat \in [Counters -> Nat] /\ row.pairs \in Nat /\ row.resets \in Nat
      /\ IsDelays(row.delays) /\ row.delayPairs \in Nat /\ row.delayResets \in Nat
  BY RowFields
<1>6. new.samples \in Nat /\ new.observed \in Nat
  BY <1>4, <1>5 DEF CreditGap, middle
<1>7. new.time \in [ThreadStates -> Nat]
  <2>1. new.time = [s \in ThreadStates |->
                  row.time[s] + (IF s = gap.left THEN left ELSE 0)
                              + (IF s = gap.right THEN right ELSE 0)]
    BY <1>4 DEF CreditGap, middle
  <2> HIDE DEF new
  <2> QED  BY <1>4, <1>5, <2>1
<1>8. new.gap \in Nat
  <2>1. new.gap = later(row.gap, gap.end - gap.start)
    BY DEF CreditGap
  <2>2. gap.end - gap.start \in Nat
    BY <1>1, <1>2
  <2> HIDE DEF new
  <2> QED  BY <1>5, <2>1, <2>2 DEF later
<1>9. new.transitions \in Nat
  BY <1>5 DEF CreditGap
<1>10. new.uncertainty \in Nat
  <2>1. new.uncertainty = row.uncertainty + (IF gap.changed THEN later(left, right) ELSE 0)
    BY <1>4 DEF CreditGap, middle
  <2> HIDE DEF new
  <2> QED  BY <1>4, <1>5, <2>1 DEF later
<1>11. new.schedstat \in [Counters -> Nat]
  <2>1. new.schedstat = IF gap.schedstat = NoDeltas THEN row.schedstat
                    ELSE [c \in Counters |->
                            row.schedstat[c] + Share(gap.schedstat[c], gap, i)]
    BY DEF CreditGap
  <2>2. CASE gap.schedstat = NoDeltas
    BY <1>5, <2>1, <2>2
  <2>3. CASE gap.schedstat # NoDeltas
    <3>1. \A c \in Counters : gap.schedstat[c] \in Nat
      BY <2>3 DEF IsGap
    <3>2. \A c \in Counters : row.schedstat[c] + Share(gap.schedstat[c], gap, i) \in Nat
      BY <1>2, <1>5, <3>1
    <3> HIDE DEF new
    <3> QED  BY <2>1, <2>3, <3>2
  <2> QED  BY <2>2, <2>3
<1>12. new.pairs \in Nat /\ new.resets \in Nat /\ new.delayPairs \in Nat /\ new.delayResets \in Nat
  <2>1. /\ new.pairs = row.pairs + (IF gap.schedstat = NoDeltas THEN 0 ELSE 1)
        /\ new.resets = row.resets + (IF gap.reset THEN 1 ELSE 0)
    BY DEF CreditGap
  <2>2. /\ new.delayPairs = row.delayPairs + (IF gap.delays = << >> THEN 0 ELSE 1)
        /\ new.delayResets = row.delayResets + gap.resets
    BY DEF CreditGap
  <2>3. PICK a, b, c \in Nat :
          /\ a = IF gap.schedstat = NoDeltas THEN 0 ELSE 1
          /\ b = IF gap.reset THEN 1 ELSE 0
          /\ c = IF gap.delays = << >> THEN 0 ELSE 1
    OBVIOUS
  <2>4. /\ new.pairs = row.pairs + a /\ new.resets = row.resets + b
        /\ new.delayPairs = row.delayPairs + c
    BY <2>1, <2>2, <2>3
  <2>5. row.pairs \in Nat /\ row.resets \in Nat /\ row.delayPairs \in Nat /\ row.delayResets \in Nat
    BY <1>5
  <2>6. gap.resets \in Nat /\ new.delayResets = row.delayResets + gap.resets
    BY <1>1, <2>2
  <2> HIDE DEF new
  <2>7. new.pairs \in Nat /\ new.resets \in Nat /\ new.delayPairs \in Nat
    BY <2>4, <2>5
  <2> QED  BY <2>5, <2>6, <2>7
<1>13. IsDelays(new.delays)
  <2> DEFINE value == [k \in DOMAIN row.delays \cup DOMAIN gap.delays |->
                    IF k \notin DOMAIN gap.delays THEN row.delays[k]
                    ELSE [count |-> DelayOf(row.delays, k).count
                                      + Share(gap.delays[k].count, gap, i),
                          total |-> DelayOf(row.delays, k).total
                                      + Share(gap.delays[k].total, gap, i)]]
  <2>1. new.delays = value
    BY DEF CreditGap
  <2>2. \A k : DelayOf(row.delays, k) \in [count : Nat, total : Nat]
    BY <1>5 DEF DelayOf, IsDelays
  <2>3. \A k \in DOMAIN gap.delays : gap.delays[k] \in [count : Nat, total : Nat]
    BY <1>1 DEF IsDelays
  <2>4. ASSUME NEW k \in DOMAIN gap.delays
        PROVE  [count |-> DelayOf(row.delays, k).count + Share(gap.delays[k].count, gap, i),
                total |-> DelayOf(row.delays, k).total + Share(gap.delays[k].total, gap, i)]
                 \in [count : Nat, total : Nat]
    <3>1. PICK old, delta : old = DelayOf(row.delays, k) /\ delta = gap.delays[k]
      OBVIOUS
    <3>2. old.count \in Nat /\ old.total \in Nat /\ delta.count \in Nat /\ delta.total \in Nat
      BY <2>2, <2>3, <2>4, <3>1
    <3>3. Share(delta.count, gap, i) \in Nat /\ Share(delta.total, gap, i) \in Nat
      BY <1>2, <3>2
    <3> QED  BY <3>1, <3>2, <3>3
  <2>5. \A k \in DOMAIN row.delays : row.delays[k] \in [count : Nat, total : Nat]
    BY <1>5 DEF IsDelays
  <2>6. value \in [DOMAIN value -> [count : Nat, total : Nat]]
    BY <2>4, <2>5
  <2> HIDE DEF value, new
  <2> QED  BY <2>1, <2>6 DEF IsDelays
<1>14. new = [samples |-> new.samples, observed |-> new.observed, time |-> new.time,
                     gap |-> new.gap, transitions |-> new.transitions,
                     uncertainty |-> new.uncertainty, schedstat |-> new.schedstat,
                     pairs |-> new.pairs, resets |-> new.resets, delays |-> new.delays,
                     delayPairs |-> new.delayPairs, delayResets |-> new.delayResets]
  BY DEF CreditGap
<1> HIDE DEF new
<1>15. IsRow(new)
  BY <1>6, <1>7, <1>8, <1>9, <1>10, <1>11, <1>12, <1>13, <1>14, RowFields
<1> QED  BY <1>15 DEF new

LEMMA EmptyTypes == IsRow(NoRow) /\ IsWindow(NoWindow)
<1>1. NoRow.delays = << >> /\ IsDelays(<< >>)
  BY DEF NoRow, IsDelays
<1>2. IsRow(NoRow)
  BY <1>1, RowFields DEF NoRow
<1>3. DOMAIN NoWindow.stats = {}
  BY DEF NoWindow
<1> QED  BY <1>2, <1>3 DEF IsWindow, NoWindow

LEMMA RowOfIsRow ==
  ASSUME NEW w, IsWindow(w), NEW id
  PROVE  IsRow(RowOf(w, id))
BY EmptyTypes DEF RowOf, IsWindow

LEMMA CountedRowType ==
  ASSUME NEW row, IsRow(row)
  PROVE  IsRow([row EXCEPT !.samples = @ + 1])
<1>1. PICK new : new = [row EXCEPT !.samples = @ + 1]
  OBVIOUS
<1>2. /\ row.samples \in Nat
      /\ row = [samples |-> row.samples, observed |-> row.observed, time |-> row.time,
                     gap |-> row.gap, transitions |-> row.transitions,
                     uncertainty |-> row.uncertainty, schedstat |-> row.schedstat,
                     pairs |-> row.pairs, resets |-> row.resets, delays |-> row.delays,
                     delayPairs |-> row.delayPairs, delayResets |-> row.delayResets]
  BY RowFields
<1>3. /\ new.samples = row.samples + 1 /\ new.observed = row.observed /\ new.time = row.time
      /\ new.gap = row.gap /\ new.transitions = row.transitions
      /\ new.uncertainty = row.uncertainty /\ new.schedstat = row.schedstat
      /\ new.pairs = row.pairs /\ new.resets = row.resets /\ new.delays = row.delays
      /\ new.delayPairs = row.delayPairs /\ new.delayResets = row.delayResets
  BY <1>1, <1>2
<1>4. new = [samples |-> new.samples, observed |-> new.observed, time |-> new.time,
                     gap |-> new.gap, transitions |-> new.transitions,
                     uncertainty |-> new.uncertainty, schedstat |-> new.schedstat,
                     pairs |-> new.pairs, resets |-> new.resets, delays |-> new.delays,
                     delayPairs |-> new.delayPairs, delayResets |-> new.delayResets]
  BY <1>1, <1>2
<1>5. IsRow(new)
  BY <1>2, <1>3, <1>4, RowFields
<1> QED  BY <1>1, <1>5

LEMMA WindowOfIsWindow ==
  ASSUME TypeOK, NEW i
  PROVE  IsWindow(WindowOf(i))
BY EmptyTypes DEF TypeOK, WindowOf

LEMMA AfterType ==
  ASSUME TimeInv, TypeOK, NEW snapshot, IsSnapshot(snapshot), snapshot.started >= finished,
         NEW i \in Nat
  PROVE  IsWindow(After(i, snapshot))
<1>1. IsWindow(WindowOf(i))
  BY WindowOfIsWindow
<1> SUFFICES ASSUME i \in Affected(snapshot)  PROVE  IsWindow(Credited(i, snapshot))
  BY <1>1 DEF After
<1> DEFINE window == WindowOf(i)
           gapped == {id \in DOMAIN previous : GapTouches(id, snapshot, i)}
           sampled == {id \in DOMAIN snapshot.samples : SampledIn(id, snapshot, i)}
           Counted(id) == IF id \in sampled THEN [RowOf(window, id) EXCEPT !.samples = @ + 1]
                          ELSE RowOf(window, id)
           Row(id) == IF id \in gapped THEN CreditGap(Counted(id), GapOf(id, snapshot), i)
                      ELSE Counted(id)
           gaps == {GapEnd(id, snapshot) - previous[id].at : id \in gapped}
           ids == DOMAIN window.stats \cup gapped \cup sampled
           stats == [id \in ids |-> Row(id)]
           scans == window.scans + (IF i \in ScannedWindows(snapshot) THEN 1 ELSE 0)
           gap == Max({window.gap} \cup gaps)
<1>2. Credited(i, snapshot) = [stats |-> stats, scans |-> scans, gap |-> gap]
  BY DEF Credited
<1>3. origin \in Nat /\ snapshot.finished \in Nat /\ SampledOK
  BY DEF TypeOK, IsSnapshot, SampledOK
<1>4. ASSUME NEW id  PROVE  IsRow(Row(id))
  <2>1. IsRow(Counted(id))
    BY <1>1, RowOfIsRow, CountedRowType
  <2>2. CASE id \in gapped
    <3>1. IsGap(GapOf(id, snapshot)) /\ Overlap(i, GapOf(id, snapshot).start, GapOf(id, snapshot).end) > 0
      BY <1>3, <2>2, GapType DEF GapTouches, TouchedWindows
    <3> HIDE DEF Counted
    <3>2. IsRow(CreditGap(Counted(id), GapOf(id, snapshot), i))
      BY <1>3, <2>1, <3>1, CreditGapType
    <3> QED  BY <2>2, <3>2
  <2>3. CASE id \notin gapped
    BY <2>1, <2>3
  <2> QED  BY <2>2, <2>3
<1>5. window.scans \in Nat /\ window.gap \in Nat /\ DOMAIN window.stats \subseteq IdentityType
  BY <1>1 DEF IsWindow
<1>6. ids \subseteq IdentityType
  BY <1>5 DEF TypeOK, IsSnapshot
<1>7. gap \in Nat
  <2>1. \A id \in DOMAIN previous :
          /\ GapEnd(id, snapshot) - previous[id].at \in Nat
          /\ GapEnd(id, snapshot) - previous[id].at <= snapshot.finished + window.gap
    <3>1. ASSUME NEW id \in DOMAIN previous
          PROVE  /\ GapEnd(id, snapshot) \in Nat /\ previous[id].at \in Nat
                 /\ previous[id].at <= GapEnd(id, snapshot) /\ GapEnd(id, snapshot) <= snapshot.finished
      BY <1>3, GapType DEF IsGap
    <3> HIDE DEF window
    <3> QED  BY <1>3, <1>5, <3>1
  <2> DEFINE S == {window.gap} \cup gaps
  <2>2. S \in SUBSET Nat /\ S # {} /\ \A y \in S : y <= snapshot.finished + window.gap
    <3> HIDE DEF window
    <3> QED  BY <1>3, <1>5, <2>1
  <2>3. snapshot.finished + window.gap \in Nat
    BY <1>3, <1>5
  <2> HIDE DEF S, window
  <2>4. Max(S) \in Nat
    BY <2>2, <2>3, MaxIsGreatest
  <2> QED  BY <2>4 DEF S, window
<1>8. scans \in Nat
  <2> HIDE DEF window
  <2> QED  BY <1>5
<1>9. DOMAIN stats = ids /\ \A id \in ids : stats[id] = Row(id)
  OBVIOUS
<1> HIDE DEF Row, ids, gap, scans, stats
<1>10. \A id \in DOMAIN stats : IsRow(stats[id])
  BY <1>4, <1>9
<1> QED  BY <1>2, <1>6, <1>7, <1>8, <1>9, <1>10 DEF IsWindow

LEMMA CountedType ==
  ASSUME TimeInv, TypeOK, NEW snapshot, IsSnapshot(snapshot), snapshot.started >= finished, NEW id
  PROVE  /\ CountedBefore(id) \in [Counters -> Nat] /\ CountedAfter(id, snapshot) \in [Counters -> Nat]
         /\ \A c \in Counters, v \in Nat :
              GapEnd(id, snapshot) > previous[id].at /\ id \in DOMAIN previous
                => Increase(v, GapOf(id, snapshot)) \in Nat
<1>1. CountedBefore(id) \in [Counters -> Nat]
  BY DEF CountedBefore, TypeOK
<1>2. SampledOK /\ origin \in Nat
  BY DEF TypeOK, SampledOK
<1>3. ASSUME id \in DOMAIN previous, GapOf(id, snapshot).end > GapOf(id, snapshot).start, NEW v \in Nat
      PROVE  Increase(v, GapOf(id, snapshot)) \in Nat
  <2>1. PICK gap : gap = GapOf(id, snapshot)
    OBVIOUS
  <2>2. gap.start \in Nat /\ gap.end \in Nat /\ gap.start < gap.end
    BY <1>2, <1>3, <2>1, GapType DEF IsGap
  <2> SUFFICES ASSUME ~(gap.end <= origin)  PROVE  Increase(v, gap) \in Nat
    BY <2>1 DEF Increase
  <2>3. later(gap.start, origin) \in gap.start .. gap.end
    BY <1>2, <2>2 DEF later
  <2>4. /\ Part(v, gap, later(gap.start, origin)) \in Nat
        /\ Part(v, gap, later(gap.start, origin)) <= v
    BY <2>2, <2>3, PartBounds
  <2>5. Increase(v, gap) = v - Part(v, gap, later(gap.start, origin))
    BY DEF Increase, Part
  <2> QED  BY <2>4, <2>5
<1>4. CountedAfter(id, snapshot) \in [Counters -> Nat]
  <2> DEFINE gap == GapOf(id, snapshot)
             moves == id \in DOMAIN previous /\ gap.end > gap.start /\ gap.schedstat # NoDeltas
  <2>1. CASE moves
    <3>1. IsGap(gap)
      BY <1>2, <2>1, GapType
    <3>2. gap.schedstat \in [Counters -> Nat]
      BY <2>1, <3>1 DEF IsGap
    <3>3. \A c \in Counters : CountedBefore(id)[c] + Increase(gap.schedstat[c], gap) \in Nat
      BY <1>1, <1>3, <2>1, <3>2
    <3>4. CountedAfter(id, snapshot) =
            [c \in Counters |-> CountedBefore(id)[c] + Increase(gap.schedstat[c], gap)]
      BY <2>1 DEF CountedAfter
    <3> HIDE DEF gap
    <3> QED  BY <3>3, <3>4
  <2>2. CASE ~moves
    <3>1. CountedAfter(id, snapshot) = CountedBefore(id)
      BY <2>2 DEF CountedAfter
    <3> QED  BY <1>1, <3>1
  <2> QED  BY <2>1, <2>2
<1>5. \A v \in Nat :
        GapEnd(id, snapshot) > previous[id].at /\ id \in DOMAIN previous
          => Increase(v, GapOf(id, snapshot)) \in Nat
  BY <1>2, <1>3, GapType
<1> QED  BY <1>1, <1>4, <1>5

LEMMA RememberType ==
  ASSUME TimeInv, TypeOK, NEW snapshot, IsSnapshot(snapshot), snapshot.started >= finished,
         Remember(snapshot)
  PROVE  /\ finished' \in Nat /\ DOMAIN previous' \subseteq IdentityType
         /\ \A id \in DOMAIN previous' : IsSample(previous'[id])
         /\ since' \in [DOMAIN previous' -> Nat]
         /\ counted' \in [DOMAIN counted' -> [Counters -> Nat]]
<1>1. IsTimed(snapshot)
  BY DEF IsSnapshot, IsSample, IsTimed
<1>2. /\ finished' \in Nat /\ DOMAIN previous' \subseteq IdentityType
      /\ \A id \in DOMAIN previous' : since'[id] \in Nat
  BY <1>1, RememberTimes
<1>3. \A id \in DOMAIN previous' : IsSample(previous'[id])
  BY DEF Remember, IsSnapshot
<1>4. since' \in [DOMAIN previous' -> Nat]
  <2>1. since' = [id \in DOMAIN previous' |-> since'[id]]
    BY DEF Remember
  <2> QED  BY <1>2, <2>1
<1>5. counted' \in [DOMAIN counted' -> [Counters -> Nat]]
  <2>1. counted' = [id \in DOMAIN previous \cup DOMAIN counted |-> CountedAfter(id, snapshot)]
    BY DEF Remember
  <2>2. \A id : CountedAfter(id, snapshot) \in [Counters -> Nat]
    BY CountedType
  <2> QED  BY <2>1, <2>2
<1> QED  BY <1>2, <1>3, <1>4, <1>5

LEMMA ScannedType ==
  ASSUME NEW snapshot, IsTimed(snapshot), origin' \in Nat, nextWindow' \in Nat
  PROVE  ScannedWindows(snapshot)' \in SUBSET Nat /\ IsFiniteSet(ScannedWindows(snapshot)')
<1>1. snapshot.finished \in Nat /\ snapshot.started \in Nat
  BY DEF IsTimed
<1>2. CASE snapshot.finished <= origin'
  <2>1. ScannedWindows(snapshot)' = {0}
    BY <1>1, <1>2 DEF ScannedWindows
  <2>2. IsFiniteSet({0})
    BY FS_Singleton
  <2> QED  BY <2>1, <2>2
<1>3. CASE snapshot.finished > origin'
  <2>1. WindowIndex(snapshot.finished)' \in Nat
    <3>1. snapshot.finished - origin' \in Nat
      BY <1>1, <1>3
    <3> QED  BY <1>3, <3>1, DivisionBounds DEF WindowIndex
  <2>2. /\ TouchedWindows(snapshot.started, snapshot.finished)' \in SUBSET Nat
        /\ IsFiniteSet(TouchedWindows(snapshot.started, snapshot.finished)')
    <3> DEFINE T == TouchedWindows(snapshot.started, snapshot.finished)'
               R == nextWindow' .. WindowIndex(snapshot.finished)'
    <3>1. T \subseteq R
      BY DEF TouchedWindows
    <3>2. IsFiniteSet(R)
      BY <2>1, FS_Interval
    <3>3. R \subseteq Nat
      OBVIOUS
    <3> HIDE DEF T, R
    <3> QED  BY <3>1, <3>2, <3>3, FS_Subset DEF T
  <2>3. \/ ScannedWindows(snapshot)' = TouchedWindows(snapshot.started, snapshot.finished)'
        \/ ScannedWindows(snapshot)' = {WindowIndex(snapshot.finished)'}
    <3>1. ~(snapshot.finished <= origin')
      BY <1>1, <1>3
    <3> QED  BY <1>3, <3>1 DEF ScannedWindows
  <2>4. CASE ScannedWindows(snapshot)' = TouchedWindows(snapshot.started, snapshot.finished)'
    BY <2>2, <2>4
  <2>5. CASE ScannedWindows(snapshot)' = {WindowIndex(snapshot.finished)'}
    <3>1. PICK k \in Nat : k = WindowIndex(snapshot.finished)'
      BY <2>1
    <3>2. IsFiniteSet({k})
      BY FS_Singleton
    <3> QED  BY <2>5, <3>1, <3>2
  <2> QED  BY <2>3, <2>4, <2>5
<1> QED  BY <1>1, <1>2, <1>3

LEMMA FirstType ==
  ASSUME TimeInv, TypeOK, NEW snapshot, IsSnapshot(snapshot), snapshot.started >= finished,
         ObserveFirst(snapshot), Remember(snapshot)
  PROVE  TypeOK' /\ IsFiniteSet(DOMAIN windows')
<1>1. IsTimed(snapshot)
  BY DEF IsSnapshot, IsSample, IsTimed
<1>2. /\ initialized' = TRUE /\ nextWindow' = nextWindow /\ reports' = reports /\ nextWindow = 0
      /\ origin' = IF origin = NoTime THEN snapshot.finished ELSE origin
  BY DEF ObserveFirst, TimeInv
<1>3. origin' \in Nat /\ nextWindow' \in Nat
  BY <1>1, <1>2 DEF TypeOK, IsTimed
<1> DEFINE scanned == ScannedWindows(snapshot)'
           ids == DOMAIN snapshot.samples
           once == [NoRow EXCEPT !.samples = 1]
           first == [i \in scanned \cup (IF ids = {} THEN {} ELSE {0}) |->
             [stats |-> [id \in IF i = 0 THEN ids ELSE {} |-> once],
              scans |-> IF i \in scanned THEN 1 ELSE 0, gap |-> 0]]
<1>4. windows' = first
  BY DEF ObserveFirst
<1>5. scanned \in SUBSET Nat /\ IsFiniteSet(scanned)
  BY <1>1, <1>3, ScannedType
<1>6. IsRow(once)
  <2>1. IsRow([NoRow EXCEPT !.samples = @ + 1])
    BY EmptyTypes, CountedRowType
  <2>2. once = [NoRow EXCEPT !.samples = @ + 1]
    BY DEF NoRow
  <2> QED  BY <2>1, <2>2
<1>7. ids \subseteq IdentityType
  BY DEF IsSnapshot
<1> HIDE DEF scanned, ids, once
<1>8. DOMAIN windows' \in SUBSET Nat /\ IsFiniteSet(DOMAIN windows')
  <2>1. DOMAIN windows' = scanned \cup (IF ids = {} THEN {} ELSE {0})
    BY <1>4
  <2>2. IsFiniteSet(scanned \cup {0})
    BY <1>5, FS_AddElement
  <2>3. DOMAIN windows' \subseteq scanned \cup {0}
    BY <2>1
  <2>4. IsFiniteSet(DOMAIN windows')
    BY <2>2, <2>3, FS_Subset
  <2>5. scanned \cup {0} \subseteq Nat
    BY <1>5
  <2> HIDE DEF first
  <2> QED  BY <2>3, <2>4, <2>5
<1>9. ASSUME NEW i \in DOMAIN windows'  PROVE  i >= nextWindow' /\ IsWindow(windows'[i])
  <2> DEFINE stats == [id \in IF i = 0 THEN ids ELSE {} |-> once]
  <2>1. windows'[i] = [stats |-> stats, scans |-> IF i \in scanned THEN 1 ELSE 0, gap |-> 0]
    BY <1>4, <1>9
  <2>2. DOMAIN stats \subseteq IdentityType /\ \A id \in DOMAIN stats : IsRow(stats[id])
    BY <1>6, <1>7
  <2> HIDE DEF stats
  <2>3. IsWindow(windows'[i])
    BY <2>1, <2>2 DEF IsWindow
  <2> QED  BY <1>2, <1>8, <2>3
<1>10. /\ finished' \in Nat /\ DOMAIN previous' \subseteq IdentityType
       /\ \A id \in DOMAIN previous' : IsSample(previous'[id])
       /\ since' \in [DOMAIN previous' -> Nat]
       /\ counted' \in [DOMAIN counted' -> [Counters -> Nat]]
  BY RememberType
<1>11. DOMAIN reports' = 0 .. nextWindow' - 1 /\ \A i \in DOMAIN reports' : IsWindow(reports'[i])
  BY <1>2 DEF TypeOK
<1> QED  BY <1>2, <1>3, <1>8, <1>9, <1>10, <1>11 DEF TypeOK

LEMMA NextType ==
  ASSUME TimeInv, TypeOK, NEW snapshot, IsSnapshot(snapshot), snapshot.started >= finished,
         ObserveNext(snapshot), Remember(snapshot)
  PROVE  TypeOK'
<1>1. IsTimed(snapshot)
  BY DEF IsSnapshot, IsSample, IsTimed
<1>2. /\ UNCHANGED <<initialized, origin>>
      /\ nextWindow' \in Nat /\ nextWindow <= nextWindow'
      /\ DOMAIN windows' \subseteq Nat
      /\ \A i \in Nat : i >= nextWindow' => WindowOf(i)' = After(i, snapshot)
      /\ DOMAIN reports' = 0 .. nextWindow' - 1
      /\ \A i \in DOMAIN reports' :
           IF i < nextWindow THEN reports'[i] = reports[i]
           ELSE reports'[i] = After(i, snapshot) /\ WindowEnd(i) <= Watermark(snapshot)
  BY <1>1, NextWindows
<1>3. \A i \in Nat : IsWindow(After(i, snapshot))
  BY AfterType
<1>4. \A i \in DOMAIN windows' : i >= nextWindow' /\ IsWindow(windows'[i])
  <2>1. \A i \in DOMAIN windows' : i >= nextWindow'
    BY DEF ObserveNext
  <2> QED  BY <1>2, <1>3, <2>1 DEF WindowOf
<1>5. \A i \in DOMAIN reports' : IsWindow(reports'[i])
  <2>1. \A i \in DOMAIN reports' : i \in Nat /\ (i < nextWindow => i \in DOMAIN reports)
    BY <1>2 DEF TypeOK
  <2> QED  BY <1>2, <1>3, <2>1 DEF TypeOK
<1>6. /\ finished' \in Nat /\ DOMAIN previous' \subseteq IdentityType
      /\ \A id \in DOMAIN previous' : IsSample(previous'[id])
      /\ since' \in [DOMAIN previous' -> Nat]
      /\ counted' \in [DOMAIN counted' -> [Counters -> Nat]]
  BY RememberType
<1> QED  BY <1>2, <1>4, <1>5, <1>6 DEF TypeOK

\* The inductive invariant on types, with the finiteness of the maps of windows.
StateInv == CoverInv /\ TypeOK /\ IsFiniteSet(DOMAIN windows)

LEMMA NextFinite ==
  ASSUME StateInv, NEW snapshot, IsSnapshot(snapshot), ObserveNext(snapshot)
  PROVE  IsFiniteSet(DOMAIN windows')
<1> DEFINE R == nextWindow .. WindowIndex(snapshot.finished)
           all == DOMAIN windows \cup R
<1>1. DOMAIN windows' \subseteq all
  BY DEF ObserveNext, Affected
<1>2. nextWindow \in Nat /\ WindowIndex(snapshot.finished) \in Nat
  <2>1. snapshot.finished \in Nat /\ origin \in Nat /\ nextWindow \in Nat
    BY DEF StateInv, TypeOK, IsSnapshot
  <2>2. snapshot.finished > origin => snapshot.finished - origin \in Nat
    BY <2>1
  <2> QED  BY <2>1, <2>2, DivisionBounds DEF WindowIndex
<1>3. IsFiniteSet(R) /\ IsFiniteSet(DOMAIN windows)
  BY <1>2, FS_Interval DEF StateInv
<1>4. IsFiniteSet(all)
  <2> HIDE DEF R
  <2> QED  BY <1>3, FS_Union
<1> HIDE DEF all
<1> QED  BY <1>1, <1>4, FS_Subset

LEMMA TypeStep == StateInv /\ [Next]_vars => StateInv'
<1> SUFFICES ASSUME StateInv, [Next]_vars  PROVE  StateInv'
  OBVIOUS
<1>1. CASE Next
  <2>1. PICK snapshot \in Snapshots : snapshot.started >= finished /\ Observe(snapshot)
    BY <1>1 DEF Next
  <2>2. IsSnapshot(snapshot) /\ IsTimed(snapshot) /\ TimeInv /\ TypeOK /\ CoverInv
    BY SnapshotsAssumption DEF IsSnapshot, IsSample, IsTimed, StateInv, CoverInv
  <2>3. CoverInv'
    BY <2>1, <2>2, ObserveCovers
  <2>4. TypeOK' /\ IsFiniteSet(DOMAIN windows')
    BY <2>1, <2>2, FirstType, NextType, NextFinite DEF Observe
  <2> QED  BY <2>3, <2>4 DEF StateInv
<1>2. CASE UNCHANGED vars
  <2>1. CoverInv'
    BY <1>2, StutteringCovers DEF StateInv
  <2>2. TypeOK' /\ IsFiniteSet(DOMAIN windows')
    BY <1>2 DEF StateInv, TypeOK, vars, ghosts
  <2> QED  BY <2>1, <2>2 DEF StateInv
<1> QED  BY <1>1, <1>2

LEMMA InitTyped == Init => StateInv
<1> SUFFICES ASSUME Init  PROVE  StateInv
  OBVIOUS
<1>1. /\ initialized = FALSE /\ origin \in Nat /\ nextWindow = 0 /\ finished = 0
      /\ DOMAIN previous = {} /\ DOMAIN windows = {} /\ DOMAIN reports = {}
      /\ since = << >> /\ counted = << >>
  BY OriginsAssumption DEF Init, NoTime
<1>2. 0 .. nextWindow - 1 = {} /\ DOMAIN since = {} /\ DOMAIN counted = {}
  BY <1>1
<1>3. since \in [DOMAIN previous -> Nat] /\ counted \in [DOMAIN counted -> [Counters -> Nat]]
  <2>1. since \in [{} -> Nat] /\ counted \in [{} -> [Counters -> Nat]]
    BY <1>1
  <2> QED  BY <1>1, <1>2, <2>1
<1>4. TypeOK
  BY <1>1, <1>2, <1>3 DEF TypeOK
<1>5. IsFiniteSet(DOMAIN windows)
  BY <1>1, FS_EmptySet
<1> QED  BY <1>4, <1>5, InitCovers DEF StateInv

\* The types of the accumulator: its samples, its open windows from the next to report
\* on, and one report for each window before (Observe, finalizeThrough).
THEOREM StateInvariant == Spec => []StateInv
BY InitTyped, TypeStep, PTL DEF Spec

\* ... of which the types are a part that a reader can check.
THEOREM TypeCorrect == Spec => []TypeOK
<1>1. StateInv => TypeOK
  BY DEF StateInv
<1> QED  BY <1>1, StateInvariant, PTL

----------------------------------------------------------------------------
(* The rows of a TID *)

\* What the scans of proc and taskstats guarantee, and merged scans do not.
ReadsTidsOnce(samples) ==
  \A left, right \in DOMAIN samples : left.tid = right.tid => left = right

\* The time in the rows of a TID.
TimeOf(w, tid) ==
  SumFunction([id \in RowsOfOneTid(w.stats, tid) |-> w.stats[id].observed])

\* The sum over any finite set that has all the rows of the TID.
HasRows(S, f, w, tid) ==
  /\ IsWindow(w) /\ IsFiniteSet(S) /\ RowsOfOneTid(w.stats, tid) \subseteq S
  /\ \A id \in S : id.tid = tid /\ f[id] = Observed(w, id)

LEMMA ObservedType ==
  ASSUME NEW w, IsWindow(w), NEW id
  PROVE  /\ Observed(w, id) \in Nat
         /\ id \notin DOMAIN w.stats => Observed(w, id) = 0
         /\ id \in DOMAIN w.stats => Observed(w, id) = w.stats[id].observed
<1>1. IsRow(RowOf(w, id))
  BY RowOfIsRow
<1>2. RowOf(w, id).observed \in Nat
  BY <1>1, RowFields
<1> QED  BY <1>2 DEF Observed, RowOf, NoRow

LEMMA TimeOver ==
  ASSUME NEW w, NEW tid, NEW S, NEW f, HasRows(S, f, w, tid)
  PROVE  TimeOf(w, tid) = SumFunctionOnSet(f, S) /\ TimeOf(w, tid) \in Nat /\ \A id \in S : f[id] \in Nat
<1> DEFINE T == RowsOfOneTid(w.stats, tid)
           g == [id \in T |-> w.stats[id].observed]
<1>1. IsWindow(w) /\ IsFiniteSet(S) /\ T \subseteq S /\ \A id \in S : id.tid = tid /\ f[id] = Observed(w, id)
  BY DEF HasRows
<1>2. TimeOf(w, tid) = SumFunctionOnSet(g, T)
  BY DEF TimeOf, SumFunction
<1>3. \A id \in S : f[id] \in Nat
  BY <1>1, ObservedType
<1>4. \A id \in S \ T : f[id] = 0
  BY <1>1, ObservedType DEF RowsOfOneTid
<1>5. \A id \in T : g[id] = f[id] /\ f[id] \in Int
  <2>1. \A id \in T : g[id] = w.stats[id].observed /\ id \in DOMAIN w.stats /\ id \in S
    BY <1>1 DEF RowsOfOneTid
  <2> HIDE DEF T, g
  <2> QED  BY <1>1, <1>3, <2>1, ObservedType
<1>6. IsFiniteSet(T)
  BY <1>1, FS_Subset
<1> HIDE DEF T, g
<1>7. SumFunctionOnSet(f, S) = SumFunctionOnSet(f, T)
  BY <1>1, <1>3, <1>4, SumOfSupport
<1>8. SumFunctionOnSet(f, T) = SumFunctionOnSet(g, T)
  BY <1>5, <1>6, SumSame
<1>9. SumFunctionOnSet(f, S) \in Nat
  BY <1>1, <1>3, SumNat
<1> QED  BY <1>2, <1>3, <1>7, <1>8, <1>9

\* What two windows must be for a set with the rows of both.
Comparable(left, right, more, tid) ==
  /\ IsWindow(left) /\ IsFiniteSet(DOMAIN left.stats)
  /\ IsWindow(right) /\ IsFiniteSet(DOMAIN right.stats)
  /\ IsFiniteSet(more) /\ \A id \in more : id.tid = tid

\* Some set of rows does, and it may be chosen for two windows at once.
LEMMA RowsExist ==
  ASSUME NEW left, NEW right, NEW more, NEW tid, Comparable(left, right, more, tid)
  PROVE  \E S, f, g : HasRows(S, f, left, tid) /\ HasRows(S, g, right, tid) /\ more \subseteq S
<1> DEFINE S == RowsOfOneTid(left.stats, tid) \cup RowsOfOneTid(right.stats, tid) \cup more
           f == [id \in S |-> Observed(left, id)]
           g == [id \in S |-> Observed(right, id)]
<1>1. IsFiniteSet(S)
  <2>1. IsFiniteSet(RowsOfOneTid(left.stats, tid)) /\ IsFiniteSet(RowsOfOneTid(right.stats, tid))
    BY FS_Subset DEF RowsOfOneTid, Comparable
  <2>2. IsFiniteSet(RowsOfOneTid(left.stats, tid) \cup RowsOfOneTid(right.stats, tid))
    BY <2>1, FS_Union
  <2> QED  BY <2>2, FS_Union DEF Comparable
<1>2. \A id \in S : id.tid = tid /\ f[id] = Observed(left, id) /\ g[id] = Observed(right, id)
  BY DEF RowsOfOneTid, Comparable
<1>3. RowsOfOneTid(left.stats, tid) \subseteq S /\ RowsOfOneTid(right.stats, tid) \subseteq S /\ more \subseteq S
  OBVIOUS
<1> HIDE DEF S, f, g
<1>4. HasRows(S, f, left, tid) /\ HasRows(S, g, right, tid)
  BY <1>1, <1>2, <1>3 DEF HasRows, Comparable
<1> QED  BY <1>3, <1>4

Finite ==
  /\ IsFiniteSet(DOMAIN previous)
  /\ \A i \in Nat : IsFiniteSet(DOMAIN WindowOf(i).stats)

LEMMA AfterFinite ==
  ASSUME Finite, NEW snapshot, IsSnapshot(snapshot), NEW i \in Nat
  PROVE  IsFiniteSet(DOMAIN After(i, snapshot).stats)
<1> SUFFICES ASSUME i \in Affected(snapshot)  PROVE  IsFiniteSet(DOMAIN Credited(i, snapshot).stats)
  BY DEF After, Finite
<1> DEFINE gapped == {id \in DOMAIN previous : GapTouches(id, snapshot, i)}
           sampled == {id \in DOMAIN snapshot.samples : SampledIn(id, snapshot, i)}
<1>1. DOMAIN Credited(i, snapshot).stats = DOMAIN WindowOf(i).stats \cup gapped \cup sampled
  BY DEF Credited
<1>2. IsFiniteSet(DOMAIN WindowOf(i).stats) /\ IsFiniteSet(gapped) /\ IsFiniteSet(sampled)
  BY FS_Subset DEF Finite, IsSnapshot
<1> HIDE DEF gapped, sampled
<1>3. IsFiniteSet(DOMAIN WindowOf(i).stats \cup gapped)
  BY <1>2, FS_Union
<1> QED  BY <1>1, <1>2, <1>3, FS_Union

\* A snapshot adds to the rows of a TID the gap of its one thread.
LEMMA AfterTime ==
  ASSUME StateInv, Finite, ReadsTidsOnce(previous),
         NEW snapshot, IsSnapshot(snapshot), snapshot.started >= finished,
         NEW i \in Nat, i >= nextWindow, NEW tid
  PROVE  /\ TimeOf(WindowOf(i), tid) \in Nat /\ TimeOf(After(i, snapshot), tid) \in Nat
         /\ \A id \in DOMAIN previous : id.tid = tid =>
              TimeOf(After(i, snapshot), tid) = TimeOf(WindowOf(i), tid) + Gain(i, id, snapshot)
         /\ (\A id \in DOMAIN previous : id.tid # tid) =>
              TimeOf(After(i, snapshot), tid) = TimeOf(WindowOf(i), tid)
<1>0. PICK old, new : old = WindowOf(i) /\ new = After(i, snapshot)
  OBVIOUS
<1>1. IsTimed(snapshot) /\ TimeInv /\ TypeOK
  BY DEF IsSnapshot, IsSample, IsTimed, StateInv, CoverInv
<1>2. /\ IsWindow(old) /\ IsWindow(new)
      /\ IsFiniteSet(DOMAIN old.stats) /\ IsFiniteSet(DOMAIN new.stats)
  BY <1>0, <1>1, WindowOfIsWindow, AfterType, AfterFinite DEF Finite
<1>3. \A id : Observed(new, id) = Observed(old, id) + Gain(i, id, snapshot)
  BY <1>0, <1>1, AfterObserved
<1>4. PICK more : more = {id \in DOMAIN previous : id.tid = tid}
  OBVIOUS
<1>5. PICK S, f, g : HasRows(S, f, old, tid) /\ HasRows(S, g, new, tid) /\ more \subseteq S
  <2>1. IsFiniteSet(more)
    BY <1>4, FS_Subset DEF Finite
  <2>2. Comparable(old, new, more, tid)
    BY <1>2, <1>4, <2>1 DEF Comparable
  <2> QED  BY <2>2, RowsExist
<1>6. /\ TimeOf(old, tid) = SumFunctionOnSet(f, S) /\ TimeOf(old, tid) \in Nat
      /\ TimeOf(new, tid) = SumFunctionOnSet(g, S) /\ TimeOf(new, tid) \in Nat
      /\ \A id \in S : f[id] \in Int /\ g[id] \in Int
  BY <1>5, TimeOver
<1>7. /\ IsFiniteSet(S)
      /\ \A id \in S : id.tid = tid /\ f[id] = Observed(old, id) /\ g[id] = Observed(new, id)
  BY <1>5 DEF HasRows
<1>8. \A id \in S : id \notin DOMAIN previous => g[id] = f[id]
  <2>1. \A id : id \notin DOMAIN previous => Gain(i, id, snapshot) = 0
    BY DEF Gain
  <2> QED  BY <1>3, <1>6, <1>7, <2>1
<1>9. ASSUME NEW id \in DOMAIN previous, id.tid = tid
      PROVE  TimeOf(new, tid) = TimeOf(old, tid) + Gain(i, id, snapshot)
  <2>1. id \in S /\ \A x \in S \ {id} : x \notin DOMAIN previous
    BY <1>4, <1>5, <1>7, <1>9 DEF ReadsTidsOnce
  <2>2. SumFunctionOnSet(g, S) = SumFunctionOnSet(f, S) + (g[id] - f[id])
    <3>1. \A x \in S \ {id} : g[x] = f[x]
      BY <1>8, <2>1
    <3> QED  BY <1>6, <1>7, <2>1, <3>1, OneTermChanges
  <2>3. g[id] - f[id] = Gain(i, id, snapshot)
    <3>1. Gain(i, id, snapshot) \in Nat
      <4>1. origin \in Nat /\ previous[id].at \in Nat /\ GapEnd(id, snapshot) \in Nat
        BY <1>1, SnapshotType DEF TypeOK, TimeInv
      <4> QED  BY <4>1, OverlapType DEF Gain
    <3>2. g[id] = f[id] + Gain(i, id, snapshot) /\ f[id] \in Int
      BY <1>3, <1>6, <1>7, <2>1
    <3> QED  BY <3>1, <3>2
  <2> QED  BY <1>6, <2>2, <2>3
<1>10. ASSUME \A id \in DOMAIN previous : id.tid # tid
       PROVE  TimeOf(new, tid) = TimeOf(old, tid)
  <2>1. \A id \in S : f[id] = g[id]
    BY <1>7, <1>8, <1>10
  <2>2. SumFunctionOnSet(f, S) = SumFunctionOnSet(g, S)
    BY <1>6, <1>7, <2>1, SumSame
  <2> QED  BY <1>6, <2>2
<1> QED  BY <1>0, <1>6, <1>9, <1>10

\* How far the threads of a TID have been observed: up to the sample of the one that was
\* found, or as far as the scans have come.
IsReach(at, tid) ==
  IF \E id \in DOMAIN previous : id.tid = tid
  THEN \E id \in DOMAIN previous : id.tid = tid /\ at = previous[id].at
  ELSE at = finished

\* The rows of a TID share the time it has been observed, in every window.
DisjointInv ==
  /\ StateInv /\ Finite /\ ReadsTidsOnce(previous)
  /\ \A i \in Nat, tid \in Int, at \in Nat :
       i >= nextWindow /\ IsReach(at, tid) => TimeOf(WindowOf(i), tid) <= Overlap(i, 0, at)
  /\ \A i \in DOMAIN reports, tid \in Int : TimeOf(reports[i], tid) <= Interval

LEMMA OverlapGrows ==
  ASSUME origin \in Nat, NEW i \in Nat, NEW a \in Nat, NEW b \in Nat, a <= b
  PROVE  Overlap(i, 0, a) <= Overlap(i, 0, b) /\ Overlap(i, 0, b) <= Interval
<1>1. /\ WindowStart(i) \in Nat /\ WindowEnd(i) \in Nat
      /\ WindowEnd(i) = WindowStart(i) + Interval /\ Interval \in Nat
  BY WindowBounds, IntervalAssumption
<1> QED  BY <1>1 DEF Overlap, later, earlier

LEMMA ReachExists ==
  ASSUME TimeInv, NEW tid
  PROVE  \E at \in Nat : IsReach(at, tid)
BY DEF TimeInv, IsReach

\* After a snapshot a TID has not more time than it has been observed.
LEMMA AfterDisjoint ==
  ASSUME DisjointInv, NEW snapshot, IsSnapshot(snapshot), snapshot.started >= finished,
         ReadsTidsOnce(snapshot.samples), Remember(snapshot),
         NEW i \in Nat, i >= nextWindow, NEW tid \in Int, NEW at \in Nat, IsReach(at, tid)'
  PROVE  TimeOf(After(i, snapshot), tid) <= Overlap(i, 0, at)
<1>1. IsTimed(snapshot) /\ TimeInv /\ TypeOK /\ StateInv /\ Finite /\ ReadsTidsOnce(previous)
  BY DEF IsSnapshot, IsSample, IsTimed, StateInv, CoverInv, DisjointInv
<1>2. previous' = snapshot.samples /\ finished' = snapshot.finished
  BY DEF Remember
<1>3. /\ snapshot.started \in Nat /\ snapshot.finished \in Nat /\ origin \in Nat /\ finished \in Nat
      /\ finished <= snapshot.started /\ snapshot.started <= snapshot.finished
      /\ \A id \in DOMAIN snapshot.samples :
           snapshot.samples[id].at \in Nat /\ snapshot.started <= snapshot.samples[id].at
      /\ \A id \in DOMAIN previous :
           /\ previous[id].at \in Nat /\ GapEnd(id, snapshot) \in Nat
           /\ previous[id].at <= GapEnd(id, snapshot) /\ GapEnd(id, snapshot) <= snapshot.finished
  <2>1. /\ snapshot.started \in Nat /\ snapshot.finished \in Nat /\ origin \in Nat /\ finished \in Nat
        /\ finished <= snapshot.started /\ snapshot.started <= snapshot.finished
    BY <1>1 DEF IsTimed, TypeOK
  <2>2. \A id \in DOMAIN snapshot.samples :
          snapshot.samples[id].at \in Nat /\ snapshot.started <= snapshot.samples[id].at
    BY <1>1, SnapshotType
  <2>3. \A id \in DOMAIN previous :
           /\ previous[id].at \in Nat /\ GapEnd(id, snapshot) \in Nat
           /\ previous[id].at <= GapEnd(id, snapshot) /\ GapEnd(id, snapshot) <= snapshot.finished
    BY <1>1, SnapshotType DEF TimeInv
  <2> QED  BY <2>1, <2>2, <2>3
<1>4. snapshot.started <= at
  <2>1. CASE \E id \in DOMAIN snapshot.samples : id.tid = tid
    BY <1>2, <1>3, <2>1 DEF IsReach
  <2>2. CASE ~\E id \in DOMAIN snapshot.samples : id.tid = tid
    BY <1>2, <1>3, <2>2 DEF IsReach
  <2> QED  BY <2>1, <2>2
<1>5. ASSUME NEW id \in DOMAIN previous, id.tid = tid
      PROVE  TimeOf(After(i, snapshot), tid) <= Overlap(i, 0, at)
  <2>1. IsReach(previous[id].at, tid)
    BY <1>5 DEF IsReach
  <2>2. TimeOf(WindowOf(i), tid) <= Overlap(i, 0, previous[id].at)
    BY <1>3, <2>1 DEF DisjointInv
  <2>3. /\ TimeOf(After(i, snapshot), tid) = TimeOf(WindowOf(i), tid) + Gain(i, id, snapshot)
        /\ TimeOf(WindowOf(i), tid) \in Nat
    BY <1>1, <1>5, AfterTime
  <2>4. Gain(i, id, snapshot) = Overlap(i, previous[id].at, GapEnd(id, snapshot))
    BY DEF Gain
  <2>5. Overlap(i, 0, GapEnd(id, snapshot)) =
          Overlap(i, 0, previous[id].at) + Overlap(i, previous[id].at, GapEnd(id, snapshot))
    <3>1. 0 <= previous[id].at
      BY <1>3
    <3> QED  BY <1>3, <3>1, OverlapAdds
  <2>6. GapEnd(id, snapshot) <= at
    <3>1. CASE id \in DOMAIN snapshot.samples
      <4>1. GapEnd(id, snapshot) = snapshot.samples[id].at
        BY <3>1 DEF GapEnd
      <4>2. PICK x \in DOMAIN snapshot.samples : x.tid = tid /\ at = snapshot.samples[x].at
        BY <1>2, <1>5, <3>1 DEF IsReach
      <4>3. x = id
        BY <1>5, <3>1, <4>2 DEF ReadsTidsOnce
      <4> QED  BY <1>3, <4>1, <4>2, <4>3
    <3>2. CASE id \notin DOMAIN snapshot.samples
      BY <1>4, <3>2 DEF GapEnd
    <3> QED  BY <3>1, <3>2
  <2>7. /\ Overlap(i, 0, GapEnd(id, snapshot)) <= Overlap(i, 0, at)
        /\ Overlap(i, 0, at) \in Nat /\ Overlap(i, 0, GapEnd(id, snapshot)) \in Nat
        /\ Overlap(i, 0, previous[id].at) \in Nat
        /\ Overlap(i, previous[id].at, GapEnd(id, snapshot)) \in Nat
    BY <1>3, <2>6, OverlapGrows, OverlapType
  <2> QED  BY <2>2, <2>3, <2>4, <2>5, <2>7
<1>6. ASSUME \A id \in DOMAIN previous : id.tid # tid
      PROVE  TimeOf(After(i, snapshot), tid) <= Overlap(i, 0, at)
  <2>1. IsReach(finished, tid)
    BY <1>6 DEF IsReach
  <2>2. TimeOf(WindowOf(i), tid) <= Overlap(i, 0, finished)
    BY <1>3, <2>1 DEF DisjointInv
  <2>3. TimeOf(After(i, snapshot), tid) = TimeOf(WindowOf(i), tid) /\ TimeOf(WindowOf(i), tid) \in Nat
    BY <1>1, <1>6, AfterTime
  <2>4. finished <= at
    BY <1>3, <1>4
  <2>5. Overlap(i, 0, finished) <= Overlap(i, 0, at)
    BY <1>3, <2>4, OverlapGrows
  <2>6. Overlap(i, 0, at) \in Nat /\ Overlap(i, 0, finished) \in Nat
    BY <1>3, OverlapType
  <2> QED  BY <2>2, <2>3, <2>5, <2>6
<1> QED  BY <1>5, <1>6

LEMMA SnapshotStep ==
  ASSUME StateInv, Finite, NEW snapshot \in Snapshots, snapshot.started >= finished, Observe(snapshot)
  PROVE  /\ IsSnapshot(snapshot) /\ IsTimed(snapshot) /\ TimeInv /\ TypeOK /\ StateInv'
         /\ IsFiniteSet(DOMAIN previous')
<1>1. IsSnapshot(snapshot) /\ IsTimed(snapshot) /\ TimeInv /\ TypeOK
  BY SnapshotsAssumption DEF IsSnapshot, IsSample, IsTimed, StateInv, CoverInv
<1>2. StateInv'
  BY TypeStep DEF Next
<1>3. IsFiniteSet(DOMAIN previous')
  BY <1>1 DEF Observe, Remember, IsSnapshot
<1> QED  BY <1>1, <1>2, <1>3

LEMMA FirstDisjoint ==
  ASSUME DisjointInv, NEW snapshot \in Snapshots, snapshot.started >= finished,
         ObserveFirst(snapshot), Remember(snapshot), ReadsTidsOnce(snapshot.samples)
  PROVE  DisjointInv'
<1>1. /\ IsSnapshot(snapshot) /\ IsTimed(snapshot) /\ TimeInv /\ TypeOK /\ StateInv'
      /\ IsFiniteSet(DOMAIN previous')
  BY SnapshotStep DEF DisjointInv, Observe
<1>2. nextWindow = 0 /\ DOMAIN reports = {} /\ nextWindow' = nextWindow /\ reports' = reports
  BY <1>1 DEF TimeInv, ObserveFirst
<1> DEFINE ids == DOMAIN snapshot.samples
           once == [NoRow EXCEPT !.samples = 1]
           scanned == ScannedWindows(snapshot)'
           first == [i \in scanned \cup (IF ids = {} THEN {} ELSE {0}) |->
             [stats |-> [id \in IF i = 0 THEN ids ELSE {} |-> once],
              scans |-> IF i \in scanned THEN 1 ELSE 0, gap |-> 0]]
<1>3. windows' = first
  BY DEF ObserveFirst
<1>4. IsFiniteSet(ids) /\ once.observed = 0
  BY <1>1 DEF IsSnapshot, NoRow
<1> HIDE DEF ids, once, scanned
<1>5. ASSUME NEW i \in Nat
      PROVE  /\ IsFiniteSet(DOMAIN WindowOf(i)'.stats)
             /\ \A id \in DOMAIN WindowOf(i)'.stats : WindowOf(i)'.stats[id].observed = 0
  <2>1. CASE i \in DOMAIN windows'
    <3>1. WindowOf(i)'.stats = [id \in IF i = 0 THEN ids ELSE {} |-> once]
      BY <1>3, <2>1 DEF WindowOf
    <3>2. DOMAIN WindowOf(i)'.stats = IF i = 0 THEN ids ELSE {}
      BY <3>1
    <3>3. IsFiniteSet(IF i = 0 THEN ids ELSE {})
      BY <1>4, FS_EmptySet
    <3> QED  BY <1>4, <3>1, <3>2, <3>3
  <2>2. CASE i \notin DOMAIN windows'
    <3>1. DOMAIN WindowOf(i)'.stats = {}
      BY <2>2 DEF WindowOf, NoWindow
    <3> QED  BY <3>1, FS_EmptySet
  <2> QED  BY <2>1, <2>2
<1>6. Finite'
  BY <1>1, <1>5 DEF Finite
<1>7. ASSUME NEW i \in Nat, NEW tid \in Int, NEW at \in Nat
      PROVE  TimeOf(WindowOf(i)', tid) <= Overlap(i, 0, at)'
  <2>1. PICK w : w = WindowOf(i)'
    OBVIOUS
  <2> DEFINE T == RowsOfOneTid(w.stats, tid)
             f == [id \in T |-> w.stats[id].observed]
  <2>2. IsFiniteSet(T) /\ \A id \in T : f[id] = 0
    BY <1>5, <2>1, FS_Subset DEF RowsOfOneTid
  <2>3. TimeOf(w, tid) = SumFunctionOnSet(f, T)
    BY DEF TimeOf, SumFunction
  <2> HIDE DEF T, f
  <2>4. TimeOf(w, tid) = 0
    BY <2>2, <2>3, SumOfZeros
  <2>5. Overlap(i, 0, at)' \in Nat
    <3>1. origin' \in Nat
      BY <1>1 DEF StateInv, TypeOK
    <3>2. WindowStart(i)' \in Nat /\ WindowEnd(i)' \in Nat
      <4>1. i * Interval \in Nat /\ (i + 1) * Interval \in Nat
        BY IntervalAssumption
      <4> QED  BY <3>1, <4>1 DEF WindowStart, WindowEnd
    <3> QED  BY <3>2 DEF Overlap, later, earlier
  <2> QED  BY <2>1, <2>4, <2>5
<1>8. ReadsTidsOnce(previous')
  BY DEF Remember
<1>9. \A i \in DOMAIN reports', tid \in Int : TimeOf(reports'[i], tid) <= Interval
  BY <1>2
<1>10. \A i \in Nat, tid \in Int, at \in Nat : TimeOf(WindowOf(i), tid)' <= Overlap(i, 0, at)'
  BY <1>7 DEF TimeOf, RowsOfOneTid
<1> QED  BY <1>1, <1>6, <1>8, <1>9, <1>10 DEF DisjointInv, TimeOf, RowsOfOneTid

LEMMA NextDisjoint ==
  ASSUME DisjointInv, NEW snapshot \in Snapshots, snapshot.started >= finished,
         ObserveNext(snapshot), Remember(snapshot), ReadsTidsOnce(snapshot.samples)
  PROVE  DisjointInv'
<1>1. /\ IsSnapshot(snapshot) /\ IsTimed(snapshot) /\ TimeInv /\ TypeOK /\ StateInv'
      /\ IsFiniteSet(DOMAIN previous') /\ Finite
  BY SnapshotStep DEF DisjointInv, Observe
<1>2. /\ UNCHANGED <<initialized, origin>>
      /\ nextWindow' \in Nat /\ nextWindow <= nextWindow' /\ nextWindow \in Nat
      /\ DOMAIN windows' \subseteq Nat
      /\ \A i \in Nat : i >= nextWindow' => WindowOf(i)' = After(i, snapshot)
      /\ DOMAIN reports' = 0 .. nextWindow' - 1
      /\ \A i \in DOMAIN reports' :
           IF i < nextWindow THEN reports'[i] = reports[i]
           ELSE reports'[i] = After(i, snapshot) /\ WindowEnd(i) <= Watermark(snapshot)
  BY <1>1, NextWindows DEF TimeInv
<1>3. \A i \in Nat : Overlap(i, 0, 0) \in Nat /\ \A at : Overlap(i, 0, at)' = Overlap(i, 0, at)
  BY <1>1, <1>2, OverlapType DEF Overlap, WindowStart, WindowEnd, TimeInv
<1>4. \A i \in Nat : i >= nextWindow => \A tid \in Int, at \in Nat :
        IsReach(at, tid)' => TimeOf(After(i, snapshot), tid) <= Overlap(i, 0, at)
  BY <1>1, AfterDisjoint
<1>5. \A i \in Nat : i >= nextWindow' => i >= nextWindow
  BY <1>2
<1>6. ASSUME NEW i \in Nat, NEW tid \in Int, NEW at \in Nat, i >= nextWindow', IsReach(at, tid)'
      PROVE  TimeOf(WindowOf(i), tid)' <= Overlap(i, 0, at)'
  <2>1. TimeOf(After(i, snapshot), tid) <= Overlap(i, 0, at)
    BY <1>4, <1>5, <1>6
  <2>2. TimeOf(WindowOf(i), tid)' = TimeOf(After(i, snapshot), tid)
    BY <1>2, <1>6 DEF TimeOf, RowsOfOneTid
  <2> QED  BY <1>3, <2>1, <2>2
<1>7. ASSUME NEW i \in DOMAIN reports', NEW tid \in Int
      PROVE  TimeOf(reports'[i], tid) <= Interval
  <2>1. i \in Nat /\ (i < nextWindow => i \in DOMAIN reports)
    BY <1>1, <1>2 DEF TimeInv
  <2>2. CASE i < nextWindow
    BY <1>2, <2>1, <2>2 DEF DisjointInv
  <2>3. CASE ~(i < nextWindow)
    <3>1. PICK at \in Nat : IsReach(at, tid)'
      BY <1>1 DEF StateInv, CoverInv, TimeInv, IsReach
    <3>2. i >= nextWindow
      BY <1>2, <2>1, <2>3
    <3>3. TimeOf(After(i, snapshot), tid) <= Overlap(i, 0, at)
      BY <1>4, <2>1, <3>1, <3>2
    <3>4. Overlap(i, 0, at) <= Interval /\ Overlap(i, 0, at) \in Nat /\ Interval \in Nat
      <4>1. origin \in Nat /\ i \in Nat /\ 0 <= at /\ Interval \in Nat /\ 0 \in Nat
        BY <1>1, <2>1, IntervalAssumption DEF TimeInv
      <4>2. Overlap(i, 0, at) <= Interval
        BY <4>1, OverlapGrows
      <4> QED  BY <4>1, <4>2, OverlapType
    <3>5. TimeOf(After(i, snapshot), tid) \in Nat
      BY <1>1, <2>1, <3>2, AfterTime DEF DisjointInv
    <3>6. reports'[i] = After(i, snapshot)
      BY <1>2, <2>3
    <3> QED  BY <3>3, <3>4, <3>5, <3>6
  <2> QED  BY <2>2, <2>3
<1>8. Finite'
  <2>1. \A i \in Nat : IsFiniteSet(DOMAIN After(i, snapshot).stats)
    BY <1>1, AfterFinite
  <2>2. ASSUME NEW i \in Nat  PROVE  IsFiniteSet(DOMAIN WindowOf(i)'.stats)
    <3>1. CASE i >= nextWindow'
      BY <1>2, <2>1, <3>1
    <3>2. CASE ~(i >= nextWindow')
      <4>1. i \notin DOMAIN windows'
        BY <3>2 DEF ObserveNext
      <4>2. DOMAIN WindowOf(i)'.stats = {}
        BY <4>1 DEF WindowOf, NoWindow
      <4> QED  BY <4>2, FS_EmptySet
    <3> QED  BY <3>1, <3>2
  <2> QED  BY <1>1, <2>2 DEF Finite
<1>9. ReadsTidsOnce(previous')
  BY DEF Remember
<1> QED  BY <1>1, <1>6, <1>7, <1>8, <1>9 DEF DisjointInv, TimeOf, RowsOfOneTid

LEMMA DisjointStep ==
  ASSUME \A s \in Snapshots : ReadsTidsOnce(s.samples), DisjointInv, [Next]_vars
  PROVE  DisjointInv'
<1>1. CASE Next
  <2>1. PICK snapshot \in Snapshots : snapshot.started >= finished /\ Observe(snapshot)
    BY <1>1 DEF Next
  <2> QED  BY <2>1, FirstDisjoint, NextDisjoint DEF Observe
<1>2. CASE UNCHANGED vars
  <2>1. StateInv'
    BY <1>2, TypeStep DEF DisjointInv
  <2>2. /\ previous' = previous /\ windows' = windows /\ reports' = reports /\ origin' = origin
        /\ nextWindow' = nextWindow /\ finished' = finished
    BY <1>2 DEF vars, ghosts
  <2>3. Finite' /\ ReadsTidsOnce(previous')
    BY <2>2 DEF DisjointInv, Finite, WindowOf
  <2>4. \A i \in Nat, tid \in Int, at \in Nat :
          /\ IsReach(at, tid)' = IsReach(at, tid) /\ Overlap(i, 0, at)' = Overlap(i, 0, at)
          /\ TimeOf(WindowOf(i), tid)' = TimeOf(WindowOf(i), tid)
    BY <2>2 DEF IsReach, Overlap, WindowStart, WindowEnd, TimeOf, RowsOfOneTid, WindowOf
  <2>5. \A i \in Nat, tid \in Int, at \in Nat :
          i >= nextWindow' /\ IsReach(at, tid)' => TimeOf(WindowOf(i), tid)' <= Overlap(i, 0, at)'
    BY <2>2, <2>4 DEF DisjointInv
  <2>6. \A i \in DOMAIN reports', tid \in Int : TimeOf(reports[i], tid)' <= Interval
    BY <2>2 DEF DisjointInv, TimeOf, RowsOfOneTid
  <2> QED  BY <2>1, <2>3, <2>5, <2>6 DEF DisjointInv
<1> QED  BY <1>1, <1>2

LEMMA InitDisjoint == Init => DisjointInv
<1> SUFFICES ASSUME Init  PROVE  DisjointInv
  OBVIOUS
<1>1. /\ StateInv /\ DOMAIN previous = {} /\ DOMAIN windows = {} /\ DOMAIN reports = {}
      /\ origin \in Nat
  BY InitTyped DEF Init, StateInv, TypeOK
<1>2. \A i \in Nat : DOMAIN WindowOf(i).stats = {}
  BY <1>1 DEF WindowOf, NoWindow
<1>3. Finite
  BY <1>1, <1>2, FS_EmptySet DEF Finite
<1>4. \A i \in Nat, tid \in Int : TimeOf(WindowOf(i), tid) = 0
  <2> SUFFICES ASSUME NEW i \in Nat, NEW tid \in Int  PROVE  TimeOf(WindowOf(i), tid) = 0
    OBVIOUS
  <2>1. RowsOfOneTid(WindowOf(i).stats, tid) = {}
    BY <1>2 DEF RowsOfOneTid
  <2> QED  BY <2>1, SumOfNone DEF TimeOf, SumFunction
<1>5. \A i \in Nat, at \in Nat : 0 <= Overlap(i, 0, at)
  <2>1. \A i \in Nat, at \in Nat : Overlap(i, 0, at) \in Nat
    BY <1>1, OverlapType
  <2> QED  BY <2>1
<1> QED  BY <1>1, <1>3, <1>4, <1>5 DEF DisjointInv, ReadsTidsOnce

\* The time of a TID, over all of its rows, is not more than it has been observed, when
\* the scans read a TID once (observeGap, observeDisappearance).
THEOREM DisjointInvariant ==
  ASSUME \A s \in Snapshots : ReadsTidsOnce(s.samples)
  PROVE  Spec => []DisjointInv
<1>1. DisjointInv /\ [Next]_vars => DisjointInv'
  BY DisjointStep
<1> QED  BY <1>1, InitDisjoint, PTL DEF Spec

\* The rows of a TID in one report are of different threads, and no time is in two of
\* them, when the scans read a TID once, as those of proc and of taskstats do.
THEOREM RowsAreDisjoint ==
  ASSUME \A s \in Snapshots : ReadsTidsOnce(s.samples)
  PROVE  Spec => []RowsOfOneTidAreDisjoint
<1>1. DisjointInv => RowsOfOneTidAreDisjoint
  <2> SUFFICES ASSUME DisjointInv, NEW i \in DOMAIN reports, NEW id \in DOMAIN reports[i].stats
               PROVE  TimeOf(reports[i], id.tid) <= Interval
    BY DEF RowsOfOneTidAreDisjoint, TimeOf
  <2>1. id.tid \in Int
    BY DEF DisjointInv, StateInv, TypeOK, IsWindow, IdentityType
  <2> QED  BY <2>1 DEF DisjointInv
<1> QED  BY <1>1, DisjointInvariant, PTL

----------------------------------------------------------------------------
(* A gap is shared out among the windows *)

LEMMA IndexBounds ==
  ASSUME origin \in Nat, NEW at \in Nat
  PROVE  WindowIndex(at) \in Nat /\ at < WindowEnd(WindowIndex(at))
<1>1. CASE at > origin
  <2> DEFINE q == (at - origin) \div Interval
  <2>1. at - origin \in Nat
    BY <1>1
  <2>2. q \in Nat /\ at - origin < (q + 1) * Interval
    BY <2>1, DivisionBounds
  <2>3. WindowIndex(at) = q
    BY <1>1 DEF WindowIndex
  <2> HIDE DEF q
  <2>4. (q + 1) * Interval \in Nat
    BY <2>2, IntervalAssumption
  <2> QED  BY <1>1, <2>2, <2>3, <2>4 DEF WindowEnd
<1>2. CASE ~(at > origin)
  <2>1. WindowIndex(at) = 0
    BY <1>2 DEF WindowIndex
  <2>2. (0 + 1) * Interval = Interval /\ Interval \in Nat /\ Interval > 0
    BY IntervalAssumption
  <2> QED  BY <1>2, <2>1, <2>2 DEF WindowEnd
<1> QED  BY <1>1, <1>2

\* The instant of a gap at which a window starts.
Cut(gap, i) == later(gap.start, earlier(gap.end, WindowStart(i)))

LEMMA CutBounds ==
  ASSUME origin \in Nat, NEW gap, gap.start \in Nat, gap.end \in Nat, gap.start < gap.end, NEW i \in Nat
  PROVE  /\ Cut(gap, i) \in gap.start .. gap.end
         /\ WindowStart(i + 1) = WindowEnd(i) /\ WindowEnd(i) \in Nat
         /\ Overlap(i, gap.start, gap.end) \in Nat
         /\ Overlap(i, gap.start, gap.end) = 0 => Cut(gap, i + 1) = Cut(gap, i)
         /\ Overlap(i, gap.start, gap.end) > 0 =>
              /\ Cut(gap, i + 1) = earlier(gap.end, WindowEnd(i))
              /\ Cut(gap, i) = later(gap.start, WindowStart(i))
<1>1. /\ WindowStart(i) \in Nat /\ WindowEnd(i) \in Nat /\ WindowEnd(i) = WindowStart(i) + Interval
      /\ Interval \in Nat /\ Interval > 0
  BY WindowBounds, IntervalAssumption
<1>2. WindowStart(i + 1) = WindowEnd(i)
  BY DEF WindowStart, WindowEnd
<1>3. Cut(gap, i) \in gap.start .. gap.end
  BY <1>1 DEF Cut, later, earlier
<1>4. Overlap(i, gap.start, gap.end) \in Nat
  BY OverlapType
<1>5. Overlap(i, gap.start, gap.end) = 0 => Cut(gap, i + 1) = Cut(gap, i)
  BY <1>1, <1>2 DEF Cut, Overlap, later, earlier
<1>6. Overlap(i, gap.start, gap.end) > 0 =>
              /\ Cut(gap, i + 1) = earlier(gap.end, WindowEnd(i))
              /\ Cut(gap, i) = later(gap.start, WindowStart(i))
  BY <1>1, <1>2 DEF Cut, Overlap, later, earlier
<1> QED  BY <1>1, <1>2, <1>3, <1>4, <1>5, <1>6

\* What the windows get of an increase.
ShareIn(value, gap, i) == IF i \in TouchedWindows(gap.start, gap.end) THEN Share(value, gap, i) ELSE 0

\* A gap that no reported window has a part of is shared out without a remainder.
LEMMA GapIsShared ==
  ASSUME origin \in Nat, nextWindow \in Nat,
         NEW gap, gap.start \in Nat, gap.end \in Nat, gap.start < gap.end, NEW value \in Nat,
         nextWindow > 0 => WindowStart(nextWindow) <= gap.start,
         NEW S, IsFiniteSet(S), TouchedWindows(gap.start, gap.end) \subseteq S,
         NEW f, \A i \in S : f[i] = ShareIn(value, gap, i)
  PROVE  SumFunctionOnSet(f, S) = Increase(value, gap) /\ \A i \in S : f[i] \in Int
<1>0. PICK n \in Nat, last \in Nat : n = nextWindow /\ last = WindowIndex(gap.end)
  BY IndexBounds
<1> DEFINE T == TouchedWindows(gap.start, gap.end)
<1>1. gap.end < WindowEnd(last) /\ WindowStart(last + 1) = WindowEnd(last) /\ WindowEnd(last) \in Nat
  BY <1>0, IndexBounds, CutBounds
<1>2. n <= last
  <2> SUFFICES ASSUME last < n  PROVE  FALSE
    BY <1>0
  <2>1. WindowEnd(last) <= WindowStart(n) /\ WindowStart(n) <= gap.start /\ WindowStart(n) \in Nat
    <3>1. n > 0
      BY <1>0
    <3> QED  BY <1>0, <3>1, WindowOrder, WindowBounds
  <2> QED  BY <1>1, <2>1
<1>3. PICK m \in Nat : n + m = last + 1
  <2>1. (last + 1) - n \in Nat /\ n + ((last + 1) - n) = last + 1
    BY <1>2
  <2> QED  BY <2>1
<1> DEFINE R == n .. n + m - 1
<1>4. \A i : i \in T <=> i \in R /\ Overlap(i, gap.start, gap.end) > 0
  <2>1. n + m - 1 = last
    BY <1>3
  <2> QED  BY <1>0, <2>1 DEF TouchedWindows
<1>5. PICK g : \A i \in R : g[i] = ShareIn(value, gap, i)
  <2>1. \A i \in R : [x \in R |-> ShareIn(value, gap, x)][i] = ShareIn(value, gap, i)
    OBVIOUS
  <2> QED  BY <2>1
<1>6. PICK cut : \A i \in n .. n + m : cut[i] = Part(value, gap, Cut(gap, i))
  <2>1. \A i \in n .. n + m :
          [x \in n .. n + m |-> Part(value, gap, Cut(gap, x))][i] = Part(value, gap, Cut(gap, i))
    OBVIOUS
  <2> QED  BY <2>1
<1>7. \A i \in Nat : Part(value, gap, Cut(gap, i)) \in Nat
  BY CutBounds, PartBounds
<1>8. \A i \in n .. n + m : cut[i] \in Int /\ i \in Nat
  BY <1>6, <1>7
<1>9. ASSUME NEW i \in R  PROVE  g[i] = cut[i + 1] - cut[i]
  <2>1. i \in Nat /\ i \in n .. n + m /\ i + 1 \in n .. n + m
    OBVIOUS
  <2>2. cut[i] = Part(value, gap, Cut(gap, i)) /\ cut[i + 1] = Part(value, gap, Cut(gap, i + 1))
    BY <1>6, <2>1
  <2>3. cut[i] \in Int
    BY <1>8, <2>1
  <2>4. CASE Overlap(i, gap.start, gap.end) > 0
    <3>1. g[i] = Share(value, gap, i)
      BY <1>4, <1>5, <2>4 DEF ShareIn
    <3>2. Share(value, gap, i) = Part(value, gap, earlier(gap.end, WindowEnd(i)))
                                   - Part(value, gap, later(gap.start, WindowStart(i)))
      BY <2>1, <2>4, ShareIsPart
    <3>3. Cut(gap, i + 1) = earlier(gap.end, WindowEnd(i)) /\ Cut(gap, i) = later(gap.start, WindowStart(i))
      BY <2>1, <2>4, CutBounds
    <3> QED  BY <2>2, <3>1, <3>2, <3>3
  <2>5. CASE ~(Overlap(i, gap.start, gap.end) > 0)
    <3>1. g[i] = 0
      BY <1>4, <1>5, <2>5 DEF ShareIn
    <3>2. Overlap(i, gap.start, gap.end) \in Nat
      BY <2>1, CutBounds
    <3>3. Cut(gap, i + 1) = Cut(gap, i)
      BY <2>1, <2>5, <3>2, CutBounds
    <3> QED  BY <2>2, <2>3, <3>1, <3>3
  <2> QED  BY <2>4, <2>5
<1>10. SumFunctionOnSet(g, R) = cut[n + m] - cut[n]
  <2>1. Telescopes(g, cut, n, m)
    BY <1>8, <1>9 DEF Telescopes
  <2>2. n \in Int
    OBVIOUS
  <2> QED  BY <2>1, <2>2, SumTelescopes
<1>11. cut[n + m] = value
  <2>1. n + m \in n .. n + m /\ Cut(gap, n + m) = gap.end
    BY <1>1, <1>3 DEF Cut, later, earlier
  <2> QED  BY <1>6, <2>1, PartBounds
<1>12. cut[n] = IF gap.end <= origin THEN value ELSE Part(value, gap, later(gap.start, origin))
  <2>1. n \in n .. n + m /\ cut[n] = Part(value, gap, Cut(gap, n))
    BY <1>6
  <2>2. CASE n = 0
    <3>1. WindowStart(n) = origin
      BY <2>2, IntervalAssumption DEF WindowStart
    <3>2. gap.end <= origin => Cut(gap, n) = gap.end
      BY <3>1 DEF Cut, later, earlier
    <3>3. ~(gap.end <= origin) => Cut(gap, n) = later(gap.start, origin)
      BY <3>1 DEF Cut, later, earlier
    <3> QED  BY <2>1, <3>2, <3>3, PartBounds
  <2>3. CASE n # 0
    <3>1. WindowStart(n) \in Nat /\ WindowStart(n) <= gap.start /\ origin <= WindowStart(n)
      <4>1. n * Interval \in Nat
        BY IntervalAssumption
      <4> QED  BY <1>0, <2>3, <4>1 DEF WindowStart
    <3>2. Cut(gap, n) = gap.start /\ later(gap.start, origin) = gap.start /\ ~(gap.end <= origin)
      BY <3>1 DEF Cut, later, earlier
    <3> QED  BY <2>1, <3>2, PartBounds
  <2> QED  BY <2>2, <2>3
<1>13. value - cut[n] = Increase(value, gap)
  <2>1. Increase(value, gap) = IF gap.end <= origin THEN 0 ELSE value - Part(value, gap, later(gap.start, origin))
    BY DEF Increase, Part
  <2> QED  BY <1>12, <2>1
<1>14. IsFiniteSet(R) /\ T \subseteq R /\ \A i \in R : i \in Nat
  <2>1. IsFiniteSet(R)
    <3>1. n \in Int /\ n + m - 1 \in Int
      OBVIOUS
    <3> QED  BY <3>1, FS_Interval
  <2>2. \A i \in R : i \in Nat
    OBVIOUS
  <2>3. T \subseteq R
    <3> HIDE DEF T, R
    <3> QED  BY <1>4
  <2> QED  BY <2>1, <2>2, <2>3
<1> HIDE DEF T, R
<1>15. \A i \in R : g[i] \in Int /\ (i \notin T => g[i] = 0)
  <2>1. \A i \in R : g[i] \in Int
    <3>1. \A i \in R : i \in n .. n + m /\ i + 1 \in n .. n + m
      BY DEF R
    <3> QED  BY <1>8, <1>9, <3>1
  <2> QED  BY <1>5, <2>1 DEF ShareIn, T
<1>16. \A i \in S : f[i] \in Int /\ (i \notin T => f[i] = 0)
  <2>1. \A i \in T : f[i] = g[i] /\ g[i] \in Int
    BY <1>5, <1>14, <1>15 DEF T
  <2>2. \A i \in S : i \notin T => f[i] = 0
    BY DEF ShareIn, T
  <2> QED  BY <2>1, <2>2
<1>17. SumFunctionOnSet(f, S) = SumFunctionOnSet(f, T) /\ SumFunctionOnSet(g, R) = SumFunctionOnSet(g, T)
  <2>1. T \subseteq S
    BY DEF T
  <2> QED  BY <1>14, <1>15, <1>16, <2>1, SumOfSupport
<1>18. SumFunctionOnSet(f, T) = SumFunctionOnSet(g, T)
  <2>1. IsFiniteSet(T)
    BY <1>14, FS_Subset
  <2>2. \A i \in T : f[i] = g[i] /\ f[i] \in Int
    BY <1>5, <1>14, <1>15 DEF T
  <2> QED  BY <2>1, <2>2, SumSame
<1> QED  BY <1>10, <1>11, <1>13, <1>16, <1>17, <1>18

----------------------------------------------------------------------------
(* What all the windows show of a counter *)

CounterIn(w, id, c) == RowOf(w, id).schedstat[c]

\* The window of an index, reported or open.
LineOf(ws, rs, i) ==
  IF i \in DOMAIN ws THEN ws[i] ELSE IF i \in DOMAIN rs THEN rs[i] ELSE NoWindow

\* The counters of a thread over any finite set that has all the windows.
Shows(S, f, ws, rs, id, c) ==
  /\ IsFiniteSet(S) /\ DOMAIN ws \subseteq S /\ DOMAIN rs \subseteq S
  /\ DOMAIN ws \cap DOMAIN rs = {}
  /\ \A i \in DOMAIN ws : IsWindow(ws[i])
  /\ \A i \in DOMAIN rs : IsWindow(rs[i])
  /\ \A i \in S : f[i] = CounterIn(LineOf(ws, rs, i), id, c)

LEMMA CounterType ==
  ASSUME NEW w, IsWindow(w), NEW id, NEW c \in Counters
  PROVE  CounterIn(w, id, c) \in Nat /\ CounterIn(NoWindow, id, c) = 0
<1>1. IsRow(RowOf(w, id))
  BY RowOfIsRow
<1>2. RowOf(w, id).schedstat \in [Counters -> Nat]
  BY <1>1, RowFields
<1>3. RowOf(NoWindow, id) = NoRow
  BY DEF RowOf, NoWindow
<1> QED  BY <1>2, <1>3 DEF CounterIn, NoRow

LEMMA TotalsOver ==
  ASSUME NEW ws, NEW rs, NEW id, NEW c \in Counters, NEW S, NEW f, Shows(S, f, ws, rs, id, c)
  PROVE  /\ Total(ws, id, c) + Total(rs, id, c) = SumFunctionOnSet(f, S)
         /\ \A i \in S : f[i] \in Int
<1>1. /\ IsFiniteSet(S) /\ DOMAIN ws \subseteq S /\ DOMAIN rs \subseteq S
      /\ DOMAIN ws \cap DOMAIN rs = {}
      /\ \A i \in S : f[i] = CounterIn(LineOf(ws, rs, i), id, c)
  BY DEF Shows
<1>2. /\ \A i \in DOMAIN ws : CounterIn(ws[i], id, c) \in Nat
      /\ \A i \in DOMAIN rs : CounterIn(rs[i], id, c) \in Nat
      /\ CounterIn(NoWindow, id, c) = 0
  BY CounterType, EmptyTypes DEF Shows
<1>3. PICK g : \A i \in S : g[i] = IF i \in DOMAIN ws THEN CounterIn(ws[i], id, c) ELSE 0
  <2>1. \A i \in S : [x \in S |-> IF x \in DOMAIN ws THEN CounterIn(ws[x], id, c) ELSE 0][i]
                       = IF i \in DOMAIN ws THEN CounterIn(ws[i], id, c) ELSE 0
    OBVIOUS
  <2> QED  BY <2>1
<1>4. PICK h : \A i \in S : h[i] = IF i \in DOMAIN rs THEN CounterIn(rs[i], id, c) ELSE 0
  <2>1. \A i \in S : [x \in S |-> IF x \in DOMAIN rs THEN CounterIn(rs[x], id, c) ELSE 0][i]
                       = IF i \in DOMAIN rs THEN CounterIn(rs[i], id, c) ELSE 0
    OBVIOUS
  <2> QED  BY <2>1
<1>5. \A i \in S : g[i] \in Int /\ h[i] \in Int /\ f[i] = g[i] + h[i]
  <2>1. \A i \in S : g[i] \in Int /\ h[i] \in Int
    BY <1>2, <1>3, <1>4
  <2> SUFFICES ASSUME NEW i \in S  PROVE  f[i] = g[i] + h[i]
    BY <2>1
  <2>2. CASE i \in DOMAIN ws
    <3>1. f[i] = CounterIn(ws[i], id, c) /\ i \notin DOMAIN rs
      BY <1>1, <2>2 DEF LineOf
    <3> QED  BY <1>2, <1>3, <1>4, <2>2, <3>1
  <2>3. CASE i \in DOMAIN rs
    <3>1. f[i] = CounterIn(rs[i], id, c) /\ i \notin DOMAIN ws
      BY <1>1, <2>3 DEF LineOf
    <3> QED  BY <1>2, <1>3, <1>4, <2>3, <3>1
  <2>4. CASE i \notin DOMAIN ws /\ i \notin DOMAIN rs
    <3>1. f[i] = CounterIn(NoWindow, id, c)
      BY <1>1, <2>4 DEF LineOf
    <3> QED  BY <1>2, <1>3, <1>4, <2>4, <3>1
  <2> QED  BY <2>2, <2>3, <2>4
<1>6. SumFunctionOnSet(f, S) = SumFunctionOnSet(g, S) + SumFunctionOnSet(h, S)
  BY <1>1, <1>5, SumOfSums
<1>7. SumFunctionOnSet(g, S) = Total(ws, id, c)
  <2> DEFINE D == DOMAIN ws
             t == [i \in D |-> CounterIn(ws[i], id, c)]
  <2>1. Total(ws, id, c) = SumFunctionOnSet(t, D)
    BY DEF Total, SumFunction, CounterIn
  <2>2. \A i \in D : t[i] = g[i] /\ g[i] \in Int /\ t[i] \in Int
    BY <1>1, <1>3, <1>5
  <2>3. D \subseteq S /\ \A i \in S \ D : g[i] = 0
    BY <1>1, <1>3
  <2> HIDE DEF D, t
  <2>4. IsFiniteSet(D)
    BY <1>1, <2>3, FS_Subset
  <2>5. SumFunctionOnSet(g, S) = SumFunctionOnSet(g, D)
    BY <1>1, <1>5, <2>3, SumOfSupport
  <2>6. SumFunctionOnSet(t, D) = SumFunctionOnSet(g, D)
    BY <2>2, <2>4, SumSame
  <2> QED  BY <2>1, <2>5, <2>6
<1>8. SumFunctionOnSet(h, S) = Total(rs, id, c)
  <2> DEFINE D == DOMAIN rs
             t == [i \in D |-> CounterIn(rs[i], id, c)]
  <2>1. Total(rs, id, c) = SumFunctionOnSet(t, D)
    BY DEF Total, SumFunction, CounterIn
  <2>2. \A i \in D : t[i] = h[i] /\ h[i] \in Int /\ t[i] \in Int
    BY <1>1, <1>4, <1>5
  <2>3. D \subseteq S /\ \A i \in S \ D : h[i] = 0
    BY <1>1, <1>4
  <2> HIDE DEF D, t
  <2>4. IsFiniteSet(D)
    BY <1>1, <2>3, FS_Subset
  <2>5. SumFunctionOnSet(h, S) = SumFunctionOnSet(h, D)
    BY <1>1, <1>5, <2>3, SumOfSupport
  <2>6. SumFunctionOnSet(t, D) = SumFunctionOnSet(h, D)
    BY <2>2, <2>4, SumSame
  <2> QED  BY <2>1, <2>5, <2>6
<1> QED
  <2>1. \A i \in S : f[i] \in Int
    BY <1>5
  <2> QED  BY <1>6, <1>7, <1>8, <2>1

----------------------------------------------------------------------------
(* The increases of the counters *)

\* What a snapshot adds to a counter of a thread in a window.
Increment(id, c, i, snapshot) ==
  IF id \in DOMAIN previous /\ GapOf(id, snapshot).schedstat # NoDeltas
  THEN ShareIn(GapOf(id, snapshot).schedstat[c], GapOf(id, snapshot), i)
  ELSE 0

LEMMA AfterCounter ==
  ASSUME StateInv, NEW snapshot, IsSnapshot(snapshot), snapshot.started >= finished,
         NEW i \in Nat, i >= nextWindow, NEW id, NEW c \in Counters
  PROVE  /\ CounterIn(After(i, snapshot), id, c) \in Nat /\ CounterIn(WindowOf(i), id, c) \in Nat
         /\ CounterIn(After(i, snapshot), id, c)
              = CounterIn(WindowOf(i), id, c) + Increment(id, c, i, snapshot)
<1>1. TimeInv /\ TypeOK /\ SampledOK /\ origin \in Nat /\ snapshot.finished \in Nat
  BY DEF StateInv, CoverInv, TypeOK, SampledOK, IsSnapshot
<1>2. IsWindow(WindowOf(i)) /\ IsWindow(After(i, snapshot))
  BY <1>1, WindowOfIsWindow, AfterType
<1>3. CounterIn(After(i, snapshot), id, c) \in Nat /\ CounterIn(WindowOf(i), id, c) \in Nat
  BY <1>2, CounterType
<1> DEFINE window == WindowOf(i)
           gapped == {x \in DOMAIN previous : GapTouches(x, snapshot, i)}
           sampled == {x \in DOMAIN snapshot.samples : SampledIn(x, snapshot, i)}
           Counted == IF id \in sampled THEN [RowOf(window, id) EXCEPT !.samples = @ + 1]
                      ELSE RowOf(window, id)
           Row == IF id \in gapped THEN CreditGap(Counted, GapOf(id, snapshot), i) ELSE Counted
<1>4. Counted.schedstat = RowOf(window, id).schedstat
  <2>1. IsRow(RowOf(window, id))
    BY <1>2, RowOfIsRow
  <2> QED  BY <2>1, RowFields
<1>5. id \in gapped => /\ id \in DOMAIN previous
                       /\ i \in TouchedWindows(GapOf(id, snapshot).start, GapOf(id, snapshot).end)
  BY <1>1, GapType DEF GapTouches
<1>6. id \in DOMAIN previous /\ id \notin gapped =>
        i \notin TouchedWindows(GapOf(id, snapshot).start, GapOf(id, snapshot).end)
  BY <1>1, GapType DEF GapTouches
<1>7. Row.schedstat[c] = CounterIn(window, id, c) + Increment(id, c, i, snapshot)
  <2>1. CASE id \in gapped
    <3>1. PICK gap : gap = GapOf(id, snapshot)
      OBVIOUS
    <3>2. Row.schedstat = IF gap.schedstat = NoDeltas THEN Counted.schedstat
                    ELSE [x \in Counters |->
                            Counted.schedstat[x] + Share(gap.schedstat[x], gap, i)]
      BY <2>1, <3>1 DEF CreditGap
    <3> HIDE DEF Row, Counted, window
    <3>3. CASE gap.schedstat = NoDeltas
      <4>1. Increment(id, c, i, snapshot) = 0
        BY <3>1, <3>3 DEF Increment
      <4>2. Row.schedstat[c] = CounterIn(window, id, c)
        BY <1>4, <3>2, <3>3 DEF CounterIn
      <4> QED  BY <1>3, <4>1, <4>2 DEF window
    <3>4. CASE gap.schedstat # NoDeltas
      <4>1. Increment(id, c, i, snapshot) = Share(gap.schedstat[c], gap, i)
        BY <1>5, <2>1, <3>1, <3>4 DEF Increment, ShareIn
      <4>2. Row.schedstat[c] = CounterIn(window, id, c) + Share(gap.schedstat[c], gap, i)
        BY <1>4, <3>2, <3>4 DEF CounterIn
      <4> QED  BY <4>1, <4>2
    <3> QED  BY <3>3, <3>4
  <2>2. CASE id \notin gapped
    <3>1. Increment(id, c, i, snapshot) = 0
      BY <1>6, <2>2 DEF Increment, ShareIn
    <3>2. Row.schedstat[c] = CounterIn(window, id, c)
      BY <1>4, <2>2 DEF CounterIn
    <3> QED  BY <1>3, <3>1, <3>2
  <2> QED  BY <2>1, <2>2
<1>8. i \notin Affected(snapshot) => id \notin gapped
  <2> SUFFICES ASSUME id \in gapped  PROVE  i \in Affected(snapshot)
    OBVIOUS
  <2>1. GapTouches(id, snapshot, i) /\ id \in DOMAIN previous
    OBVIOUS
  <2>2. /\ previous[id].at \in Nat /\ GapEnd(id, snapshot) \in Nat
        /\ GapEnd(id, snapshot) <= snapshot.finished
        /\ Overlap(i, previous[id].at, GapEnd(id, snapshot)) > 0
    <3>1. GapEnd(id, snapshot) \in Nat /\ previous[id].at \in Nat /\ GapEnd(id, snapshot) <= snapshot.finished
      BY <1>1, <2>1, GapType DEF IsGap
    <3> QED  BY <2>1, <3>1 DEF GapTouches, TouchedWindows
  <2>3. i <= WindowIndex(snapshot.finished)
    BY <1>1, <2>2, TouchedIsReached
  <2> QED  BY <1>1, <2>1, <2>3 DEF Affected, TypeOK
<1>9. CASE i \in Affected(snapshot)
  <2>1. After(i, snapshot) = Credited(i, snapshot)
    BY <1>9 DEF After
  <2>2. CASE id \in DOMAIN window.stats \cup gapped \cup sampled
    <3>1. RowOf(Credited(i, snapshot), id) = Row
      BY <2>2 DEF Credited, RowOf
    <3> QED  BY <1>3, <1>7, <2>1, <3>1 DEF CounterIn
  <2>3. CASE id \notin DOMAIN window.stats \cup gapped \cup sampled
    <3>1. RowOf(Credited(i, snapshot), id) = NoRow /\ Row = NoRow
      BY <2>3 DEF Credited, RowOf
    <3> QED  BY <1>3, <1>7, <2>1, <3>1 DEF CounterIn
  <2> QED  BY <2>2, <2>3
<1>10. CASE i \notin Affected(snapshot)
  <2>1. After(i, snapshot) = window
    BY <1>10 DEF After
  <2>2. Row.schedstat[c] = CounterIn(window, id, c)
    BY <1>4, <1>8, <1>10 DEF CounterIn
  <2> QED  BY <1>3, <1>7, <2>1, <2>2
<1> QED  BY <1>9, <1>10

\* The increments of a snapshot are the increase of the counter in its gap.
LEMMA IncrementsAddUp ==
  ASSUME StateInv, NEW snapshot, IsSnapshot(snapshot), snapshot.started >= finished,
         \A x \in DOMAIN previous : nextWindow > 0 => WindowStart(nextWindow) <= previous[x].at,
         NEW id, NEW c \in Counters,
         NEW S, IsFiniteSet(S), nextWindow .. WindowIndex(snapshot.finished) \subseteq S,
         NEW f, \A i \in S : f[i] = Increment(id, c, i, snapshot)
  PROVE  /\ CountedAfter(id, snapshot)[c] = CountedBefore(id)[c] + SumFunctionOnSet(f, S)
         /\ \A i \in S : f[i] \in Int
<1>1. TimeInv /\ TypeOK /\ SampledOK /\ origin \in Nat /\ nextWindow \in Nat /\ snapshot.finished \in Nat
  BY DEF StateInv, CoverInv, TypeOK, SampledOK, IsSnapshot
<1>2. CountedBefore(id)[c] \in Nat
  BY <1>1, CountedType
<1>3. PICK gap : gap = GapOf(id, snapshot)
  OBVIOUS
<1> DEFINE known == id \in DOMAIN previous /\ gap.schedstat # NoDeltas
<1>4. id \in DOMAIN previous => /\ IsGap(gap) /\ gap.start = previous[id].at
                                /\ gap.start <= gap.end /\ gap.end <= snapshot.finished
  BY <1>1, <1>3, GapType
<1>5. CASE known /\ gap.end > gap.start
  <2>1. /\ gap.start \in Nat /\ gap.end \in Nat /\ gap.start < gap.end /\ gap.schedstat[c] \in Nat
        /\ gap.end <= snapshot.finished
        /\ nextWindow > 0 => WindowStart(nextWindow) <= gap.start
    BY <1>4, <1>5 DEF IsGap
  <2>2. PICK value \in Nat : value = gap.schedstat[c]
    BY <2>1
  <2>3. \A i \in S : f[i] = ShareIn(value, gap, i)
    BY <1>3, <1>5, <2>2 DEF Increment
  <2>4. TouchedWindows(gap.start, gap.end) \subseteq S
    <3>1. ASSUME NEW i \in TouchedWindows(gap.start, gap.end)  PROVE  i \in S
      <4>1. i \in Nat /\ i >= nextWindow /\ Overlap(i, gap.start, gap.end) > 0
        BY <1>1 DEF TouchedWindows
      <4>2. i <= WindowIndex(snapshot.finished)
        BY <1>1, <2>1, <4>1, TouchedIsReached
      <4>3. WindowIndex(snapshot.finished) \in Nat
        BY <1>1, IndexBounds
      <4> QED  BY <1>1, <4>1, <4>2, <4>3
    <3> QED  BY <3>1
  <2>5. SumFunctionOnSet(f, S) = Increase(value, gap) /\ \A i \in S : f[i] \in Int
    BY <1>1, <2>1, <2>2, <2>3, <2>4, GapIsShared
  <2>6. CountedAfter(id, snapshot)[c] = CountedBefore(id)[c] + Increase(value, gap)
    <3>1. CountedAfter(id, snapshot) =
            [x \in Counters |-> CountedBefore(id)[x] + Increase(gap.schedstat[x], gap)]
      BY <1>3, <1>5 DEF CountedAfter
    <3> QED  BY <2>2, <3>1
  <2> QED  BY <2>5, <2>6
<1>6. CASE ~(known /\ gap.end > gap.start)
  <2>1. CountedAfter(id, snapshot) = CountedBefore(id)
    BY <1>3, <1>6 DEF CountedAfter
  <2>2. \A i \in S : f[i] = 0
    <3>1. CASE ~known
      BY <1>3, <3>1 DEF Increment
    <3>2. CASE known /\ ~(gap.end > gap.start)
      <4>1. gap.start \in Nat /\ gap.end \in Nat /\ gap.end <= gap.start
        BY <1>4, <3>2 DEF IsGap
      <4>2. \A i \in nextWindow .. WindowIndex(gap.end) : Overlap(i, gap.start, gap.end) = 0
        <5>1. \A i \in nextWindow .. WindowIndex(gap.end) : i \in Nat
          BY <1>1
        <5> QED  BY <1>1, <4>1, <5>1, OverlapEmpty
      <4>3. TouchedWindows(gap.start, gap.end) = {}
        BY <4>2 DEF TouchedWindows
      <4> QED  BY <1>3, <4>3 DEF Increment, ShareIn
    <3> QED  BY <1>6, <3>1, <3>2
  <2>3. SumFunctionOnSet(f, S) = 0
    BY <2>2, SumOfZeros
  <2> QED  BY <1>2, <2>1, <2>2, <2>3
<1> QED  BY <1>5, <1>6

\* All the threads were sampled after the last window that is reported.
SampledAhead ==
  \A id \in DOMAIN previous : nextWindow > 0 => WindowStart(nextWindow) <= previous[id].at

CountersInv ==
  /\ StateInv
  /\ ~initialized => DOMAIN windows = {}
  /\ SampledAhead
  /\ \A id : \A c \in Counters :
       Total(windows, id, c) + Total(reports, id, c) = CountedBefore(id)[c]

LEMMA CountedSoFar ==
  ASSUME NEW snapshot, Remember(snapshot), NEW id
  PROVE  CountedBefore(id)' = CountedAfter(id, snapshot)
<1>1. counted' = [x \in DOMAIN previous \cup DOMAIN counted |-> CountedAfter(x, snapshot)]
  BY DEF Remember
<1>2. CASE id \in DOMAIN previous \cup DOMAIN counted
  BY <1>1, <1>2 DEF CountedBefore
<1>3. CASE id \notin DOMAIN previous \cup DOMAIN counted
  BY <1>1, <1>3 DEF CountedBefore, CountedAfter
<1> QED  BY <1>2, <1>3

LEMMA IntervalGrows ==
  ASSUME NEW n \in Nat, NEW m \in Nat, n <= m
  PROVE  0 .. n - 1 \subseteq 0 .. m - 1
<1>1. \A x \in 0 .. n - 1 : x \in 0 .. m - 1
  OBVIOUS
<1> QED  BY <1>1

LEMMA LastBefore ==
  ASSUME NEW n \in Nat, n > 0
  PROVE  \E i \in Nat : n = i + 1 /\ i \in 0 .. n - 1
<1>1. n - 1 \in Nat /\ n = (n - 1) + 1 /\ n - 1 \in 0 .. n - 1
  OBVIOUS
<1> QED  BY <1>1

LEMMA NextCounters ==
  ASSUME CountersInv, NEW snapshot, IsSnapshot(snapshot), snapshot.started >= finished,
         ObserveNext(snapshot), Remember(snapshot), StateInv',
         NEW id, NEW c \in Counters
  PROVE  Total(windows', id, c) + Total(reports', id, c) = CountedAfter(id, snapshot)[c]
<1>1. StateInv /\ TypeOK /\ TimeInv /\ IsTimed(snapshot) /\ nextWindow \in Nat /\ origin \in Nat
  BY DEF CountersInv, StateInv, CoverInv, TypeOK, IsSnapshot, IsSample, IsTimed
<1>2. /\ nextWindow' \in Nat /\ nextWindow <= nextWindow'
      /\ \A i \in Nat : i >= nextWindow' => WindowOf(i)' = After(i, snapshot)
      /\ DOMAIN reports' = 0 .. nextWindow' - 1
      /\ \A i \in DOMAIN reports' :
           IF i < nextWindow THEN reports'[i] = reports[i] ELSE reports'[i] = After(i, snapshot)
  BY <1>1, NextWindows
<1>3. /\ DOMAIN windows \subseteq Nat /\ DOMAIN reports = 0 .. nextWindow - 1
      /\ \A i \in DOMAIN windows : i >= nextWindow /\ IsWindow(windows[i])
      /\ \A i \in DOMAIN reports : IsWindow(reports[i])
      /\ IsFiniteSet(DOMAIN windows)
  BY <1>1 DEF StateInv, TypeOK
<1>4. /\ DOMAIN windows' \subseteq Nat
      /\ \A i \in DOMAIN windows' : i >= nextWindow' /\ IsWindow(windows'[i])
      /\ \A i \in DOMAIN reports' : IsWindow(reports'[i])
      /\ IsFiniteSet(DOMAIN windows')
  BY DEF StateInv, TypeOK
<1>5. PICK last \in Nat : last = WindowIndex(snapshot.finished)
  BY <1>1, IndexBounds DEF IsTimed
<1>6. PICK S : S = DOMAIN windows \cup DOMAIN windows' \cup (0 .. nextWindow' - 1) \cup (nextWindow .. last)
  OBVIOUS
<1>7. IsFiniteSet(S)
  <2>1. IsFiniteSet(0 .. nextWindow' - 1) /\ IsFiniteSet(nextWindow .. last)
    BY <1>1, <1>2, FS_Interval
  <2>2. IsFiniteSet(DOMAIN windows \cup DOMAIN windows')
    BY <1>3, <1>4, FS_Union
  <2>3. IsFiniteSet(DOMAIN windows \cup DOMAIN windows' \cup (0 .. nextWindow' - 1))
    BY <2>1, <2>2, FS_Union
  <2> QED  BY <1>6, <2>1, <2>3, FS_Union
<1>8. /\ DOMAIN windows \subseteq S /\ DOMAIN windows' \subseteq S
      /\ DOMAIN reports \subseteq S /\ DOMAIN reports' \subseteq S
      /\ nextWindow .. last \subseteq S
  <2>1. 0 .. nextWindow - 1 \subseteq 0 .. nextWindow' - 1
    <3>1. nextWindow \in Nat /\ nextWindow' \in Nat /\ nextWindow <= nextWindow'
      BY <1>1, <1>2
    <3> QED  BY <3>1, IntervalGrows
  <2>2. DOMAIN reports = 0 .. nextWindow - 1 /\ DOMAIN reports' = 0 .. nextWindow' - 1
    BY <1>2, <1>3
  <2> QED  BY <1>6, <2>1, <2>2
\* Where the windows are: reported before the next one, open after it.
<1>20. ASSUME NEW i \in Nat
       PROVE  /\ i \in DOMAIN reports <=> i < nextWindow
              /\ i \in DOMAIN reports' <=> i < nextWindow'
              /\ i < nextWindow => i \notin DOMAIN windows /\ i < nextWindow'
              /\ i < nextWindow' => i \notin DOMAIN windows'
  <2>1. PICK n \in Nat, m \in Nat : n = nextWindow /\ m = nextWindow' /\ n <= m
    BY <1>1, <1>2
  <2>2. DOMAIN reports = 0 .. n - 1 /\ DOMAIN reports' = 0 .. m - 1
    BY <1>2, <1>3, <2>1
  <2>3. i \in DOMAIN windows => i >= n
    BY <1>3, <2>1
  <2>4. i \in DOMAIN windows' => i >= m
    BY <1>4, <2>1
  <2>5. i < n => i < m
    BY <2>1
  <2>6. i \in DOMAIN reports <=> i < n
    BY <2>2
  <2>7. i \in DOMAIN reports' <=> i < m
    BY <2>2
  <2>8. i < n => ~(i >= n)
    OBVIOUS
  <2>9. i < m => ~(i >= m)
    OBVIOUS
  <2> QED  BY <2>1, <2>3, <2>4, <2>5, <2>6, <2>7, <2>8, <2>9
<1>9. \A i \in S : i \in Nat
  BY <1>1, <1>2, <1>3, <1>4, <1>6
<1>10. PICK f : \A i \in S : f[i] = CounterIn(LineOf(windows, reports, i), id, c)
  <2>1. \A i \in S : [x \in S |-> CounterIn(LineOf(windows, reports, x), id, c)][i]
                       = CounterIn(LineOf(windows, reports, i), id, c)
    OBVIOUS
  <2> QED  BY <2>1
<1>11. PICK g : \A i \in S : g[i] = CounterIn(LineOf(windows', reports', i), id, c)
  <2>1. \A i \in S : [x \in S |-> CounterIn(LineOf(windows', reports', x), id, c)][i]
                       = CounterIn(LineOf(windows', reports', i), id, c)
    OBVIOUS
  <2> QED  BY <2>1
<1>12. PICK d : \A i \in S : d[i] = Increment(id, c, i, snapshot)
  <2>1. \A i \in S : [x \in S |-> Increment(id, c, x, snapshot)][i] = Increment(id, c, i, snapshot)
    OBVIOUS
  <2> QED  BY <2>1
<1>13. Shows(S, f, windows, reports, id, c)
  <2>1. DOMAIN windows \cap DOMAIN reports = {}
    BY <1>1, <1>3
  <2> QED  BY <1>3, <1>7, <1>8, <1>10, <2>1 DEF Shows
<1>14. Shows(S, g, windows', reports', id, c)
  <2>1. DOMAIN windows' \cap DOMAIN reports' = {}
    BY <1>2, <1>4
  <2> QED  BY <1>4, <1>7, <1>8, <1>11, <2>1 DEF Shows
<1>15. /\ Total(windows, id, c) + Total(reports, id, c) = SumFunctionOnSet(f, S)
       /\ Total(windows', id, c) + Total(reports', id, c) = SumFunctionOnSet(g, S)
       /\ \A i \in S : f[i] \in Int /\ g[i] \in Int
  BY <1>13, <1>14, TotalsOver
<1>16. /\ CountedAfter(id, snapshot)[c] = CountedBefore(id)[c] + SumFunctionOnSet(d, S)
       /\ \A i \in S : d[i] \in Int
  BY <1>1, <1>5, <1>7, <1>8, <1>12, IncrementsAddUp DEF CountersInv, SampledAhead
<1>17. ASSUME NEW i \in S  PROVE  g[i] = f[i] + d[i]
  <2>1. i \in Nat
    BY <1>9
  <2>2. CASE i < nextWindow
    <3>1. i \in DOMAIN reports /\ i \in DOMAIN reports' /\ i \notin DOMAIN windows /\ i \notin DOMAIN windows'
      BY <1>20, <2>1, <2>2
    <3>2. LineOf(windows, reports, i) = LineOf(windows', reports', i)
      BY <1>2, <2>2, <3>1 DEF LineOf
    <3>3. d[i] = 0
      <4>1. \A from, to : i \notin TouchedWindows(from, to)
        BY <1>1, <2>1, <2>2 DEF TouchedWindows
      <4> QED  BY <1>12, <4>1 DEF Increment, ShareIn
    <3> QED  BY <1>10, <1>11, <1>15, <3>2, <3>3
  <2>3. CASE ~(i < nextWindow)
    <3>1. LineOf(windows, reports, i) = WindowOf(i)
      BY <1>20, <2>1, <2>3 DEF LineOf, WindowOf
    <3>2. LineOf(windows', reports', i) = After(i, snapshot)
      <4>1. CASE i < nextWindow'
        <5>1. i \in DOMAIN reports' /\ i \notin DOMAIN windows'
          BY <1>20, <2>1, <4>1
        <5> QED  BY <1>2, <2>3, <5>1 DEF LineOf
      <4>2. CASE ~(i < nextWindow')
        <5>1. i \notin DOMAIN reports'
          BY <1>20, <2>1, <4>2
        <5>2. nextWindow' \in Nat /\ i >= nextWindow'
          BY <1>2, <2>1, <4>2
        <5>3. WindowOf(i)' = After(i, snapshot)
          BY <1>2, <2>1, <5>2
        <5> QED  BY <5>1, <5>3 DEF LineOf, WindowOf
      <4> QED  BY <4>1, <4>2
    <3>3. i >= nextWindow
      BY <1>1, <2>1, <2>3
    <3>4. CounterIn(After(i, snapshot), id, c)
            = CounterIn(WindowOf(i), id, c) + Increment(id, c, i, snapshot)
      BY <1>1, <2>1, <3>3, AfterCounter
    <3> QED  BY <1>10, <1>11, <1>12, <3>1, <3>2, <3>4
  <2> QED  BY <2>2, <2>3
<1>18. SumFunctionOnSet(g, S) = SumFunctionOnSet(f, S) + SumFunctionOnSet(d, S)
  BY <1>7, <1>15, <1>16, <1>17, SumOfSums
<1>19. CountedBefore(id)[c] = SumFunctionOnSet(f, S)
  BY <1>15 DEF CountersInv
<1> QED  BY <1>15, <1>16, <1>18, <1>19


\* The first snapshot has no gaps, and its windows count samples alone.
LEMMA FirstCounters ==
  ASSUME CountersInv, NEW snapshot, IsSnapshot(snapshot), ObserveFirst(snapshot), Remember(snapshot),
         StateInv', NEW id, NEW c \in Counters
  PROVE  Total(windows', id, c) + Total(reports', id, c) = CountedAfter(id, snapshot)[c]
<1>1. /\ StateInv /\ TimeInv /\ ~initialized /\ nextWindow = 0 /\ DOMAIN previous = {}
      /\ DOMAIN windows = {} /\ reports' = reports
  BY DEF CountersInv, StateInv, CoverInv, TimeInv, ObserveFirst
<1>2. CountedAfter(id, snapshot) = CountedBefore(id)
  BY <1>1 DEF CountedAfter
<1>3. Total(windows, id, c) + Total(reports, id, c) = CountedBefore(id)[c]
  BY DEF CountersInv
<1>4. ASSUME NEW ws, IsFiniteSet(DOMAIN ws), \A i \in DOMAIN ws : CounterIn(ws[i], id, c) = 0
      PROVE  Total(ws, id, c) = 0
  <2> DEFINE t == [i \in DOMAIN ws |-> CounterIn(ws[i], id, c)]
             D == DOMAIN ws
  <2>1. Total(ws, id, c) = SumFunctionOnSet(t, D)
    BY DEF Total, SumFunction, CounterIn
  <2>2. IsFiniteSet(D) /\ \A i \in D : t[i] = 0
    BY <1>4
  <2> HIDE DEF t, D
  <2> QED  BY <2>1, <2>2, SumOfZeros
<1>5. Total(windows, id, c) = 0
  <2>1. IsFiniteSet(DOMAIN windows)
    BY <1>1, FS_EmptySet
  <2> QED  BY <1>1, <1>4, <2>1
<1> DEFINE ids == DOMAIN snapshot.samples
           once == [NoRow EXCEPT !.samples = 1]
           scanned == ScannedWindows(snapshot)'
           first == [i \in scanned \cup (IF ids = {} THEN {} ELSE {0}) |->
             [stats |-> [x \in IF i = 0 THEN ids ELSE {} |-> once],
              scans |-> IF i \in scanned THEN 1 ELSE 0, gap |-> 0]]
<1>6. windows' = first
  BY DEF ObserveFirst
<1>7. NoRow.schedstat[c] = 0 /\ once.schedstat[c] = 0
  BY DEF NoRow
<1> HIDE DEF ids, once, scanned
<1>8. ASSUME NEW i \in DOMAIN windows'  PROVE  CounterIn(windows'[i], id, c) = 0
  <2>1. windows'[i].stats = [x \in IF i = 0 THEN ids ELSE {} |-> once]
    BY <1>6
  <2>2. RowOf(windows'[i], id) = once \/ RowOf(windows'[i], id) = NoRow
    BY <2>1 DEF RowOf
  <2> QED  BY <1>7, <2>2 DEF CounterIn
<1>9. Total(windows', id, c) = 0
  <2>1. IsFiniteSet(DOMAIN windows')
    BY DEF StateInv
  <2> QED  BY <1>4, <1>8, <2>1
<1> QED  BY <1>1, <1>2, <1>3, <1>5, <1>9

\* What was observed of the threads is not in the windows that stay open only.
LEMMA NextIsAhead ==
  ASSUME StateInv, NEW snapshot, IsSnapshot(snapshot), snapshot.started >= finished,
         ObserveNext(snapshot),
         NEW id \in DOMAIN snapshot.samples, nextWindow' > 0
  PROVE  WindowStart(nextWindow)' <= snapshot.samples[id].at
<1>1. TimeInv /\ IsTimed(snapshot)
  BY DEF StateInv, CoverInv, IsSnapshot, IsSample, IsTimed
<1>2. /\ UNCHANGED <<initialized, origin>> /\ nextWindow' \in Nat
      /\ DOMAIN reports' = 0 .. nextWindow' - 1
      /\ \A i \in DOMAIN reports' :
           ~(i < nextWindow) => WindowEnd(i) <= Watermark(snapshot)
  BY <1>1, NextWindows
<1>3. PICK i \in Nat : nextWindow' = i + 1 /\ i \in DOMAIN reports'
  <2>1. nextWindow' \in Nat /\ DOMAIN reports' = 0 .. nextWindow' - 1
    BY <1>2
  <2> QED  BY <2>1, LastBefore
<1>4. WindowStart(nextWindow)' = WindowEnd(i)
  <2>1. nextWindow' = i + 1
    BY <1>3
  <2>2. origin' = origin
    BY <1>2
  <2> QED  BY <2>1, <2>2 DEF WindowStart, WindowEnd
<1>5. /\ snapshot.samples[id].at \in Nat /\ snapshot.started <= snapshot.samples[id].at
      /\ finished \in Nat /\ snapshot.started \in Nat /\ finished <= snapshot.started
      /\ WindowEnd(i) \in Nat
  BY <1>1, SnapshotType, WindowBounds DEF TimeInv
<1>6. CASE i < nextWindow
  <2>1. i \in DOMAIN reports
    BY <1>1, <1>3, <1>6 DEF TimeInv
  <2>2. WindowEnd(i) <= finished
    BY <1>1, <2>1 DEF TimeInv
  <2> QED  BY <1>4, <1>5, <2>2
<1>7. CASE ~(i < nextWindow)
  <2>1. WindowEnd(i) <= Watermark(snapshot)
    BY <1>2, <1>3, <1>7
  <2>2. Watermark(snapshot) \in Nat /\ Watermark(snapshot) <= snapshot.samples[id].at
    <3>1. Ends(snapshot) \in SUBSET Nat /\ Ends(snapshot) # {}
      BY <1>1, SnapshotType DEF Ends
    <3>2. snapshot.samples[id].at \in Ends(snapshot)
      BY DEF Ends, GapEnd
    <3> QED  BY <3>1, <3>2, MinIsLeast DEF Watermark
  <2> QED  BY <1>4, <1>5, <2>1, <2>2
<1> QED  BY <1>6, <1>7

LEMMA ObserveCounters ==
  ASSUME CountersInv, NEW snapshot \in Snapshots, snapshot.started >= finished, Observe(snapshot)
  PROVE  CountersInv'
<1>1. IsSnapshot(snapshot) /\ StateInv /\ TimeInv /\ Remember(snapshot)
  BY SnapshotsAssumption DEF CountersInv, StateInv, CoverInv, Observe
<1>2. StateInv'
  BY <1>1, TypeStep DEF Next
<1>3. initialized' = TRUE
  BY DEF Observe, ObserveFirst, ObserveNext
<1>4. previous' = snapshot.samples
  BY <1>1 DEF Remember
<1>5. ASSUME NEW id \in DOMAIN previous', nextWindow' > 0
      PROVE  WindowStart(nextWindow)' <= previous'[id].at
  <2>1. CASE ObserveFirst(snapshot)
    <3>1. nextWindow' = 0
      BY <1>1, <2>1 DEF ObserveFirst, TimeInv
    <3> QED  BY <1>5, <3>1
  <2>2. CASE ObserveNext(snapshot)
    BY <1>1, <1>4, <1>5, <2>2, NextIsAhead DEF CountersInv
  <2> QED  BY <2>1, <2>2 DEF Observe
<1>6. ASSUME NEW id, NEW c \in Counters
      PROVE  Total(windows', id, c) + Total(reports', id, c) = CountedBefore(id)'[c]
  <2>1. CountedBefore(id)' = CountedAfter(id, snapshot)
    BY <1>1, CountedSoFar
  <2>2. Total(windows', id, c) + Total(reports', id, c) = CountedAfter(id, snapshot)[c]
    BY <1>1, <1>2, FirstCounters, NextCounters DEF Observe
  <2> QED  BY <2>1, <2>2
<1>7. \A id : \A c \in Counters : (Total(windows, id, c) + Total(reports, id, c) = CountedBefore(id)[c])'
  BY <1>6 DEF Total, RowOf
<1>8. SampledAhead'
  BY <1>5 DEF SampledAhead
<1> QED  BY <1>2, <1>3, <1>7, <1>8 DEF CountersInv

LEMMA CountersStep == CountersInv /\ [Next]_vars => CountersInv'
<1> SUFFICES ASSUME CountersInv, [Next]_vars  PROVE  CountersInv'
  OBVIOUS
<1>1. CASE Next
  BY <1>1, ObserveCounters DEF Next
<1>2. CASE UNCHANGED vars
  <2>1. StateInv'
    BY <1>2, TypeStep DEF CountersInv
  <2>2. /\ initialized' = initialized /\ origin' = origin /\ previous' = previous /\ windows' = windows
        /\ nextWindow' = nextWindow /\ reports' = reports /\ counted' = counted
    BY <1>2 DEF vars, ghosts
  <2> QED  BY <2>1, <2>2 DEF CountersInv, SampledAhead, WindowStart, Total, RowOf, CountedBefore
<1> QED  BY <1>1, <1>2

LEMMA InitCounters == Init => CountersInv
<1> SUFFICES ASSUME Init  PROVE  CountersInv
  OBVIOUS
<1>1. /\ nextWindow = 0 /\ DOMAIN previous = {} /\ DOMAIN windows = {} /\ DOMAIN reports = {}
      /\ DOMAIN counted = {}
  BY DEF Init
<1>2. ASSUME NEW ws, DOMAIN ws = {}, NEW id, NEW c \in Counters  PROVE  Total(ws, id, c) = 0
  <2> DEFINE t == [i \in DOMAIN ws |-> RowOf(ws[i], id).schedstat[c]]
  <2>1. Total(ws, id, c) = SumFunctionOnSet(t, DOMAIN ws)
    BY DEF Total, SumFunction
  <2>2. IsFiniteSet(DOMAIN ws) /\ \A i \in DOMAIN ws : t[i] = 0
    BY <1>2, FS_EmptySet
  <2> HIDE DEF t
  <2> QED  BY <2>1, <2>2, SumOfZeros
<1>3. \A id : \A c \in Counters : Total(windows, id, c) + Total(reports, id, c) = CountedBefore(id)[c]
  BY <1>1, <1>2 DEF CountedBefore
<1> QED  BY <1>1, <1>3, InitTyped DEF CountersInv, SampledAhead

\* The rows of each thread add up to the increase of its counters that the gaps have
\* shown, as long as a thread was last sampled after the last window that was reported:
\* only then no part of a gap falls into a window that forEachWindow skips.
THEOREM CountersInvariant == Spec => []CountersInv
BY InitCounters, CountersStep, PTL DEF Spec

\* The rows of a thread have all the increase of its counters and no more, however the
\* gaps cross the windows: nothing is lost to rounding or to a window that was reported
\* already (addSchedstatDelta, forEachWindow).
THEOREM CountersConserved == Spec => []CountersAreConserved
<1>1. CountersInv => CountersAreConserved
  BY DEF CountersInv, CountersAreConserved, CountedBefore
<1> QED  BY <1>1, CountersInvariant, PTL
=============================================================================
