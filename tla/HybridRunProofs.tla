---------------------------- MODULE HybridRunProofs ----------------------------
(***************************************************************************)
(* Proofs about the loop of the hybrid backend, for all threads, intervals *)
(* and lengths of a run: each report of the events gets the snapshots of   *)
(* its window, none is left behind, and the snapshots cover the threads.   *)
(*                                                                         *)
(* What has to be shown is that two accumulators that are driven by        *)
(* different clocks close the same windows: the scan at a boundary starts  *)
(* after the boundary, so that its watermark is not before it.             *)
(***************************************************************************)
EXTENDS HybridRun, SnapshotProofs

Collectors == {"first", "tick", "boundary", "looping", "emitting", "stopped", "failed"}

ClockInv ==
  /\ collector \in Collectors
  /\ clock \in Nat /\ started \in Nat /\ started <= clock
  /\ origin # NoTime /\ finished <= clock
  /\ collector \in Scanning => finished <= started

\* The reports that wait are those from the boundary to the next window.
PendingInv ==
  /\ boundary \in Nat
  /\ auxEnabled \in BOOLEAN
  /\ collector = "first" => ~initialized /\ ~auxEnabled /\ boundary = 0 /\ emitted.merged
  /\ collector \in {"tick", "boundary"} => auxEnabled
  /\ ~auxEnabled => DOMAIN pending = {}
  /\ auxEnabled => initialized /\ boundary <= nextWindow
                   /\ DOMAIN pending = boundary .. nextWindow - 1
  /\ collector = "boundary" => WindowEnd(boundary) <= started
  /\ collector = "emitting" /\ auxEnabled => boundary < nextWindow

HybridInv == CoverInv /\ ClockInv /\ PendingInv /\ AuxReportsAreMerged

----------------------------------------------------------------------------
(* Scans *)

\* Scans are taken between the start and now.
LEMMA ScansAreTimed ==
  ASSUME ClockInv, NEW snapshot \in MergedSnapshots \cup ProcSnapshots
  PROVE  IsTimed(snapshot) /\ started <= snapshot.started /\ snapshot.finished = clock
<1>1. clock \in Nat /\ started \in Nat
  BY DEF ClockInv
<1>2. \A t, u \in Threads : AuxIdentity(t) = AuxIdentity(u) => t = u
  BY ThreadsAssumption DEF AuxIdentity
<1>3. \A t \in Threads : AuxIdentity(t) \in IdentityType
  BY ThreadsAssumption DEF AuxIdentity, IdentityType
<1>4. ASSUME NEW from \in Nat, NEW to \in Nat, NEW scan \in ScanOf(from, to)
      PROVE  /\ DOMAIN scan \subseteq Threads
             /\ \A t \in DOMAIN scan : scan[t] \in Nat /\ from <= scan[t] /\ scan[t] <= to
  <2>1. PICK ids \in SUBSET Threads : scan \in [ids -> from .. to]
    BY DEF ScanOf
  <2> QED  BY <2>1
<1>5. CASE snapshot \in MergedSnapshots
  <2>1. PICK middle \in started .. clock :
          \E stats \in ScanOf(started, middle), proc \in ScanOf(middle, clock) :
            snapshot = [started |-> started, finished |-> clock, samples |-> Merged(stats, proc)]
    BY <1>5 DEF MergedSnapshots
  <2>2. PICK stats \in ScanOf(started, middle), proc \in ScanOf(middle, clock) :
          snapshot = [started |-> started, finished |-> clock, samples |-> Merged(stats, proc)]
    BY <2>1
  <2>3. middle \in Nat /\ started <= middle /\ middle <= clock
    BY <1>1
  <2>4. /\ DOMAIN stats \subseteq Threads /\ DOMAIN proc \subseteq Threads
        /\ \A t \in DOMAIN stats : stats[t] \in Nat /\ started <= stats[t] /\ stats[t] <= middle
        /\ \A t \in DOMAIN proc : proc[t] \in Nat /\ middle <= proc[t] /\ proc[t] <= clock
    BY <1>1, <1>4, <2>3
  <2>5. DOMAIN Merged(stats, proc) = {AuxIdentity(t) : t \in DOMAIN stats \cup DOMAIN proc}
    BY DEF Merged
  <2>6. ASSUME NEW id \in DOMAIN Merged(stats, proc)
        PROVE  /\ Merged(stats, proc)[id].at \in Nat
               /\ started <= Merged(stats, proc)[id].at /\ Merged(stats, proc)[id].at <= clock
    <3>1. PICK t \in DOMAIN stats \cup DOMAIN proc : id = AuxIdentity(t)
      BY <2>5
    <3> DEFINE chosen == CHOOSE u \in Threads : AuxIdentity(u) = id
               MergedOf(u) == IF u \notin DOMAIN stats THEN Sample(proc[u], NoDelays)
                              ELSE IF u \notin DOMAIN proc THEN Sample(stats[u], Delays)
                              ELSE Sample((stats[u] + proc[u]) \div 2, Delays)
    <3>2. chosen = t
      BY <1>2, <2>4, <3>1
    <3>3. Merged(stats, proc)[id] = MergedOf(chosen)
      BY <2>6, <2>5, Zenon DEF Merged
    <3>4. Merged(stats, proc)[id] =
            IF t \notin DOMAIN stats THEN Sample(proc[t], NoDelays)
            ELSE IF t \notin DOMAIN proc THEN Sample(stats[t], Delays)
            ELSE Sample((stats[t] + proc[t]) \div 2, Delays)
      BY <3>2, <3>3
    <3>5. \A at, delays : Sample(at, delays).at = at
      BY DEF Sample
    <3> QED  BY <1>1, <2>3, <2>4, <3>1, <3>4, <3>5
  <2>7. DOMAIN Merged(stats, proc) \subseteq IdentityType
    BY <1>3, <2>4, <2>5
  <2> HIDE DEF Merged
  <2> QED  BY <1>1, <2>2, <2>3, <2>6, <2>7 DEF IsTimed
<1>6. CASE snapshot \in ProcSnapshots
  <2> DEFINE Samples(scan) == [id \in {AuxIdentity(t) : t \in DOMAIN scan} |->
               Sample(scan[CHOOSE u \in Threads : AuxIdentity(u) = id], NoDelays)]
  <2>1. PICK from \in started .. clock :
          \E scan \in ScanOf(from, clock) :
            snapshot = [started |-> from, finished |-> clock, samples |-> Samples(scan)]
    BY <1>6 DEF ProcSnapshots
  <2>2. PICK scan \in ScanOf(from, clock) :
          snapshot = [started |-> from, finished |-> clock, samples |-> Samples(scan)]
    BY <2>1
  <2>3. from \in Nat /\ started <= from /\ from <= clock
    BY <1>1
  <2>4. /\ DOMAIN scan \subseteq Threads
        /\ \A t \in DOMAIN scan : scan[t] \in Nat /\ from <= scan[t] /\ scan[t] <= clock
    BY <1>1, <1>4, <2>3
  <2>5. DOMAIN Samples(scan) = {AuxIdentity(t) : t \in DOMAIN scan}
    OBVIOUS
  <2>6. ASSUME NEW id \in DOMAIN Samples(scan)
        PROVE  /\ Samples(scan)[id].at \in Nat
               /\ from <= Samples(scan)[id].at /\ Samples(scan)[id].at <= clock
    <3>1. PICK t \in DOMAIN scan : id = AuxIdentity(t)
      BY <2>5
    <3>2. (CHOOSE u \in Threads : AuxIdentity(u) = id) = t
      BY <1>2, <2>4, <3>1
    <3>3. Samples(scan)[id].at = scan[t]
      BY <2>6, <2>5, <3>2 DEF Sample
    <3> QED  BY <2>4, <3>1, <3>3
  <2>7. DOMAIN Samples(scan) \subseteq IdentityType
    BY <1>3, <2>4, <2>5
  <2> HIDE DEF Samples
  <2> QED  BY <1>1, <2>2, <2>3, <2>6, <2>7 DEF IsTimed
<1> QED  BY <1>5, <1>6

----------------------------------------------------------------------------
(* Steps *)

LEMMA InvInitially == RunInit => HybridInv
<1> SUFFICES ASSUME RunInit  PROVE  HybridInv
  OBVIOUS
<1>1. CoverInv
  BY InitCovers DEF RunInit
<1>2. origin \in Nat /\ origin # NoTime /\ finished = 0 /\ ~initialized
  BY OriginsAssumption DEF RunInit, Init, NoTime
<1>3. ClockInv
  BY <1>2 DEF RunInit, ClockInv, Collectors
<1>4. PendingInv
  <2>1. auxEnabled = FALSE /\ pending = << >> /\ boundary = 0 /\ collector = "first"
    BY DEF RunInit
  <2>2. emitted.merged
    BY DEF RunInit, NoReport
  <2>3. DOMAIN pending = {}
    BY <2>1
  <2> QED  BY <1>2, <2>1, <2>2, <2>3 DEF PendingInv
<1>5. AuxReportsAreMerged
  BY DEF RunInit, AuxReportsAreMerged
<1> QED  BY <1>1, <1>3, <1>4, <1>5 DEF HybridInv

\* Steps of the target and of the clock, and those that end the run or start a scan.
LEMMA QuietStepKeepsInv ==
  ASSUME HybridInv, UNCHANGED <<vars, auxEnabled, pending, boundary, emitted>>,
         clock' \in Nat, clock <= clock', started' \in {started, clock},
         collector' \in Collectors \ {"first"} \/ UNCHANGED collector,
         collector' \in Scanning => started' = clock \/ UNCHANGED <<collector, started>>,
         collector' \in {"tick", "boundary"} => auxEnabled,
         collector' = "boundary" => WindowEnd(boundary) <= started',
         collector' = "emitting" => ~auxEnabled \/ UNCHANGED collector
  PROVE  HybridInv'
<1>1. CoverInv'
  BY StutteringCovers DEF HybridInv
<1>2. UNCHANGED <<origin, finished, nextWindow, initialized>>
  BY DEF vars, ghosts
<1>3. ClockInv'
  <2>1. /\ finished \in Nat /\ clock \in Nat /\ started \in Nat /\ started <= clock
        /\ finished <= clock /\ origin # NoTime /\ collector \in Collectors
        /\ (collector \in Scanning => finished <= started)
    BY DEF HybridInv, ClockInv, CoverInv, TimeInv
  <2>2. started' \in Nat /\ started' <= clock'
    BY <2>1
  <2>3. collector' \in Scanning => finished' <= started'
    BY <2>1, <1>2
  <2>4. finished' <= clock'
    BY <2>1, <1>2
  <2> QED  BY <1>2, <2>1, <2>2, <2>3, <2>4 DEF ClockInv
<1>4. PendingInv'
  <2>1. WindowEnd(boundary)' = WindowEnd(boundary)
    BY <1>2 DEF WindowEnd
  <2> QED  BY <1>2, <2>1 DEF HybridInv, PendingInv
<1>5. AuxReportsAreMerged'
  BY DEF HybridInv, AuxReportsAreMerged
<1> QED  BY <1>1, <1>3, <1>4, <1>5 DEF HybridInv

LEMMA QuietStepsKeepInv ==
  ASSUME HybridInv,
         \/ \E t \in Threads : Begin(t) \/ End(t)
         \/ Tick \/ FailSnapshot \/ Cancel \/ StartTick \/ StartBoundary
         \/ UNCHANGED <<vars, runVars>>
  PROVE  HybridInv'
<1>1. clock \in Nat /\ started \in Nat /\ collector \in Collectors /\ boundary \in Nat
      /\ (collector \in {"tick", "boundary"} => auxEnabled)
      /\ (collector = "boundary" => WindowEnd(boundary) <= started)
  BY DEF HybridInv, ClockInv, PendingInv
<1>2. CASE (\E t \in Threads : Begin(t) \/ End(t)) \/ Tick \/ UNCHANGED <<vars, runVars>>
  <2>1. /\ UNCHANGED <<vars, collector, started, auxEnabled, pending, boundary, emitted>>
        /\ clock' \in {clock, clock + 1}
    BY <1>2 DEF Begin, End, Tick, loopVars, runVars
  <2> QED  BY <2>1, <1>1, QuietStepKeepsInv
<1>3. CASE FailSnapshot \/ Cancel
  <2>1. /\ UNCHANGED <<vars, clock, started, auxEnabled, pending, boundary, emitted>>
        /\ collector' \in {"failed", "stopped"}
    BY <1>3 DEF FailSnapshot, Cancel
  <2> QED  BY <2>1, <1>1, QuietStepKeepsInv DEF Collectors, Scanning
<1>4. CASE StartTick
  <2>1. /\ UNCHANGED <<vars, clock, auxEnabled, pending, boundary, emitted>>
        /\ collector' = "tick" /\ auxEnabled /\ started' = clock
    BY <1>4 DEF StartTick
  <2> QED  BY <2>1, <1>1, QuietStepKeepsInv DEF Collectors
<1>5. CASE StartBoundary
  <2>1. /\ UNCHANGED <<vars, clock, auxEnabled, pending, boundary, emitted>>
        /\ collector' = IF auxEnabled THEN "boundary" ELSE "emitting"
        /\ started' = clock /\ clock >= WindowEnd(boundary)
    BY <1>5 DEF StartBoundary
  <2>2. WindowEnd(boundary) <= clock
    <3>1. WindowEnd(boundary) \in Nat
      BY <1>1, WindowBounds DEF HybridInv, CoverInv, TimeInv
    <3> QED  BY <2>1, <3>1, <1>1
  <2> QED  BY <2>1, <2>2, <1>1, QuietStepKeepsInv DEF Collectors, Scanning
<1> QED  BY <1>2, <1>3, <1>4, <1>5

\* The baseline.
LEMMA FirstSnapshotKeepsInv ==
  ASSUME HybridInv, NEW snapshot \in MergedSnapshots \cup ProcSnapshots,
         FirstSnapshot(snapshot), UNCHANGED clock
  PROVE  HybridInv'
<1>1. /\ collector = "first" /\ collector' = "looping" /\ auxEnabled' = HasDelays(snapshot)
      /\ UNCHANGED <<started, pending, boundary, emitted>>
  BY DEF FirstSnapshot
<1>2. /\ IsTimed(snapshot) /\ started <= snapshot.started /\ snapshot.finished = clock
      /\ snapshot.started \in Nat /\ started \in Nat /\ clock \in Nat /\ finished \in Nat
      /\ snapshot.started >= finished
  BY <1>1, ScansAreTimed DEF HybridInv, ClockInv, CoverInv, TimeInv, IsTimed, Scanning
<1>3. /\ ~initialized /\ boundary = 0 /\ nextWindow = 0 /\ DOMAIN pending = {}
      /\ emitted.merged
  BY <1>1 DEF HybridInv, PendingInv, CoverInv, TimeInv
<1>4. CASE HasDelays(snapshot)
  <2>1. Observe(snapshot)
    BY <1>4 DEF FirstSnapshot
  <2>2. CoverInv'
    BY <1>2, <2>1, ObserveCovers DEF HybridInv
  <2>3. /\ ObserveFirst(snapshot) /\ finished' = clock
    BY <1>2, <1>3, <2>1 DEF Observe, ObserveNext, Remember
  <2>4. initialized' = TRUE /\ nextWindow' = 0 /\ origin' = origin
    BY <1>3, <2>3 DEF ObserveFirst, HybridInv, ClockInv
  <2>5. ClockInv'
    BY <1>1, <1>2, <2>3, <2>4 DEF HybridInv, ClockInv, Collectors, Scanning
  <2>6. PendingInv'
    <3>1. 0 .. 0 - 1 = {}
      OBVIOUS
    <3> QED  BY <1>1, <1>3, <1>4, <2>4, <3>1 DEF PendingInv
  <2>7. AuxReportsAreMerged'
    BY <1>1, <1>3 DEF AuxReportsAreMerged
  <2> QED  BY <2>2, <2>5, <2>6, <2>7 DEF HybridInv
<1>5. CASE ~HasDelays(snapshot)
  <2>1. UNCHANGED vars
    BY <1>5 DEF FirstSnapshot
  <2>2. CoverInv'
    BY <2>1, StutteringCovers DEF HybridInv
  <2>3. UNCHANGED <<origin, finished, nextWindow, initialized>>
    BY <2>1 DEF vars, ghosts
  <2>4. ClockInv'
    BY <1>1, <2>3 DEF HybridInv, ClockInv, Collectors, Scanning
  <2>5. auxEnabled' = FALSE
    BY <1>1, <1>5 DEF HasDelays
  <2>6. PendingInv' /\ AuxReportsAreMerged'
    BY <1>1, <1>3, <2>3, <2>5 DEF PendingInv, AuxReportsAreMerged
  <2> QED  BY <2>2, <2>4, <2>6 DEF HybridInv
<1> QED  BY <1>4, <1>5

\* The scans beside the events.  That of a boundary closes the window before it.
LEMMA AuxSnapshotKeepsInv ==
  ASSUME HybridInv, NEW snapshot \in MergedSnapshots \cup ProcSnapshots,
         AuxSnapshot(snapshot), UNCHANGED clock
  PROVE  HybridInv'
<1>1. /\ collector \in {"tick", "boundary"}
      /\ collector' = IF collector = "tick" THEN "looping" ELSE "emitting"
      /\ UNCHANGED <<started, auxEnabled, boundary, emitted>>
      /\ Observe(snapshot) /\ StoreAuxReports
  BY DEF AuxSnapshot
<1>2. /\ auxEnabled /\ initialized /\ boundary \in Nat /\ boundary <= nextWindow
      /\ DOMAIN pending = boundary .. nextWindow - 1 /\ nextWindow \in Nat
      /\ collector = "boundary" => WindowEnd(boundary) <= started
  BY <1>1 DEF HybridInv, PendingInv, CoverInv, TimeInv
<1>3. /\ IsTimed(snapshot) /\ started <= snapshot.started /\ snapshot.finished = clock
      /\ snapshot.started \in Nat /\ started \in Nat /\ clock \in Nat /\ finished \in Nat
      /\ snapshot.started >= finished
  BY <1>1, ScansAreTimed DEF HybridInv, ClockInv, CoverInv, TimeInv, IsTimed, Scanning
<1>4. CoverInv'
  BY <1>1, <1>3, ObserveCovers DEF HybridInv
<1>5. ObserveNext(snapshot) /\ finished' = clock
  BY <1>1, <1>2, <1>3 DEF Observe, ObserveFirst, Remember
<1>6. /\ UNCHANGED <<initialized, origin>>
      /\ nextWindow' \in Nat /\ nextWindow <= nextWindow'
  BY <1>3, <1>5, NextWindows DEF HybridInv, CoverInv
<1>7. collector = "boundary" => boundary < nextWindow'
  <2> SUFFICES ASSUME collector = "boundary"  PROVE  boundary < nextWindow'
    OBVIOUS
  <2>1. WindowEnd(boundary) <= snapshot.started
    <3>1. WindowEnd(boundary) \in Nat
      BY <1>2, WindowBounds DEF HybridInv, CoverInv, TimeInv
    <3> QED  BY <3>1, <1>2, <1>3
  <2> QED  BY <2>1, <1>2, <1>3, <1>5, ScanClosesWindows DEF HybridInv, CoverInv
<1>8. ClockInv'
  BY <1>1, <1>3, <1>5, <1>6 DEF HybridInv, ClockInv, Collectors, Scanning
<1>9. DOMAIN pending' = boundary .. nextWindow' - 1
  <2>1. DOMAIN pending' = DOMAIN pending \cup nextWindow .. nextWindow' - 1
    BY <1>1 DEF StoreAuxReports
  <2> QED  BY <2>1, <1>2, <1>6
<1>10. PendingInv'
  BY <1>1, <1>2, <1>6, <1>7, <1>9 DEF PendingInv
<1>11. AuxReportsAreMerged'
  BY <1>1 DEF HybridInv, AuxReportsAreMerged
<1> QED  BY <1>4, <1>8, <1>10, <1>11 DEF HybridInv

LEMMA EmitKeepsInv ==
  ASSUME HybridInv, NEW rows \in EventRows, Emit(rows)
  PROVE  HybridInv'
<1>1. /\ collector = "emitting" /\ collector' \in {"looping", "stopped"}
      /\ boundary' = boundary + 1
      /\ DOMAIN pending' = DOMAIN pending \ {boundary}
      /\ emitted' = IF boundary \in DOMAIN pending THEN HybridReport(rows, pending[boundary])
                    ELSE EventReport
      /\ UNCHANGED <<vars, clock, started, auxEnabled>>
  BY DEF Emit
<1>2. UNCHANGED <<origin, finished, nextWindow, initialized>>
  BY <1>1 DEF vars, ghosts
<1>3. CoverInv'
  BY <1>1, StutteringCovers DEF HybridInv
<1>4. ClockInv'
  BY <1>1, <1>2 DEF HybridInv, ClockInv, Collectors, Scanning
<1>5. boundary \in Nat /\ nextWindow \in Nat
      /\ (auxEnabled => boundary < nextWindow /\ DOMAIN pending = boundary .. nextWindow - 1)
  BY <1>1 DEF HybridInv, PendingInv, CoverInv, TimeInv
<1>6. PendingInv'
  <2>1. CASE auxEnabled
    <3>1. DOMAIN pending' = boundary' .. nextWindow' - 1 /\ boundary' <= nextWindow'
      BY <1>1, <1>2, <1>5, <2>1
    <3> QED  BY <1>1, <1>2, <1>5, <2>1, <3>1 DEF HybridInv, PendingInv
  <2>2. CASE ~auxEnabled
    BY <1>1, <1>2, <1>5, <2>2 DEF HybridInv, PendingInv
  <2> QED  BY <2>1, <2>2
<1>7. AuxReportsAreMerged'
  <2> SUFFICES ASSUME auxEnabled  PROVE  emitted'.merged
    BY <1>1 DEF AuxReportsAreMerged
  <2>1. boundary \in DOMAIN pending
    BY <1>5
  <2> QED  BY <1>1, <2>1 DEF HybridReport, EventReport, NoReport
<1> QED  BY <1>3, <1>4, <1>6, <1>7 DEF HybridInv

----------------------------------------------------------------------------
(* Threads and their rows *)

\* The rows of the snapshots are of identities.
IdentityInv ==
  /\ DOMAIN previous \subseteq IdentityType
  /\ \A i \in DOMAIN windows : DOMAIN windows[i].stats \subseteq IdentityType
  /\ \A i \in DOMAIN pending : DOMAIN pending[i].stats \subseteq IdentityType

DelaysInv == IdentityInv /\ DelaysStayWithTheirThread

LEMMA AfterHasIdentities ==
  ASSUME IdentityInv, NEW snapshot, IsTimed(snapshot), NEW i \in Nat
  PROVE  DOMAIN After(i, snapshot).stats \subseteq IdentityType
<1>1. DOMAIN WindowOf(i).stats \subseteq IdentityType
  BY DEF IdentityInv, WindowOf, NoWindow
<1>2. DOMAIN Credited(i, snapshot).stats \subseteq
        DOMAIN WindowOf(i).stats \cup DOMAIN previous \cup DOMAIN snapshot.samples
  BY DEF Credited
<1> QED  BY <1>1, <1>2 DEF After, IdentityInv, IsTimed

\* A row of the events that is matched to the snapshots is that of the thread.
LEMMA MatchedRow ==
  ASSUME NEW t \in Threads, NEW row \in RowsOfThread(t), NEW id \in IdentityType,
         SameProvenThread(row, id)
  PROVE  ThreadOf(row) = t /\ AuxIdentity(t) = id
<1>1. row.tid = t.tid /\ row.ticks = t.ticks /\ row.ns \in {0, t.ns} /\ t.ns # 0
  BY ThreadsAssumption DEF RowsOfThread, SameProvenThread
<1>2. \A u \in Threads :
        u.tid = row.tid /\ (row.ns = u.ns \/ (row.ns = 0 /\ row.ticks = u.ticks)) => u = t
  BY <1>1, ThreadsAssumption
<1>3. t.tid = row.tid /\ (row.ns = t.ns \/ (row.ns = 0 /\ row.ticks = t.ticks))
  BY <1>1
<1>4. ThreadOf(row) = t
  BY <1>2, <1>3 DEF ThreadOf
<1>5. AuxIdentity(t) = id
  BY <1>1 DEF AuxIdentity, SameProvenThread, IdentityType
<1> QED  BY <1>4, <1>5

\* A report has each row of the snapshots once, or counts it as a mismatch.
LEMMA ReportKeepsDelays ==
  ASSUME NEW rows \in EventRows, NEW aux, DOMAIN aux.stats \subseteq IdentityType,
         emitted' = HybridReport(rows, aux)
  PROVE  DelaysStayWithTheirThread'
<1> DEFINE stats == aux.stats
           copies == Copies(rows, stats)
           RowsWith(id) == {copy \in copies : copy[2] = id}
           delays == {id \in DOMAIN stats : HasDelayPairs(stats[id])}
<1>1. emitted'.copies = copies /\ emitted'.delays = delays
      /\ emitted'.mismatches = Mismatches(rows, stats)
  BY DEF HybridReport, EventReport, NoReport
<1>2. PICK some \in SUBSET Threads :
        \E identity : /\ \A t \in some : identity[t] \in RowsOfThread(t)
                      /\ rows = {identity[t] : t \in some}
  BY DEF EventRows, LivedIn
<1>3. PICK identity : /\ \A t \in some : identity[t] \in RowsOfThread(t)
                      /\ rows = {identity[t] : t \in some}
  BY <1>2
<1>4. ASSUME NEW copy \in copies
      PROVE  /\ copy[2] \in DOMAIN stats /\ AuxIdentity(ThreadOf(copy[1])) = copy[2]
             /\ copy[1] = identity[ThreadOf(copy[1])]
             /\ copy = <<copy[1], copy[2]>> /\ ThreadOf(copy[1]) \in Threads
  <2>1. copy \in rows \X DOMAIN stats /\ SameProvenThread(copy[1], copy[2])
    BY DEF Copies
  <2>2. PICK t \in some : copy[1] = identity[t]
    BY <2>1, <1>3
  <2>3. copy[1] \in RowsOfThread(t) /\ copy[2] \in IdentityType /\ t \in Threads
    BY <2>1, <2>2, <1>3
  <2>4. ThreadOf(copy[1]) = t /\ AuxIdentity(t) = copy[2]
    BY <2>1, <2>3, MatchedRow
  <2> QED  BY <2>1, <2>2, <2>3, <2>4
<1>5. \A t, u \in Threads : AuxIdentity(t) = AuxIdentity(u) => t = u
  BY ThreadsAssumption DEF AuxIdentity
<1> HIDE DEF copies
<1>6. ASSUME NEW id  PROVE  Cardinality(RowsWith(id)) <= 1
  <2>1. CASE RowsWith(id) = {}
    BY <2>1, FS_EmptySet
  <2>2. CASE RowsWith(id) # {}
    <3>1. PICK copy \in RowsWith(id) : TRUE
      BY <2>2
    <3>2. \A other \in RowsWith(id) : other = copy
      <4> SUFFICES ASSUME NEW other \in RowsWith(id)  PROVE  other = copy
        OBVIOUS
      <4>1. ThreadOf(other[1]) = ThreadOf(copy[1])
        BY <3>1, <1>4, <1>5
      <4> QED  BY <4>1, <3>1, <1>4
    <3>3. RowsWith(id) = {copy}
      BY <3>1, <3>2
    <3>4. Cardinality({copy}) = 1
      BY FS_Singleton
    <3>5. Cardinality(RowsWith(id)) = 1
      BY <3>3, <3>4, Zenon
    <3> HIDE DEF RowsWith
    <3> QED  BY <3>5
  <2> QED  BY <2>1, <2>2
<1>7. Mismatches(rows, stats) = Cardinality({id \in delays : RowsWith(id) = {}})
  <2>1. {id \in DOMAIN stats \ {copy[2] : copy \in copies} : HasDelayPairs(stats[id])}
          = {id \in delays : RowsWith(id) = {}}
    OBVIOUS
  <2> QED  BY <2>1 DEF Mismatches, copies
<1> HIDE DEF delays, stats
<1>8. \A copy \in copies : AuxIdentity(ThreadOf(copy[1]))' = copy[2]
  BY <1>4 DEF AuxIdentity, ThreadOf
<1> QED  BY <1>1, <1>6, <1>7, <1>8 DEF DelaysStayWithTheirThread

LEMMA DelaysInitially == RunInit => DelaysInv
<1> SUFFICES ASSUME RunInit  PROVE  DelaysInv
  OBVIOUS
<1>1. previous = << >> /\ windows = << >> /\ pending = << >> /\ emitted = NoReport
  BY DEF RunInit, Init
<1>2. DOMAIN previous = {} /\ DOMAIN windows = {} /\ DOMAIN pending = {}
  BY <1>1
<1>3. emitted.copies = {} /\ emitted.delays = {} /\ emitted.mismatches = 0
  BY <1>1 DEF NoReport
<1>4. DelaysStayWithTheirThread
  BY <1>3, FS_EmptySet DEF DelaysStayWithTheirThread
<1> QED  BY <1>2, <1>4 DEF DelaysInv, IdentityInv

LEMMA EmittedAlone ==
  ASSUME DelaysStayWithTheirThread, UNCHANGED emitted
  PROVE  DelaysStayWithTheirThread'
BY DEF DelaysStayWithTheirThread, AuxIdentity, ThreadOf

LEMMA ObserveKeepsIdentities ==
  ASSUME HybridInv, IdentityInv, NEW snapshot, IsTimed(snapshot),
         snapshot.started >= finished, Observe(snapshot)
  PROVE  /\ DOMAIN previous' \subseteq IdentityType
         /\ \A i \in DOMAIN windows' : DOMAIN windows'[i].stats \subseteq IdentityType
         /\ initialized => \A i \in nextWindow .. nextWindow' - 1 :
              DOMAIN reports'[i].stats \subseteq IdentityType
<1>1. previous' = snapshot.samples
  BY DEF Observe, Remember
<1>2. CASE ObserveFirst(snapshot)
  <2>1. \A i \in DOMAIN windows' : DOMAIN windows'[i].stats \subseteq DOMAIN snapshot.samples
    BY <1>2 DEF ObserveFirst
  <2> QED  BY <1>1, <1>2, <2>1 DEF IsTimed, ObserveFirst
<1>3. CASE ObserveNext(snapshot)
  <2>1. /\ nextWindow' \in Nat /\ nextWindow <= nextWindow' /\ nextWindow \in Nat
        /\ DOMAIN windows' \subseteq Nat
        /\ \A i \in Nat : i >= nextWindow' => WindowOf(i)' = After(i, snapshot)
        /\ DOMAIN reports' = 0 .. nextWindow' - 1
        /\ \A i \in DOMAIN reports' :
             IF i < nextWindow THEN reports'[i] = reports[i]
             ELSE reports'[i] = After(i, snapshot) /\ WindowEnd(i) <= Watermark(snapshot)
    BY <1>3, NextWindows DEF HybridInv, CoverInv, TimeInv
  <2>2. ASSUME NEW i \in DOMAIN windows'
        PROVE  DOMAIN windows'[i].stats \subseteq IdentityType
    <3>1. i \in Nat /\ i >= nextWindow'
      BY <1>3, <2>1 DEF ObserveNext
    <3>2. windows'[i] = After(i, snapshot)
      BY <2>1, <3>1 DEF WindowOf
    <3> QED  BY <3>1, <3>2, AfterHasIdentities
  <2>3. ASSUME NEW i \in nextWindow .. nextWindow' - 1
        PROVE  DOMAIN reports'[i].stats \subseteq IdentityType
    <3>1. nextWindow \in Nat /\ nextWindow' \in Nat
      BY <2>1
    <3>2. i \in Nat /\ ~(i < nextWindow) /\ i \in 0 .. nextWindow' - 1
      <4>1. \A a, b \in Nat : \A x \in a .. b - 1 : x \in Nat /\ ~(x < a) /\ x \in 0 .. b - 1
        OBVIOUS
      <4> QED  BY <4>1, <3>1, <2>3
    <3>3. i \in Nat /\ i \in DOMAIN reports' /\ ~(i < nextWindow)
      BY <2>1, <3>2
    <3>4. reports'[i] = After(i, snapshot)
      BY <2>1, <3>3
    <3> QED  BY <3>3, <3>4, AfterHasIdentities
  <2> QED  BY <1>1, <2>2, <2>3 DEF IsTimed
<1> QED  BY <1>2, <1>3 DEF Observe

LEMMA ScanKeepsDelays ==
  ASSUME HybridInv, DelaysInv, TakeSnapshot
  PROVE  DelaysInv'
<1>1. PICK snapshot \in MergedSnapshots \cup ProcSnapshots :
        FirstSnapshot(snapshot) \/ AuxSnapshot(snapshot)
  BY DEF TakeSnapshot
<1>2. IsTimed(snapshot) /\ snapshot.started >= finished
  BY ScansAreTimed
     DEF TakeSnapshot, HybridInv, ClockInv, CoverInv, TimeInv, IsTimed
<1>3. UNCHANGED emitted
  BY <1>1 DEF FirstSnapshot, AuxSnapshot
<1>4. DelaysStayWithTheirThread'
  BY <1>3, EmittedAlone DEF DelaysInv
<1>5. CASE FirstSnapshot(snapshot)
  <2>1. UNCHANGED pending /\ (Observe(snapshot) \/ UNCHANGED vars)
    BY <1>5 DEF FirstSnapshot
  <2>2. CASE Observe(snapshot)
    BY <2>1, <2>2, <1>2, <1>4, ObserveKeepsIdentities DEF DelaysInv, IdentityInv
  <2>3. CASE UNCHANGED vars
    BY <2>1, <2>3, <1>4 DEF DelaysInv, IdentityInv, vars
  <2> QED  BY <2>1, <2>2, <2>3
<1>6. CASE AuxSnapshot(snapshot)
  <2>1. Observe(snapshot) /\ StoreAuxReports /\ collector # "first"
    BY <1>6 DEF AuxSnapshot
  <2>2. initialized
    BY <1>6 DEF AuxSnapshot, HybridInv, PendingInv
  <2>3. \A i \in DOMAIN pending' : DOMAIN pending'[i].stats \subseteq IdentityType
    BY <2>1, <2>2, <1>2, ObserveKeepsIdentities DEF StoreAuxReports, DelaysInv, IdentityInv
  <2> QED  BY <2>1, <2>3, <1>2, <1>4, ObserveKeepsIdentities DEF DelaysInv, IdentityInv
<1> QED  BY <1>1, <1>5, <1>6

LEMMA EmitKeepsDelays ==
  ASSUME DelaysInv, NEW rows \in EventRows, Emit(rows)
  PROVE  DelaysInv'
<1>1. /\ pending' = [i \in DOMAIN pending \ {boundary} |-> pending[i]]
      /\ UNCHANGED vars
      /\ emitted' = IF boundary \in DOMAIN pending THEN HybridReport(rows, pending[boundary])
                    ELSE EventReport
  BY DEF Emit
<1>2. IdentityInv'
  BY <1>1 DEF DelaysInv, IdentityInv, vars
<1>3. CASE boundary \in DOMAIN pending
  <2>1. DOMAIN pending[boundary].stats \subseteq IdentityType
    BY <1>3 DEF DelaysInv, IdentityInv
  <2> QED  BY <1>1, <1>2, <1>3, <2>1, ReportKeepsDelays DEF DelaysInv
<1>4. CASE boundary \notin DOMAIN pending
  <2>1. emitted'.copies = {} /\ emitted'.delays = {} /\ emitted'.mismatches = 0
    BY <1>1, <1>4 DEF EventReport, NoReport
  <2>2. DelaysStayWithTheirThread'
    BY <2>1, FS_EmptySet DEF DelaysStayWithTheirThread
  <2> QED  BY <1>2, <2>2 DEF DelaysInv
<1> QED  BY <1>3, <1>4

LEMMA OtherStepsKeepDelays ==
  ASSUME DelaysInv,
         \/ \E t \in Threads : Begin(t) \/ End(t)
         \/ Tick \/ FailSnapshot \/ Cancel \/ StartTick \/ StartBoundary
         \/ UNCHANGED <<vars, runVars>>
  PROVE  DelaysInv'
<1>1. UNCHANGED <<vars, pending, emitted>>
  BY DEF Begin, End, Tick, FailSnapshot, Cancel, StartTick, StartBoundary, loopVars, runVars
<1>2. DelaysStayWithTheirThread'
  BY <1>1, EmittedAlone DEF DelaysInv
<1> QED  BY <1>1, <1>2 DEF DelaysInv, IdentityInv, vars

----------------------------------------------------------------------------
(* Theorems *)

THEOREM HybridInvariant == RunSpec => []HybridInv
<1>1. HybridInv /\ [RunNext]_<<vars, runVars>> => HybridInv'
  <2> SUFFICES ASSUME HybridInv, [RunNext]_<<vars, runVars>>  PROVE  HybridInv'
    OBVIOUS
  <2>1. CASE \/ \E t \in Threads : Begin(t) \/ End(t)
             \/ Tick \/ FailSnapshot \/ Cancel \/ StartTick \/ StartBoundary
             \/ UNCHANGED <<vars, runVars>>
    BY <2>1, QuietStepsKeepInv
  <2>2. CASE TakeSnapshot
    <3>1. PICK snapshot \in MergedSnapshots \cup ProcSnapshots :
            FirstSnapshot(snapshot) \/ AuxSnapshot(snapshot)
      BY <2>2 DEF TakeSnapshot
    <3>2. UNCHANGED clock
      BY <2>2 DEF TakeSnapshot
    <3> QED  BY <3>1, <3>2, FirstSnapshotKeepsInv, AuxSnapshotKeepsInv
  <2>3. CASE \E rows \in EventRows : Emit(rows)
    BY <2>3, EmitKeepsInv
  <2> QED  BY <2>1, <2>2, <2>3 DEF RunNext
<1> QED  BY <1>1, InvInitially, PTL DEF RunSpec

\* Every report of a run with delay counters has those of its window: the snapshots have
\* closed the window when the events do (runHybridSchedulerEvents, finalizeThrough).
THEOREM AuxReportsMerged == RunSpec => []AuxReportsAreMerged
<1>1. HybridInv => AuxReportsAreMerged
  BY DEF HybridInv
<1> QED  BY <1>1, HybridInvariant, PTL

\* A report of the snapshots waits for its window only: none is left behind, however the
\* scans of the ticker and of the boundary fall (storeAuxReports).
THEOREM PendingAhead == RunSpec => []PendingReportsAreAhead
<1>1. HybridInv => PendingReportsAreAhead
  BY DEF HybridInv, PendingInv, PendingReportsAreAhead, CoverInv, TimeInv
<1> QED  BY <1>1, HybridInvariant, PTL

\* The snapshots beside the events cover the threads, also when they are merged of two
\* scans and TIDs are reused between these (hybrid.go, Observe).
THEOREM HybridThreadsCovered == RunSpec => []ReportsCoverThreads
<1>1. HybridInv => ReportsCoverThreads
  BY DEF HybridInv, CoverInv
<1> QED  BY <1>1, HybridInvariant, PTL

\* The delays of a thread are in the row of that thread, or are counted as a mismatch,
\* and never both, also when a TID was reused (mergeHybridReport, sameProvenThread).
THEOREM DelaysStay == RunSpec => []DelaysStayWithTheirThread
<1>1. HybridInv /\ DelaysInv /\ [RunNext]_<<vars, runVars>> => DelaysInv'
  BY ScanKeepsDelays, EmitKeepsDelays, OtherStepsKeepDelays DEF RunNext
<1>2. DelaysInv => DelaysStayWithTheirThread
  BY DEF DelaysInv
<1> QED  BY <1>1, <1>2, DelaysInitially, HybridInvariant, PTL DEF RunSpec
=============================================================================
