------------------------------- MODULE HybridRun -------------------------------
(***************************************************************************)
(* A run of the hybrid backend with events: the backend's sources and      *)
(* their fall-back (hybrid.go), the collector's loop that samples them     *)
(* beside the event timeline and merges the two kinds of reports           *)
(* (runHybridSchedulerEvents, mergeHybridReport), and the snapshot         *)
(* accumulator, which is SnapshotAccumulator itself.                       *)
(*                                                                         *)
(* Of the event accumulator there is the next boundary and the rows of     *)
(* its reports, which may be of any thread that has lived.  The stream is  *)
(* left out: EventStream has it, and the ways a run ends with it.          *)
(***************************************************************************)
EXTENDS SnapshotAccumulator

CONSTANTS
  Threads,   \* the threads the target may have: records [tid, ticks, ns]
  MaxClock   \* bound: the last instant

ASSUME ThreadsAssumption ==
  /\ Threads \subseteq [tid : Nat \ {0}, ticks : Nat \ {0}, ns : Nat \ {0}]
  /\ \A t, u \in Threads : t.tid = u.tid /\ (t.ticks = u.ticks \/ t.ns = u.ns) => t = u

VARIABLES
  clock,
  conversion,   \* whether events carry a start time in ticks
  born, died,   \* per thread, when it began and ended
  active,       \* b.active
  unavailable,  \* b.unavailable
  disabled,     \* b.taskstatsDisabled
  collector,    \* where the collector is
  started,      \* when its last scan began
  auxEnabled,   \* auxEnabled
  pending,      \* auxReports: from window indices to reports
  boundary,     \* eventAcc.nextWindow
  emitted       \* the last report emitted, or NoReport

targetVars == <<conversion, born, died>>
sourceVars == <<active, unavailable, disabled>>
loopVars == <<collector, started, auxEnabled, pending, boundary, emitted>>
runVars == <<clock, targetVars, sourceVars, loopVars>>

Never == MaxClock + 1

AuxIdentity(t) == [tid |-> t.tid, ticks |-> t.ticks]

----------------------------------------------------------------------------
(* The target *)

Alive(t, at) == born[t] <= at /\ at < died[t]

Scanning == {"first", "tick", "boundary"}

\* What happens after the run has ended is of no interest.
Running == collector \notin {"stopped", "failed"}

\* A TID has one thread at a time.
Begin(t) ==
  /\ Running /\ born[t] = Never
  /\ \A u \in Threads : u.tid = t.tid => ~Alive(u, clock)
  /\ born' = [born EXCEPT ![t] = clock]
  /\ UNCHANGED <<vars, clock, conversion, died, sourceVars, loopVars>>

End(t) ==
  /\ Running /\ Alive(t, clock) /\ born[t] < clock
  /\ died' = [died EXCEPT ![t] = clock]
  /\ UNCHANGED <<vars, clock, conversion, born, sourceVars, loopVars>>

Tick ==
  /\ Running /\ clock < MaxClock
  /\ clock' = clock + 1
  /\ UNCHANGED <<vars, targetVars, sourceVars, loopVars>>

----------------------------------------------------------------------------
(* The sources *)

MarkActive(sources) ==
  /\ active' = active \cup sources
  /\ unavailable' = unavailable \ sources

\* A scan finds the threads that live all the time it takes; others it may find.
\* Each TID is read once.
ScanOf(from, to) ==
  LET always == {t \in Threads : born[t] <= from /\ to < died[t]}
      found == {t \in Threads : born[t] <= to /\ from < died[t]}
  IN UNION {[ids -> from .. to] : ids \in
       {s \in SUBSET found : always \subseteq s /\
          \A t, u \in s : t.tid = u.tid => t = u}}

\* Each sample is taken while its thread lives.
IsScan(scan) == \A t \in DOMAIN scan : Alive(t, scan[t])

NoDelays == << >>
Delays == [k \in {"cpu"} |-> [count |-> 1, total |-> 1]]  \* their values are not told apart
Sample(at, delays) == [state |-> "running", at |-> at, schedstat |-> << >>, delays |-> delays]

\* mergeSnapshots: the samples of proc, with the delays of taskstats for the same
\* identity, and the samples of taskstats for threads that proc does not find.
Merged(stats, proc) ==
  [id \in {AuxIdentity(t) : t \in DOMAIN stats \cup DOMAIN proc} |->
     LET t == CHOOSE u \in Threads : AuxIdentity(u) = id IN
     IF t \notin DOMAIN stats THEN Sample(proc[t], NoDelays)
     ELSE IF t \notin DOMAIN proc THEN Sample(stats[t], Delays)
     ELSE Sample((stats[t] + proc[t]) \div 2, Delays)]

MergedSnapshots ==
  UNION {{[started |-> started, finished |-> clock, samples |-> Merged(stats, proc)] :
            stats \in {scan \in ScanOf(started, middle) : IsScan(scan)},
            proc \in {scan \in ScanOf(middle, clock) : IsScan(scan)}} :
           middle \in started .. clock}

\* The scan of proc starts when taskstats has failed, or at once.
ProcSnapshots ==
  UNION {{[started |-> from, finished |-> clock,
           samples |-> [id \in {AuxIdentity(t) : t \in DOMAIN scan} |->
             Sample(scan[CHOOSE u \in Threads : AuxIdentity(u) = id], NoDelays)]] :
            scan \in {proc \in ScanOf(from, clock) : IsScan(proc)}} :
           from \in started .. clock}

\* Snapshot, with both sources.
SnapshotOfBoth(snapshot) ==
  /\ ~disabled /\ snapshot \in MergedSnapshots
  /\ MarkActive({"taskstats", "proc"})
  /\ UNCHANGED disabled

\* Snapshot, when taskstats was disabled before, or fails and is disabled for good.
SnapshotOfProc(snapshot) ==
  /\ snapshot \in ProcSnapshots
  /\ disabled' = TRUE
  /\ active' = (active \ {"taskstats"}) \cup {"proc"}
  /\ unavailable' = (unavailable \ {"proc"}) \cup {"taskstats"}

\* Snapshot fails when proc does, or the target is gone; taskstats may have failed and
\* have been disabled before that.
SnapshotFails ==
  \/ UNCHANGED sourceVars
  \/ /\ ~disabled /\ disabled' = TRUE
     /\ active' = active \ {"taskstats"} /\ unavailable' = unavailable \cup {"taskstats"}

----------------------------------------------------------------------------
(* The merge *)

\* The rows the event timeline may have of a thread: with the identity from the initial
\* scan, with the one that an event has completed, or with that of its events.
RowsOfThread(t) ==
  IF born[t] <= origin
  THEN {[tid |-> t.tid, ticks |-> t.ticks, ns |-> ns] : ns \in {0, t.ns}}
  ELSE {[tid |-> t.tid, ticks |-> IF conversion THEN t.ticks ELSE 0, ns |-> t.ns]}

ThreadOf(row) ==
  CHOOSE t \in Threads : t.tid = row.tid /\ (row.ns = t.ns \/ (row.ns = 0 /\ row.ticks = t.ticks))

\* sameProvenThread, of a row of the events and one of the snapshots, which has no
\* start time in nanoseconds.
SameProvenThreadBug(row, id) == \* by TID alone
  row.tid = id.tid
SameProvenThread(row, id) ==
  row.tid = id.tid /\ row.ticks # 0 /\ row.ticks = id.ticks

HasDelayPairs(row) == row.delayPairs > 0

\* The rows of the snapshots that mergeHybridReport copies, with the row they go to.  A
\* thread has one row in a report of the events (EventRun's ThreadsHaveOneRow), so none
\* is asked for twice.
Copies(rows, stats) ==
  {copy \in rows \X DOMAIN stats :
     /\ SameProvenThread(copy[1], copy[2])
     /\ \A other \in DOMAIN stats : SameProvenThread(copy[1], other) => other = copy[2]}

Mismatches(rows, stats) ==
  LET used == {copy[2] : copy \in Copies(rows, stats)} IN
  Cardinality({id \in DOMAIN stats \ used : HasDelayPairs(stats[id])})

NoReport == [merged |-> TRUE, copies |-> {}, delays |-> {}, mismatches |-> 0,
             active |-> {}, unavailable |-> {}]

\* The report of the events, with the source status of when it is emitted
EventReport ==
  [NoReport EXCEPT !.merged = FALSE, !.active = active, !.unavailable = unavailable]

HybridReport(rows, aux) ==
  [EventReport EXCEPT
     !.merged = TRUE, !.copies = Copies(rows, aux.stats),
     !.delays = {id \in DOMAIN aux.stats : HasDelayPairs(aux.stats[id])},
     !.mismatches = Mismatches(rows, aux.stats)]

----------------------------------------------------------------------------
(* The loop *)

HasDelays(snapshot) == \E id \in DOMAIN snapshot.samples : snapshot.samples[id].delays # NoDelays

\* storeAuxReports, with the reports that Observe has returned
StoreAuxReports ==
  pending' = [i \in DOMAIN pending \cup nextWindow .. nextWindow' - 1 |->
                IF i \in nextWindow .. nextWindow' - 1 THEN reports'[i] ELSE pending[i]]

\* The snapshot before the loop decides whether there will be more.
FirstSnapshot(snapshot) ==
  /\ collector = "first" /\ collector' = "looping"
  /\ auxEnabled' = HasDelays(snapshot)
  /\ IF HasDelays(snapshot) THEN Observe(snapshot) ELSE UNCHANGED vars
  /\ UNCHANGED <<started, pending, boundary, emitted>>

\* The sample ticker, which has a tick at an instant at most.
StartTick ==
  /\ collector = "looping" /\ auxEnabled /\ started < clock
  /\ collector' = "tick" /\ started' = clock
  /\ UNCHANGED <<vars, clock, targetVars, sourceVars, auxEnabled, pending, boundary, emitted>>

\* The timer of the boundary, and the flush.
StartBoundaryBug == \* the report made before the scan
  /\ collector = "looping" /\ clock >= WindowEnd(boundary)
  /\ collector' = "emitting" /\ started' = clock
  /\ UNCHANGED <<vars, clock, targetVars, sourceVars, auxEnabled, pending, boundary, emitted>>
StartBoundary ==
  /\ collector = "looping" /\ clock >= WindowEnd(boundary)
  /\ collector' = IF auxEnabled THEN "boundary" ELSE "emitting"
  /\ started' = clock
  /\ UNCHANGED <<vars, clock, targetVars, sourceVars, auxEnabled, pending, boundary, emitted>>

\* observeAuxSnapshot
AuxSnapshot(snapshot) ==
  /\ collector \in {"tick", "boundary"}
  /\ collector' = IF collector = "tick" THEN "looping" ELSE "emitting"
  /\ Observe(snapshot)
  /\ StoreAuxReports
  /\ UNCHANGED <<started, auxEnabled, boundary, emitted>>

TakeSnapshot ==
  /\ collector \in Scanning
  /\ \E snapshot \in MergedSnapshots \cup ProcSnapshots :
       /\ SnapshotOfBoth(snapshot) \/ SnapshotOfProc(snapshot)
       /\ FirstSnapshot(snapshot) \/ AuxSnapshot(snapshot)
  /\ UNCHANGED <<clock, targetVars>>

\* An error of Snapshot ends the run.
FailSnapshot ==
  /\ collector \in Scanning
  /\ SnapshotFails
  /\ collector' = "failed"
  /\ UNCHANGED <<vars, clock, targetVars, started, auxEnabled, pending, boundary, emitted>>

\* ctx.Done
Cancel ==
  /\ collector \in Scanning \cup {"looping"}
  /\ collector' = "stopped"
  /\ UNCHANGED <<vars, clock, targetVars, sourceVars, started, auxEnabled, pending, boundary,
                 emitted>>

\* Advance, the merge and the emission, after which the run may end.
EmitBug(rows) == \* the merged report not deleted
  /\ collector = "emitting"
  /\ emitted' = IF boundary \in DOMAIN pending THEN HybridReport(rows, pending[boundary])
                ELSE EventReport
  /\ pending' = pending
  /\ boundary' = boundary + 1
  /\ collector' \in {"looping", "stopped"}
  /\ UNCHANGED <<vars, clock, targetVars, sourceVars, started, auxEnabled>>
Emit(rows) ==
  /\ collector = "emitting"
  /\ emitted' = IF boundary \in DOMAIN pending THEN HybridReport(rows, pending[boundary])
                ELSE EventReport
  /\ pending' = [i \in DOMAIN pending \ {boundary} |-> pending[i]]
  /\ boundary' = boundary + 1
  /\ collector' \in {"looping", "stopped"}
  /\ UNCHANGED <<vars, clock, targetVars, sourceVars, started, auxEnabled>>

\* The threads that may have an event or time in a window.
LivedIn(index) == {t \in Threads : born[t] < WindowEnd(index) /\ died[t] >= WindowStart(index)}

\* Rows for some of them, each with one of its identities.
EventRows == UNION {{{identity[t] : t \in some} : identity \in
    {f \in [some -> UNION {RowsOfThread(t) : t \in some}] : \A t \in some : f[t] \in RowsOfThread(t)}} :
  some \in SUBSET LivedIn(boundary)}

\* The snapshots have the origin of the events.
RunInit ==
  /\ Init /\ origin # NoTime
  /\ clock = origin /\ conversion \in BOOLEAN
  /\ born \in [Threads -> {origin, Never}] /\ died = [t \in Threads |-> Never]
  /\ \A t, u \in Threads : (t # u /\ t.tid = u.tid) => (born[t] = Never \/ born[u] = Never)
  /\ \E t \in Threads : born[t] = origin
  /\ active = {"ebpf", "proc"}
  /\ disabled \in BOOLEAN /\ unavailable = IF disabled THEN {"taskstats"} ELSE {}
  /\ collector = "first" /\ started = origin
  /\ auxEnabled = FALSE /\ pending = << >> /\ boundary = 0 /\ emitted = NoReport

RunNext ==
  \/ \E t \in Threads : Begin(t) \/ End(t)
  \/ Tick
  \/ TakeSnapshot \/ FailSnapshot \/ Cancel
  \/ StartTick \/ StartBoundary
  \/ \E rows \in EventRows : Emit(rows)

RunSpec == RunInit /\ [][RunNext]_<<vars, runVars>>

----------------------------------------------------------------------------
(* Properties *)

\* Every report of a run with delay counters has those of its window: the snapshots have
\* closed the window when the events do (runHybridSchedulerEvents, finalizeThrough).
AuxReportsAreMerged == auxEnabled => emitted.merged

\* A report of the snapshots waits for its window only: none is left behind, however the
\* scans of the ticker and of the boundary fall (storeAuxReports).
PendingReportsAreAhead == \A i \in DOMAIN pending : i >= boundary

\* The delays of a thread are in the row of that thread, or are counted as a mismatch,
\* and never both, also when a TID was reused (mergeHybridReport, sameProvenThread).
DelaysStayWithTheirThread ==
  LET RowsWith(id) == {copy \in emitted.copies : copy[2] = id} IN
  /\ \A copy \in emitted.copies : AuxIdentity(ThreadOf(copy[1])) = copy[2]
  /\ \A id \in emitted.delays : Cardinality(RowsWith(id)) <= 1
  /\ emitted.mismatches = Cardinality({id \in emitted.delays : RowsWith(id) = {}})

----------------------------------------------------------------------------
(* What the documentation promises, and the code does not do *)

\* README.md:287: the sources of a report are those used for its interval: delay
\* counters do not come from a source that was not available.
SourcesAreThoseUsed ==
  \A copy \in emitted.copies :
    copy[2] \in emitted.delays => "taskstats" \notin emitted.unavailable
=============================================================================
