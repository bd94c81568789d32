---------------------------------- MODULE App ----------------------------------
(***************************************************************************)
(* A whole run of the command: app.Run with its options, the loop of the   *)
(* collector that the backend calls for (collector.Run), and each report   *)
(* through the filter to the output and the exit status.                   *)
(*                                                                         *)
(* Snapshots go to the accumulator, which is SnapshotAccumulator itself.   *)
(* Of the loops over events there are the boundaries and the ways they     *)
(* end; EventStream and HybridRun have what is inside.  Around the run are *)
(* the clock, signals, the target, sources that fail and an output that    *)
(* cannot be written.                                                      *)
(***************************************************************************)
EXTENDS SnapshotAccumulator, Config

CONSTANTS
  Arguments,  \* the command lines of the runs
  Threads,    \* identities of the threads of the target
  CommOf,     \* their names
  EventRows,  \* the rows that reports of the event timeline may have
  MaxScan,    \* bound: how long a scan takes
  MaxClock    \* bound: the last instant

ASSUME AppAssumption ==
  /\ Threads \subseteq IdentityType /\ CommOf \in [Threads -> STRING]
  /\ MaxScan \in Nat /\ MaxClock \in Nat
  /\ \A args \in Arguments : args.command \in Commands /\ args.count.value \in Int

VARIABLES
  phase,      \* where the run is
  cfg,        \* cfg, or NoConfig
  status,     \* the exit status, or NoStatus
  clock,
  started,    \* when the scan under way, or the last one, began; or when the events began
  ticking,    \* when the ticker was made
  due,        \* the ticker's channel, of capacity one, has a tick
  canceled,   \* a signal has come: ctx is done
  gone,       \* the target has ended
  written,    \* what has been written: a sequence of reports, filtered
  trouble,    \* something has gone wrong that the user should know of
  busy        \* the windows and threads that two samples in a row found running

worldVars == <<clock, canceled, gone>>
tickVars == <<ticking, due>>
outputVars == <<written, trouble>>
appVars == <<phase, cfg, status, started, worldVars, tickVars, outputVars, busy>>

NoConfig == [interval |-> 0, sample |-> 0, count |-> 0, backend |-> "", output |-> "",
             tid |-> 0, comm |-> {}, showIdle |-> FALSE, sort |-> ""]
NoStatus == -1

Phases == {"start", "opening", "first", "baseline", "waiting", "scanning", "events", "exited"}

Sampling == {"baseline", "scanning"}
Running == phase \notin {"start", "exited"}

----------------------------------------------------------------------------
(* The end of a run *)

\* What Run makes of the collector's result.
StatusOfBug(result) == \* a signal is an error as any other
  IF result = "nil" THEN 0 ELSE 1
StatusOf(result) == IF result \in {"nil", "canceled"} THEN 0 ELSE 1

Return(result) == phase' = "exited" /\ status' = StatusOf(result)

\* Errors that are not those of a signal or of the end of the target.
Fail == Return("error") /\ trouble' = TRUE

----------------------------------------------------------------------------
(* Reports *)

\* FilterAndSort, for the rows it keeps.
HiddenAsIdleBug(row) == row.time["idle"] > 0 \* hidden for some idle time
HiddenAsIdle(row) == row.observed > 0 /\ row.time["idle"] = row.observed

Matches(id) ==
  /\ cfg.tid > 0 => id.tid = cfg.tid
  /\ CommOf[id] \in cfg.comm

Filtered(stats) ==
  {id \in DOMAIN stats : Matches(id) /\ (cfg.showIdle \/ ~HiddenAsIdle(stats[id]))}

Entry(index, window) == [index |-> index, rows |-> Filtered(window.stats)]

\* How many of the reports at hand are wanted.
WantedOfBug(n) == n \* the count only looked at by the loop, not for each report
WantedOf(n) == IF cfg.count > 0 THEN earlier(n, cfg.count - Len(written)) ELSE n

\* emit, for each of n reports with consecutive indices, until one fails or there are
\* as many as wanted; "next" is where the loop goes on.
Emit(first, n, windowOf, next) ==
  LET Write(k) == written' = written \o [i \in 1 .. k |-> Entry(first + i - 1, windowOf[first + i - 1])]
  IN \/ n > 0 /\ cfg.sort \notin SortFields /\ Fail /\ UNCHANGED written
     \/ \E k \in 0 .. WantedOf(n) - 1 : cfg.sort \in SortFields /\ Write(k) /\ Fail
     \/ /\ n > 0 => cfg.sort \in SortFields
        /\ Write(WantedOf(n)) /\ UNCHANGED trouble
        /\ IF cfg.count > 0 /\ Len(written') >= cfg.count THEN Return("nil")
           ELSE phase' = next /\ UNCHANGED status

----------------------------------------------------------------------------
(* The start *)

\* The accumulator has one interval, so that a run over snapshots with another one is
\* not followed.
Followed(args) == LoopOf(args.backend) = "events" \/ IntervalOf(args) = Interval

Start(args) ==
  /\ phase = "start"
  /\ \/ Verdict(args) = "done" /\ Return("nil") /\ UNCHANGED <<cfg, trouble>>
     \/ Verdict(args) = "refused" /\ Fail /\ UNCHANGED cfg
     \/ /\ Verdict(args) = "run" /\ Followed(args)
        /\ cfg' = ConfigOf(args)
        /\ phase' = IF LoopOf(args.backend) = "snapshots" THEN "first" ELSE "opening"
        /\ UNCHANGED <<status, trouble>>
  /\ UNCHANGED <<vars, worldVars, tickVars, started, written, busy>>

----------------------------------------------------------------------------
(* Events: runSchedulerEvents, runHybrid and runHybridSchedulerEvents *)

WithoutTarget == gone /\ Return("gone") /\ UNCHANGED trouble

OpenEvents ==
  /\ phase = "opening" /\ ~gone /\ ~canceled
  /\ phase' = "events" /\ started' = clock
  /\ UNCHANGED <<vars, cfg, status, worldVars, tickVars, outputVars, busy>>

\* The hybrid backend goes on without events, unless there is no target, or no more use
\* for it.
OpenFails ==
  /\ phase = "opening"
  /\ \/ WithoutTarget
     \/ canceled /\ Return("canceled") /\ UNCHANGED trouble
     \/ LoopOf(cfg.backend) = "events" /\ Fail
     \/ LoopOf(cfg.backend) = "hybrid" /\ phase' = "first" /\ UNCHANGED <<status, trouble>>
  /\ UNCHANGED <<vars, cfg, started, worldVars, tickVars, written, busy>>

NextBoundary == started + (Len(written) + 1) * cfg.interval

BoundaryBug == \* the timer not set again
  /\ phase = "events" /\ clock >= NextBoundary /\ written = << >>
  /\ \E rows \in EventRows :
       Emit(Len(written), 1, [i \in {Len(written)} |-> [stats |-> rows]], "events")
  /\ UNCHANGED <<vars, cfg, started, worldVars, tickVars, busy>>
Boundary ==
  /\ phase = "events" /\ clock >= NextBoundary
  /\ \E rows \in EventRows :
       Emit(Len(written), 1, [i \in {Len(written)} |-> [stats |-> rows]], "events")
  /\ UNCHANGED <<vars, cfg, started, worldVars, tickVars, busy>>

\* The context and the pidfd of the target.
EventsEnd ==
  /\ phase = "events"
  /\ (canceled /\ Return("nil") /\ UNCHANGED trouble) \/ WithoutTarget
  /\ UNCHANGED <<vars, cfg, started, worldVars, tickVars, written, busy>>

\* An error of the stream, or of a scan beside it.
EventsFail ==
  /\ phase = "events" /\ Fail
  /\ UNCHANGED <<vars, cfg, started, worldVars, tickVars, written, busy>>

----------------------------------------------------------------------------
(* Snapshots: runSnapshots *)

\* A scan first lists the threads, and looks at the context before each of them.
BeginScan ==
  /\ phase = "first" \/ (phase = "waiting" /\ due)
  /\ started' = clock /\ due' = FALSE
  /\ \/ WithoutTarget
     \/ ~gone /\ canceled /\ Return("canceled") /\ UNCHANGED trouble
     \/ /\ ~gone /\ ~canceled
        /\ phase' = IF phase = "first" THEN "baseline" ELSE "scanning"
        /\ UNCHANGED <<status, trouble>>
  /\ UNCHANGED <<vars, cfg, worldVars, ticking, written, busy>>

Sample(state, at) == [state |-> state, at |-> at, schedstat |-> << >>, delays |-> << >>]

\* While the target lives, a scan finds a thread of it at least.
Scanned ==
  LET samples == {Sample(state, at) : state \in {"running", "idle"}, at \in started .. clock}
  IN [started : {started}, finished : {clock},
      samples : UNION {[found -> samples] : found \in {ids \in SUBSET Threads : ids # {} \/ gone}}]

\* The windows between two samples that found a thread running.
RunningIn(id, snapshot) ==
  IF id \in DOMAIN previous /\ previous[id].state = "running"
     /\ snapshot.samples[id].state = "running"
  THEN {i \in 0 .. WindowIndex(clock) : Overlap(i, previous[id].at, snapshot.samples[id].at) > 0}
  ELSE {}

EndScan ==
  /\ phase \in Sampling
  /\ \E snapshot \in Scanned :
       /\ Observe(snapshot)
       /\ busy' = busy \cup UNION {RunningIn(id, snapshot) \X {id} : id \in DOMAIN snapshot.samples}
  /\ Emit(nextWindow, nextWindow' - nextWindow, reports', "waiting")
  /\ ticking' = IF phase = "baseline" THEN clock ELSE ticking
  /\ UNCHANGED <<cfg, started, due, worldVars>>

\* Snapshot returns an error.
ScanFails ==
  /\ phase \in Sampling
  /\ \/ canceled /\ Return("canceled") /\ UNCHANGED trouble
     \/ Fail
  /\ UNCHANGED <<vars, cfg, started, worldVars, tickVars, written, busy>>

SeeDone ==
  /\ phase = "waiting" /\ canceled
  /\ Return("nil")
  /\ UNCHANGED <<vars, cfg, started, worldVars, tickVars, outputVars, busy>>

\* What the collector does when its process is scheduled: an opening or a scan ends with
\* success or an error.
Collector ==
  \/ OpenFails \/ OpenEvents \/ EventsEnd \/ Boundary
  \/ SeeDone \/ BeginScan \/ ScanFails \/ EndScan

----------------------------------------------------------------------------
(* The world *)

\* Time before the first scan makes no difference.
Tick ==
  /\ phase \in {"baseline", "waiting", "scanning", "events"} /\ clock < MaxClock
  /\ phase \in Sampling => clock < started + MaxScan
  /\ clock' = clock + 1
  /\ due' = (due \/ (phase \in {"waiting", "scanning"} /\ (clock' - ticking) % cfg.sample = 0))
  /\ UNCHANGED <<vars, phase, cfg, status, started, ticking, canceled, gone, outputVars, busy>>

Cancel ==
  /\ Running /\ ~canceled /\ canceled' = TRUE
  /\ UNCHANGED <<vars, phase, cfg, status, started, clock, gone, tickVars, outputVars, busy>>

TargetEnds ==
  /\ Running /\ ~gone /\ gone' = TRUE
  /\ UNCHANGED <<vars, phase, cfg, status, started, clock, canceled, tickVars, outputVars, busy>>

AppInit ==
  /\ Init
  /\ phase = "start" /\ cfg = NoConfig /\ status = NoStatus
  /\ clock = 1 /\ started = NoTime /\ ticking = NoTime /\ due = FALSE
  /\ canceled = FALSE /\ gone = FALSE
  /\ written = << >> /\ trouble = FALSE /\ busy = {}

AppNext ==
  \/ \E args \in Arguments : Start(args)
  \/ Collector
  \/ EventsFail \/ Tick \/ Cancel \/ TargetEnds

\* The process is scheduled and time passes; nothing else has to happen.
AppSpec ==
  /\ AppInit /\ [][AppNext]_<<vars, appVars>>
  /\ WF_<<vars, appVars>>(Collector) /\ WF_<<vars, appVars>>(Tick)

----------------------------------------------------------------------------
(* Properties *)

\* The reports are those of the windows from the first on, each once and in order, and
\* never more than --count, also when a slow scan closes several windows or the run
\* falls back from events to snapshots (collector.go:70, runHybrid).
CountIsKept ==
  /\ \A i \in 1 .. Len(written) : written[i].index = i - 1
  /\ cfg.count > 0 => Len(written) <= cfg.count

\* The exit status tells a run that went wrong, or lost its target, from one that was
\* ended by a signal or has written all it was asked for, in whatever phase the signal
\* came (app.go:98, runSnapshots, runHybrid).
StatusTellsOutcome ==
  /\ status = 1 => trouble \/ gone
  /\ status = 0 /\ cfg # NoConfig => canceled \/ (cfg.count > 0 /\ Len(written) = cfg.count)
  /\ trouble => status = 1

\* No run has an interval or a sampling period that is not positive, which would divide
\* by zero or stop the ticker with a panic, whatever number of seconds was given
\* (config.go:151, where the product wraps round).
TickersArePositive ==
  Running => /\ cfg.interval > 0 /\ cfg.sample > 0
             /\ LoopOf(cfg.backend) # "events" => cfg.sample < cfg.interval

\* Time a thread was found running is never lost between the scans and the output: the
\* report of its window has a row for the thread, unless the options exclude it
\* (filter.go:28, finalizeThrough).
WorkIsShown ==
  \A i \in 1 .. Len(written) : \A id \in Threads :
    <<written[i].index, id>> \in busy /\ Matches(id) => id \in written[i].rows

\* A run that was asked for a number of reports ends, and so does one that gets a signal,
\* whatever it is doing (runSnapshots, runSchedulerEvents).
RunsEnd == (cfg.count > 0 \/ canceled) ~> phase = "exited"
=============================================================================
