------------------------------- MODULE EventRun -------------------------------
(***************************************************************************)
(* A run of the ebpf backend: the kernel's scheduler, the BPF programs     *)
(* (ebpf/bpf/scheduler.c), the event pipe and the collector's loop         *)
(* (runSchedulerEvents, flushSchedulerEvents) around the accumulator.      *)
(*                                                                         *)
(* The kernel is external.  It takes an event's timestamp when the         *)
(* tracepoint fires and reserves the record in the ring buffer after that, *)
(* so events of different threads may enter the ring in another order than *)
(* that of their timestamps, and an event may enter it after the boundary  *)
(* that its timestamp is before.  The events of one thread are in order:   *)
(* the tracepoints fire with the thread's run-queue locked.                *)
(*                                                                         *)
(* The pipe (ring buffer, reader goroutine, channel) is a queue here;      *)
(* EventStream models it in detail.                                        *)
(***************************************************************************)
EXTENDS EventAccumulator, StartTime, Sequences, FiniteSets, FiniteSetsExt, Functions

CONSTANTS
  Scenarios,      \* the targets and bounds to run with: records, see below
  ticksPerSecond, \* the clock ticks of /proc
  RingCapacity    \* how many events the ring buffer holds

VARIABLES
  scenario,  \* the one of this run
  clock,     \* the kernel's clock
  thread,    \* per TID, its thread: [ns, state]; state "none" before the first
  inflight,  \* per TID, the event that has its timestamp and no record yet
  ring,      \* the events on their way to the collector
  lost,      \* the counter of the lost_events map
  barrier,   \* NoFlush, or how many events the pending flush waits for
  emitted,   \* number of events so far
  timeline,  \* the truth: from past instants to the threads in [t, t+1)
  settled,   \* per TID, from when its track does not depend on a skewed sample
  proven     \* per TID, when an event has first told running from runnable

seedVars == <<settled, proven>>
runVars == <<scenario, clock, thread, inflight, ring, lost, barrier, emitted, timeline, seedVars>>

Tids == scenario.tids                \* the TIDs the target process may use
Initial == scenario.initial          \* those in use at the initial scan
FirstStart == scenario.start         \* when those threads started
Origin == scenario.origin            \* the instant the initial scan ends
MaxFlight == scenario.maxFlight      \* bound: how long a record takes to enter the ring
MaxClock == scenario.maxClock        \* bound: the last instant
MaxEvents == scenario.maxEvents      \* bound: the number of scheduler events
Switches == scenario.switches        \* how a thread may leave its CPU: [flags, preempted], and its state then

NoEvent == [kind |-> "none"]
NoFlush == -1
Never == MaxClock + 1

----------------------------------------------------------------------------
(* Events *)

\* The bits of a task's state, with what stateAfterSwitch takes them for, in the order in
\* which it looks at them.
StateBits ==
  <<[bits |-> {"rtlock_wait"}, state |-> "uninterruptible"],
    [bits |-> {"uninterruptible", "noload"}, state |-> "idle"],
    [bits |-> {"uninterruptible"}, state |-> "uninterruptible"],
    [bits |-> {"interruptible"}, state |-> "sleeping"],
    [bits |-> {"parked"}, state |-> "sleeping"],
    [bits |-> {"stopped"}, state |-> "stopped"],
    [bits |-> {"traced"}, state |-> "tracing_stop"],
    [bits |-> {"exit_dead"}, state |-> "dead"],
    [bits |-> {"exit_zombie"}, state |-> "dead"],
    [bits |-> {"task_dead"}, state |-> "dead"]>>

\* A thread that is preempted on its way to sleep is still runnable.
stateAfterSwitch(flags, preempted) ==
  LET fits == {i \in DOMAIN StateBits : StateBits[i].bits \subseteq flags} IN
  IF preempted \/ flags = {} THEN "runnable"
  ELSE IF fits = {} THEN "unknown" ELSE StateBits[Min(fits)].state

\* handle_sched_switch and handle_sched_wakeup, up to the timestamp, and what
\* decodeEvent makes of the record.
EventOf(s, tid, ns, kind, state, at) ==
  [tid |-> tid, ns |-> ns, kind |-> kind, state |-> state, at |-> at,
   ticks |-> IF s.conversion THEN procStartTimeTicks(ns, s.offset, ticksPerSecond).value ELSE 0]

Event(tid, ns, kind, state, at) == EventOf(scenario, tid, ns, kind, state, at)

RunEvents == UNION {
  {EventOf(s, tid, ns, change[1], change[2], at) :
     tid \in s.tids, ns \in s.start .. s.start + s.maxEvents, at \in 1 .. s.maxClock,
     change \in {<<"wakeup", "runnable">>, <<"switch_in", "on_cpu">>, <<"switch_out", "sleeping">>}
       \cup {<<"switch_out", stateAfterSwitch(switch.flags, switch.preempted)>> : switch \in s.switches}} :
  s \in Scenarios}

\* TIDs are positive, and start times fit in the words of the kernel.  The tracepoints
\* are attached at the instant 1, before the initial scan.  A thread that leaves its CPU
\* with the bits of one that has exited does not come back.
ASSUME ScenariosAssumption == \A s \in Scenarios :
  /\ s.tids \subseteq Nat \ {0} /\ IsFiniteSet(s.tids) /\ s.initial \subseteq s.tids
  /\ s.start \in Nat \ {0} /\ s.maxEvents \in Nat /\ s.start + s.maxEvents <= MaxUint
  /\ s.offset \in Int64 /\ s.conversion \in BOOLEAN
  /\ s.origin \in Nat \ {0} /\ s.maxClock \in Nat /\ s.origin <= s.maxClock
  /\ s.maxFlight \in Nat
  /\ \A switch \in s.switches :
       /\ switch.state \in SchedulerStates
       /\ stateAfterSwitch(switch.flags, switch.preempted) = "dead" => switch.state = "dead"
ASSUME CapacityAssumption == RingCapacity \in Nat /\ ticksPerSecond \in Nat

\* What the theorem about the states in a report supposes of the scenarios.  What the
\* bits of a task say of a thread that leaves its CPU is right, or nothing:
SwitchesAreRead ==
  \A s \in Scenarios : \A switch \in s.switches :
    /\ switch.state # "on_cpu"
    /\ stateAfterSwitch(switch.flags, switch.preempted) \in {switch.state, "unknown"}
\* and no record takes longer than a window to enter the ring.
FlightIsShort == \A s \in Scenarios : s.maxFlight <= Interval

\* A thread's tracepoint fires: the timestamp is taken, the record not reserved.
Fires(tid, ns, kind, state, after) ==
  /\ emitted < MaxEvents /\ inflight[tid] = NoEvent
  /\ thread' = [thread EXCEPT ![tid] = [ns |-> ns, state |-> after]]
  /\ inflight' = [inflight EXCEPT ![tid] = Event(tid, ns, kind, state, clock)]
  /\ emitted' = emitted + 1
  /\ UNCHANGED <<vars, scenario, clock, ring, lost, barrier, timeline, seedVars>>

\* A wakeup of a thread that waits, or of one that has not left the run-queue yet.
Wakeup(tid) ==
  /\ thread[tid].state \notin {"none", "dead"}
  /\ Fires(tid, thread[tid].ns, "wakeup", "runnable",
           IF thread[tid].state = "on_cpu" THEN "on_cpu" ELSE "runnable")

SwitchIn(tid) ==
  /\ thread[tid].state = "runnable"
  /\ Fires(tid, thread[tid].ns, "switch_in", "on_cpu", "on_cpu")

SwitchOut(tid, switch) ==
  /\ thread[tid].state = "on_cpu"
  /\ Fires(tid, thread[tid].ns, "switch_out",
           stateAfterSwitch(switch.flags, switch.preempted), switch.state)

\* sched_wakeup_new: the TID may have belonged to a thread that is dead.
Spawn(tid) ==
  /\ thread[tid].state \in {"none", "dead"}
  /\ Fires(tid, thread[tid].ns + 1, "wakeup", "runnable", "runnable")

\* emit_task_event: bpf_ringbuf_reserve fails when the ring is full.
SubmitBug(tid) == \* the failed reservation not counted
  /\ inflight[tid] # NoEvent
  /\ ring' = IF Len(ring) < RingCapacity THEN Append(ring, inflight[tid]) ELSE ring
  /\ inflight' = [inflight EXCEPT ![tid] = NoEvent]
  /\ UNCHANGED <<vars, scenario, clock, thread, lost, barrier, emitted, timeline, seedVars>>
Submit(tid) ==
  /\ inflight[tid] # NoEvent
  /\ IF Len(ring) < RingCapacity
     THEN ring' = Append(ring, inflight[tid]) /\ lost' = lost
     ELSE ring' = ring /\ lost' = lost + 1
  /\ inflight' = [inflight EXCEPT ![tid] = NoEvent]
  /\ UNCHANGED <<vars, scenario, clock, thread, barrier, emitted, timeline, seedVars>>

\* The BPF programs run with preemption disabled, so a record is not long on its
\* way into the ring.
Tick ==
  /\ clock < MaxClock
  /\ \A tid \in Tids : inflight[tid] # NoEvent => clock < inflight[tid].at + MaxFlight
  /\ clock' = clock + 1
  /\ timeline' = [t \in DOMAIN timeline \cup {clock} |->
                    IF t = clock THEN thread ELSE timeline[t]]
  /\ UNCHANGED <<vars, scenario, thread, inflight, ring, lost, barrier, emitted, seedVars>>

----------------------------------------------------------------------------
(* The collector *)

\* An event reaches the accumulator, in the loop, during a flush or in the drain
\* after it.
Deliver ==
  /\ ring # << >>
  /\ Observe(Head(ring))
  /\ ring' = Tail(ring)
  /\ barrier' = IF barrier > 0 THEN barrier - 1 ELSE barrier
  /\ LET e == Head(ring) IN
     /\ settled' = IF e.at < Origin THEN settled
                   ELSE [settled EXCEPT ![e.tid] = earlier(@, e.at)]
     /\ proven' = IF e.kind = "wakeup" THEN proven
                  ELSE [proven EXCEPT ![e.tid] = earlier(@, e.at)]
  /\ UNCHANGED <<scenario, clock, thread, inflight, lost, emitted, timeline>>

\* The timer fires at the boundary, or later, and the collector asks for a flush.
StartFlush ==
  /\ barrier = NoFlush /\ clock >= NextBoundary
  /\ barrier' = Len(ring)
  /\ UNCHANGED <<vars, scenario, clock, thread, inflight, ring, lost, emitted, timeline, seedVars>>

\* The flush is over: what was in the ring when it started has been observed.
FinishFlush ==
  /\ barrier = 0
  /\ Advance(lost)
  /\ barrier' = NoFlush
  /\ UNCHANGED <<scenario, clock, thread, inflight, ring, lost, emitted, timeline, seedVars>>

----------------------------------------------------------------------------
(* The initial scan *)

\* What procfs shows of a thread in a state.
ProcState(state) == IF state \in {"on_cpu", "runnable"} THEN "running" ELSE state

\* The histories of a thread from the attachment, at 1, to the end of the scan:
\* the state it was in, the state it is in now, and the event between them, if any.
Histories(tid) ==
  LET Change(before, after, kind) ==
        {[before |-> before, after |-> after,
          event |-> <<Event(tid, FirstStart, kind, after, at)>>] : at \in 1 .. Origin - 1}
  IN {[before |-> state, after |-> state, event |-> << >>] :
        state \in {"on_cpu", "runnable", "sleeping"}}
     \cup Change("sleeping", "runnable", "wakeup")
     \cup Change("on_cpu", "sleeping", "switch_out")

StateAt(history, at) ==
  IF history.event # << >> /\ at < history.event[1].at THEN history.before
  ELSE history.after

\* readTaskStat: the state is read at one instant of a bracket of time, and the
\* middle of the bracket is the timestamp of the sample.
SampleOf(history, sample) ==
  \E from, read, to \in 1 .. Origin :
    /\ from <= read /\ read <= to
    /\ sample.state = ProcState(StateAt(history, read))
    /\ sample.at = (from + to) \div 2

SnapshotsOf(s) ==
  {[finished |-> s.origin, samples |-> samples] :
     samples \in [s.initial -> [ticks : {ProcTicks(s.start, s.offset, ticksPerSecond)},
                                state : {"running", "sleeping"}, at : 1 .. s.origin]]}

RunSnapshots == UNION {SnapshotsOf(s) : s \in Scenarios}

\* What a run observes is within the constants of the accumulator.
ASSUME StreamAssumption == RunEvents \subseteq Events /\ RunSnapshots \subseteq Snapshots

\* The sample missed an event that Observe will take to be older than the sample.
Skewed(history, sample) ==
  /\ history.event # << >>
  /\ sample.state # ProcState(history.after)
  /\ sample.at > history.event[1].at

RunInit ==
  /\ scenario \in Scenarios
  /\ \E snapshot \in SnapshotsOf(scenario) :
     \E history \in [Initial -> UNION {Histories(tid) : tid \in Initial}] :
       /\ \A tid \in Initial :
            /\ history[tid] \in Histories(tid)
            /\ SampleOf(history[tid], snapshot.samples[tid])
       /\ InitFrom(snapshot)
       /\ settled = [tid \in Tids |->
            IF tid \in Initial /\ Skewed(history[tid], snapshot.samples[tid]) THEN Never ELSE 0]
       /\ proven = [tid \in Tids |->
            IF tid \in Initial /\ snapshot.samples[tid].state = "running" THEN Never ELSE 0]
       /\ thread = [tid \in Tids |->
            [ns |-> FirstStart, state |-> IF tid \in Initial THEN history[tid].after ELSE "none"]]
       /\ LET events == {history[tid].event[1] : tid \in {t \in Initial : history[t].event # << >>}}
          IN /\ ring \in [1 .. Cardinality(events) -> events]
             /\ \A e \in events : \E i \in DOMAIN ring : ring[i] = e
       /\ clock = Origin /\ inflight = [tid \in Tids |-> NoEvent]
       /\ lost = 0 /\ barrier = NoFlush /\ emitted = 0 /\ timeline = << >>

RunNext ==
  \/ \E tid \in Tids :
       \/ Wakeup(tid) \/ SwitchIn(tid) \/ Spawn(tid) \/ Submit(tid)
       \/ \E switch \in Switches : SwitchOut(tid, switch)
  \/ Tick
  \/ Deliver \/ StartFlush \/ FinishFlush

RunSpec == RunInit /\ [][RunNext]_<<vars, runVars>>

----------------------------------------------------------------------------
(* Properties *)

\* How long a thread was in a state during a window.  A row without a start time in
\* nanoseconds is one of a thread of the initial scan.
Truth(index, id, state) ==
  LET ns == IF id.ns = 0 THEN FirstStart ELSE id.ns IN
  Cardinality({t \in WindowStart(index) .. WindowEnd(index) - 1 :
                 timeline[t][id.tid] = [ns |-> ns, state |-> state]})

KnownStates == SchedulerStates \ {"unknown", "dead"}

\* The row claims no time in a state that its thread was not in.
RowIsExact(index, id) ==
  \A state \in KnownStates :
    reports[index].threads[id].time[state] <= Truth(index, id, state)

\* The track started the window in a state that an event has told.
Seeded(index, tid) == settled[tid] <= WindowStart(index) /\ proven[tid] <= WindowStart(index)

ReportIsExact(index) ==
  \A id \in DOMAIN reports[index].threads :
    Seeded(index, id.tid) => RowIsExact(index, id)

\* An event is known to be missing or late, or still on its way to a window that
\* was reported.
Evidence(index) ==
  \/ lost > 0
  \/ \E i \in DOMAIN reports : i <= index + 1 /\ reports[i].late > 0
  \/ nextWindow = index + 1 /\ WindowOf(windows, nextWindow).late > 0
  \/ \E tid \in Tids : inflight[tid] # NoEvent /\ inflight[tid].at < WindowEnd(index)
  \/ \E i \in DOMAIN ring : ring[i].at < WindowEnd(index)

\* A report that is wrong about the state of a thread was made from an incomplete
\* stream, and the lost-event counter or the late events of a report up to the next
\* one say so (README.md:34; Observe, Advance, flushSchedulerEvents).
InexactReportsLeaveEvidence ==
  \A index \in DOMAIN reports : ReportIsExact(index) \/ Evidence(index)

\* Every event after the initial scan is counted once: as lost by the kernel, as
\* an event or a late event of one window, or it is still on its way
\* (emit_task_event, Observe, Advance).
EventsAreAccounted ==
  LET Counts(ws) == [i \in DOMAIN ws |-> ws[i].events + ws[i].late] IN
  emitted = lost + Cardinality({tid \in Tids : inflight[tid] # NoEvent})
            + Cardinality({i \in DOMAIN ring : ring[i].at >= Origin})
            + SumFunction(Counts(windows)) + SumFunction(Counts(reports))

RowsOf(stats, tid) == {id \in DOMAIN stats : id.tid = tid}

\* The rows of a TID in one report are of different threads that lived one after
\* the other: no time is claimed twice, also when a TID is reused (Observe).
RowsOfOneTidAreDisjoint ==
  \A index \in DOMAIN reports : \A tid \in Tids :
    LET stats == reports[index].threads IN
    SumFunction([id \in RowsOf(stats, tid) |-> stats[id].observed]) <= Interval

\* A thread has no two rows in one report, one from before its identity was
\* completed and one from after (Observe, threadStats).
ThreadsHaveOneRow ==
  \A index \in DOMAIN reports : \A tid \in Tids :
    LET rows == RowsOf(reports[index].threads, tid) IN
    /\ \A left, right \in rows : left.ns = right.ns => left = right
    /\ (\E id \in rows : id.ns = 0) => Cardinality(rows) = 1

\* The start time in ticks by which the hybrid backend tells the threads of a report
\* apart is the one procfs shows for the thread, whatever the offset of the time
\* namespace, or the exit of the thread that had the TID before is lost or late
\* (procStartTimeTicks, schedulerIdentityChanged, Observe).
StartTimesAgreeWithProc ==
  \A index \in DOMAIN reports : \A id \in DOMAIN reports[index].threads :
    id.ticks # 0 =>
      \/ id.ticks = ProcTicks(IF id.ns = 0 THEN FirstStart ELSE id.ns, scenario.offset,
                              ticksPerSecond)
      \/ Evidence(index)

Latencies(stats, tid) == SumFunction([id \in RowsOf(stats, tid) |-> stats[id].latency])
RunnableTime(stats, tid) ==
  SumFunction([id \in RowsOf(stats, tid) |-> stats[id].time["runnable"]])

\* The wakeup latencies of a TID are part of the time its threads are reported to be
\* runnable, whatever was lost or late, and in whichever window either was counted
\* (applyTransition, recordEvent, addTrackSegment).
LatencyIsRunnableTime ==
  \A tid \in Tids :
    SumFunction([i \in DOMAIN windows |-> Latencies(windows[i].stats, tid)])
      + SumFunction([i \in DOMAIN reports |-> Latencies(reports[i].threads, tid)])
    <= SumFunction([i \in DOMAIN windows |-> RunnableTime(windows[i].stats, tid)])
      + SumFunction([i \in DOMAIN reports |-> RunnableTime(reports[i].threads, tid)])

----------------------------------------------------------------------------
(* What the documentation promises, and the code does not do *)

\* README.md:318: a thread that was R in the initial scan is reported as unknown
\* until an event proves whether it is on a CPU or merely runnable, so that none of
\* its time before is reported as runnable when it was running.
RunningSeedsAreUnknown ==
  \A index \in DOMAIN reports : \A id \in DOMAIN reports[index].threads :
    (settled[id.tid] = 0 /\ proven[id.tid] >= WindowEnd(index) /\ ~Evidence(index))
      => reports[index].threads[id].time["runnable"] <= Truth(index, id, "runnable")
=============================================================================
