---------------------------- MODULE EventRunProofs ----------------------------
(***************************************************************************)
(* Theorems about a run of the ebpf backend, for every scenario: it        *)
(* implements the specification of the accumulator, and its reports are    *)
(* right about start times, identities, time and events.                   *)
(***************************************************************************)
EXTENDS EventRun, EventAccumulatorProofs, SumProofs, SequenceTheorems

----------------------------------------------------------------------------
(* Start times *)

\* A division that rounds towards zero leaves a product that fits.
LEMMA QuotientBound ==
  ASSUME NEW limit \in Nat, NEW unit \in Nat \ {0}, NEW n \in Int,
         n <= limit \div unit
  PROVE  n * unit <= limit
<1> DEFINE q == limit \div unit
<1>1. q \in Int /\ q * unit <= limit
  BY SMT
<1>2. (q - n) * unit >= 0
  <2>1. q - n \in Nat
    BY <1>1
  <2> QED BY <2>1, SMT
<1>3. (q - n) * unit = q * unit - n * unit
  BY <1>1, SMT
<1>4. q * unit \in Int /\ n * unit \in Int
  BY <1>1, SMT
<1> HIDE DEF q
<1> QED BY <1>1, <1>2, <1>3, <1>4

\* The boot-time offset that is accepted is the one the two numbers stand for: neither
\* the product nor the sum has overflowed (parseBoottimeOffset).
THEOREM OffsetIsExact ==
  ASSUME NEW seconds \in Int64, NEW nanoseconds \in Int64,
         parseBoottimeOffset(seconds, nanoseconds).ok
  PROVE  /\ parseBoottimeOffset(seconds, nanoseconds).value
              = seconds * nanosecondsPerSecond + nanoseconds
         /\ parseBoottimeOffset(seconds, nanoseconds).value \in Int64
<1> DEFINE unit == nanosecondsPerSecond
           largest == MaxInt \div unit
           smallest == -((-MinInt) \div unit)
           offset == seconds * unit
<1> USE WidthAssumption
<1>1. unit \in Nat \ {0} /\ MaxInt \in Nat /\ seconds \in Int /\ nanoseconds \in Int
  BY DEF Int64, MinInt
<1>2. nanoseconds >= 0 /\ seconds <= largest /\ seconds >= smallest
      /\ ~(nanoseconds > 0 /\ Wrapped(offset) > MaxInt - nanoseconds)
  BY <1>1 DEF parseBoottimeOffset, NotOk, Int64, MinInt
<1>3. offset <= MaxInt
  BY <1>1, <1>2, QuotientBound
<1>4. offset >= MinInt
  <2>1. -seconds <= (-MinInt) \div unit
    <3>1. (-MinInt) \div unit \in Int
      BY <1>1, SMT DEF MinInt
    <3> QED BY <1>1, <1>2, <3>1
  <2>2. (-seconds) * unit <= -MinInt
    BY <1>1, <2>1, QuotientBound DEF MinInt
  <2>3. (-seconds) * unit = -offset
    BY <1>1, SMT
  <2> QED BY <1>1, <2>2, <2>3 DEF MinInt
<1>5. offset \in Int64 /\ Wrapped(offset) = offset
  BY <1>1, <1>3, <1>4 DEF Int64, MinInt, Wrapped
<1>6. offset + nanoseconds \in Int64
  BY <1>1, <1>2, <1>5 DEF Int64, MinInt
<1>7. Wrapped(offset + nanoseconds) = offset + nanoseconds
  BY <1>6 DEF Wrapped
<1>8. parseBoottimeOffset(seconds, nanoseconds) = Ok(Wrapped(offset + nanoseconds))
  BY <1>2, <1>5 DEF parseBoottimeOffset, NotOk
<1> QED BY <1>6, <1>7, <1>8 DEF Ok

\* Where procStartTimeTicks succeeds its ticks are those /proc shows, and it fails only
\* when a word cannot hold the sum: an event and a sample of one thread have the same
\* start time, with any offset of the time namespace.
THEOREM StartTicksAgree ==
  ASSUME NEW startBoottimeNS \in Uint64, NEW boottimeOffsetNS \in Int64,
         NEW rate \in Nat, Divides(rate)
  PROVE  LET ticks == procStartTimeTicks(startBoottimeNS, boottimeOffsetNS, rate) IN
         /\ ticks.ok <=> startBoottimeNS + boottimeOffsetNS \in Uint64
         /\ ticks.ok => ticks.value
                          = ProcTicks(startBoottimeNS, boottimeOffsetNS, rate)
<1> DEFINE sum == startBoottimeNS + boottimeOffsetNS
           tick == nanosecondsPerSecond \div rate
           ticks == procStartTimeTicks(startBoottimeNS, boottimeOffsetNS, rate)
<1> USE WidthAssumption
<1>1. MaxInt \in Nat /\ startBoottimeNS \in Int /\ boottimeOffsetNS \in Int /\ sum \in Int
      /\ MaxUint \in Nat
  BY DEF Int64, MinInt, Uint64, MaxUint
<1>2. sum \in Uint64 => sum % (MaxUint + 1) = sum
  BY <1>1, SMT DEF Uint64
<1>3. CASE boottimeOffsetNS < 0
  <2>1. Wrapped(-(boottimeOffsetNS + 1)) = -(boottimeOffsetNS + 1)
    BY <1>1, <1>3 DEF Wrapped, Int64, MinInt
  <2>2. ticks = IF startBoottimeNS < -boottimeOffsetNS THEN NotOk ELSE Ok(sum \div tick)
    <3>1. Wrapped(-(boottimeOffsetNS + 1)) + 1 = -boottimeOffsetNS
      BY <1>1, <2>1
    <3>2. startBoottimeNS - (-boottimeOffsetNS) = sum
      BY <1>1
    <3> QED BY <1>1, <1>3, <3>1, <3>2 DEF procStartTimeTicks
  <2>3. sum \in Uint64 <=> ~(startBoottimeNS < -boottimeOffsetNS)
    BY <1>1, <1>3 DEF Uint64
  <2> QED BY <1>2, <2>2, <2>3 DEF Ok, NotOk, ProcTicks
<1>4. CASE ~(boottimeOffsetNS < 0)
  <2>1. ticks = IF startBoottimeNS > MaxUint - boottimeOffsetNS THEN NotOk
                ELSE Ok(sum \div tick)
    BY <1>1, <1>4 DEF procStartTimeTicks
  <2>2. sum \in Uint64 <=> ~(startBoottimeNS > MaxUint - boottimeOffsetNS)
    BY <1>1, <1>4 DEF Uint64
  <2> QED BY <1>2, <2>1, <2>2 DEF Ok, NotOk, ProcTicks
<1> QED BY <1>3, <1>4

----------------------------------------------------------------------------
(* The types of a run *)

EventTicks(ns) ==
  IF scenario.conversion THEN procStartTimeTicks(ns, scenario.offset, ticksPerSecond).value ELSE 0

\* The events of this run.
StreamEvents ==
  {e \in Events : /\ e.tid \in Tids /\ e.ns \in FirstStart .. FirstStart + MaxEvents
                  /\ e.at \in 1 .. MaxClock /\ e.ticks = EventTicks(e.ns)}

KernelStates == SchedulerStates \cup {"none"}

RunTypeOK ==
  /\ scenario \in Scenarios /\ origin = Origin
  /\ clock \in Nat /\ Origin <= clock /\ clock <= MaxClock
  /\ emitted \in Nat /\ emitted <= MaxEvents
  /\ thread \in [Tids -> [ns : FirstStart .. FirstStart + emitted, state : KernelStates]]
  /\ inflight \in [Tids -> StreamEvents \cup {NoEvent}]
  /\ \A tid \in Tids : inflight[tid] # NoEvent => inflight[tid].tid = tid
  /\ ring \in Seq(StreamEvents)
  /\ lost \in Nat
  /\ barrier \in Nat \cup {NoFlush}

LEMMA ScenarioType ==
  ASSUME scenario \in Scenarios
  PROVE  /\ Tids \subseteq Nat \ {0} /\ IsFiniteSet(Tids) /\ Initial \subseteq Tids
         /\ FirstStart \in Nat \ {0} /\ MaxEvents \in Nat /\ FirstStart + MaxEvents <= MaxUint
         /\ Origin \in Nat \ {0} /\ MaxClock \in Nat /\ Origin <= MaxClock
BY ScenariosAssumption DEF Tids, Initial, FirstStart, MaxEvents, Origin, MaxClock

\* The kinds of events, with what the collector makes of their states.
Changes ==
  {<<"wakeup", "runnable">>, <<"switch_in", "on_cpu">>, <<"switch_out", "sleeping">>}
    \cup {<<"switch_out", stateAfterSwitch(switch.flags, switch.preempted)>> : switch \in Switches}

LEMMA EventIsStreamed ==
  ASSUME scenario \in Scenarios, NEW tid \in Tids, NEW ns \in FirstStart .. FirstStart + MaxEvents,
         NEW at \in 1 .. MaxClock, NEW change \in Changes
  PROVE  LET e == Event(tid, ns, change[1], change[2], at) IN
         /\ e \in StreamEvents /\ e # NoEvent
         /\ e.tid = tid /\ e.ns = ns /\ e.at = at /\ e.kind = change[1] /\ e.state = change[2]
<1> DEFINE e == Event(tid, ns, change[1], change[2], at)
<1>1. e.tid = tid /\ e.ns = ns /\ e.at = at /\ e.kind = change[1] /\ e.state = change[2]
      /\ e.ticks = EventTicks(ns)
  BY DEF Event, EventOf, EventTicks
<1>2. e \in RunEvents
  <2> DEFINE Of(s) == {EventOf(s, t, n, c[1], c[2], a) :
                 t \in s.tids, n \in s.start .. s.start + s.maxEvents, a \in 1 .. s.maxClock,
                 c \in {<<"wakeup", "runnable">>, <<"switch_in", "on_cpu">>, <<"switch_out", "sleeping">>}
                   \cup {<<"switch_out", stateAfterSwitch(switch.flags, switch.preempted)>> :
                           switch \in s.switches}}
  <2>1. RunEvents = UNION {Of(s) : s \in Scenarios}
    BY DEF RunEvents
  <2>2. e \in Of(scenario)
    BY DEF Event, Tids, FirstStart, MaxEvents, MaxClock, Changes, Switches
  <2> HIDE DEF Of, e
  <2> QED  BY <2>1, <2>2
<1>3. e \in Events /\ e \in EventType
  BY <1>2, StreamAssumption, EventsAssumption
<1>4. e # NoEvent
  <2>1. e.kind \in EventKinds
    BY <1>3 DEF EventType
  <2> HIDE DEF e
  <2> QED  BY <2>1 DEF NoEvent, EventKinds
<1> HIDE DEF e
<1>5. e \in StreamEvents
  BY <1>1, <1>3 DEF StreamEvents
<1> QED  BY <1>1, <1>4, <1>5 DEF e

\* What can have happened to a thread by the end of the initial scan.
LEMMA HistoryType ==
  ASSUME scenario \in Scenarios, NEW tid \in Initial, NEW history \in Histories(tid)
  PROVE  /\ history.after \in {"on_cpu", "runnable", "sleeping"}
         /\ history.event # << >> =>
              LET e == history.event[1] IN
              /\ e \in StreamEvents /\ e.tid = tid /\ e.ns = FirstStart
              /\ e.at < Origin /\ e.state # "dead"
<1> DEFINE Change(before, after, kind) ==
             {[before |-> before, after |-> after,
               event |-> <<Event(tid, FirstStart, kind, after, at)>>] : at \in 1 .. Origin - 1}
<1>1. \/ history \in {[before |-> state, after |-> state, event |-> << >>] :
                         state \in {"on_cpu", "runnable", "sleeping"}}
      \/ history \in Change("sleeping", "runnable", "wakeup")
      \/ history \in Change("on_cpu", "sleeping", "switch_out")
  BY DEF Histories
<1>2. ASSUME NEW before, NEW change \in Changes, change[2] \in {"runnable", "sleeping"},
             history \in Change(before, change[2], change[1])
      PROVE  /\ history.after = change[2]
             /\ LET e == history.event[1] IN
                /\ e \in StreamEvents /\ e.tid = tid /\ e.ns = FirstStart
                /\ e.at < Origin /\ e.state # "dead"
  <2>1. PICK at \in 1 .. Origin - 1 :
          history = [before |-> before, after |-> change[2],
                     event |-> <<Event(tid, FirstStart, change[1], change[2], at)>>]
    BY <1>2
  <2> DEFINE e == Event(tid, FirstStart, change[1], change[2], at)
  <2>2. tid \in Tids /\ FirstStart \in FirstStart .. FirstStart + MaxEvents /\ at \in 1 .. MaxClock
        /\ at < Origin
    BY ScenarioType
  <2>3. e \in StreamEvents /\ e.tid = tid /\ e.ns = FirstStart /\ e.at = at /\ e.state = change[2]
    BY <2>2, EventIsStreamed
  <2>4. history.after = change[2] /\ history.event[1] = e
    BY <2>1
  <2> HIDE DEF e
  <2> QED  BY <1>2, <2>2, <2>3, <2>4
<1>3. CASE history \in {[before |-> state, after |-> state, event |-> << >>] :
                         state \in {"on_cpu", "runnable", "sleeping"}}
  BY <1>3
<1>4. CASE history \in Change("sleeping", "runnable", "wakeup")
  <2> DEFINE change == <<"wakeup", "runnable">>
  <2>1. change \in Changes /\ change[1] = "wakeup" /\ change[2] = "runnable"
    BY DEF Changes
  <2> HIDE DEF change, Change
  <2> QED  BY <1>2, <1>4, <2>1
<1>5. CASE history \in Change("on_cpu", "sleeping", "switch_out")
  <2> DEFINE change == <<"switch_out", "sleeping">>
  <2>1. change \in Changes /\ change[1] = "switch_out" /\ change[2] = "sleeping"
    BY DEF Changes
  <2> HIDE DEF change, Change
  <2> QED  BY <1>2, <1>5, <2>1
<1> QED  BY <1>1, <1>3, <1>4, <1>5

\* The facts about the initial states that the proofs use.
LEMMA RunStarts ==
  ASSUME RunInit
  PROVE  /\ scenario \in Scenarios /\ Init
         /\ \E snapshot \in SnapshotsOf(scenario) :
              /\ InitFrom(snapshot) /\ snapshot.finished = Origin
              /\ snapshot.samples \in [Initial -> [ticks : {ProcTicks(FirstStart, scenario.offset, ticksPerSecond)},
                                                 state : {"running", "sleeping"}, at : 1 .. Origin]]
         /\ DOMAIN thread = Tids
         /\ thread \in [Tids -> [ns : {FirstStart}, state : KernelStates \ {"dead"}]]
         /\ \A tid \in Initial : thread[tid].state # "none"
         /\ ring \in Seq({e \in StreamEvents : e.tid \in Initial /\ e.ns = FirstStart /\ e.at < Origin
                                            /\ e.state # "dead"})
         /\ \A i, j \in DOMAIN ring : ring[i].tid = ring[j].tid => ring[i] = ring[j]
         /\ clock = Origin /\ inflight = [tid \in Tids |-> NoEvent]
         /\ lost = 0 /\ barrier = NoFlush /\ emitted = 0
<1>1. scenario \in Scenarios
  BY DEF RunInit
<1>2. PICK snapshot \in SnapshotsOf(scenario) :
        \E history \in [Initial -> UNION {Histories(tid) : tid \in Initial}] :
          /\ \A tid \in Initial : history[tid] \in Histories(tid)
          /\ InitFrom(snapshot)
          /\ thread = [tid \in Tids |->
               [ns |-> FirstStart, state |-> IF tid \in Initial THEN history[tid].after ELSE "none"]]
          /\ LET events == {history[tid].event[1] : tid \in {t \in Initial : history[t].event # << >>}}
             IN ring \in [1 .. Cardinality(events) -> events]
          /\ clock = Origin /\ inflight = [tid \in Tids |-> NoEvent]
          /\ lost = 0 /\ barrier = NoFlush /\ emitted = 0
  BY DEF RunInit
<1>3. PICK history \in [Initial -> UNION {Histories(tid) : tid \in Initial}] :
          /\ \A tid \in Initial : history[tid] \in Histories(tid)
          /\ InitFrom(snapshot)
          /\ thread = [tid \in Tids |->
               [ns |-> FirstStart, state |-> IF tid \in Initial THEN history[tid].after ELSE "none"]]
          /\ LET events == {history[tid].event[1] : tid \in {t \in Initial : history[t].event # << >>}}
             IN ring \in [1 .. Cardinality(events) -> events]
          /\ clock = Origin /\ inflight = [tid \in Tids |-> NoEvent]
          /\ lost = 0 /\ barrier = NoFlush /\ emitted = 0
  BY <1>2
<1>4. Init
  <2>1. snapshot \in Snapshots
    BY <1>1, StreamAssumption DEF RunSnapshots
  <2> QED  BY <1>3, <2>1 DEF Init
<1>5. /\ snapshot.finished = Origin
      /\ snapshot.samples \in [Initial -> [ticks : {ProcTicks(FirstStart, scenario.offset, ticksPerSecond)},
                                         state : {"running", "sleeping"}, at : 1 .. Origin]]
  BY DEF SnapshotsOf, Origin, Initial, FirstStart
<1>6. thread \in [Tids -> [ns : {FirstStart}, state : KernelStates \ {"dead"}]]
      /\ DOMAIN thread = Tids /\ \A tid \in Initial : thread[tid].state # "none"
  <2>1. \A tid \in Tids : (IF tid \in Initial THEN history[tid].after ELSE "none") \in KernelStates \ {"dead"}
    <3>1. \A tid \in Initial : history[tid].after \in {"on_cpu", "runnable", "sleeping"}
      BY <1>1, <1>3, HistoryType
    <3> QED  BY <3>1 DEF KernelStates, SchedulerStates
  <2>2. \A tid \in Initial : history[tid].after # "none" /\ tid \in Tids
    <3>1. \A tid \in Initial : history[tid].after \in {"on_cpu", "runnable", "sleeping"}
      BY <1>1, <1>3, HistoryType
    <3> QED  BY <1>1, <3>1, ScenarioType
  <2> QED  BY <1>3, <2>1, <2>2
<1> DEFINE events == {history[tid].event[1] : tid \in {t \in Initial : history[t].event # << >>}}
<1>7. ring \in [1 .. Cardinality(events) -> events]
  BY <1>3
<1>8. \A e \in events : e \in StreamEvents /\ e.tid \in Initial /\ e.ns = FirstStart
                        /\ e.at < Origin /\ e.state # "dead"
  BY <1>1, <1>3, HistoryType
<1>9. \A e, f \in events : e.tid = f.tid => e = f
  <2>1. \A tid \in Initial : history[tid].event # << >> => history[tid].event[1].tid = tid
    BY <1>1, <1>3, HistoryType
  <2> QED  BY <2>1
<1>10. Cardinality(events) \in Nat
  <2>1. IsFiniteSet(Initial)
    BY <1>1, ScenarioType, FS_Subset
  <2>2. IsFiniteSet({t \in Initial : history[t].event # << >>})
    BY <2>1, FS_Subset
  <2>3. IsFiniteSet(events)
    <3> DEFINE told == {t \in Initial : history[t].event # << >>}
               first == [tid \in told |-> history[tid].event[1]]
    <3>1. first \in Surjection(told, events)
      BY DEF Surjection
    <3> HIDE DEF events, first
    <3> QED  BY <2>2, <3>1, FS_Surjection
  <2> HIDE DEF events
  <2> QED  BY <2>3, FS_CardinalityType
<1>11. /\ ring \in Seq({e \in StreamEvents : e.tid \in Initial /\ e.ns = FirstStart /\ e.at < Origin
                                           /\ e.state # "dead"})
       /\ \A i, j \in DOMAIN ring : ring[i].tid = ring[j].tid => ring[i] = ring[j]
  <2> HIDE DEF events
  <2> QED  BY <1>7, <1>8, <1>9, <1>10
<1> QED  BY <1>1, <1>3, <1>4, <1>5, <1>6, <1>11

\* What a tracepoint does: it makes the event e of a thread that is t after it.
Fired(tid, e, t) ==
  /\ e \in StreamEvents /\ e # NoEvent /\ e.tid = tid /\ e.at = clock /\ e.ns = t.ns
  /\ e.state = "dead" => t.state = "dead"
  /\ t \in [ns : FirstStart .. FirstStart + emitted + 1, state : SchedulerStates]
  /\ \/ t.ns = thread[tid].ns /\ thread[tid].state \notin {"none", "dead"}
     \/ t.ns = thread[tid].ns + 1 /\ thread[tid].state \in {"none", "dead"} /\ t.state # "dead"
  /\ inflight[tid] = NoEvent /\ inflight' = [inflight EXCEPT ![tid] = e]
  /\ thread' = [thread EXCEPT ![tid] = t]
  /\ emitted < MaxEvents /\ emitted' = emitted + 1
  /\ UNCHANGED <<vars, scenario, clock, ring, lost, barrier>>

LEMMA FiresMakesEvent ==
  ASSUME RunTypeOK, NEW tid \in Tids, NEW change \in Changes, NEW after \in SchedulerStates, NEW ns,
         Fires(tid, ns, change[1], change[2], after),
         change[2] = "dead" => after = "dead",
         \/ ns = thread[tid].ns /\ thread[tid].state \notin {"none", "dead"}
         \/ ns = thread[tid].ns + 1 /\ thread[tid].state \in {"none", "dead"} /\ after # "dead"
  PROVE  \E e \in StreamEvents : \E t : Fired(tid, e, t)
<1> DEFINE e == Event(tid, ns, change[1], change[2], clock)
           t == [ns |-> ns, state |-> after]
<1>1. /\ scenario \in Scenarios /\ FirstStart \in Nat /\ MaxEvents \in Nat /\ emitted \in Nat
      /\ Origin \in Nat \ {0} /\ clock \in Nat /\ Origin <= clock /\ clock <= MaxClock
      /\ MaxClock \in Nat
  BY ScenarioType DEF RunTypeOK
<1>2. /\ inflight[tid] = NoEvent /\ inflight' = [inflight EXCEPT ![tid] = e]
      /\ thread' = [thread EXCEPT ![tid] = t]
      /\ emitted < MaxEvents /\ emitted' = emitted + 1
      /\ UNCHANGED <<vars, scenario, clock, ring, lost, barrier>>
  BY DEF Fires
<1>3. thread[tid].ns \in FirstStart .. FirstStart + emitted
  BY DEF RunTypeOK
<1>4. ns \in FirstStart .. FirstStart + emitted + 1 /\ ns \in FirstStart .. FirstStart + MaxEvents
  BY <1>1, <1>2, <1>3
<1>5. clock \in 1 .. MaxClock
  BY <1>1
<1>6. /\ e \in StreamEvents /\ e # NoEvent
      /\ e.tid = tid /\ e.ns = ns /\ e.at = clock /\ e.state = change[2]
  BY <1>1, <1>4, <1>5, EventIsStreamed
<1>7. t.ns = ns /\ t.state = after /\ t \in [ns : FirstStart .. FirstStart + emitted + 1, state : SchedulerStates]
  BY <1>4
<1> HIDE DEF e, t
<1> QED  BY <1>2, <1>6, <1>7 DEF Fired

Tracepoint(tid) ==
  Wakeup(tid) \/ SwitchIn(tid) \/ Spawn(tid) \/ \E switch \in Switches : SwitchOut(tid, switch)

LEMMA TracepointFires ==
  ASSUME RunTypeOK, NEW tid \in Tids, Tracepoint(tid)
  PROVE  \E e \in StreamEvents : \E t : Fired(tid, e, t)
<1> DEFINE wakeup == <<"wakeup", "runnable">>
           switchIn == <<"switch_in", "on_cpu">>
<1>0. thread[tid].state \in KernelStates
  BY DEF RunTypeOK
<1>1. CASE Wakeup(tid)
  <2> DEFINE after == IF thread[tid].state = "on_cpu" THEN "on_cpu" ELSE "runnable"
  <2>1. after \in SchedulerStates /\ thread[tid].state \notin {"none", "dead"}
        /\ Fires(tid, thread[tid].ns, "wakeup", "runnable", after)
    BY <1>1 DEF Wakeup, KernelStates, SchedulerStates
  <2>2. wakeup \in Changes /\ wakeup[1] = "wakeup" /\ wakeup[2] = "runnable"
    BY DEF Changes
  <2> HIDE DEF wakeup, after
  <2> QED  BY <2>1, <2>2, FiresMakesEvent
<1>2. CASE SwitchIn(tid)
  <2>1. "on_cpu" \in SchedulerStates /\ thread[tid].state \notin {"none", "dead"}
        /\ Fires(tid, thread[tid].ns, "switch_in", "on_cpu", "on_cpu")
    BY <1>2 DEF SwitchIn, KernelStates, SchedulerStates
  <2>2. switchIn \in Changes /\ switchIn[1] = "switch_in" /\ switchIn[2] = "on_cpu"
    BY DEF Changes
  <2> HIDE DEF switchIn
  <2> QED  BY <2>1, <2>2, FiresMakesEvent
<1>3. CASE Spawn(tid)
  <2>1. "runnable" \in SchedulerStates /\ thread[tid].state \in {"none", "dead"}
        /\ Fires(tid, thread[tid].ns + 1, "wakeup", "runnable", "runnable")
    BY <1>3 DEF Spawn, KernelStates, SchedulerStates
  <2>2. wakeup \in Changes /\ wakeup[1] = "wakeup" /\ wakeup[2] = "runnable"
    BY DEF Changes
  <2> HIDE DEF wakeup
  <2> QED  BY <2>1, <2>2, FiresMakesEvent
<1>4. ASSUME NEW switch \in Switches, SwitchOut(tid, switch)
      PROVE  \E e \in StreamEvents : \E t : Fired(tid, e, t)
  <2> DEFINE state == stateAfterSwitch(switch.flags, switch.preempted)
             change == <<"switch_out", state>>
  <2>1. /\ switch.state \in SchedulerStates /\ (state = "dead" => switch.state = "dead")
    BY ScenariosAssumption DEF Switches, RunTypeOK, KernelStates
  <2>2. change \in Changes /\ change[1] = "switch_out" /\ change[2] = state
    BY DEF Changes
  <2>3. thread[tid].state \notin {"none", "dead"}
        /\ Fires(tid, thread[tid].ns, change[1], change[2], switch.state)
    BY <1>4 DEF SwitchOut
  <2> HIDE DEF change, state
  <2> QED  BY <2>1, <2>2, <2>3, FiresMakesEvent
<1> QED  BY <1>1, <1>2, <1>3, <1>4 DEF Tracepoint

----------------------------------------------------------------------------
(* A run implements the specification of the accumulator *)

LEMMA RunInitType == RunInit => RunTypeOK
<1> SUFFICES ASSUME RunInit  PROVE  RunTypeOK
  OBVIOUS
<1>1. scenario \in Scenarios
  BY RunStarts
<1>2. /\ Origin \in Nat /\ FirstStart \in Nat /\ MaxEvents \in Nat /\ Origin <= MaxClock
  BY <1>1, ScenarioType
<1>3. origin = Origin
  BY RunStarts DEF InitFrom
<1>4. clock = Origin /\ emitted = 0 /\ lost = 0 /\ barrier = NoFlush
      /\ inflight = [tid \in Tids |-> NoEvent]
  BY RunStarts
<1>5. thread \in [Tids -> [ns : FirstStart .. FirstStart + emitted, state : KernelStates]]
  <2>1. thread \in [Tids -> [ns : {FirstStart}, state : KernelStates \ {"dead"}]]
    BY RunStarts
  <2> QED  BY <1>2, <1>4, <2>1
<1>6. ring \in Seq(StreamEvents)
  <2> DEFINE early == {e \in StreamEvents : e.tid \in Initial /\ e.ns = FirstStart /\ e.at < Origin
                                          /\ e.state # "dead"}
  <2>1. ring \in Seq(early) /\ early \subseteq StreamEvents
    BY RunStarts
  <2> HIDE DEF early
  <2> QED  BY <2>1, SeqMonotonic
<1> QED  BY <1>1, <1>2, <1>3, <1>4, <1>5, <1>6 DEF RunTypeOK

LEMMA FiredType ==
  ASSUME RunTypeOK, NEW tid \in Tids, NEW e, NEW t, Fired(tid, e, t)
  PROVE  RunTypeOK'
<1>1. UNCHANGED <<scenario, origin, clock, ring, lost, barrier>>
  BY DEF Fired, vars
<1>2. UNCHANGED <<Tids, Origin, FirstStart, MaxEvents, MaxClock, StreamEvents>>
  BY <1>1 DEF Tids, Origin, FirstStart, MaxEvents, MaxClock, StreamEvents, EventTicks
<1>3. emitted' \in Nat /\ emitted' <= MaxEvents /\ emitted' = emitted + 1 /\ emitted \in Nat
  <2>1. MaxEvents \in Nat /\ emitted \in Nat
    BY ScenarioType DEF RunTypeOK
  <2> QED  BY <2>1 DEF Fired
<1>4. thread' \in [Tids -> [ns : FirstStart .. FirstStart + emitted', state : KernelStates]]
  <2>1. FirstStart \in Nat
    BY ScenarioType DEF RunTypeOK
  <2>2. thread \in [Tids -> [ns : FirstStart .. FirstStart + emitted', state : KernelStates]]
    BY <1>3, <2>1 DEF RunTypeOK
  <2>3. t \in [ns : FirstStart .. FirstStart + emitted', state : KernelStates]
    BY <1>3, <2>1 DEF Fired, KernelStates
  <2>4. thread' = [thread EXCEPT ![tid] = t]
    BY DEF Fired
  <2> QED  BY <2>2, <2>3, <2>4
<1>5. /\ inflight' \in [Tids -> StreamEvents \cup {NoEvent}]
      /\ \A u \in Tids : inflight'[u] # NoEvent => inflight'[u].tid = u
  BY DEF Fired, RunTypeOK
<1> QED  BY <1>1, <1>2, <1>3, <1>4, <1>5 DEF RunTypeOK

LEMMA SubmitType ==
  ASSUME RunTypeOK, NEW tid \in Tids, Submit(tid)
  PROVE  RunTypeOK' /\ UNCHANGED vars
<1>1. UNCHANGED <<vars, scenario, origin, clock, thread, emitted, barrier>>
  BY DEF Submit, vars
<1>2. UNCHANGED <<Tids, Origin, FirstStart, MaxEvents, MaxClock, StreamEvents>>
  BY <1>1 DEF Tids, Origin, FirstStart, MaxEvents, MaxClock, StreamEvents, EventTicks
<1>3. inflight[tid] \in StreamEvents
  BY DEF Submit, RunTypeOK
<1>4. ring' \in Seq(StreamEvents) /\ lost' \in Nat
  <2>1. ring \in Seq(StreamEvents) /\ lost \in Nat
    BY DEF RunTypeOK
  <2>2. \/ ring' = Append(ring, inflight[tid]) /\ lost' = lost
        \/ ring' = ring /\ lost' = lost + 1
    BY DEF Submit
  <2>3. Append(ring, inflight[tid]) \in Seq(StreamEvents)
    BY <1>3, <2>1, AppendProperties
  <2> QED  BY <2>1, <2>2, <2>3
<1>5. /\ inflight' \in [Tids -> StreamEvents \cup {NoEvent}]
      /\ \A u \in Tids : inflight'[u] # NoEvent => inflight'[u].tid = u
  BY DEF Submit, RunTypeOK
<1> QED  BY <1>1, <1>2, <1>4, <1>5 DEF RunTypeOK

LEMMA TickType ==
  ASSUME RunTypeOK, Tick
  PROVE  RunTypeOK' /\ UNCHANGED vars
<1>1. UNCHANGED <<vars, scenario, origin, thread, inflight, ring, lost, barrier, emitted>>
  BY DEF Tick, vars
<1>2. UNCHANGED <<Tids, Origin, FirstStart, MaxEvents, MaxClock, StreamEvents>>
  BY <1>1 DEF Tids, Origin, FirstStart, MaxEvents, MaxClock, StreamEvents, EventTicks
<1>3. clock' \in Nat /\ Origin <= clock' /\ clock' <= MaxClock
  <2>1. Origin \in Nat /\ MaxClock \in Nat
    BY ScenarioType DEF RunTypeOK
  <2> QED  BY <2>1 DEF Tick, RunTypeOK
<1> QED  BY <1>1, <1>2, <1>3 DEF RunTypeOK

LEMMA HeadOfRing ==
  ASSUME RunTypeOK, ring # << >>
  PROVE  /\ Head(ring) \in StreamEvents /\ Head(ring) = ring[1] /\ 1 \in DOMAIN ring
         /\ Head(ring) \in Events /\ Head(ring) \in EventType
         /\ Tail(ring) \in Seq(StreamEvents) /\ Len(ring) \in Nat \ {0}
         /\ Len(Tail(ring)) = Len(ring) - 1
         /\ \A i \in DOMAIN Tail(ring) : i + 1 \in DOMAIN ring /\ Tail(ring)[i] = ring[i + 1]
<1>1. ring \in Seq(StreamEvents)
  BY DEF RunTypeOK
<1>2. /\ Head(ring) \in StreamEvents /\ Head(ring) = ring[1] /\ 1 \in DOMAIN ring
      /\ Tail(ring) \in Seq(StreamEvents) /\ Len(ring) \in Nat \ {0}
      /\ Len(Tail(ring)) = Len(ring) - 1
      /\ \A i \in DOMAIN Tail(ring) : i + 1 \in DOMAIN ring /\ Tail(ring)[i] = ring[i + 1]
  BY <1>1
<1> QED  BY <1>2, EventsAssumption DEF StreamEvents

LEMMA DeliverType ==
  ASSUME RunTypeOK, Deliver
  PROVE  RunTypeOK' /\ Head(ring) \in Events /\ Observe(Head(ring))
<1>1. UNCHANGED <<scenario, clock, thread, inflight, lost, emitted>> /\ Observe(Head(ring))
      /\ ring # << >> /\ ring' = Tail(ring)
  BY DEF Deliver
<1>2. UNCHANGED <<Tids, Origin, FirstStart, MaxEvents, MaxClock, StreamEvents>>
  BY <1>1 DEF Tids, Origin, FirstStart, MaxEvents, MaxClock, StreamEvents, EventTicks
<1>3. barrier' \in Nat \cup {NoFlush}
  BY DEF Deliver, RunTypeOK, NoFlush
<1>4. UNCHANGED origin
  BY <1>1 DEF Observe
<1> QED  BY <1>1, <1>2, <1>3, <1>4, HeadOfRing DEF RunTypeOK

LEMMA StartFlushType ==
  ASSUME RunTypeOK, StartFlush
  PROVE  RunTypeOK' /\ UNCHANGED vars
<1>1. UNCHANGED <<vars, scenario, origin, clock, thread, inflight, ring, lost, emitted>>
  BY DEF StartFlush, vars
<1>2. UNCHANGED <<Tids, Origin, FirstStart, MaxEvents, MaxClock, StreamEvents>>
  BY <1>1 DEF Tids, Origin, FirstStart, MaxEvents, MaxClock, StreamEvents, EventTicks
<1>3. barrier' \in Nat
  BY DEF StartFlush, RunTypeOK
<1> QED  BY <1>1, <1>2, <1>3 DEF RunTypeOK

LEMMA FinishFlushType ==
  ASSUME RunTypeOK, FinishFlush
  PROVE  RunTypeOK' /\ lost \in Nat /\ Advance(lost)
<1>1. UNCHANGED <<scenario, clock, thread, inflight, ring, lost, emitted>> /\ Advance(lost)
      /\ barrier' = NoFlush
  BY DEF FinishFlush
<1>2. UNCHANGED <<Tids, Origin, FirstStart, MaxEvents, MaxClock, StreamEvents>>
  BY <1>1 DEF Tids, Origin, FirstStart, MaxEvents, MaxClock, StreamEvents, EventTicks
<1>3. UNCHANGED origin
  BY <1>1 DEF Advance
<1> QED  BY <1>1, <1>2, <1>3 DEF RunTypeOK

\* Every step of a run is a tracepoint or one of the others.
LEMMA RunSteps ==
  ASSUME RunTypeOK, RunNext
  PROVE  \/ \E tid \in Tids : \E e \in StreamEvents : \E t : Fired(tid, e, t)
         \/ \E tid \in Tids : Submit(tid)
         \/ Tick \/ Deliver \/ StartFlush \/ FinishFlush
<1>1. \/ \E tid \in Tids : Tracepoint(tid) \/ Submit(tid)
      \/ Tick \/ Deliver \/ StartFlush \/ FinishFlush
  BY DEF RunNext, Tracepoint
<1> QED  BY <1>1, TracepointFires

LEMMA StutteringType ==
  ASSUME RunTypeOK, UNCHANGED <<vars, runVars>>
  PROVE  RunTypeOK' /\ UNCHANGED vars
BY DEF RunTypeOK, vars, runVars, Tids, Origin, FirstStart, MaxEvents, MaxClock, StreamEvents, EventTicks

\* A step of a run is a step of the accumulator, or none.
LEMMA RunStepImplements ==
  ASSUME RunTypeOK, [RunNext]_<<vars, runVars>>
  PROVE  RunTypeOK' /\ [Next]_vars
<1>1. ASSUME NEW tid \in Tids, NEW e \in StreamEvents, NEW t, Fired(tid, e, t)
      PROVE  RunTypeOK' /\ [Next]_vars
  BY <1>1, FiredType DEF Fired
<1>2. CASE Deliver
  BY <1>2, DeliverType DEF Next
<1>3. CASE FinishFlush
  BY <1>3, FinishFlushType DEF Next
<1>4. CASE UNCHANGED <<vars, runVars>>
  BY <1>4, StutteringType
<1> QED  BY <1>1, <1>2, <1>3, <1>4, RunSteps, SubmitType, TickType, StartFlushType

\* The collector delivers to the accumulator what its specification expects: events of
\* the stream one at a time, the boundaries in turn, and nothing changes the accumulator
\* in between (runSchedulerEvents, flushSchedulerEvents).
THEOREM RunImplementsAccumulator == RunSpec => Spec
<1>1. RunInit => RunTypeOK /\ Init
  BY RunInitType, RunStarts
<1>2. RunTypeOK /\ [RunNext]_<<vars, runVars>> => RunTypeOK' /\ [Next]_vars
  BY RunStepImplements
<1> QED  BY <1>1, <1>2, PTL DEF RunSpec, Spec

\* The kernel's side of a run has its types.
THEOREM RunTypeCorrect == RunSpec => []RunTypeOK
BY RunInitType, RunStepImplements, PTL DEF RunSpec

----------------------------------------------------------------------------
(* The events of a TID reach the collector in the order of the kernel's *)

\* Two events of one TID, in their order: the death of a thread is its last event.
Precedes(e, f) == e.at <= f.at /\ e.ns <= f.ns /\ (e.state = "dead" => e.ns < f.ns)

\* An event that the thread now t, or one that had its TID before, has made.
MadeBefore(e, t) == e.ns <= t.ns /\ (e.state = "dead" /\ e.ns = t.ns => t.state = "dead")

\* The events of a TID that are on their way.
Pending(tid) ==
  {ring[i] : i \in {j \in DOMAIN ring : ring[j].tid = tid}} \cup ({inflight[tid]} \ {NoEvent})

PendingInOrder ==
  /\ \A i, j \in DOMAIN ring :
       i < j /\ ring[i].tid = ring[j].tid => Precedes(ring[i], ring[j])
  /\ \A i \in DOMAIN ring :
       inflight[ring[i].tid] # NoEvent => Precedes(ring[i], inflight[ring[i].tid])
  /\ \A tid \in Tids : \A e \in Pending(tid) : e.at <= clock /\ MadeBefore(e, thread[tid])

LEMMA PendingType ==
  ASSUME RunTypeOK, NEW tid \in Tids, NEW e \in Pending(tid)
  PROVE  /\ e \in StreamEvents /\ e.tid = tid /\ e.ns \in Nat \ {0} /\ e.at \in Nat \ {0}
         /\ e \in EventType
<1>1. e \in StreamEvents /\ e.tid = tid
  BY DEF Pending, RunTypeOK
<1>2. FirstStart \in Nat \ {0} /\ MaxClock \in Nat /\ MaxEvents \in Nat
  BY ScenarioType DEF RunTypeOK
<1>3. e \in EventType
  BY <1>1, EventsAssumption DEF StreamEvents
<1> QED  BY <1>1, <1>2, <1>3 DEF StreamEvents

LEMMA RingIsPending ==
  ASSUME RunTypeOK, NEW i \in DOMAIN ring
  PROVE  /\ ring[i] \in StreamEvents /\ ring[i].tid \in Tids /\ ring[i] \in Pending(ring[i].tid)
         /\ i \in Nat
<1>1. ring[i] \in StreamEvents /\ i \in Nat
  BY DEF RunTypeOK
<1> QED  BY <1>1 DEF StreamEvents, Pending

LEMMA ThreadType ==
  ASSUME RunTypeOK, NEW tid \in Tids
  PROVE  /\ thread[tid].ns \in Nat /\ thread[tid].ns >= FirstStart /\ FirstStart \in Nat \ {0}
         /\ thread[tid].state \in KernelStates
<1>1. FirstStart \in Nat \ {0} /\ emitted \in Nat
  BY ScenarioType DEF RunTypeOK
<1>2. thread[tid] \in [ns : FirstStart .. FirstStart + emitted, state : KernelStates]
  BY DEF RunTypeOK
<1> QED  BY <1>1, <1>2

LEMMA FiredPending ==
  ASSUME RunTypeOK, NEW tid \in Tids, NEW e, NEW t, Fired(tid, e, t), NEW u \in Tids
  PROVE  /\ Pending(u)' \subseteq IF u = tid THEN Pending(u) \cup {e} ELSE Pending(u)
         /\ Pending(u) \subseteq Pending(u)'
         /\ thread'[u] = IF u = tid THEN t ELSE thread[u]
<1>1. ring' = ring /\ inflight' = [inflight EXCEPT ![tid] = e] /\ inflight[tid] = NoEvent
      /\ thread' = [thread EXCEPT ![tid] = t] /\ DOMAIN thread = Tids /\ DOMAIN inflight = Tids
  BY DEF Fired, RunTypeOK
<1> QED  BY <1>1 DEF Pending

LEMMA SubmitPending ==
  ASSUME RunTypeOK, NEW tid \in Tids, Submit(tid), NEW u \in Tids
  PROVE  Pending(u)' \subseteq Pending(u)
<1>1. inflight' = [inflight EXCEPT ![tid] = NoEvent] /\ inflight[tid] # NoEvent
      /\ inflight[tid].tid = tid /\ DOMAIN inflight = Tids
  BY DEF Submit, RunTypeOK
<1>2. CASE ring' = ring
  BY <1>1, <1>2 DEF Pending
<1>3. CASE ring' = Append(ring, inflight[tid])
  <2>1. \A i \in DOMAIN ring' : (i \in DOMAIN ring /\ ring'[i] = ring[i]) \/ ring'[i] = inflight[tid]
    BY <1>3 DEF RunTypeOK
  <2> QED  BY <1>1, <2>1 DEF Pending
<1> QED  BY <1>2, <1>3 DEF Submit

LEMMA DeliverPending ==
  ASSUME RunTypeOK, Deliver, NEW u \in Tids
  PROVE  Pending(u)' \subseteq Pending(u)
<1>1. ring # << >> /\ ring' = Tail(ring) /\ inflight' = inflight
  BY DEF Deliver
<1>2. \A i \in DOMAIN ring' : i + 1 \in DOMAIN ring /\ ring'[i] = ring[i + 1]
  BY <1>1, HeadOfRing
<1> QED  BY <1>1, <1>2 DEF Pending

LEMMA FiredInOrder ==
  ASSUME RunTypeOK, PendingInOrder, NEW tid \in Tids, NEW e, NEW t, Fired(tid, e, t)
  PROVE  PendingInOrder'
<1>1. ring' = ring /\ clock' = clock /\ e.at = clock /\ e.tid = tid /\ e.ns = t.ns
      /\ inflight[tid] = NoEvent /\ inflight' = [inflight EXCEPT ![tid] = e]
      /\ DOMAIN inflight = Tids /\ Tids' = Tids /\ clock \in Nat
      /\ (e.state = "dead" => t.state = "dead")
  BY DEF Fired, RunTypeOK, Tids
<1>2. \/ t.ns = thread[tid].ns /\ thread[tid].state \notin {"none", "dead"}
      \/ t.ns = thread[tid].ns + 1
  BY DEF Fired
<1>3. \A f \in Pending(tid) : /\ f.at <= e.at /\ f.ns <= t.ns /\ (f.state = "dead" => f.ns < t.ns)
                              /\ f.ns \in Nat
  <2> SUFFICES ASSUME NEW f \in Pending(tid)
               PROVE  f.at <= e.at /\ f.ns <= t.ns /\ (f.state = "dead" => f.ns < t.ns) /\ f.ns \in Nat
    OBVIOUS
  <2>1. f.at <= clock /\ MadeBefore(f, thread[tid]) /\ f.ns \in Nat /\ thread[tid].ns \in Nat
    BY PendingType, ThreadType DEF PendingInOrder
  <2> QED  BY <1>1, <1>2, <2>1 DEF MadeBefore
<1>4. \A i \in DOMAIN ring : inflight'[ring[i].tid] # NoEvent => Precedes(ring[i], inflight'[ring[i].tid])
  <2> SUFFICES ASSUME NEW i \in DOMAIN ring, inflight'[ring[i].tid] # NoEvent
               PROVE  Precedes(ring[i], inflight'[ring[i].tid])
    OBVIOUS
  <2>1. CASE ring[i].tid = tid
    <3>1. inflight'[ring[i].tid] = e /\ ring[i] \in Pending(tid)
      BY <1>1, <2>1, RingIsPending
    <3> QED  BY <1>1, <1>3, <3>1 DEF Precedes
  <2>2. CASE ring[i].tid # tid
    <3>1. inflight'[ring[i].tid] = inflight[ring[i].tid]
      BY <1>1, <2>2, RingIsPending
    <3> QED  BY <2>2, <3>1 DEF PendingInOrder
  <2> QED  BY <2>1, <2>2
<1>5. ASSUME NEW u \in Tids, NEW f \in Pending(u)'
      PROVE  f.at <= clock /\ MadeBefore(f, thread'[u])
  <2>1. CASE u = tid
    <3>1. thread'[u] = t /\ (f \in Pending(tid) \/ f = e)
      BY <2>1, <1>5, FiredPending
    <3>2. CASE f = e
      BY <1>1, <3>1, <3>2, ThreadType, <1>2 DEF MadeBefore
    <3>3. CASE f \in Pending(tid)
      <4>1. t.ns \in Nat
        BY <1>2, ThreadType
      <4> QED  BY <1>1, <1>3, <3>1, <3>3, <4>1 DEF MadeBefore, PendingInOrder
    <3> QED  BY <3>1, <3>2, <3>3
  <2>2. CASE u # tid
    <3>1. thread'[u] = thread[u] /\ f \in Pending(u)
      BY <2>2, <1>5, FiredPending
    <3> QED  BY <3>1 DEF PendingInOrder
  <2> QED  BY <2>1, <2>2
<1> QED  BY <1>1, <1>4, <1>5 DEF PendingInOrder

LEMMA SameScenario ==
  ASSUME UNCHANGED scenario
  PROVE  UNCHANGED <<Tids, Initial, FirstStart, Origin, MaxClock, MaxEvents, Switches>>
BY DEF Tids, Initial, FirstStart, Origin, MaxClock, MaxEvents, Switches

\* What leaves the events where they are, or takes some away, leaves them in order.
LEMMA SubmitInOrder ==
  ASSUME RunTypeOK, PendingInOrder, NEW tid \in Tids, Submit(tid)
  PROVE  PendingInOrder'
<1>1. /\ inflight[tid] # NoEvent /\ inflight[tid].tid = tid /\ inflight' = [inflight EXCEPT ![tid] = NoEvent]
      /\ DOMAIN inflight = Tids /\ UNCHANGED <<clock, thread, scenario>> /\ Tids' = Tids
  BY SameScenario DEF Submit, RunTypeOK
<1>2. \A u \in Tids : \A e \in Pending(u)' : e.at <= clock /\ MadeBefore(e, thread[u])
  BY SubmitPending DEF PendingInOrder
<1>3. CASE ring' = ring
  BY <1>1, <1>2, <1>3 DEF PendingInOrder
<1>4. CASE ring' = Append(ring, inflight[tid])
  <2>1. \A i \in DOMAIN ring' : \/ i \in DOMAIN ring /\ ring'[i] = ring[i]
                                \/ ring'[i] = inflight[tid] /\ i = Len(ring) + 1
    BY <1>4 DEF RunTypeOK
  <2>2. \A i \in DOMAIN ring : i \in Nat /\ i < Len(ring) + 1 /\ ring[i].tid \in Tids
    BY RingIsPending DEF RunTypeOK
  <2>3. ASSUME NEW i \in DOMAIN ring', NEW j \in DOMAIN ring', i < j, ring'[i].tid = ring'[j].tid
        PROVE  Precedes(ring'[i], ring'[j])
    <3>1. i \in DOMAIN ring /\ ring'[i] = ring[i]
      <4>1. i # Len(ring) + 1
        BY <2>1, <2>2, <2>3 DEF RunTypeOK
      <4> QED  BY <2>1, <4>1
    <3>2. CASE j \in DOMAIN ring /\ ring'[j] = ring[j]
      BY <2>3, <3>1, <3>2 DEF PendingInOrder
    <3>3. CASE ring'[j] = inflight[tid]
      BY <1>1, <2>3, <3>1, <3>3 DEF PendingInOrder
    <3> QED  BY <2>1, <3>2, <3>3
  <2>4. ASSUME NEW i \in DOMAIN ring', inflight'[ring'[i].tid] # NoEvent
        PROVE  Precedes(ring'[i], inflight'[ring'[i].tid])
    <3>1. ring'[i].tid # tid
      BY <1>1, <2>4
    <3>2. i \in DOMAIN ring /\ ring'[i] = ring[i]
      BY <1>1, <2>1, <3>1
    <3>3. inflight'[ring'[i].tid] = inflight[ring[i].tid]
      BY <1>1, <2>2, <3>1, <3>2
    <3> QED  BY <2>4, <3>2, <3>3 DEF PendingInOrder
  <2> QED  BY <1>1, <1>2, <2>3, <2>4 DEF PendingInOrder
<1> QED  BY <1>3, <1>4 DEF Submit

LEMMA DeliverInOrder ==
  ASSUME RunTypeOK, PendingInOrder, Deliver
  PROVE  PendingInOrder'
<1>1. ring # << >> /\ ring' = Tail(ring) /\ UNCHANGED <<inflight, clock, thread, scenario>>
      /\ Tids' = Tids
  BY SameScenario DEF Deliver
<1>2. \A i \in DOMAIN ring' : i + 1 \in DOMAIN ring /\ ring'[i] = ring[i + 1] /\ i \in Nat
  BY <1>1, HeadOfRing DEF RunTypeOK
<1>3. \A u \in Tids : \A e \in Pending(u)' : e.at <= clock /\ MadeBefore(e, thread[u])
  BY DeliverPending DEF PendingInOrder
<1>4. \A i, j \in DOMAIN ring' : i < j /\ ring'[i].tid = ring'[j].tid => Precedes(ring'[i], ring'[j])
  BY <1>2 DEF PendingInOrder
<1>5. \A i \in DOMAIN ring' :
        inflight[ring'[i].tid] # NoEvent => Precedes(ring'[i], inflight[ring'[i].tid])
  BY <1>2 DEF PendingInOrder
<1> QED  BY <1>1, <1>3, <1>4, <1>5 DEF PendingInOrder

LEMMA OthersInOrder ==
  ASSUME RunTypeOK, PendingInOrder, UNCHANGED <<ring, inflight, thread, scenario>>,
         clock' \in Nat, clock <= clock'
  PROVE  PendingInOrder' /\ \A u \in Tids : Pending(u)' = Pending(u)
<1>1. Tids' = Tids
  BY SameScenario
<1>2. \A u \in Tids : Pending(u)' = Pending(u)
  BY DEF Pending
<1>3. ASSUME NEW u \in Tids, NEW e \in Pending(u)'
      PROVE  e.at <= clock' /\ MadeBefore(e, thread'[u])
  <2>1. e.at <= clock /\ MadeBefore(e, thread[u]) /\ e.at \in Nat
    BY <1>2, <1>3, PendingType DEF PendingInOrder
  <2>2. clock \in Nat /\ thread' = thread
    BY DEF RunTypeOK
  <2> QED  BY <2>1, <2>2
<1> QED  BY <1>1, <1>2, <1>3 DEF PendingInOrder

LEMMA RunInitInOrder == RunInit => PendingInOrder
<1> SUFFICES ASSUME RunInit  PROVE  PendingInOrder
  OBVIOUS
<1>1. RunTypeOK
  BY RunInitType
<1>2. \A i \in DOMAIN ring : /\ ring[i] \in StreamEvents /\ ring[i].tid \in Initial /\ ring[i].ns = FirstStart
                             /\ ring[i].at < Origin /\ ring[i].state # "dead"
  <2> DEFINE early == {e \in StreamEvents : e.tid \in Initial /\ e.ns = FirstStart /\ e.at < Origin
                                          /\ e.state # "dead"}
  <2>1. ring \in Seq(early)
    BY RunStarts
  <2>2. \A i \in DOMAIN ring : ring[i] \in early
    <3> HIDE DEF early
    <3> QED  BY <2>1
  <2> QED  BY <2>2
<1>3. \A i, j \in DOMAIN ring : ring[i].tid = ring[j].tid => ring[i] = ring[j]
  BY RunStarts
<1>4. inflight = [tid \in Tids |-> NoEvent] /\ clock = Origin /\ \A tid \in Tids : thread[tid].ns = FirstStart
  BY RunStarts
<1>5. \A i \in DOMAIN ring : ring[i].tid \in Tids /\ ring[i].at \in Nat /\ ring[i].ns \in Nat
  BY <1>1, RingIsPending, PendingType
<1>6. Origin \in Nat
  BY <1>1, ScenarioType DEF RunTypeOK
<1>7. ASSUME NEW i \in DOMAIN ring, NEW j \in DOMAIN ring, i < j, ring[i].tid = ring[j].tid
      PROVE  Precedes(ring[i], ring[j])
  <2>1. ring[i] = ring[j]
    BY <1>3, <1>7
  <2> QED  BY <1>2, <1>5, <2>1 DEF Precedes
<1>8. ASSUME NEW u \in Tids, NEW e \in Pending(u)
      PROVE  e.at <= clock /\ MadeBefore(e, thread[u])
  <2>1. PICK i \in DOMAIN ring : e = ring[i]
    BY <1>4, <1>8 DEF Pending
  <2> QED  BY <1>2, <1>4, <1>5, <1>6, <2>1 DEF MadeBefore
<1> QED  BY <1>4, <1>5, <1>7, <1>8 DEF PendingInOrder

\* What a track of a run is like: nothing that is on its way is older than its last
\* segment, unless that ended at a boundary, or is of a thread before its own; a thread
\* that was heard to die makes no more events; and what the initial scan has found is
\* the first thread of its TID until an event completes its identity.
TrackInOrder(tid, track) ==
  /\ tid \in Tids /\ track.since <= clock /\ track.lastEvent <= track.since
  /\ track.ns <= thread[tid].ns
  /\ track.ns = 0 => tid \in Initial /\ track.ticks = ProcTicks(FirstStart, scenario.offset, ticksPerSecond)
  /\ ~track.alive =>
       track.ns # 0 /\ track.state = "dead" /\ (track.ns = thread[tid].ns => thread[tid].state = "dead")
  /\ \A e \in Pending(tid) :
       track.since <= later(watermark, e.at) /\ track.ns <= e.ns /\ (~track.alive => track.ns < e.ns)

TracksInOrder == \A tid \in DOMAIN tracks : TrackInOrder(tid, tracks[tid])

WatermarkIsPast == watermark <= clock /\ (barrier # NoFlush => NextBoundary <= clock)

OrderInv == RunTypeOK /\ TimelineInv /\ PendingInOrder /\ WatermarkIsPast /\ TracksInOrder

LEMMA TrackFields ==
  ASSUME TypeOK, NEW tid \in DOMAIN tracks
  PROVE  /\ tracks[tid] \in TrackType /\ tid \in Int
         /\ tracks[tid].since \in Nat /\ tracks[tid].lastEvent \in Nat /\ tracks[tid].ns \in Nat
         /\ tracks[tid].ticks \in Nat /\ tracks[tid].alive \in BOOLEAN
         /\ watermark \in Nat /\ nextWindow \in Nat /\ origin \in Nat
BY DEF TypeOK, TrackType

\* An order that holds stays when the clock, the watermark or the thread moves on.
LEMMA TrackStaysInOrder ==
  ASSUME OrderInv, NEW tid \in DOMAIN tracks,
         UNCHANGED scenario, tid \in DOMAIN tracks', tracks'[tid] = tracks[tid],
         clock' \in Nat, clock <= clock', watermark' \in Nat, watermark <= watermark',
         Pending(tid)' \subseteq Pending(tid), thread'[tid] = thread[tid]
  PROVE  TrackInOrder(tid, tracks[tid])'
<1>1. TrackInOrder(tid, tracks[tid]) /\ tid \in Tids /\ Tids' = Tids /\ Initial' = Initial
      /\ FirstStart' = FirstStart
  BY SameScenario DEF OrderInv, TracksInOrder, TrackInOrder
<1>2. clock \in Nat /\ tracks[tid].since \in Nat
  BY TrackFields DEF OrderInv, TimelineInv, RunTypeOK
<1>3. ASSUME NEW e \in Pending(tid)'
      PROVE  tracks[tid].since <= later(watermark', e.at) /\ tracks[tid].ns <= e.ns
             /\ (~tracks[tid].alive => tracks[tid].ns < e.ns)
  <2>1. e \in Pending(tid) /\ e.at \in Nat
    BY <1>1, <1>3, PendingType DEF OrderInv
  <2>2. watermark \in Nat
    BY TrackFields DEF OrderInv, TimelineInv
  <2>3. tracks[tid].since <= later(watermark, e.at)
    BY <1>1, <2>1 DEF TrackInOrder
  <2>4. later(watermark, e.at) <= later(watermark', e.at)
    BY <2>1, <2>2 DEF later
  <2>5. tracks[tid].since <= later(watermark', e.at)
    <3>1. later(watermark, e.at) \in Nat /\ later(watermark', e.at) \in Nat
      BY <2>1, <2>2 DEF later
    <3> QED  BY <1>2, <2>3, <2>4, <3>1
  <2> QED  BY <1>1, <2>1, <2>5 DEF TrackInOrder
<1> QED  BY <1>1, <1>2, <1>3 DEF TrackInOrder

LEMMA FiredTracks ==
  ASSUME OrderInv, NEW tid \in Tids, NEW e, NEW t, Fired(tid, e, t)
  PROVE  TracksInOrder' /\ WatermarkIsPast'
<1>1. UNCHANGED <<vars, scenario, clock, barrier>> /\ tracks' = tracks /\ watermark' = watermark
      /\ nextWindow' = nextWindow /\ origin' = origin
  BY DEF Fired, vars
<1>2. WatermarkIsPast'
  BY <1>1 DEF WatermarkIsPast, OrderInv, NextBoundary, WindowEnd
<1>3. RunTypeOK /\ TypeOK /\ clock \in Nat /\ watermark \in Nat
  BY DEF OrderInv, TimelineInv, RunTypeOK, TypeOK
<1>4. ASSUME NEW u \in DOMAIN tracks  PROVE  TrackInOrder(u, tracks[u])'
  <2>1. TrackInOrder(u, tracks[u]) /\ u \in Tids
    BY DEF OrderInv, TracksInOrder, TrackInOrder
  <2>2. CASE u # tid
    <3>1. thread'[u] = thread[u] /\ Pending(u)' \subseteq Pending(u)
      BY <1>3, <2>1, <2>2, FiredPending
    <3> QED  BY <1>1, <1>3, <3>1, TrackStaysInOrder
  <2>3. CASE u = tid
    <3>1. thread'[tid] = t /\ Pending(tid)' \subseteq Pending(tid) \cup {e}
      BY <1>3, FiredPending
    <3>2. /\ t.ns \in Nat /\ tracks[tid].ns \in Nat /\ thread[tid].ns <= t.ns /\ e.ns = t.ns
          /\ e.at = clock /\ tracks[tid].since \in Nat
      BY <1>3, <2>3, ThreadType, TrackFields DEF Fired
    <3>3. tracks[tid].ns <= t.ns /\ (~tracks[tid].alive => tracks[tid].ns < t.ns)
      <4>1. \/ t.ns = thread[tid].ns /\ thread[tid].state # "dead"
            \/ t.ns = thread[tid].ns + 1
        BY DEF Fired
      <4>2. thread[tid].ns \in Nat /\ tracks[tid].ns <= thread[tid].ns
            /\ (~tracks[tid].alive /\ tracks[tid].ns = thread[tid].ns => thread[tid].state = "dead")
        BY <1>3, <2>1, <2>3, ThreadType DEF TrackInOrder
      <4> QED  BY <3>2, <4>1, <4>2
    <3>4. tracks[tid].since <= later(watermark, e.at)
      BY <1>3, <2>1, <2>3, <3>2 DEF TrackInOrder, later
    <3>5. UNCHANGED <<Tids, Initial, FirstStart, scenario>>
      BY <1>1, SameScenario
    <3>6. \A f \in Pending(tid)' :
            tracks[tid].since <= later(watermark, f.at) /\ tracks[tid].ns <= f.ns
            /\ (~tracks[tid].alive => tracks[tid].ns < f.ns)
      BY <2>1, <2>3, <3>1, <3>2, <3>3, <3>4 DEF TrackInOrder
    <3>7. ~tracks[tid].alive => tracks[tid].ns # 0 /\ tracks[tid].state = "dead"
      BY <2>1, <2>3 DEF TrackInOrder
    <3> QED  BY <1>1, <2>1, <2>3, <3>1, <3>2, <3>3, <3>5, <3>6, <3>7 DEF TrackInOrder
  <2> QED  BY <2>2, <2>3
<1> QED  BY <1>1, <1>2, <1>4 DEF TracksInOrder

\* The event that arrives next, if it is not behind the watermark, is of a thread that
\* is not known to be dead, and in the order of its track when the initial scan is over.
LEMMA NextToObserve ==
  ASSUME OrderInv, ring # << >>, ~Behind(Head(ring))
  PROVE  LET e == Head(ring)
             track == TrackOf(e)
         IN /\ track \in TrackType /\ e \in Events /\ e \in EventType /\ e \in Pending(e.tid) /\ e.tid \in Tids
            /\ e.tid \in Nat \ {0} /\ e.at \in Nat \ {0} /\ e.ns \in Nat \ {0}
            /\ track.alive /\ track.ns = e.ns /\ track.lastEvent <= track.since
            /\ track.since <= clock /\ track.since <= later(watermark, e.at)
            /\ e.at >= origin => e.at >= watermark /\ e.at >= track.seedAt /\ InOrder(track, e)
            /\ e.at < origin => nextWindow = 0 /\ ~advanced /\ watermark = origin
<1> DEFINE e == Head(ring)
           track == TrackOf(e)
<1>1. RunTypeOK /\ TypeOK /\ TimelineInv /\ Timeline /\ ~Behind(e)
  BY DEF OrderInv, TimelineInv
<1>2. /\ e \in StreamEvents /\ e \in Events /\ e \in EventType /\ e = ring[1] /\ 1 \in DOMAIN ring
  BY <1>1, HeadOfRing
<1>3. e.tid \in Tids /\ e \in Pending(e.tid)
  BY <1>1, <1>2, RingIsPending
<1>4. e.at \in Nat \ {0} /\ e.ns \in Nat \ {0}
  BY <1>1, <1>3, PendingType
<1>5. e.tid \in Nat \ {0}
  BY <1>1, <1>3, ScenarioType DEF RunTypeOK
<1>6. track \in TrackType /\ e.at \in Nat
  BY <1>1, <1>2, <1>4, TrackOfType
<1>7. e.at <= clock /\ origin <= clock /\ clock \in Nat /\ origin \in Nat /\ watermark \in Nat /\ nextWindow \in Nat
  BY <1>1, <1>3 DEF PendingInOrder, OrderInv, RunTypeOK, TypeOK
<1>8. watermark = WindowStart(nextWindow) /\ origin <= watermark
      /\ (advanced => e.at >= watermark) /\ (nextWindow > 0 => advanced)
  <2>1. watermark = WindowStart(nextWindow) /\ (nextWindow > 0 => advanced)
    BY <1>1 DEF Timeline
  <2>2. origin <= WindowStart(nextWindow)
    BY <1>7, WindowBounds
  <2>3. advanced => ~(e.at < watermark)
    BY <1>1 DEF Behind
  <2> HIDE DEF e
  <2> QED  BY <1>4, <1>7, <2>1, <2>2, <2>3
<1>9. nextWindow = 0 => watermark = origin
  <2>1. Interval \in Nat
    BY IntervalAssumption
  <2>2. nextWindow = 0 => watermark = origin + 0 * Interval
    BY <1>8 DEF WindowStart
  <2> QED  BY <1>7, <2>1, <2>2
<1>10. /\ e.at >= origin => e.at >= watermark
       /\ e.at < origin => nextWindow = 0 /\ ~advanced /\ watermark = origin
  BY <1>4, <1>7, <1>8, <1>9
<1>11. /\ track.alive /\ track.ns = e.ns /\ track.lastEvent <= track.since
       /\ track.since <= clock /\ track.since <= later(watermark, e.at) /\ track.seedAt <= later(origin, track.since)
  <2>1. CASE ~Known(e) \/ Replaces(e)
    <3>1. track = NewTrack(e)
      BY <2>1 DEF TrackOf
    <3>2. /\ track.alive /\ track.ns = e.ns /\ track.lastEvent = e.at /\ track.seedAt = e.at
          /\ track.since = later(origin, e.at)
      BY <3>1 DEF NewTrack
    <3> HIDE DEF e, track
    <3> QED  BY <1>4, <1>7, <1>8, <3>2 DEF later
  <2>2. CASE Known(e) /\ ~Replaces(e)
    <3> DEFINE old == tracks[e.tid]
    <3>1. e.tid \in DOMAIN tracks /\ ~IdentityChanged(old, e)
      BY <2>2 DEF Known, Replaces
    <3>2. track = [old EXCEPT !.ticks = IF e.ticks # 0 THEN e.ticks ELSE @,
                              !.ns = IF e.ns # 0 THEN e.ns ELSE @]
      BY <2>2 DEF TrackOf
    <3>3. old \in TrackType
      BY <1>1, <3>1, TrackFields
    <3>4. TrackInOrder(e.tid, old) /\ Bounded(old)
      BY <3>1, <1>1 DEF OrderInv, TracksInOrder, TimelineInv, TracksAreBounded
    <3>5. /\ track.ns = e.ns /\ track.since = old.since /\ track.lastEvent = old.lastEvent
          /\ track.alive = old.alive /\ track.seedAt = old.seedAt
      BY <1>4, <3>2, <3>3 DEF TrackType
    <3>6. old.ns # 0 => old.ns = e.ns
      BY <1>4, <3>1 DEF IdentityChanged
    <3>7. old.alive
      <4>1. ~old.alive => old.ns # 0 /\ old.ns < e.ns
        BY <1>3, <3>4 DEF TrackInOrder
      <4>2. old.ns \in Nat /\ old.alive \in BOOLEAN
        BY <3>3 DEF TrackType
      <4> QED  BY <1>4, <3>6, <4>1, <4>2
    <3>8. old.lastEvent <= old.since /\ old.since <= clock /\ old.since <= later(watermark, e.at)
          /\ old.seedAt <= old.since /\ origin <= old.since
      BY <1>3, <3>4 DEF TrackInOrder, Bounded
    <3>9. old.since \in Nat /\ old.seedAt \in Nat
      BY <3>3 DEF TrackType
    <3> HIDE DEF old, e, track
    <3> QED  BY <1>7, <3>5, <3>7, <3>8, <3>9 DEF later
  <2> QED  BY <2>1, <2>2
<1>12. e.at >= origin => e.at >= track.seedAt /\ InOrder(track, e)
  <2>1. track.seedAt \in Nat /\ track.since \in Nat /\ track.lastEvent \in Nat
    BY <1>6 DEF TrackType
  <2> HIDE DEF e, track
  <2> QED  BY <1>4, <1>7, <1>8, <1>10, <1>11, <2>1 DEF later, InOrder
<1> HIDE DEF e, track
<1> QED  BY <1>2, <1>3, <1>4, <1>5, <1>6, <1>10, <1>11, <1>12 DEF e, track

\* What the events of a run do to the accumulator.
LEMMA RunObserves ==
  ASSUME OrderInv, Deliver
  PROVE  LET e == Head(ring)
             track == TrackOf(e)
         IN \/ Behind(e) /\ windows' = RecordLateEvent(windows) /\ tracks' = tracks
            \/ /\ ~Behind(e) /\ e.at < origin
               /\ \/ windows' = WindowsAfterLookup(e)
                  \/ windows' = RecordInitializationRace(WindowsAfterLookup(e), origin)
               /\ SetTrack(e.tid, track) \/ SetTrack(e.tid, Applied(track, e, FALSE, origin))
            \/ /\ ~Behind(e) /\ e.at >= origin
               /\ windows' = RecordEvent(AddSegments(WindowsAfterLookup(e), [tid \in {e.tid} |-> track],
                                                     {e.tid}, e.at), track, e)
               /\ SetTrack(e.tid, Applied(track, e, TRUE, e.at))
<1> DEFINE e == Head(ring)
           track == TrackOf(e)
<1>1. Observe(e) /\ ring # << >>
  BY DEF Deliver
<1>2. CASE ObserveBehindWatermark(e)
  BY <1>2 DEF ObserveBehindWatermark
<1>3. CASE ~Behind(e)
  <2>1. /\ e.at \in Nat /\ origin \in Nat
        /\ e.at >= origin => e.at >= track.seedAt /\ InOrder(track, e) /\ track.seedAt \in Nat
    BY <1>1, <1>3, NextToObserve DEF OrderInv, TimelineInv, TypeOK, TrackType
  <2>2. CASE ObserveBeforeSeed(e)
    <3>1. e.at < track.seedAt /\ windows' = WindowsAfterLookup(e) /\ SetTrack(e.tid, track)
      BY <2>2 DEF ObserveBeforeSeed
    <3>2. e.at < origin
      <4> HIDE DEF track, e
      <4> QED  BY <2>1, <3>1
    <3> QED  BY <1>3, <3>1, <3>2
  <2>3. CASE ObserveBeforeOrigin(e)
    BY <1>3, <2>3 DEF ObserveBeforeOrigin
  <2>4. CASE ObserveOutOfOrder(e)
    BY <2>1, <2>4 DEF ObserveOutOfOrder
  <2>5. CASE ObserveInOrder(e)
    BY <1>3, <2>5 DEF ObserveInOrder
  <2>6. CASE ObserveBehindWatermark(e)
    BY <1>3, <2>6 DEF ObserveBehindWatermark
  <2> QED  BY <1>1, <2>2, <2>3, <2>4, <2>5, <2>6 DEF Observe
<1> QED  BY <1>1, <1>2, <1>3 DEF Observe, ObserveBeforeSeed, ObserveBeforeOrigin, ObserveOutOfOrder, ObserveInOrder

\* The track that an event leaves.
Heard(track, e) ==
  \/ e.at < origin /\ track = TrackOf(e)
  \/ e.at < origin /\ track = Applied(TrackOf(e), e, FALSE, origin)
  \/ e.at >= origin /\ track = Applied(TrackOf(e), e, TRUE, e.at)

LEMMA HeardTrack ==
  ASSUME OrderInv, ring # << >>, ~Behind(Head(ring)), NEW track, Heard(track, Head(ring))
  PROVE  LET e == Head(ring) IN
         /\ track \in TrackType /\ track.ns = e.ns /\ track.lastEvent <= track.since
         /\ track.ticks = TrackOf(e).ticks
         /\ track.since <= clock /\ track.since <= later(watermark, e.at)
         /\ ~track.alive => track.state = "dead" /\ e.state = "dead"
<1> DEFINE e == Head(ring)
           old == TrackOf(e)
<1> SUFFICES /\ track \in TrackType /\ track.ns = e.ns /\ track.lastEvent <= track.since
             /\ track.ticks = old.ticks
             /\ track.since <= clock /\ track.since <= later(watermark, e.at)
             /\ ~track.alive => track.state = "dead" /\ e.state = "dead"
  OBVIOUS
<1>1. /\ old \in TrackType /\ e \in EventType /\ e.at \in Nat /\ e \in Pending(e.tid) /\ e.tid \in Tids
      /\ old.alive /\ old.ns = e.ns /\ old.lastEvent <= old.since
      /\ old.since <= clock /\ old.since <= later(watermark, e.at)
  BY NextToObserve
<1>2. e.at <= clock /\ origin <= clock /\ clock \in Nat /\ origin \in Nat /\ watermark \in Nat
      /\ origin <= watermark
  <2>1. RunTypeOK /\ TypeOK /\ Timeline
    BY DEF OrderInv, TimelineInv
  <2>2. watermark = WindowStart(nextWindow) /\ nextWindow \in Nat /\ origin \in Nat
    BY <2>1 DEF Timeline, TypeOK
  <2> QED  BY <1>1, <2>1, <2>2, WindowBounds DEF PendingInOrder, OrderInv, RunTypeOK
<1> HIDE DEF e, old
<1>3. ASSUME NEW measure \in BOOLEAN, NEW n \in Nat, track = Applied(old, e, measure, n),
             n <= clock, n <= later(watermark, e.at), e.at <= n
      PROVE  /\ track \in TrackType /\ track.ns = e.ns /\ track.lastEvent <= track.since
             /\ track.ticks = old.ticks
             /\ track.since <= clock /\ track.since <= later(watermark, e.at)
             /\ ~track.alive => track.state = "dead" /\ e.state = "dead"
  <2> DEFINE applied == ApplyTransition(old, e, measure)
  <2>1. /\ track \in TrackType /\ track.since = n /\ track.lastEvent = e.at
        /\ track.ticks = old.ticks /\ track.ns = old.ns
        /\ track.state = applied.state /\ track.alive = applied.alive
    BY <1>1, <1>3, AppliedFields
  <2>2. ~applied.alive => applied.state = "dead" /\ e.state = "dead"
    BY <1>1 DEF ApplyTransition, TrackType, EventType, EventKinds
  <2> HIDE DEF applied
  <2> QED  BY <1>1, <1>3, <2>1, <2>2
<1>4. CASE e.at < origin /\ track = old
  BY <1>1, <1>4
<1>5. CASE e.at < origin /\ track = Applied(old, e, FALSE, origin)
  <2>1. origin <= later(watermark, e.at) /\ e.at <= origin
    BY <1>1, <1>2, <1>5 DEF later
  <2> QED  BY <1>2, <1>3, <1>5, <2>1
<1>6. CASE e.at >= origin /\ track = Applied(old, e, TRUE, e.at)
  <2>1. e.at <= later(watermark, e.at) /\ e.at <= e.at /\ e.at \in Nat /\ TRUE \in BOOLEAN /\ e.at <= clock
    BY <1>1, <1>2 DEF later
  <2> QED  BY <1>3, <1>6, <2>1
<1>7. \/ e.at < origin /\ track = old
      \/ e.at < origin /\ track = Applied(old, e, FALSE, origin)
      \/ e.at >= origin /\ track = Applied(old, e, TRUE, e.at)
  BY DEF Heard, e, old
<1> QED  BY <1>4, <1>5, <1>6, <1>7

LEMMA DeliverTracks ==
  ASSUME OrderInv, Deliver
  PROVE  TracksInOrder' /\ WatermarkIsPast'
<1>0. PICK e : e = Head(ring)
  OBVIOUS
<1>1. /\ UNCHANGED <<scenario, clock, thread, inflight>> /\ UNCHANGED <<origin, nextWindow, watermark>>
      /\ ring # << >> /\ ring' = Tail(ring)
  BY DEF Deliver, Observe
<1>2. WatermarkIsPast'
  <2>1. barrier' # NoFlush => barrier # NoFlush
    BY DEF Deliver, NoFlush
  <2> QED  BY <1>1, <2>1 DEF WatermarkIsPast, OrderInv, NextBoundary, WindowEnd
<1>3. RunTypeOK /\ TypeOK /\ PendingInOrder /\ clock \in Nat /\ watermark \in Nat
  BY DEF OrderInv, TimelineInv, RunTypeOK, TypeOK
<1>4. ASSUME NEW u \in DOMAIN tracks, u \in DOMAIN tracks', tracks'[u] = tracks[u]
      PROVE  TrackInOrder(u, tracks[u])'
  <2>1. u \in Tids
    BY DEF OrderInv, TracksInOrder, TrackInOrder
  <2>2. Pending(u)' \subseteq Pending(u)
    BY <1>3, <2>1, DeliverPending
  <2> QED  BY <1>1, <1>3, <1>4, <2>2, TrackStaysInOrder
<1>5. ASSUME tracks' = tracks  PROVE  TracksInOrder'
  <2>1. \A u \in DOMAIN tracks : TrackInOrder(u, tracks[u])'
    BY <1>4, <1>5
  <2> QED  BY <1>5, <2>1 DEF TracksInOrder
<1>6. ASSUME ~Behind(e), NEW track, Heard(track, e), SetTrack(e.tid, track)
      PROVE  TracksInOrder'
  <2>1. /\ track \in TrackType /\ track.ns = e.ns /\ track.lastEvent <= track.since
        /\ track.since <= clock /\ track.since <= later(watermark, e.at)
        /\ ~track.alive => track.state = "dead" /\ e.state = "dead"
    BY <1>0, <1>1, <1>6, HeardTrack
  <2>2. e \in Pending(e.tid) /\ e.tid \in Tids /\ e.ns \in Nat \ {0} /\ e.at \in Nat
    BY <1>0, <1>1, <1>6, NextToObserve
  <2>3. e.ns <= thread[e.tid].ns /\ (e.state = "dead" /\ e.ns = thread[e.tid].ns => thread[e.tid].state = "dead")
    BY <1>3, <2>2 DEF PendingInOrder, MadeBefore
  <2>4. \A f \in Pending(e.tid)' : Precedes(e, f) /\ f.at \in Nat /\ f.ns \in Nat
    <3>1. e = ring[1] /\ 1 \in DOMAIN ring
      BY <1>0, <1>1, <1>3, HeadOfRing
    <3>2. \A i \in DOMAIN ring' : i + 1 \in DOMAIN ring /\ ring'[i] = ring[i + 1] /\ i \in Nat /\ 1 < i + 1
      BY <1>1, <1>3, HeadOfRing
    <3>3. \A i \in DOMAIN ring' : ring'[i].tid = e.tid => Precedes(e, ring'[i])
      <4> QED  BY <1>3, <3>1, <3>2 DEF PendingInOrder
    <3>4. inflight[e.tid] # NoEvent => Precedes(e, inflight[e.tid])
      <4> QED  BY <1>3, <3>1 DEF PendingInOrder
    <3>5. Pending(e.tid)' \subseteq Pending(e.tid)
      BY <1>3, <2>2, DeliverPending
    <3>6. \A f \in Pending(e.tid)' : f.at \in Nat /\ f.ns \in Nat
      BY <1>3, <2>2, <3>5, PendingType
    <3> QED  BY <1>1, <3>3, <3>4, <3>6 DEF Pending
  <2>5. UNCHANGED <<Tids, Initial, FirstStart>>
    BY <1>1, SameScenario
  <2>6. DOMAIN tracks' = DOMAIN tracks \cup {e.tid} /\ tracks'[e.tid] = track
        /\ \A u \in DOMAIN tracks \ {e.tid} : tracks'[u] = tracks[u]
    BY <1>6 DEF SetTrack
  <2>7. TrackInOrder(e.tid, tracks[e.tid])'
    <3>1. track.since \in Nat
      BY <2>1 DEF TrackType
    <3>2. ASSUME NEW f \in Pending(e.tid)'
          PROVE  track.since <= later(watermark, f.at) /\ track.ns <= f.ns /\ (~track.alive => track.ns < f.ns)
      <4>1. Precedes(e, f) /\ f.at \in Nat /\ f.ns \in Nat
        BY <2>4, <3>2
      <4>2. track.since <= later(watermark, f.at)
        BY <1>3, <2>1, <2>2, <3>1, <4>1 DEF Precedes, later
      <4> QED  BY <2>1, <4>1, <4>2 DEF Precedes
    <3> QED  BY <1>1, <2>1, <2>2, <2>3, <2>5, <2>6, <3>2 DEF TrackInOrder
  <2> QED  BY <1>4, <2>6, <2>7 DEF TracksInOrder
<1>7. \/ tracks' = tracks
      \/ ~Behind(e) /\ \E track : Heard(track, e) /\ SetTrack(e.tid, track)
  BY <1>0, RunObserves DEF Heard
<1> QED  BY <1>2, <1>5, <1>6, <1>7

LEMMA FinishFlushTracks ==
  ASSUME OrderInv, FinishFlush
  PROVE  TracksInOrder' /\ WatermarkIsPast'
<1>1. /\ UNCHANGED <<scenario, clock, thread, inflight, ring>> /\ origin' = origin
      /\ barrier # NoFlush /\ barrier' = NoFlush
      /\ watermark' = later(watermark, NextBoundary)
      /\ tracks' = [tid \in DOMAIN tracks |->
                      IF tid \in Live THEN [tracks[tid] EXCEPT !.since = NextBoundary] ELSE tracks[tid]]
  BY DEF FinishFlush, Advance, NoFlush
<1>2. RunTypeOK /\ TypeOK /\ clock \in Nat /\ watermark \in Nat
  BY DEF OrderInv, TimelineInv, RunTypeOK, TypeOK
<1>3. NextBoundary \in Nat /\ NextBoundary <= clock /\ watermark <= clock
  <2>1. origin \in Nat /\ nextWindow \in Nat
    BY <1>2 DEF TypeOK
  <2>2. NextBoundary \in Nat
    BY <2>1, WindowBounds DEF NextBoundary
  <2> QED  BY <1>1, <2>2 DEF OrderInv, WatermarkIsPast
<1>4. watermark' \in Nat /\ watermark <= watermark' /\ NextBoundary <= watermark' /\ watermark' <= clock
  BY <1>1, <1>2, <1>3 DEF later
<1>5. WatermarkIsPast'
  BY <1>1, <1>4 DEF WatermarkIsPast
<1>6. \A u \in Tids : Pending(u)' = Pending(u)
  BY <1>1 DEF Pending
<1>7. ASSUME NEW u \in DOMAIN tracks  PROVE  TrackInOrder(u, tracks[u])'
  <2>1. TrackInOrder(u, tracks[u]) /\ u \in Tids
    BY DEF OrderInv, TracksInOrder, TrackInOrder
  <2>2. CASE u \notin Live
    <3>1. tracks'[u] = tracks[u] /\ u \in DOMAIN tracks'
      BY <1>1, <2>2
    <3>2. Pending(u)' \subseteq Pending(u) /\ thread'[u] = thread[u]
      BY <1>1, <1>6, <2>1
    <3> QED  BY <1>1, <1>2, <1>4, <3>1, <3>2, TrackStaysInOrder
  <2>3. CASE u \in Live
    <3>1. tracks[u].alive /\ NextBoundary > tracks[u].since
      BY <2>3 DEF Live
    <3>2. /\ tracks[u].since \in Nat /\ tracks[u].lastEvent \in Nat /\ tracks[u] \in TrackType
      BY <1>2, TrackFields
    <3>3. tracks'[u] = [tracks[u] EXCEPT !.since = NextBoundary]
      BY <1>1, <2>3
    <3>4. /\ tracks'[u].since = NextBoundary /\ tracks'[u].lastEvent = tracks[u].lastEvent
          /\ tracks'[u].ns = tracks[u].ns /\ tracks'[u].ticks = tracks[u].ticks
          /\ tracks'[u].alive
      BY <3>1, <3>2, <3>3 DEF TrackType
    <3>5. tracks[u].lastEvent <= NextBoundary
      BY <1>3, <2>1, <3>1, <3>2 DEF TrackInOrder
    <3>6. \A e \in Pending(u)' : NextBoundary <= later(watermark', e.at) /\ tracks[u].ns <= e.ns
      <4>1. \A e \in Pending(u) : e.at \in Nat /\ tracks[u].ns <= e.ns
        BY <1>2, <2>1, PendingType DEF TrackInOrder
      <4> QED  BY <1>3, <1>4, <1>6, <2>1, <4>1 DEF later
    <3>7. UNCHANGED <<Tids, Initial, FirstStart>>
      BY <1>1, SameScenario
    <3> QED  BY <1>1, <1>3, <2>1, <3>4, <3>5, <3>6, <3>7 DEF TrackInOrder
  <2> QED  BY <2>2, <2>3
<1> QED  BY <1>1, <1>5, <1>7 DEF TracksInOrder

\* The steps that neither fire a tracepoint nor reach the accumulator.
LEMMA OthersTracks ==
  ASSUME OrderInv, UNCHANGED <<vars, scenario, thread>>, clock' \in Nat, clock <= clock',
         \A u \in Tids : Pending(u)' \subseteq Pending(u),
         barrier' # NoFlush => barrier # NoFlush \/ NextBoundary <= clock
  PROVE  TracksInOrder' /\ WatermarkIsPast'
<1>1. tracks' = tracks /\ watermark' = watermark /\ nextWindow' = nextWindow /\ origin' = origin
      /\ NextBoundary' = NextBoundary
  BY DEF vars, NextBoundary, WindowEnd
<1>2. RunTypeOK /\ TypeOK /\ clock \in Nat /\ watermark \in Nat /\ NextBoundary \in Nat
  <2>1. RunTypeOK /\ TypeOK
    BY DEF OrderInv, TimelineInv
  <2> QED  BY <2>1, WindowBounds DEF RunTypeOK, TypeOK, NextBoundary
<1>3. WatermarkIsPast'
  BY <1>1, <1>2 DEF OrderInv, WatermarkIsPast
<1>4. ASSUME NEW u \in DOMAIN tracks  PROVE  TrackInOrder(u, tracks[u])'
  <2>1. u \in Tids
    BY DEF OrderInv, TracksInOrder, TrackInOrder
  <2> QED  BY <1>1, <1>2, <2>1, TrackStaysInOrder
<1> QED  BY <1>1, <1>3, <1>4 DEF TracksInOrder

LEMMA RunInitOrder == RunInit => OrderInv
<1> SUFFICES ASSUME RunInit  PROVE  OrderInv
  OBVIOUS
<1>1. RunTypeOK /\ TimelineInv /\ PendingInOrder
  BY RunStarts, RunInitType, InitTimeline, RunInitInOrder
<1>2. PICK snapshot \in SnapshotsOf(scenario) :
        /\ InitFrom(snapshot) /\ snapshot.finished = Origin
        /\ snapshot.samples \in [Initial -> [ticks : {ProcTicks(FirstStart, scenario.offset, ticksPerSecond)},
                                             state : {"running", "sleeping"}, at : 1 .. Origin]]
  BY RunStarts
<1>3. clock = Origin /\ origin = Origin /\ barrier = NoFlush /\ watermark = Origin
      /\ tracks = [tid \in Initial |-> SeedTrack(snapshot.samples[tid], Origin)]
  BY <1>2, RunStarts DEF InitFrom
<1>4. Origin \in Nat \ {0} /\ Initial \subseteq Tids
  BY <1>1, ScenarioType DEF RunTypeOK
<1>5. ASSUME NEW tid \in Initial
      PROVE  TrackInOrder(tid, tracks[tid])
  <2> DEFINE sample == snapshot.samples[tid]
  <2>1. sample.ticks = ProcTicks(FirstStart, scenario.offset, ticksPerSecond) /\ sample.at \in 1 .. Origin
    BY <1>2
  <2>2. tracks[tid] = SeedTrack(sample, Origin)
    BY <1>3
  <2> HIDE DEF sample
  <2>3. /\ tracks[tid].since = Origin /\ tracks[tid].lastEvent = sample.at /\ tracks[tid].ns = 0
        /\ tracks[tid].ticks = sample.ticks /\ tracks[tid].alive
    BY <2>1, <2>2, <1>4 DEF SeedTrack, NoTime
  <2>4. tid \in Tids /\ thread[tid].ns \in Nat
    BY <1>1, <1>4, ThreadType
  <2>5. \A e \in Pending(tid) : Origin <= later(watermark, e.at) /\ 0 <= e.ns
    <3>1. \A e \in Pending(tid) : e.at \in Nat /\ e.ns \in Nat
      BY <1>1, <2>4, PendingType
    <3> QED  BY <1>3, <1>4, <3>1 DEF later
  <2> QED  BY <1>3, <1>4, <2>1, <2>3, <2>4, <2>5 DEF TrackInOrder
<1> QED  BY <1>1, <1>3, <1>4, <1>5 DEF OrderInv, WatermarkIsPast, TracksInOrder

LEMMA OrderStep == OrderInv /\ [RunNext]_<<vars, runVars>> => OrderInv'
<1> SUFFICES ASSUME OrderInv, [RunNext]_<<vars, runVars>>
             PROVE  OrderInv'
  OBVIOUS
<1>1. RunTypeOK /\ TimelineInv /\ PendingInOrder /\ clock \in Nat
  BY DEF OrderInv, RunTypeOK
<1>2. RunTypeOK' /\ TimelineInv'
  BY <1>1, RunStepImplements, TimelineStep
<1> SUFFICES PendingInOrder' /\ TracksInOrder' /\ WatermarkIsPast'
  BY <1>2 DEF OrderInv
<1>3. ASSUME NEW tid \in Tids, NEW e \in StreamEvents, NEW t, Fired(tid, e, t)
      PROVE  PendingInOrder' /\ TracksInOrder' /\ WatermarkIsPast'
  BY <1>1, <1>3, FiredInOrder, FiredTracks
<1>4. ASSUME NEW tid \in Tids, Submit(tid)
      PROVE  PendingInOrder' /\ TracksInOrder' /\ WatermarkIsPast'
  <2>1. UNCHANGED <<vars, scenario, thread, clock, barrier>>
    BY <1>4 DEF Submit
  <2>2. \A u \in Tids : Pending(u)' \subseteq Pending(u)
    BY <1>1, <1>4, SubmitPending
  <2>3. TracksInOrder' /\ WatermarkIsPast'
    BY <1>1, <2>1, <2>2, OthersTracks
  <2> QED  BY <1>1, <1>4, <2>3, SubmitInOrder
<1>5. CASE Deliver
  BY <1>1, <1>5, DeliverInOrder, DeliverTracks
<1>6. CASE FinishFlush
  <2>1. UNCHANGED <<ring, inflight, thread, scenario, clock>>
    BY <1>6 DEF FinishFlush
  <2>2. PendingInOrder'
    BY <1>1, <2>1, OthersInOrder
  <2> QED  BY <1>6, <2>2, FinishFlushTracks
<1>7. ASSUME UNCHANGED <<vars, scenario, thread, ring, inflight>>, clock' \in Nat, clock <= clock',
             barrier' # NoFlush => barrier # NoFlush \/ NextBoundary <= clock
      PROVE  PendingInOrder' /\ TracksInOrder' /\ WatermarkIsPast'
  <2>1. PendingInOrder' /\ \A u \in Tids : Pending(u)' = Pending(u)
    BY <1>1, <1>7, OthersInOrder
  <2>2. \A u \in Tids : Pending(u)' \subseteq Pending(u)
    BY <2>1
  <2> QED  BY <1>7, <2>1, <2>2, OthersTracks
<1>8. CASE Tick
  BY <1>1, <1>7, <1>8 DEF Tick
<1>9. CASE StartFlush
  <2>1. NextBoundary <= clock
    <3>1. origin \in Nat /\ nextWindow \in Nat /\ NextBoundary \in Nat
      BY <1>1, WindowBounds DEF TimelineInv, TypeOK, NextBoundary
    <3> QED  BY <1>1, <1>9, <3>1 DEF StartFlush
  <2>2. UNCHANGED <<vars, scenario, thread, ring, inflight>> /\ clock' = clock
    BY <1>9 DEF StartFlush
  <2> QED  BY <1>1, <1>7, <2>1, <2>2
<1>10. CASE UNCHANGED <<vars, runVars>>
  <2>1. UNCHANGED <<vars, scenario, thread, ring, inflight>> /\ clock' = clock /\ barrier' = barrier
    BY <1>10 DEF runVars
  <2> QED  BY <1>1, <1>7, <2>1
<1> QED  BY <1>1, <1>3, <1>4, <1>5, <1>6, <1>8, <1>9, <1>10, RunSteps

\* The events of a TID reach the accumulator in order, and a track is never ahead of
\* them: after the initial scan no event is late because of the order of its own
\* thread's events (Observe).
THEOREM OrderInvariant == RunSpec => []OrderInv
BY RunInitOrder, OrderStep, PTL DEF RunSpec

----------------------------------------------------------------------------
(* What the accumulator's operators do to windows and rows *)

IdsOf(ws, i) == DOMAIN WindowOf(ws, i).stats

LEMMA WithWindowAt ==
  ASSUME NEW ws, NEW j, NEW w, NEW i
  PROVE  WindowOf(WithWindow(ws, j, w), i) = IF i = j THEN w ELSE WindowOf(ws, i)
BY DEF WithWindow, WindowOf

\* A late event is counted in the next window, and changes nothing else.
LEMMA LateEffect ==
  ASSUME nextWindow \in Nat, NEW ws, IsWindows(ws), NEW i
  PROVE  LET new == WindowOf(RecordLateEvent(ws), i)
             old == WindowOf(ws, i)
         IN /\ new.stats = old.stats /\ new.events = old.events
            /\ new.late = old.late + (IF i = nextWindow THEN 1 ELSE 0)
<1> DEFINE w == WindowOf(ws, nextWindow)
           late == [w EXCEPT !.late = @ + 1]
<1>1. IsWindow(w) /\ IsWindow(WindowOf(ws, i))
  BY WindowOfType
<1>2. late.stats = w.stats /\ late.events = w.events /\ late.late = w.late + 1
  BY <1>1 DEF IsWindow
<1>3. RecordLateEvent(ws) = WithWindow(ws, nextWindow, late)
  BY DEF RecordLateEvent
<1>4. WindowOf(ws, i).late \in Nat
  BY <1>1 DEF IsWindow
<1> HIDE DEF late
<1> QED  BY <1>2, <1>3, <1>4, WithWindowAt

\* A race that is noted changes no row and neither count.
LEMMA RaceEffect ==
  ASSUME NEW ws, IsWindows(ws), NEW at, NEW i
  PROVE  LET new == WindowOf(RecordInitializationRace(ws, at), i)
             old == WindowOf(ws, i)
         IN new.stats = old.stats /\ new.events = old.events /\ new.late = old.late
<1> DEFINE index == IF at >= origin THEN later(nextWindow, WindowIndex(at)) ELSE nextWindow
           w == WindowOf(ws, index)
           raced == [w EXCEPT !.races = @ + 1]
<1>1. IsWindow(w)
  BY WindowOfType
<1>2. raced.stats = w.stats /\ raced.events = w.events /\ raced.late = w.late
  BY <1>1 DEF IsWindow
<1>3. RecordInitializationRace(ws, at) = WithWindow(ws, index, raced)
  BY DEF RecordInitializationRace
<1>4. WindowOf(WithWindow(ws, index, raced), i) = IF i = index THEN raced ELSE WindowOf(ws, i)
  BY WithWindowAt
<1> HIDE DEF raced, index
<1> QED  BY <1>2, <1>3, <1>4

LEMMA LookupEffect ==
  ASSUME TypeOK, NEW e \in EventType, NEW i
  PROVE  LET new == WindowOf(WindowsAfterLookup(e), i)
             old == WindowOf(windows, i)
         IN new.stats = old.stats /\ new.events = old.events /\ new.late = old.late
BY RaceEffect DEF TypeOK, WindowsAfterLookup

\* An event is counted in its window and in the row of its track there.
LEMMA RecordEffect ==
  ASSUME NEW ws, IsWindows(ws), NEW track \in TrackType, NEW e \in EventType, NEW i
  PROVE  LET new == WindowOf(RecordEvent(ws, track, e), i)
             old == WindowOf(ws, i)
             me == Identity(e.tid, track)
             here == i = WindowIndex(e.at)
         IN /\ new.late = old.late /\ new.events = old.events + (IF here THEN 1 ELSE 0)
            /\ DOMAIN new.stats = DOMAIN old.stats \cup (IF here THEN {me} ELSE {})
            /\ \A id : RowOf(new, id) = IF here /\ id = me THEN CountEvent(RowOf(old, id), track, e)
                                        ELSE RowOf(old, id)
<1> DEFINE j == WindowIndex(e.at)
           w == WindowOf(ws, j)
           me == Identity(e.tid, track)
           Stats == [id \in DOMAIN w.stats \cup {me} |->
                       IF id = me THEN CountEvent(RowOf(w, id), track, e) ELSE w.stats[id]]
           counted == [stats |-> Stats, events |-> w.events + 1,
                       incomplete |-> w.incomplete + (IF Breaks(track, e) THEN 1 ELSE 0),
                       late |-> w.late, races |-> w.races]
           new == WindowOf(RecordEvent(ws, track, e), i)
<1>1. RecordEvent(ws, track, e) = WithWindow(ws, j, counted)
  BY DEF RecordEvent
<1>2. new = IF i = j THEN counted ELSE WindowOf(ws, i)
  BY <1>1, WithWindowAt
<1>3. IsWindow(WindowOf(ws, i)) /\ WindowOf(ws, i).events \in Nat
  BY WindowOfType DEF IsWindow
<1>4. counted.stats = Stats /\ counted.events = w.events + 1 /\ counted.late = w.late
  OBVIOUS
<1>5. \A id : RowOf(counted, id) = IF id = me THEN CountEvent(RowOf(w, id), track, e) ELSE RowOf(w, id)
  <2>1. DOMAIN Stats = DOMAIN w.stats \cup {me}
        /\ \A id \in DOMAIN Stats :
             Stats[id] = IF id = me THEN CountEvent(RowOf(w, id), track, e) ELSE w.stats[id]
    OBVIOUS
  <2> HIDE DEF Stats, counted, w, me
  <2> QED  BY <1>4, <2>1 DEF RowOf
<1>6. DOMAIN counted.stats = DOMAIN w.stats \cup {me}
  BY <1>4
<1>7. i = j => w = WindowOf(ws, i)
  OBVIOUS
<1> SUFFICES /\ new.late = WindowOf(ws, i).late
             /\ new.events = WindowOf(ws, i).events + (IF i = j THEN 1 ELSE 0)
             /\ DOMAIN new.stats = DOMAIN WindowOf(ws, i).stats \cup (IF i = j THEN {me} ELSE {})
             /\ \A id : RowOf(new, id) = IF i = j /\ id = me THEN CountEvent(RowOf(WindowOf(ws, i), id), track, e)
                                         ELSE RowOf(WindowOf(ws, i), id)
  OBVIOUS
<1> HIDE DEF counted, new, w, me, j
<1> QED  BY <1>2, <1>3, <1>4, <1>5, <1>6, <1>7

\* Segments are credited to the rows of their tracks, in the windows they touch.
SegmentIds(ts, tids, to, i) ==
  {Identity(tid, ts[tid]) : tid \in {t \in tids : i \in TouchedWindows(ts[t].since, to)}}

LEMMA SegmentEffect ==
  ASSUME NEW ws, IsWindows(ws), NEW ts, NEW tids, NEW to, NEW i
  PROVE  LET new == WindowOf(AddSegments(ws, ts, tids, to), i)
             old == WindowOf(ws, i)
             ids == SegmentIds(ts, tids, to, i)
         IN /\ new.late = old.late /\ new.events = old.events
            /\ DOMAIN new.stats = DOMAIN old.stats \cup ids
            /\ \A id : RowOf(new, id) =
                 IF id \in ids THEN CreditRow(RowOf(old, id), ts[id.tid].state, Overlap(i, ts[id.tid].since, to))
                 ELSE RowOf(old, id)
<1> DEFINE Touches(tid, j) == j \in TouchedWindows(ts[tid].since, to)
           Ids(j) == {Identity(tid, ts[tid]) : tid \in {t \in tids : Touches(t, j)}}
           w(j) == WindowOf(ws, j)
           Stats(j) == [id \in DOMAIN w(j).stats \cup Ids(j) |->
                          IF id \in Ids(j)
                          THEN CreditRow(RowOf(w(j), id), ts[id.tid].state,
                                         Overlap(j, ts[id.tid].since, to))
                          ELSE w(j).stats[id]]
           Credited(j) == [w(j) EXCEPT !.stats = Stats(j)]
           touched == UNION {TouchedWindows(ts[tid].since, to) : tid \in tids}
           ids == SegmentIds(ts, tids, to, i)
           old == w(i)
           stats == Stats(i)
           credited == Credited(i)
           new == WindowOf(AddSegments(ws, ts, tids, to), i)
<1>1. AddSegments(ws, ts, tids, to)
        = [j \in DOMAIN ws \cup touched |-> IF j \in touched THEN Credited(j) ELSE ws[j]]
  BY DEF AddSegments
<1>2. IsWindow(old)
  BY WindowOfType
<1>3. Ids(i) = ids
  BY DEF SegmentIds
<1>4. credited.stats = stats /\ credited.late = old.late /\ credited.events = old.events
  BY <1>2 DEF IsWindow
<1>5. DOMAIN stats = DOMAIN old.stats \cup ids
      /\ \A id \in DOMAIN stats :
           stats[id] = IF id \in ids THEN CreditRow(RowOf(old, id), ts[id.tid].state,
                                                    Overlap(i, ts[id.tid].since, to))
                       ELSE old.stats[id]
  BY <1>3
<1>6. new = IF i \in touched THEN credited ELSE old
  <2> HIDE DEF touched, Credited
  <2> QED  BY <1>1 DEF WindowOf
<1>7. i \notin touched => ids = {}
  BY DEF SegmentIds
<1> SUFFICES /\ new.late = old.late /\ new.events = old.events
             /\ DOMAIN new.stats = DOMAIN old.stats \cup ids
             /\ \A id : RowOf(new, id) =
                  IF id \in ids THEN CreditRow(RowOf(old, id), ts[id.tid].state, Overlap(i, ts[id.tid].since, to))
                  ELSE RowOf(old, id)
  OBVIOUS
<1> HIDE DEF touched, credited, stats, new, old, ids
<1>8. \A id : RowOf(credited, id) =
        IF id \in ids THEN CreditRow(RowOf(old, id), ts[id.tid].state, Overlap(i, ts[id.tid].since, to))
        ELSE RowOf(old, id)
  BY <1>4, <1>5 DEF RowOf
<1> QED  BY <1>4, <1>5, <1>6, <1>7, <1>8

\* The row of an event's thread after the segment that it ends, and after the event.
Closed(row, track, i, at) ==
  IF i \in TouchedWindows(track.since, at) THEN CreditRow(row, track.state, Overlap(i, track.since, at))
  ELSE row

Counted(row, track, e, i) ==
  IF i = WindowIndex(e.at) THEN CountEvent(Closed(row, track, i, e.at), track, e)
  ELSE Closed(row, track, i, e.at)

InOrderWindows(e) ==
  RecordEvent(AddSegments(WindowsAfterLookup(e), [tid \in {e.tid} |-> TrackOf(e)], {e.tid}, e.at),
              TrackOf(e), e)

LEMMA InOrderEffect ==
  ASSUME TypeOK, NEW e \in EventType, NEW i, windows' = InOrderWindows(e)
  PROVE  LET track == TrackOf(e)
             new == WindowOf(windows', i)
             old == WindowOf(windows, i)
             me == Identity(e.tid, track)
             here == i = WindowIndex(e.at)
         IN /\ new.late = old.late /\ new.events = old.events + (IF here THEN 1 ELSE 0)
            /\ DOMAIN new.stats \subseteq DOMAIN old.stats \cup {me}
            /\ \A id : RowOf(new, id) = IF id = me THEN Counted(RowOf(old, id), track, e, i)
                                        ELSE RowOf(old, id)
<1> DEFINE track == TrackOf(e)
           me == Identity(e.tid, track)
           ts == [tid \in {e.tid} |-> track]
           looked == WindowsAfterLookup(e)
           closed == AddSegments(looked, ts, {e.tid}, e.at)
           new == WindowOf(windows', i)
           mid == WindowOf(closed, i)
           early == WindowOf(looked, i)
           old == WindowOf(windows, i)
<1>1. track \in TrackType /\ IsWindows(looked) /\ IsWindows(closed)
  BY TrackOfType, WindowsAfterLookupType, SegmentType
<1>2. early.stats = old.stats /\ early.events = old.events /\ early.late = old.late
  BY LookupEffect
<1>3. /\ mid.late = early.late /\ mid.events = early.events
      /\ DOMAIN mid.stats = DOMAIN early.stats \cup SegmentIds(ts, {e.tid}, e.at, i)
      /\ \A id : RowOf(mid, id) =
           IF id \in SegmentIds(ts, {e.tid}, e.at, i)
           THEN CreditRow(RowOf(early, id), ts[id.tid].state, Overlap(i, ts[id.tid].since, e.at))
           ELSE RowOf(early, id)
  BY <1>1, SegmentEffect
<1>4. /\ new.late = mid.late /\ new.events = mid.events + (IF i = WindowIndex(e.at) THEN 1 ELSE 0)
      /\ DOMAIN new.stats = DOMAIN mid.stats \cup (IF i = WindowIndex(e.at) THEN {me} ELSE {})
      /\ \A id : RowOf(new, id) = IF i = WindowIndex(e.at) /\ id = me THEN CountEvent(RowOf(mid, id), track, e)
                                  ELSE RowOf(mid, id)
  <2>1. windows' = RecordEvent(closed, track, e)
    BY DEF InOrderWindows
  <2> HIDE DEF closed, track
  <2>2. LET w == WindowOf(RecordEvent(closed, track, e), i)
            self == Identity(e.tid, track)
            here == i = WindowIndex(e.at)
        IN /\ w.late = mid.late /\ w.events = mid.events + (IF here THEN 1 ELSE 0)
           /\ DOMAIN w.stats = DOMAIN mid.stats \cup (IF here THEN {self} ELSE {})
           /\ \A id : RowOf(w, id) = IF here /\ id = self THEN CountEvent(RowOf(mid, id), track, e)
                                     ELSE RowOf(mid, id)
    BY <1>1, RecordEffect
  <2> QED  BY <2>1, <2>2
<1>5. SegmentIds(ts, {e.tid}, e.at, i) = (IF i \in TouchedWindows(track.since, e.at) THEN {me} ELSE {})
  BY DEF SegmentIds
<1>6. ts[me.tid] = track
  BY DEF Identity
<1>7. \A id : RowOf(early, id) = RowOf(old, id)
  BY <1>2 DEF RowOf
<1> SUFFICES /\ new.late = old.late /\ new.events = old.events + (IF i = WindowIndex(e.at) THEN 1 ELSE 0)
             /\ DOMAIN new.stats \subseteq DOMAIN old.stats \cup {me}
             /\ \A id : RowOf(new, id) = IF id = me THEN Counted(RowOf(old, id), track, e, i)
                                         ELSE RowOf(old, id)
  OBVIOUS
<1> HIDE DEF track, ts, closed, looked, new, mid, early, old, me
<1>8. \A id : RowOf(mid, id) = IF id = me THEN Closed(RowOf(old, id), track, i, e.at) ELSE RowOf(old, id)
  BY <1>3, <1>5, <1>6, <1>7 DEF Closed
<1>9. \A id : RowOf(new, id) = IF id = me THEN Counted(RowOf(old, id), track, e, i) ELSE RowOf(old, id)
  BY <1>4, <1>8 DEF Counted
<1>10. DOMAIN new.stats \subseteq DOMAIN old.stats \cup {me}
  BY <1>2, <1>3, <1>4, <1>5
<1> QED  BY <1>2, <1>3, <1>4, <1>9, <1>10

\* A segment that ends at the next boundary is in no later window.
LEMMA AdvanceTouches ==
  ASSUME TypeOK, NEW from \in Nat, NEW i \in TouchedWindows(from, NextBoundary)
  PROVE  i = nextWindow
<1>1. origin \in Nat /\ nextWindow \in Nat
  BY DEF TypeOK
<1>2. NextBoundary \in Nat
  BY <1>1, WindowBounds DEF NextBoundary
<1>3. i \in Nat /\ i >= nextWindow
  BY <1>1, <1>2, TouchedWindowsType
<1>4. CASE i > nextWindow
  <2>1. NextBoundary <= WindowStart(i)
    BY <1>1, <1>3, <1>4, WindowOrder DEF NextBoundary
  <2>2. Overlap(i, from, NextBoundary) = 0
    BY <1>1, <1>2, <1>3, <2>1, OverlapEmpty
  <2> QED  BY <2>2 DEF TouchedWindows
<1> QED  BY <1>1, <1>3, <1>4

LEMMA AdvanceEffect ==
  ASSUME TypeOK, NEW count \in Nat, Advance(count)
  PROVE  LET ids == SegmentIds(tracks, Live, NextBoundary, nextWindow)
             old == WindowOf(windows, nextWindow)
             report == reports'[nextWindow]
         IN /\ \A i : i # nextWindow =>
                 LET new == WindowOf(windows', i)
                     before == WindowOf(windows, i)
                 IN /\ new.late = before.late /\ new.events = before.events
                    /\ DOMAIN new.stats = DOMAIN before.stats
                    /\ \A id : RowOf(new, id) = RowOf(before, id)
            /\ WindowOf(windows', nextWindow) = NoWindow
            /\ DOMAIN reports' = DOMAIN reports \cup {nextWindow} /\ nextWindow \notin DOMAIN reports
            /\ \A i \in DOMAIN reports : reports'[i] = reports[i]
            /\ report.late = old.late /\ report.events = old.events
            /\ DOMAIN report.threads = DOMAIN old.stats \cup ids
            /\ \A id \in DOMAIN report.threads : report.threads[id] =
                 IF id \in ids
                 THEN CreditRow(RowOf(old, id), tracks[id.tid].state, Overlap(nextWindow, tracks[id.tid].since, NextBoundary))
                 ELSE RowOf(old, id)
<1> DEFINE credited == AddSegments(windows, tracks, Live, NextBoundary)
           Ids(i) == SegmentIds(tracks, Live, NextBoundary, i)
           window == WindowOf(credited, nextWindow)
           report == reports'[nextWindow]
<1>1. IsWindows(windows) /\ DOMAIN reports = 0 .. nextWindow - 1 /\ nextWindow \in Nat
  BY DEF TypeOK
<1>2. \A i : LET new == WindowOf(credited, i)
                 old == WindowOf(windows, i)
             IN /\ new.late = old.late /\ new.events = old.events
                /\ DOMAIN new.stats = DOMAIN old.stats \cup Ids(i)
                /\ \A id : RowOf(new, id) =
                     IF id \in Ids(i) THEN CreditRow(RowOf(old, id), tracks[id.tid].state,
                                                     Overlap(i, tracks[id.tid].since, NextBoundary))
                     ELSE RowOf(old, id)
  BY <1>1, SegmentEffect
<1>3. \A i : i # nextWindow => Ids(i) = {}
  <2>1. \A tid \in DOMAIN tracks : tracks[tid].since \in Nat
    BY DEF TypeOK, TrackType
  <2>2. Live \subseteq DOMAIN tracks
    BY DEF Live
  <2> QED  BY <2>1, <2>2, AdvanceTouches DEF SegmentIds
<1>4. /\ reports' = WithWindow(reports, nextWindow, ReportOf(window, count))
      /\ windows' = [i \in DOMAIN credited \ {nextWindow} |-> credited[i]]
  BY DEF Advance, ClosedWindow
<1>5. /\ DOMAIN reports' = DOMAIN reports \cup {nextWindow} /\ nextWindow \notin DOMAIN reports
      /\ \A i \in DOMAIN reports : reports'[i] = reports[i]
      /\ report = ReportOf(window, count)
  BY <1>1, <1>4 DEF WithWindow
<1>6. report.late = window.late /\ report.events = window.events /\ report.threads = window.stats
  BY <1>5 DEF ReportOf
<1>7. \A i : WindowOf(windows', i) = IF i = nextWindow THEN NoWindow ELSE WindowOf(credited, i)
  <2> HIDE DEF credited
  <2> QED  BY <1>4 DEF WindowOf
<1>8. \A id \in DOMAIN window.stats : RowOf(window, id) = window.stats[id]
  BY DEF RowOf
<1> HIDE DEF credited, Ids, window, report
<1>9. \A i : i # nextWindow =>
                 LET new == WindowOf(windows', i)
                     before == WindowOf(windows, i)
                 IN /\ new.late = before.late /\ new.events = before.events
                    /\ DOMAIN new.stats = DOMAIN before.stats
                    /\ \A id : RowOf(new, id) = RowOf(before, id)
  <2> SUFFICES ASSUME NEW i, i # nextWindow
               PROVE  LET new == WindowOf(windows', i)
                          before == WindowOf(windows, i)
                      IN /\ new.late = before.late /\ new.events = before.events
                         /\ DOMAIN new.stats = DOMAIN before.stats
                         /\ \A id : RowOf(new, id) = RowOf(before, id)
    OBVIOUS
  <2>1. WindowOf(windows', i) = WindowOf(credited, i) /\ Ids(i) = {}
    BY <1>3, <1>7
  <2> QED  BY <1>2, <2>1
<1>10. /\ window.late = WindowOf(windows, nextWindow).late /\ window.events = WindowOf(windows, nextWindow).events
       /\ DOMAIN window.stats = DOMAIN WindowOf(windows, nextWindow).stats \cup Ids(nextWindow)
       /\ \A id : RowOf(window, id) =
            IF id \in Ids(nextWindow)
            THEN CreditRow(RowOf(WindowOf(windows, nextWindow), id), tracks[id.tid].state,
                           Overlap(nextWindow, tracks[id.tid].since, NextBoundary))
            ELSE RowOf(WindowOf(windows, nextWindow), id)
  BY <1>2 DEF window
<1> QED  BY <1>5, <1>6, <1>7, <1>8, <1>9, <1>10 DEF report, Ids

\* What a step of the collector does to the windows.
Late(i) == WindowOf(windows, i).late
Count(i) == WindowOf(windows, i).events
OpenRow(i, id) == RowOf(WindowOf(windows, i), id)

Unheard(e) == Behind(e) \/ e.at < origin

LEMMA DeliverEffect ==
  ASSUME OrderInv, Deliver, NEW e, e = Head(ring), NEW i
  PROVE  LET track == TrackOf(e)
             me == Identity(e.tid, track)
         IN /\ Unheard(e) => /\ Count(i)' = Count(i)
                             /\ IdsOf(windows', i) = IdsOf(windows, i)
                             /\ \A id : OpenRow(i, id)' = OpenRow(i, id)
            /\ ~Unheard(e) => /\ Count(i)' = Count(i) + (IF i = WindowIndex(e.at) THEN 1 ELSE 0)
                              /\ IdsOf(windows', i) \subseteq IdsOf(windows, i) \cup {me}
                              /\ \A id : OpenRow(i, id)' = IF id = me THEN Counted(OpenRow(i, id), track, e, i)
                                                           ELSE OpenRow(i, id)
            /\ Late(i)' = Late(i) + (IF Behind(e) /\ i = nextWindow THEN 1 ELSE 0)
<1>1. TypeOK /\ RunTypeOK /\ e \in EventType /\ nextWindow \in Nat /\ IsWindows(windows)
      /\ ring # << >>
  BY HeadOfRing DEF OrderInv, TimelineInv, TypeOK, Deliver
<1>2. Late(i) \in Nat /\ Count(i) \in Nat
  BY <1>1, WindowOfType DEF Late, Count, IsWindow
<1>3. CASE Behind(e) /\ windows' = RecordLateEvent(windows)
  <2>1. /\ WindowOf(windows', i).stats = WindowOf(windows, i).stats /\ Count(i)' = Count(i)
        /\ Late(i)' = Late(i) + (IF i = nextWindow THEN 1 ELSE 0)
    BY <1>1, <1>3, LateEffect DEF Late, Count
  <2> QED  BY <1>3, <2>1 DEF IdsOf, OpenRow, RowOf, Unheard
<1>4. CASE ~Behind(e) /\ e.at < origin
           /\ (windows' = WindowsAfterLookup(e) \/ windows' = RecordInitializationRace(WindowsAfterLookup(e), origin))
  <2>1. IsWindows(WindowsAfterLookup(e))
    BY <1>1, WindowsAfterLookupType
  <2>2. /\ WindowOf(windows', i).stats = WindowOf(windows, i).stats /\ Count(i)' = Count(i)
        /\ Late(i)' = Late(i)
    BY <1>1, <1>4, <2>1, LookupEffect, RaceEffect DEF Late, Count
  <2> QED  BY <1>2, <1>4, <2>2 DEF IdsOf, OpenRow, RowOf, Unheard
<1>5. CASE ~Behind(e) /\ e.at >= origin
           /\ windows' = RecordEvent(AddSegments(WindowsAfterLookup(e), [tid \in {e.tid} |-> TrackOf(e)],
                                                 {e.tid}, e.at), TrackOf(e), e)
  <2>1. ~Unheard(e)
    <3>1. e.at \in Nat /\ origin \in Nat
      BY <1>1 DEF EventType, TypeOK
    <3> QED  BY <1>5, <3>1 DEF Unheard
  <2> DEFINE track == TrackOf(e)
             me == Identity(e.tid, track)
  <2>2. /\ Late(i)' = Late(i) /\ Count(i)' = Count(i) + (IF i = WindowIndex(e.at) THEN 1 ELSE 0)
        /\ IdsOf(windows', i) \subseteq IdsOf(windows, i) \cup {me}
        /\ \A id : OpenRow(i, id)' = IF id = me THEN Counted(OpenRow(i, id), track, e, i)
                                     ELSE OpenRow(i, id)
    <3> DEFINE new == WindowOf(windows', i)
               old == WindowOf(windows, i)
    <3>1. /\ new.late = old.late /\ new.events = old.events + (IF i = WindowIndex(e.at) THEN 1 ELSE 0)
          /\ DOMAIN new.stats \subseteq DOMAIN old.stats \cup {me}
          /\ \A id : RowOf(new, id) = IF id = me THEN Counted(RowOf(old, id), track, e, i)
                                      ELSE RowOf(old, id)
      <4>1. TypeOK /\ e \in EventType /\ windows' = InOrderWindows(e)
        BY <1>1, <1>5 DEF InOrderWindows
      <4> QED  BY <4>1, InOrderEffect
    <3> HIDE DEF track, me
    <3> QED  BY <3>1 DEF Late, Count, IdsOf, OpenRow
  <2> HIDE DEF track, me
  <2>3. (~Unheard(e) => /\ Count(i)' = Count(i) + (IF i = WindowIndex(e.at) THEN 1 ELSE 0)
                              /\ IdsOf(windows', i) \subseteq IdsOf(windows, i) \cup {me}
                              /\ \A id : OpenRow(i, id)' = IF id = me THEN Counted(OpenRow(i, id), track, e, i)
                                                           ELSE OpenRow(i, id))
        /\ Late(i)' = Late(i) + (IF Behind(e) /\ i = nextWindow THEN 1 ELSE 0)
    BY <1>2, <1>5, <2>2
  <2> QED  BY <2>1, <2>3 DEF track, me
<1> QED  BY <1>3, <1>4, <1>5, RunObserves

LEMMA DeliverTrack ==
  ASSUME OrderInv, Deliver, NEW e, e = Head(ring)
  PROVE  /\ Behind(e) => tracks' = tracks
         /\ ~Behind(e) => /\ DOMAIN tracks' = DOMAIN tracks \cup {e.tid}
                          /\ Heard(tracks'[e.tid], e)
                          /\ \A u \in DOMAIN tracks \ {e.tid} : tracks'[u] = tracks[u]
         /\ UNCHANGED <<origin, nextWindow, watermark, advanced, reports, scenario, clock, thread, inflight, lost, emitted>>
         /\ ring # << >> /\ ring' = Tail(ring)
<1>1. UNCHANGED <<origin, nextWindow, watermark, advanced, reports, scenario, clock, thread, inflight, lost, emitted>>
      /\ ring # << >> /\ ring' = Tail(ring)
  BY DEF Deliver, Observe
<1>2. ~Behind(e) => \E track : Heard(track, e) /\ SetTrack(e.tid, track)
  BY RunObserves DEF Heard
<1>3. Behind(e) => tracks' = tracks
  BY RunObserves
<1> QED  BY <1>1, <1>2, <1>3 DEF SetTrack

----------------------------------------------------------------------------
(* The reports are right about start times *)

LEMMA SubmitKeeps ==
  ASSUME RunTypeOK, NEW tid \in Tids, Submit(tid), lost' = lost, NEW u \in Tids
  PROVE  Pending(u) \subseteq Pending(u)'
<1>1. ring \in Seq(StreamEvents) /\ lost \in Nat /\ DOMAIN inflight = Tids
      /\ inflight' = [inflight EXCEPT ![tid] = NoEvent]
  BY DEF Submit, RunTypeOK
<1>2. ring' = Append(ring, inflight[tid])
  BY <1>1 DEF Submit
<1>3. /\ \A i \in DOMAIN ring : i \in DOMAIN ring' /\ ring'[i] = ring[i]
      /\ Len(ring) + 1 \in DOMAIN ring' /\ ring'[Len(ring) + 1] = inflight[tid]
  BY <1>1, <1>2
<1>4. inflight[tid] # NoEvent /\ inflight[tid].tid = tid
  BY DEF Submit, RunTypeOK
<1>5. ASSUME NEW e \in Pending(u)  PROVE  e \in Pending(u)'
  <2>1. CASE \E i \in DOMAIN ring : ring[i].tid = u /\ e = ring[i]
    BY <1>3, <2>1 DEF Pending
  <2>2. CASE e = inflight[u] /\ e # NoEvent
    BY <1>1, <1>3, <1>4, <2>2 DEF Pending
  <2> QED  BY <1>5, <2>1, <2>2 DEF Pending
<1> QED  BY <1>5

LEMMA DeliverKeeps ==
  ASSUME RunTypeOK, Deliver, NEW e, e = Head(ring), NEW u \in Tids
  PROVE  Pending(u) \subseteq Pending(u)' \cup {e} /\ (u # e.tid => Pending(u) \subseteq Pending(u)')
<1>1. ring # << >> /\ ring' = Tail(ring) /\ inflight' = inflight /\ ring \in Seq(StreamEvents)
  BY DEF Deliver, RunTypeOK
<1>2. \A i \in DOMAIN ring : (i = 1 /\ ring[i] = e) \/ (i - 1 \in DOMAIN ring' /\ ring'[i - 1] = ring[i])
  BY <1>1
<1> QED  BY <1>1, <1>2 DEF Pending

\* The stream is known to be incomplete.
Missed ==
  lost > 0 \/ Late(nextWindow) > 0 \/ \E i \in DOMAIN reports : reports[i].late > 0

Right(ns, ticks) ==
  ticks = 0 \/ ticks = ProcTicks(IF ns = 0 THEN FirstStart ELSE ns, scenario.offset, ticksPerSecond)

\* When the first thread of a TID is not the kernel's any more, its last event is on its
\* way, unless an event has completed its identity, or the stream is incomplete.
FirstThreadIsHeard ==
  \A tid \in Initial :
    /\ tid \in DOMAIN tracks /\ thread[tid].state # "none"
    /\ tracks[tid].ns = 0 /\ (thread[tid].ns # FirstStart \/ thread[tid].state = "dead") =>
         Missed \/ \E e \in Pending(tid) : e.ns = FirstStart

MissedBy(index) == lost > 0 \/ \E i \in DOMAIN reports : i <= index /\ reports[i].late > 0

TicksAreRight ==
  /\ \A tid \in DOMAIN tracks : Right(tracks[tid].ns, tracks[tid].ticks) \/ Missed
  /\ \A i : \A id \in IdsOf(windows, i) : Right(id.ns, id.ticks) \/ Missed
  /\ \A i \in DOMAIN reports : \A id \in DOMAIN reports[i].threads :
       Right(id.ns, id.ticks) \/ MissedBy(i)

TimesInv == OrderInv /\ FirstThreadIsHeard /\ TicksAreRight

LEMMA EventIsRight ==
  ASSUME RunTypeOK, NEW e \in StreamEvents
  PROVE  Right(e.ns, e.ticks)
<1>1. scenario \in Scenarios /\ scenario.offset \in Int64 /\ ticksPerSecond \in Nat
  BY ScenariosAssumption, CapacityAssumption DEF RunTypeOK
<1>2. FirstStart \in Nat \ {0} /\ MaxEvents \in Nat /\ FirstStart + MaxEvents <= MaxUint
  BY <1>1, ScenarioType
<1>3. e.ns \in FirstStart .. FirstStart + MaxEvents /\ e.ticks = EventTicks(e.ns)
  BY DEF StreamEvents
<1>4. MaxUint \in Nat
  BY WidthAssumption DEF MaxUint
<1>5. e.ns \in Uint64 /\ e.ns # 0
  BY <1>2, <1>3, <1>4 DEF Uint64
<1> DEFINE ticks == procStartTimeTicks(e.ns, scenario.offset, ticksPerSecond)
<1>6. ticks.value = 0 \/ (Divides(ticksPerSecond) /\ ticks.ok)
  <2>1. scenario.offset \in Int
    BY <1>1, WidthAssumption DEF Int64, MinInt
  <2>2. scenario.offset < 0 \/ scenario.offset >= 0
    BY <2>1
  <2>3. ~Divides(ticksPerSecond) => ticks = NotOk
    BY DEF procStartTimeTicks
  <2>4. ticks = NotOk \/ \E n : ticks = Ok(n)
    <3> DEFINE tick == nanosecondsPerSecond \div ticksPerSecond
               behind == Wrapped(-(scenario.offset + 1)) + 1
    <3>1. CASE Divides(ticksPerSecond) /\ scenario.offset < 0
      <4>1. ticks = IF e.ns < behind THEN NotOk ELSE Ok((e.ns - behind) \div tick)
        BY <2>1, <3>1 DEF procStartTimeTicks
      <4> HIDE DEF ticks, behind, tick
      <4> QED  BY <4>1
    <3>2. CASE Divides(ticksPerSecond) /\ scenario.offset >= 0
      <4>1. ticks = IF e.ns > MaxUint - scenario.offset THEN NotOk ELSE Ok((e.ns + scenario.offset) \div tick)
        BY <2>1, <3>2 DEF procStartTimeTicks
      <4> HIDE DEF ticks, tick
      <4> QED  BY <4>1
    <3> QED  BY <2>2, <2>3, <3>1, <3>2
  <2> HIDE DEF ticks
  <2> QED  BY <2>3, <2>4 DEF NotOk, Ok
<1>7. Divides(ticksPerSecond) /\ ticks.ok => ticks.value = ProcTicks(e.ns, scenario.offset, ticksPerSecond)
  BY <1>1, <1>5, StartTicksAgree
<1> HIDE DEF ticks
<1>8. ticks.value = 0 \/ ticks.value = ProcTicks(e.ns, scenario.offset, ticksPerSecond)
  BY <1>6, <1>7
<1> QED  BY <1>3, <1>5, <1>8 DEF Right, EventTicks, ticks

LEMMA TrackOfIsRight ==
  ASSUME TimesInv, ring # << >>, ~Behind(Head(ring))
  PROVE  Right(TrackOf(Head(ring)).ns, TrackOf(Head(ring)).ticks) \/ Missed
<1>1. PICK e : e = Head(ring)
  OBVIOUS
<1>2. RunTypeOK /\ TypeOK /\ OrderInv
  BY DEF TimesInv, OrderInv, TimelineInv
<1>3. e \in StreamEvents /\ e \in EventType /\ e.tid \in Tids /\ e.ns # 0 /\ e.ns \in Nat
      /\ e \in Pending(e.tid)
  BY <1>1, <1>2, HeadOfRing, NextToObserve
<1>4. Right(e.ns, e.ticks)
  BY <1>2, <1>3, EventIsRight
<1>5. CASE ~Known(e) \/ Replaces(e)
  <2>1. TrackOf(e).ns = e.ns /\ TrackOf(e).ticks = e.ticks
    BY <1>5 DEF TrackOf, NewTrack
  <2> QED  BY <1>1, <1>4, <2>1
<1>6. CASE Known(e) /\ ~Replaces(e)
  <2> DEFINE old == tracks[e.tid]
             track == TrackOf(e)
  <2>1. e.tid \in DOMAIN tracks /\ ~IdentityChanged(old, e) /\ old \in TrackType
        /\ track = [old EXCEPT !.ticks = IF e.ticks # 0 THEN e.ticks ELSE @,
                               !.ns = IF e.ns # 0 THEN e.ns ELSE @]
    BY <1>2, <1>6, TrackFields DEF Known, Replaces, TrackOf
  <2>2. track.ns = e.ns /\ track.ticks = (IF e.ticks # 0 THEN e.ticks ELSE old.ticks)
        /\ (old.ns = 0 \/ old.ns = e.ns)
    BY <1>3, <2>1 DEF TrackType, IdentityChanged
  <2>3. TrackInOrder(e.tid, old) /\ (Right(old.ns, old.ticks) \/ Missed)
    BY <1>2, <2>1 DEF OrderInv, TracksInOrder, TimesInv, TicksAreRight
  <2> HIDE DEF old, track
  <2>4. CASE e.ticks # 0 \/ old.ns = e.ns
    BY <1>1, <1>4, <2>2, <2>3, <2>4 DEF track
  <2>5. CASE old.ns = 0 /\ e.ns = FirstStart
    <3>1. Right(e.ns, old.ticks) \/ Missed
      BY <1>3, <2>3, <2>5 DEF Right
    <3> QED  BY <1>1, <1>4, <2>2, <3>1 DEF track
  <2>6. CASE old.ns = 0 /\ e.ns # FirstStart
    <3>1. e.tid \in Initial
      BY <2>3, <2>6 DEF TrackInOrder
    <3>2. e.ns <= thread[e.tid].ns /\ thread[e.tid].ns \in Nat /\ FirstStart \in Nat /\ e.ns >= FirstStart
      <4>1. e.ns <= thread[e.tid].ns
        BY <1>2, <1>3 DEF OrderInv, PendingInOrder, MadeBefore
      <4> QED  BY <1>2, <1>3, <4>1, ThreadType DEF StreamEvents
    <3>3. thread[e.tid].ns # FirstStart
      BY <1>3, <2>6, <3>2
    <3>4. \A f \in Pending(e.tid) : e.ns <= f.ns
      <4>1. e = ring[1] /\ 1 \in DOMAIN ring
        BY <1>1, <1>2, HeadOfRing
      <4>2. \A i \in DOMAIN ring : i = 1 \/ 1 < i
        BY <1>2 DEF RunTypeOK
      <4>3. \A i \in DOMAIN ring : ring[i].tid = e.tid => e.ns <= ring[i].ns
        BY <1>2, <1>3, <4>1, <4>2 DEF OrderInv, PendingInOrder, Precedes
      <4>4. inflight[e.tid] # NoEvent => e.ns <= inflight[e.tid].ns
        BY <1>2, <4>1 DEF OrderInv, PendingInOrder, Precedes
      <4> QED  BY <4>3, <4>4 DEF Pending
    <3>5. ~\E f \in Pending(e.tid) : f.ns = FirstStart
      BY <1>3, <2>6, <3>2, <3>4
    <3>6. Missed
      BY <2>6, <3>1, <3>3, <3>5 DEF TimesInv, FirstThreadIsHeard, old
    <3> QED  BY <3>6
  <2> QED  BY <2>2, <2>4, <2>5, <2>6
<1> QED  BY <1>5, <1>6

LEMMA LateType ==
  ASSUME TypeOK
  PROVE  /\ \A i : Late(i) \in Nat /\ Count(i) \in Nat
         /\ \A i \in DOMAIN reports : reports[i].late \in Nat /\ reports[i].events \in Nat
<1>1. IsWindows(windows) /\ \A i \in DOMAIN reports : IsReport(reports[i])
  BY DEF TypeOK
<1> QED  BY <1>1, WindowOfType DEF Late, Count, IsWindow, IsReport

\* A step that leaves the accumulator alone.
LEMMA StillTimes ==
  ASSUME TimesInv, UNCHANGED <<vars, scenario>>, lost' \in Nat, lost <= lost'
  PROVE  TicksAreRight' /\ (Missed => Missed')
<1>1. lost \in Nat
  BY DEF TimesInv, OrderInv, RunTypeOK
<1>2. tracks' = tracks /\ windows' = windows /\ reports' = reports /\ nextWindow' = nextWindow
      /\ FirstStart' = FirstStart /\ scenario' = scenario
  BY SameScenario DEF vars
<1>3. Missed => Missed'
  BY <1>1, <1>2 DEF Missed, Late
<1>4. \A i : MissedBy(i) => MissedBy(i)'
  BY <1>1, <1>2 DEF MissedBy
<1>5. \A ns, ticks : Right(ns, ticks)' = Right(ns, ticks)
  BY <1>2 DEF Right
<1> QED  BY <1>2, <1>3, <1>4, <1>5 DEF TimesInv, TicksAreRight

LEMMA FiredTimes ==
  ASSUME TimesInv, NEW tid \in Tids, NEW e \in StreamEvents, NEW t, Fired(tid, e, t)
  PROVE  FirstThreadIsHeard' /\ TicksAreRight'
<1>1. UNCHANGED <<vars, scenario>> /\ lost' = lost /\ lost \in Nat /\ RunTypeOK
  BY DEF Fired, TimesInv, OrderInv, RunTypeOK
<1>2. TicksAreRight' /\ (Missed => Missed')
  BY <1>1, StillTimes
<1>3. UNCHANGED <<Tids, Initial, FirstStart, tracks>>
  BY <1>1, SameScenario DEF vars
<1>4. Initial \subseteq Tids
  BY <1>1, ScenarioType DEF RunTypeOK
<1>5. ASSUME NEW u \in Initial
      PROVE  /\ u \in DOMAIN tracks' /\ thread'[u].state # "none"
             /\ tracks'[u].ns = 0 /\ (thread'[u].ns # FirstStart \/ thread'[u].state = "dead") =>
                  Missed' \/ \E f \in Pending(u)' : f.ns = FirstStart
  <2>1. /\ u \in DOMAIN tracks /\ thread[u].state # "none" /\ u \in Tids
        /\ tracks[u].ns = 0 /\ (thread[u].ns # FirstStart \/ thread[u].state = "dead") =>
             Missed \/ \E f \in Pending(u) : f.ns = FirstStart
    BY <1>4 DEF TimesInv, FirstThreadIsHeard
  <2>2. Pending(u) \subseteq Pending(u)' /\ thread'[u] = IF u = tid THEN t ELSE thread[u]
    BY <1>1, <2>1, FiredPending
  <2>3. CASE u # tid
    BY <1>2, <1>3, <2>1, <2>2, <2>3
  <2>4. CASE u = tid
    <3>1. t.state # "none"
      BY DEF Fired, SchedulerStates
    <3>2. thread[u].ns = FirstStart /\ thread[u].state # "dead" => t.ns = FirstStart /\ e.ns = FirstStart
      BY <2>1, <2>4 DEF Fired
    <3>3. e \in Pending(u)'
      <4>1. inflight' = [inflight EXCEPT ![tid] = e] /\ DOMAIN inflight = Tids /\ e # NoEvent
        BY <1>1 DEF Fired, RunTypeOK
      <4> QED  BY <2>4, <4>1 DEF Pending
    <3> QED  BY <1>2, <1>3, <2>1, <2>2, <2>4, <3>1, <3>2, <3>3
  <2> QED  BY <2>3, <2>4
<1> QED  BY <1>2, <1>3, <1>5 DEF FirstThreadIsHeard

\* A step that leaves the accumulator and the threads alone, and loses no event
\* without counting it.
LEMMA OthersTimes ==
  ASSUME TimesInv, UNCHANGED <<vars, scenario, thread>>, lost' \in Nat, lost <= lost',
         lost' = lost => \A u \in Tids : Pending(u) \subseteq Pending(u)'
  PROVE  FirstThreadIsHeard' /\ TicksAreRight'
<1>1. TicksAreRight' /\ (Missed => Missed') /\ lost \in Nat
  BY StillTimes DEF TimesInv, OrderInv, RunTypeOK
<1>2. UNCHANGED <<Tids, Initial, FirstStart, tracks, thread>>
  BY SameScenario DEF vars
<1>3. lost' # lost => Missed'
  BY <1>1 DEF Missed
<1>4. Initial \subseteq Tids
  BY ScenarioType DEF TimesInv, OrderInv, RunTypeOK
<1>5. ASSUME NEW u \in Initial
      PROVE  /\ u \in DOMAIN tracks' /\ thread'[u].state # "none"
             /\ tracks'[u].ns = 0 /\ (thread'[u].ns # FirstStart \/ thread'[u].state = "dead") =>
                  Missed' \/ \E f \in Pending(u)' : f.ns = FirstStart
  <2>1. /\ u \in DOMAIN tracks /\ thread[u].state # "none" /\ u \in Tids
        /\ tracks[u].ns = 0 /\ (thread[u].ns # FirstStart \/ thread[u].state = "dead") =>
             Missed \/ \E f \in Pending(u) : f.ns = FirstStart
    BY <1>4 DEF TimesInv, FirstThreadIsHeard
  <2> QED  BY <1>1, <1>2, <1>3, <2>1
<1> QED  BY <1>1, <1>2, <1>5 DEF FirstThreadIsHeard

LEMMA DeliverTimes ==
  ASSUME TimesInv, Deliver
  PROVE  FirstThreadIsHeard' /\ TicksAreRight'
<1>0. PICK e : e = Head(ring)
  OBVIOUS
<1>1. OrderInv /\ RunTypeOK /\ TypeOK /\ lost \in Nat /\ nextWindow \in Nat
  BY DEF TimesInv, OrderInv, TimelineInv, RunTypeOK, TypeOK
<1>2. /\ Behind(e) => tracks' = tracks
      /\ ~Behind(e) => /\ DOMAIN tracks' = DOMAIN tracks \cup {e.tid}
                       /\ Heard(tracks'[e.tid], e)
                       /\ \A u \in DOMAIN tracks \ {e.tid} : tracks'[u] = tracks[u]
      /\ UNCHANGED <<origin, nextWindow, watermark, advanced, reports, scenario, clock, thread, inflight, lost, emitted>>
      /\ ring # << >>
  BY <1>0, <1>1, DeliverTrack
<1>3. UNCHANGED <<Tids, Initial, FirstStart>>
  BY <1>2, SameScenario
<1>4. \A i : /\ IdsOf(windows', i) \subseteq IdsOf(windows, i) \cup
                   (IF Behind(e) THEN {} ELSE {Identity(e.tid, TrackOf(e))})
             /\ Late(i)' = Late(i) + (IF Behind(e) /\ i = nextWindow THEN 1 ELSE 0)
  <2> SUFFICES ASSUME NEW i
               PROVE  /\ IdsOf(windows', i) \subseteq IdsOf(windows, i) \cup
                           (IF Behind(e) THEN {} ELSE {Identity(e.tid, TrackOf(e))})
                      /\ Late(i)' = Late(i) + (IF Behind(e) /\ i = nextWindow THEN 1 ELSE 0)
    OBVIOUS
  <2> DEFINE me == Identity(e.tid, TrackOf(e))
  <2>1. /\ Unheard(e) => IdsOf(windows', i) = IdsOf(windows, i)
        /\ ~Unheard(e) => IdsOf(windows', i) \subseteq IdsOf(windows, i) \cup {me}
        /\ Late(i)' = Late(i) + (IF Behind(e) /\ i = nextWindow THEN 1 ELSE 0)
    BY <1>0, <1>1, DeliverEffect
  <2> HIDE DEF me
  <2>2. Behind(e) => Unheard(e)
    BY DEF Unheard
  <2>3. IdsOf(windows', i) \subseteq IdsOf(windows, i) \cup (IF Behind(e) THEN {} ELSE {me})
    BY <2>1, <2>2
  <2> QED  BY <2>1, <2>3 DEF me
<1>5. (Missed => Missed') /\ (Behind(e) => Missed')
  <2>1. Late(nextWindow) \in Nat /\ nextWindow' = nextWindow /\ reports' = reports /\ lost' = lost
    BY <1>1, <1>2, LateType
  <2>2. Late(nextWindow)' = Late(nextWindow) + (IF Behind(e) THEN 1 ELSE 0)
    <3>1. \A i : Late(i)' = WindowOf(windows', i).late
      BY DEF Late
    <3>2. Late(nextWindow)' = WindowOf(windows', nextWindow).late
      BY <2>1 DEF Late
    <3> QED  BY <1>4, <3>1, <3>2
  <2> QED  BY <2>1, <2>2 DEF Missed
<1>6. ~Behind(e) => /\ tracks'[e.tid].ns = TrackOf(e).ns /\ tracks'[e.tid].ticks = TrackOf(e).ticks
                    /\ TrackOf(e).ns # 0 /\ TrackOf(e).ns = e.ns
  <2>1. ~Behind(e) => TrackOf(e).ns = e.ns /\ e.ns # 0
    BY <1>0, <1>1, <1>2, NextToObserve
  <2>2. ~Behind(e) => tracks'[e.tid].ns = e.ns /\ tracks'[e.tid].ticks = TrackOf(e).ticks
    BY <1>0, <1>1, <1>2, HeardTrack
  <2> QED  BY <2>1, <2>2
<1>7. ~Behind(e) => Right(TrackOf(e).ns, TrackOf(e).ticks) \/ Missed
  BY <1>0, <1>2, TrackOfIsRight
<1>8. \A ns, ticks : Right(ns, ticks)' = Right(ns, ticks)
  BY <1>2, <1>3 DEF Right
<1>9. \A tid \in DOMAIN tracks' : Right(tracks'[tid].ns, tracks'[tid].ticks) \/ Missed'
  <2>1. \A tid \in DOMAIN tracks : Right(tracks[tid].ns, tracks[tid].ticks) \/ Missed
    BY DEF TimesInv, TicksAreRight
  <2> QED  BY <1>2, <1>5, <1>6, <1>7, <2>1
<1>10. \A i : \A id \in IdsOf(windows', i) : Right(id.ns, id.ticks) \/ Missed'
  <2>1. \A i : \A id \in IdsOf(windows, i) : Right(id.ns, id.ticks) \/ Missed
    BY DEF TimesInv, TicksAreRight
  <2>2. Identity(e.tid, TrackOf(e)).ns = TrackOf(e).ns /\ Identity(e.tid, TrackOf(e)).ticks = TrackOf(e).ticks
    BY DEF Identity
  <2> QED  BY <1>4, <1>5, <1>7, <2>1, <2>2
<1>11. \A i \in DOMAIN reports' : \A id \in DOMAIN reports'[i].threads :
          Right(id.ns, id.ticks) \/ MissedBy(i)'
  BY <1>2 DEF TimesInv, TicksAreRight, MissedBy
<1>12. TicksAreRight'
  BY <1>8, <1>9, <1>10, <1>11 DEF TicksAreRight, IdsOf
<1>13. ASSUME NEW u \in Initial
       PROVE  /\ u \in DOMAIN tracks' /\ thread'[u].state # "none"
              /\ tracks'[u].ns = 0 /\ (thread'[u].ns # FirstStart \/ thread'[u].state = "dead") =>
                   Missed' \/ \E f \in Pending(u)' : f.ns = FirstStart
  <2>1. /\ u \in DOMAIN tracks /\ thread[u].state # "none" /\ u \in Tids
        /\ tracks[u].ns = 0 /\ (thread[u].ns # FirstStart \/ thread[u].state = "dead") =>
             Missed \/ \E f \in Pending(u) : f.ns = FirstStart
    BY <1>1, ScenarioType DEF TimesInv, FirstThreadIsHeard, RunTypeOK
  <2>2. u # e.tid => Pending(u) \subseteq Pending(u)'
    BY <1>0, <1>1, <2>1, DeliverKeeps
  <2>3. u # e.tid => tracks'[u] = tracks[u]
    BY <1>2, <2>1
  <2>4. u = e.tid => Missed' \/ tracks'[u].ns # 0
    BY <1>5, <1>6
  <2>5. u \in DOMAIN tracks'
    BY <1>2, <2>1
  <2> QED  BY <1>2, <1>5, <2>1, <2>2, <2>3, <2>4, <2>5
<1> QED  BY <1>2, <1>3, <1>12, <1>13 DEF FirstThreadIsHeard

LEMMA FinishFlushTimes ==
  ASSUME TimesInv, FinishFlush
  PROVE  FirstThreadIsHeard' /\ TicksAreRight'
<1>1. OrderInv /\ RunTypeOK /\ TypeOK /\ lost \in Nat /\ nextWindow \in Nat
  BY DEF TimesInv, OrderInv, TimelineInv, RunTypeOK, TypeOK
<1>2. UNCHANGED <<scenario, clock, thread, inflight, ring, lost>> /\ Advance(lost)
      /\ tracks' = [tid \in DOMAIN tracks |->
                      IF tid \in Live THEN [tracks[tid] EXCEPT !.since = NextBoundary] ELSE tracks[tid]]
      /\ nextWindow' = nextWindow + 1
  BY DEF FinishFlush, Advance
<1>3. UNCHANGED <<Tids, Initial, FirstStart>>
  BY <1>2, SameScenario
<1>4. \A tid \in DOMAIN tracks : tracks'[tid].ns = tracks[tid].ns /\ tracks'[tid].ticks = tracks[tid].ticks
  BY <1>1, <1>2, TrackFields DEF TrackType
<1> DEFINE ids == SegmentIds(tracks, Live, NextBoundary, nextWindow)
<1>5. /\ \A i : i # nextWindow => IdsOf(windows', i) = IdsOf(windows, i)
      /\ IdsOf(windows', nextWindow) = {}
      /\ DOMAIN reports' = DOMAIN reports \cup {nextWindow} /\ nextWindow \notin DOMAIN reports
      /\ \A i \in DOMAIN reports : reports'[i] = reports[i]
      /\ reports'[nextWindow].late = Late(nextWindow)
      /\ DOMAIN reports'[nextWindow].threads = IdsOf(windows, nextWindow) \cup ids
  <2> DEFINE old == WindowOf(windows, nextWindow)
             report == reports'[nextWindow]
  <2>1. /\ \A i : i # nextWindow => DOMAIN WindowOf(windows', i).stats = DOMAIN WindowOf(windows, i).stats
        /\ WindowOf(windows', nextWindow) = NoWindow
        /\ DOMAIN reports' = DOMAIN reports \cup {nextWindow} /\ nextWindow \notin DOMAIN reports
        /\ \A i \in DOMAIN reports : reports'[i] = reports[i]
        /\ report.late = old.late /\ DOMAIN report.threads = DOMAIN old.stats \cup ids
    BY <1>1, <1>2, AdvanceEffect
  <2>2. DOMAIN NoWindow.stats = {}
    BY DEF NoWindow
  <2> HIDE DEF report, ids
  <2>3. report.late = Late(nextWindow) /\ DOMAIN report.threads = IdsOf(windows, nextWindow) \cup ids
    BY <2>1 DEF Late, IdsOf
  <2> QED  BY <2>1, <2>2, <2>3 DEF IdsOf, report
<1>6. \A i \in DOMAIN reports : i <= nextWindow
  BY <1>1 DEF TypeOK
<1>7. Missed => Missed'
  BY <1>2, <1>5 DEF Missed
<1>8. \A i \in DOMAIN reports : MissedBy(i) => MissedBy(i)'
  BY <1>2, <1>5 DEF MissedBy
<1>9. \A ns, ticks : Right(ns, ticks)' = Right(ns, ticks)
  BY <1>2, <1>3 DEF Right
<1>10. \A tid \in DOMAIN tracks : Right(tracks[tid].ns, tracks[tid].ticks) \/ Missed
  BY DEF TimesInv, TicksAreRight
<1>11. \A id \in ids : Right(id.ns, id.ticks) \/ Missed
  BY <1>10 DEF SegmentIds, Identity, Live
<1> HIDE DEF ids
<1>12. \A tid \in DOMAIN tracks' : Right(tracks'[tid].ns, tracks'[tid].ticks) \/ Missed'
  BY <1>2, <1>4, <1>7, <1>10
<1>13. \A i : \A id \in IdsOf(windows', i) : Right(id.ns, id.ticks) \/ Missed'
  <2>1. \A i : \A id \in IdsOf(windows, i) : Right(id.ns, id.ticks) \/ Missed
    BY DEF TimesInv, TicksAreRight
  <2> QED  BY <1>5, <1>7, <2>1
<1>14. \A i \in DOMAIN reports' : \A id \in DOMAIN reports'[i].threads :
          Right(id.ns, id.ticks) \/ MissedBy(i)'
  <2>1. \A i \in DOMAIN reports : \A id \in DOMAIN reports[i].threads :
          Right(id.ns, id.ticks) \/ MissedBy(i)
    BY DEF TimesInv, TicksAreRight
  <2>2. \A id \in IdsOf(windows, nextWindow) : Right(id.ns, id.ticks) \/ Missed
    BY DEF TimesInv, TicksAreRight
  <2>3. ASSUME NEW i \in DOMAIN reports', NEW id \in DOMAIN reports'[i].threads
        PROVE  Right(id.ns, id.ticks) \/ MissedBy(i)'
    <3>1. CASE i \in DOMAIN reports
      BY <1>5, <1>8, <2>1, <2>3, <3>1
    <3>2. CASE i = nextWindow
      <4>1. id \in IdsOf(windows, nextWindow) \cup ids
        BY <1>5, <2>3, <3>2
      <4>3. Missed => MissedBy(i)'
        <5>1. lost' = lost /\ DOMAIN reports' = DOMAIN reports \cup {nextWindow}
              /\ reports'[nextWindow].late = Late(nextWindow)
              /\ \A j \in DOMAIN reports : reports'[j] = reports[j] /\ j <= nextWindow
          BY <1>2, <1>5, <1>6
        <5> QED  BY <1>1, <3>2, <5>1 DEF Missed, MissedBy
      <4> QED  BY <1>11, <2>2, <4>1, <4>3
    <3> QED  BY <1>5, <3>1, <3>2
  <2> QED  BY <2>3
<1>15. TicksAreRight'
  BY <1>9, <1>12, <1>13, <1>14 DEF TicksAreRight, IdsOf
<1>16. ASSUME NEW u \in Initial
       PROVE  /\ u \in DOMAIN tracks' /\ thread'[u].state # "none"
              /\ tracks'[u].ns = 0 /\ (thread'[u].ns # FirstStart \/ thread'[u].state = "dead") =>
                   Missed' \/ \E f \in Pending(u)' : f.ns = FirstStart
  <2>1. /\ u \in DOMAIN tracks /\ thread[u].state # "none"
        /\ tracks[u].ns = 0 /\ (thread[u].ns # FirstStart \/ thread[u].state = "dead") =>
             Missed \/ \E f \in Pending(u) : f.ns = FirstStart
    BY DEF TimesInv, FirstThreadIsHeard
  <2>2. Pending(u)' = Pending(u) /\ u \in DOMAIN tracks' /\ tracks'[u].ns = tracks[u].ns
    BY <1>2, <1>4, <2>1 DEF Pending
  <2> QED  BY <1>2, <1>7, <2>1, <2>2
<1> QED  BY <1>2, <1>3, <1>15, <1>16 DEF FirstThreadIsHeard

LEMMA RunInitTimes == RunInit => TimesInv
<1> SUFFICES ASSUME RunInit  PROVE  TimesInv
  OBVIOUS
<1>1. OrderInv /\ RunTypeOK
  BY RunInitOrder DEF OrderInv
<1>2. PICK snapshot \in SnapshotsOf(scenario) :
        /\ InitFrom(snapshot) /\ snapshot.finished = Origin
        /\ snapshot.samples \in [Initial -> [ticks : {ProcTicks(FirstStart, scenario.offset, ticksPerSecond)},
                                             state : {"running", "sleeping"}, at : 1 .. Origin]]
  BY RunStarts
<1>3. tracks = [tid \in Initial |-> SeedTrack(snapshot.samples[tid], Origin)]
      /\ windows = << >> /\ reports = << >>
  BY <1>2 DEF InitFrom
<1>4. \A tid \in Initial : tracks[tid].ns = 0 /\ tracks[tid].ticks = ProcTicks(FirstStart, scenario.offset, ticksPerSecond)
  <2>1. \A tid \in Initial : tracks[tid].ns = 0 /\ tracks[tid].ticks = snapshot.samples[tid].ticks
    BY <1>3 DEF SeedTrack
  <2> QED  BY <1>2, <2>1
<1>5. \A tid \in Initial : /\ tid \in DOMAIN tracks /\ thread[tid].state # "none" /\ thread[tid].ns = FirstStart
                           /\ thread[tid].state # "dead"
  <2>1. Initial \subseteq Tids
    BY <1>1, ScenarioType DEF RunTypeOK
  <2> QED  BY <1>3, <2>1, RunStarts
<1>6. \A i : IdsOf(windows, i) = {}
  BY <1>3 DEF IdsOf, WindowOf, NoWindow
<1>7. DOMAIN tracks = Initial /\ DOMAIN reports = {}
  BY <1>3
<1>8. FirstThreadIsHeard
  BY <1>5 DEF FirstThreadIsHeard
<1>9. TicksAreRight
  BY <1>4, <1>6, <1>7 DEF TicksAreRight, Right
<1> QED  BY <1>1, <1>8, <1>9 DEF TimesInv

LEMMA TimesStep == TimesInv /\ [RunNext]_<<vars, runVars>> => TimesInv'
<1> SUFFICES ASSUME TimesInv, [RunNext]_<<vars, runVars>>  PROVE  TimesInv'
  OBVIOUS
<1>1. OrderInv /\ RunTypeOK /\ OrderInv' /\ lost \in Nat /\ lost' \in Nat
  <2>1. OrderInv /\ OrderInv'
    BY OrderStep DEF TimesInv
  <2> QED  BY <2>1 DEF OrderInv, RunTypeOK
<1> SUFFICES FirstThreadIsHeard' /\ TicksAreRight'
  BY <1>1 DEF TimesInv
<1>2. ASSUME NEW tid \in Tids, NEW e \in StreamEvents, NEW t, Fired(tid, e, t)
      PROVE  FirstThreadIsHeard' /\ TicksAreRight'
  BY <1>2, FiredTimes
<1>3. ASSUME NEW tid \in Tids, Submit(tid)
      PROVE  FirstThreadIsHeard' /\ TicksAreRight'
  <2>1. UNCHANGED <<vars, scenario, thread>> /\ lost <= lost'
    BY <1>1, <1>3 DEF Submit
  <2>2. lost' = lost => \A u \in Tids : Pending(u) \subseteq Pending(u)'
    BY <1>1, <1>3, SubmitKeeps
  <2> QED  BY <1>1, <2>1, <2>2, OthersTimes
<1>4. CASE Deliver
  BY <1>4, DeliverTimes
<1>5. CASE FinishFlush
  BY <1>5, FinishFlushTimes
<1>6. ASSUME UNCHANGED <<vars, scenario, thread, ring, inflight, lost>>
      PROVE  FirstThreadIsHeard' /\ TicksAreRight'
  <2>1. \A u \in Tids : Pending(u) \subseteq Pending(u)'
    BY <1>6 DEF Pending
  <2>2. lost <= lost' /\ UNCHANGED <<vars, scenario, thread>>
    BY <1>1, <1>6
  <2> QED  BY <1>1, <2>1, <2>2, OthersTimes
<1>7. Tick \/ StartFlush \/ UNCHANGED <<vars, runVars>> => UNCHANGED <<vars, scenario, thread, ring, inflight, lost>>
  BY DEF Tick, StartFlush, runVars
<1> QED  BY <1>1, <1>2, <1>3, <1>4, <1>5, <1>6, <1>7, RunSteps

\* An identity has the start time that procfs shows, unless the events of the first
\* thread of its TID were lost or late, and then the run has counted that (Observe, Submit).
THEOREM TimesInvariant == RunSpec => []TimesInv
BY RunInitTimes, TimesStep, PTL DEF RunSpec

\* A start time in ticks that a report gives a thread is the one /proc shows for it, or
\* the stream is known to be incomplete: for every conversion, offset of the time
\* namespace, order of the records and number of lost events (Observe,
\* procStartTimeTicks).
THEOREM StartTimesAgree == RunSpec => []StartTimesAgreeWithProc
<1>1. ASSUME TimesInv  PROVE  StartTimesAgreeWithProc
  <2> SUFFICES ASSUME NEW index \in DOMAIN reports, NEW id \in DOMAIN reports[index].threads, id.ticks # 0
               PROVE  \/ id.ticks = ProcTicks(IF id.ns = 0 THEN FirstStart ELSE id.ns, scenario.offset,
                                              ticksPerSecond)
                      \/ Evidence(index)
    BY DEF StartTimesAgreeWithProc
  <2>1. Right(id.ns, id.ticks) \/ MissedBy(index)
    BY <1>1 DEF TimesInv, TicksAreRight
  <2>2. MissedBy(index) => Evidence(index)
    <3>1. \A i \in DOMAIN reports : i \in Nat /\ (i <= index => i <= index + 1)
      BY <1>1 DEF TimesInv, OrderInv, TimelineInv, TypeOK
    <3> QED  BY <3>1 DEF MissedBy, Evidence
  <2> QED  BY <2>1, <2>2 DEF Right
<1> QED  BY <1>1, TimesInvariant, PTL

----------------------------------------------------------------------------
(* The rows of a TID are of different threads *)

\* What can complete the identity of a track is what it has.
Settled(track) ==
  track.ns # 0 => \A f \in Events : f.ns = track.ns => f.ticks = 0 \/ f.ticks = track.ticks

\* The rows of a TID in an open window are of its track's thread and of those before it.
IdsInOrder ==
  /\ \A i : \A id \in IdsOf(windows, i) :
       /\ id.tid \in DOMAIN tracks /\ id.ns # 0 /\ id.ns \in Nat /\ id.ns <= tracks[id.tid].ns
       /\ id.ns = tracks[id.tid].ns => id = Identity(id.tid, tracks[id.tid])
  /\ \A i : \A left, right \in IdsOf(windows, i) :
       left.tid = right.tid /\ left.ns = right.ns => left = right
  /\ \A tid \in DOMAIN tracks : Settled(tracks[tid])

\* The same, of a report.
ReportIds(i) == DOMAIN reports[i].threads

ReportedInOrder ==
  \A i \in DOMAIN reports :
    /\ \A left, right \in ReportIds(i) : left.tid = right.tid /\ left.ns = right.ns => left = right
    /\ \A left, right \in ReportIds(i) : left.tid = right.tid /\ left.ns = 0 => left = right

IdsInv == OrderInv /\ IdsInOrder /\ ReportedInOrder

\* The identity that an event leaves its track.
LEMMA HeardIdentity ==
  ASSUME IdsInv, ring # << >>, NEW e, e = Head(ring), ~Behind(e), NEW track, Heard(track, e)
  PROVE  /\ Identity(e.tid, track) = Identity(e.tid, TrackOf(e))
         /\ track.ns = e.ns /\ e.ns # 0 /\ e.ns \in Nat /\ Settled(track)
         /\ e.tid \in DOMAIN tracks =>
              /\ tracks[e.tid].ns <= e.ns /\ tracks[e.tid].ns \in Nat
              /\ tracks[e.tid].ns = e.ns => Identity(e.tid, tracks[e.tid]) = Identity(e.tid, track)
<1>1. OrderInv /\ RunTypeOK /\ TypeOK
  BY DEF IdsInv, OrderInv, TimelineInv
<1>2. /\ e \in Events /\ e \in EventType /\ e \in Pending(e.tid) /\ e.ns \in Nat \ {0}
      /\ TrackOf(e) \in TrackType /\ TrackOf(e).ns = e.ns
  BY <1>1, NextToObserve
<1>3. track.ns = e.ns /\ track.ticks = TrackOf(e).ticks
  BY <1>1, HeardTrack
<1>4. Identity(e.tid, track) = Identity(e.tid, TrackOf(e))
  BY <1>2, <1>3 DEF Identity
<1>5. \A f \in Events : f.ns = e.ns => f.ticks = e.ticks
  BY <1>2, ConversionAssumption
<1>6. CASE ~Known(e) \/ Replaces(e)
  <2>1. TrackOf(e).ticks = e.ticks
    BY <1>6 DEF TrackOf, NewTrack
  <2>2. Settled(track)
    BY <1>3, <1>5, <2>1 DEF Settled
  <2>3. ASSUME e.tid \in DOMAIN tracks
        PROVE  tracks[e.tid].ns <= e.ns /\ tracks[e.tid].ns \in Nat /\ tracks[e.tid].ns # e.ns
    <3> DEFINE old == tracks[e.tid]
    <3>1. TrackInOrder(e.tid, old) /\ Settled(old) /\ old.ns \in Nat
      BY <1>1, <2>3, TrackFields DEF OrderInv, TracksInOrder, IdsInv, IdsInOrder
    <3>2. IdentityChanged(old, e)
      BY <1>6, <2>3 DEF Known, Replaces
    <3>3. old.ns <= e.ns
      BY <1>2, <3>1 DEF TrackInOrder
    <3>4. old.ns # e.ns
      BY <1>2, <3>1, <3>2 DEF IdentityChanged, Settled
    <3> QED  BY <3>1, <3>3, <3>4
  <2> QED  BY <1>2, <1>3, <1>4, <2>2, <2>3
<1>7. CASE Known(e) /\ ~Replaces(e)
  <2> DEFINE old == tracks[e.tid]
  <2>1. e.tid \in DOMAIN tracks /\ ~IdentityChanged(old, e)
    BY <1>7 DEF Known, Replaces
  <2>2. TrackInOrder(e.tid, old) /\ Settled(old) /\ old.ns \in Nat /\ old \in TrackType
    BY <1>1, <2>1, TrackFields DEF OrderInv, TracksInOrder, IdsInv, IdsInOrder
  <2>3. TrackOf(e).ticks = (IF e.ticks # 0 THEN e.ticks ELSE old.ticks)
    BY <1>7, <2>2 DEF TrackOf, TrackType
  <2>4. old.ns <= e.ns
    BY <1>2, <2>2 DEF TrackInOrder
  <2>5. Settled(track)
    BY <1>3, <1>5, <2>3 DEF Settled
  <2>6. old.ns = e.ns => TrackOf(e).ticks = old.ticks
    BY <1>2, <2>2, <2>3 DEF Settled
  <2>7. old.ns = e.ns => Identity(e.tid, old) = Identity(e.tid, track)
    BY <1>2, <1>3, <2>6 DEF Identity
  <2> QED  BY <1>2, <1>3, <1>4, <2>1, <2>2, <2>4, <2>5, <2>7
<1> QED  BY <1>6, <1>7

LEMMA DeliverIds ==
  ASSUME IdsInv, Deliver
  PROVE  IdsInOrder' /\ ReportedInOrder'
<1>0. PICK e : e = Head(ring)
  OBVIOUS
<1>1. OrderInv /\ RunTypeOK /\ TypeOK
  BY DEF IdsInv, OrderInv, TimelineInv
<1>2. /\ Behind(e) => tracks' = tracks
      /\ ~Behind(e) => /\ DOMAIN tracks' = DOMAIN tracks \cup {e.tid}
                       /\ Heard(tracks'[e.tid], e)
                       /\ \A u \in DOMAIN tracks \ {e.tid} : tracks'[u] = tracks[u]
      /\ reports' = reports /\ ring # << >>
  BY <1>0, <1>1, DeliverTrack
<1>3. ReportedInOrder'
  BY <1>2 DEF IdsInv, ReportedInOrder, ReportIds
<1> DEFINE me == Identity(e.tid, TrackOf(e))
<1>4. \A i : IdsOf(windows', i) \subseteq IdsOf(windows, i) \cup (IF Behind(e) THEN {} ELSE {me})
  <2> SUFFICES ASSUME NEW i
               PROVE  IdsOf(windows', i) \subseteq IdsOf(windows, i) \cup (IF Behind(e) THEN {} ELSE {me})
    OBVIOUS
  <2>1. /\ Unheard(e) => IdsOf(windows', i) = IdsOf(windows, i)
        /\ ~Unheard(e) => IdsOf(windows', i) \subseteq IdsOf(windows, i) \cup {me}
    BY <1>0, <1>1, DeliverEffect
  <2> HIDE DEF me
  <2>2. Behind(e) => Unheard(e)
    BY DEF Unheard
  <2> QED  BY <2>1, <2>2
<1>5. CASE Behind(e)
  BY <1>2, <1>3, <1>4, <1>5 DEF IdsInOrder, IdsInv
<1>6. CASE ~Behind(e)
  <2> DEFINE track == tracks'[e.tid]
  <2>1. /\ Identity(e.tid, track) = me /\ track.ns = e.ns /\ e.ns # 0 /\ e.ns \in Nat /\ Settled(track)
        /\ e.tid \in DOMAIN tracks =>
              /\ tracks[e.tid].ns <= e.ns /\ tracks[e.tid].ns \in Nat
              /\ tracks[e.tid].ns = e.ns => Identity(e.tid, tracks[e.tid]) = Identity(e.tid, track)
    BY <1>0, <1>2, <1>6, HeardIdentity
  <2>2. me.tid = e.tid /\ me.ns = e.ns
    BY <1>0, <1>1, <1>2, <1>6, NextToObserve DEF Identity
  <2> HIDE DEF me
  <2>3. \A i : \A id \in IdsOf(windows, i) :
          /\ id.tid \in DOMAIN tracks' /\ id.ns # 0 /\ id.ns \in Nat /\ id.ns <= tracks'[id.tid].ns
          /\ id.ns = tracks'[id.tid].ns => id = Identity(id.tid, tracks'[id.tid])
    <3> SUFFICES ASSUME NEW i, NEW id \in IdsOf(windows, i)
                 PROVE  /\ id.tid \in DOMAIN tracks' /\ id.ns # 0 /\ id.ns \in Nat /\ id.ns <= tracks'[id.tid].ns
                        /\ id.ns = tracks'[id.tid].ns => id = Identity(id.tid, tracks'[id.tid])
      OBVIOUS
    <3>1. /\ id.tid \in DOMAIN tracks /\ id.ns # 0 /\ id.ns \in Nat /\ id.ns <= tracks[id.tid].ns
          /\ id.ns = tracks[id.tid].ns => id = Identity(id.tid, tracks[id.tid])
      BY DEF IdsInv, IdsInOrder
    <3>2. CASE id.tid # e.tid
      BY <1>2, <1>6, <3>1, <3>2
    <3>3. CASE id.tid = e.tid
      BY <1>2, <1>6, <2>1, <3>1, <3>3
    <3> QED  BY <3>2, <3>3
  <2>4. \A i : \A id \in IdsOf(windows, i) : id.tid = e.tid /\ id.ns = e.ns => id = me
    BY <2>1, <2>3
  <2>5. \A i : \A left, right \in IdsOf(windows', i) :
          left.tid = right.tid /\ left.ns = right.ns => left = right
    <3> SUFFICES ASSUME NEW i, NEW left \in IdsOf(windows', i), NEW right \in IdsOf(windows', i),
                        left.tid = right.tid, left.ns = right.ns
                 PROVE  left = right
      OBVIOUS
    <3>1. (left \in IdsOf(windows, i) \/ left = me) /\ (right \in IdsOf(windows, i) \/ right = me)
      BY <1>4
    <3>2. left \in IdsOf(windows, i) /\ right \in IdsOf(windows, i) => left = right
      BY DEF IdsInv, IdsInOrder
    <3> QED  BY <2>2, <2>4, <3>1, <3>2
  <2>6. \A i : \A id \in IdsOf(windows', i) :
          /\ id.tid \in DOMAIN tracks' /\ id.ns # 0 /\ id.ns \in Nat /\ id.ns <= tracks'[id.tid].ns
          /\ id.ns = tracks'[id.tid].ns => id = Identity(id.tid, tracks'[id.tid])
    <3> SUFFICES ASSUME NEW i, NEW id \in IdsOf(windows', i)
                 PROVE  /\ id.tid \in DOMAIN tracks' /\ id.ns # 0 /\ id.ns \in Nat /\ id.ns <= tracks'[id.tid].ns
                        /\ id.ns = tracks'[id.tid].ns => id = Identity(id.tid, tracks'[id.tid])
      OBVIOUS
    <3>1. CASE id \in IdsOf(windows, i)
      BY <2>3, <3>1
    <3>2. CASE id = me
      BY <1>2, <1>6, <2>1, <2>2, <3>2
    <3> QED  BY <1>4, <3>1, <3>2
  <2>7. \A tid \in DOMAIN tracks' : Settled(tracks'[tid])
    BY <1>2, <1>6, <2>1 DEF IdsInv, IdsInOrder
  <2>8. IdsInOrder'
    BY <2>5, <2>6, <2>7 DEF IdsInOrder, IdsOf, Settled
  <2> QED  BY <1>3, <2>8
<1> QED  BY <1>5, <1>6

LEMMA FinishFlushIds ==
  ASSUME IdsInv, FinishFlush
  PROVE  IdsInOrder' /\ ReportedInOrder'
<1>1. OrderInv /\ RunTypeOK /\ TypeOK /\ lost \in Nat /\ nextWindow \in Nat
  BY DEF IdsInv, OrderInv, TimelineInv, RunTypeOK, TypeOK
<1>2. /\ Advance(lost)
      /\ tracks' = [tid \in DOMAIN tracks |->
                      IF tid \in Live THEN [tracks[tid] EXCEPT !.since = NextBoundary] ELSE tracks[tid]]
  BY DEF FinishFlush, Advance
<1>3. \A tid \in DOMAIN tracks : tracks'[tid].ns = tracks[tid].ns /\ tracks'[tid].ticks = tracks[tid].ticks
  BY <1>1, <1>2, TrackFields DEF TrackType
<1>4. \A tid \in DOMAIN tracks : Identity(tid, tracks'[tid]) = Identity(tid, tracks[tid])
  BY <1>3 DEF Identity
<1> DEFINE ids == SegmentIds(tracks, Live, NextBoundary, nextWindow)
<1>5. /\ \A i : i # nextWindow => IdsOf(windows', i) = IdsOf(windows, i)
      /\ IdsOf(windows', nextWindow) = {}
      /\ DOMAIN reports' = DOMAIN reports \cup {nextWindow}
      /\ \A i \in DOMAIN reports : reports'[i] = reports[i] /\ i # nextWindow
      /\ DOMAIN reports'[nextWindow].threads = IdsOf(windows, nextWindow) \cup ids
  <2> DEFINE old == WindowOf(windows, nextWindow)
             report == reports'[nextWindow]
  <2>1. /\ \A i : i # nextWindow => DOMAIN WindowOf(windows', i).stats = DOMAIN WindowOf(windows, i).stats
        /\ WindowOf(windows', nextWindow) = NoWindow
        /\ DOMAIN reports' = DOMAIN reports \cup {nextWindow} /\ nextWindow \notin DOMAIN reports
        /\ \A i \in DOMAIN reports : reports'[i] = reports[i]
        /\ DOMAIN report.threads = DOMAIN old.stats \cup ids
    BY <1>1, <1>2, AdvanceEffect
  <2>2. DOMAIN NoWindow.stats = {}
    BY DEF NoWindow
  <2> HIDE DEF report, ids
  <2> QED  BY <2>1, <2>2 DEF IdsOf, report
<1>6. \A id \in ids : id.tid \in DOMAIN tracks /\ id = Identity(id.tid, tracks[id.tid])
                      /\ id.ns = tracks[id.tid].ns
  BY DEF SegmentIds, Identity, Live
<1> HIDE DEF ids
<1>7. IdsInOrder'
  <2>1. \A i : IdsOf(windows', i) \subseteq IdsOf(windows, i)
    BY <1>5
  <2>2. DOMAIN tracks' = DOMAIN tracks
    BY <1>2
  <2>3. /\ \A i : \A id \in IdsOf(windows', i) :
             /\ id.tid \in DOMAIN tracks' /\ id.ns # 0 /\ id.ns \in Nat /\ id.ns <= tracks'[id.tid].ns
             /\ id.ns = tracks'[id.tid].ns => id = Identity(id.tid, tracks'[id.tid])
        /\ \A i : \A left, right \in IdsOf(windows', i) :
             left.tid = right.tid /\ left.ns = right.ns => left = right
    BY <1>3, <1>4, <2>1, <2>2 DEF IdsInv, IdsInOrder
  <2>4. \A tid \in DOMAIN tracks' : Settled(tracks'[tid])
    BY <1>3, <2>2 DEF IdsInv, IdsInOrder, Settled
  <2> QED  BY <2>3, <2>4 DEF IdsInOrder, IdsOf, Settled
<1>8. \A id \in IdsOf(windows, nextWindow) :
        /\ id.tid \in DOMAIN tracks /\ id.ns # 0 /\ id.ns \in Nat /\ id.ns <= tracks[id.tid].ns
        /\ id.ns = tracks[id.tid].ns => id = Identity(id.tid, tracks[id.tid])
  BY DEF IdsInv, IdsInOrder
<1>9. \A left, right \in IdsOf(windows, nextWindow) \cup ids :
        left.tid = right.tid /\ left.ns = right.ns => left = right
  BY <1>6, <1>8 DEF IdsInv, IdsInOrder
<1>10. \A left, right \in IdsOf(windows, nextWindow) \cup ids :
         left.tid = right.tid /\ left.ns = 0 => left = right
  BY <1>6, <1>8
<1>11. ASSUME NEW i \in DOMAIN reports'
       PROVE  /\ \A left, right \in DOMAIN reports'[i].threads : left.tid = right.tid /\ left.ns = right.ns => left = right
              /\ \A left, right \in DOMAIN reports'[i].threads : left.tid = right.tid /\ left.ns = 0 => left = right
  <2>1. CASE i \in DOMAIN reports
    BY <1>5, <2>1 DEF IdsInv, ReportedInOrder, ReportIds
  <2>2. CASE i = nextWindow
    BY <1>5, <1>9, <1>10, <2>2
  <2> QED  BY <1>5, <2>1, <2>2
<1> QED  BY <1>7, <1>11 DEF ReportedInOrder, ReportIds

LEMMA IdsStep == IdsInv /\ [RunNext]_<<vars, runVars>> => IdsInv'
<1> SUFFICES ASSUME IdsInv, [RunNext]_<<vars, runVars>>  PROVE  IdsInv'
  OBVIOUS
<1>1. RunTypeOK /\ OrderInv'
  BY OrderStep DEF IdsInv, OrderInv
<1>2. CASE UNCHANGED vars
  BY <1>1, <1>2 DEF vars, IdsInv, IdsInOrder, IdsOf, ReportedInOrder, ReportIds
<1>3. CASE Deliver
  BY <1>1, <1>3, DeliverIds DEF IdsInv
<1>4. CASE FinishFlush
  BY <1>1, <1>4, FinishFlushIds DEF IdsInv
<1>5. UNCHANGED vars \/ Deliver \/ FinishFlush
  BY <1>1, RunSteps DEF Fired, Submit, Tick, StartFlush
<1> QED  BY <1>2, <1>3, <1>4, <1>5

LEMMA RunInitIds == RunInit => IdsInv
<1> SUFFICES ASSUME RunInit  PROVE  IdsInv
  OBVIOUS
<1>1. OrderInv
  BY RunInitOrder
<1>2. PICK snapshot \in SnapshotsOf(scenario) : InitFrom(snapshot)
  BY RunStarts
<1>3. tracks = [tid \in DOMAIN snapshot.samples |-> SeedTrack(snapshot.samples[tid], snapshot.finished)]
      /\ windows = << >> /\ reports = << >>
  BY <1>2 DEF InitFrom
<1>4. (\A i : IdsOf(windows, i) = {}) /\ DOMAIN reports = {}
  BY <1>3 DEF IdsOf, WindowOf, NoWindow
<1>5. \A tid \in DOMAIN tracks : tracks[tid].ns = 0
  BY <1>3 DEF SeedTrack
<1> QED  BY <1>1, <1>4, <1>5 DEF IdsInv, IdsInOrder, ReportedInOrder, Settled

\* The identities of a TID follow each other in the order of their start times, and a
\* track learns its start times before a row of it is made (schedulerIdentityChanged,
\* Observe).
THEOREM IdsInvariant == RunSpec => []IdsInv
BY RunInitIds, IdsStep, PTL DEF RunSpec

\* A thread has one row in a report: the start time in nanoseconds tells it, and a row
\* without one is the only row of its TID, whatever was lost, late or not convertible
\* (Observe, threadStats).
THEOREM OneRowForAThread == RunSpec => []ThreadsHaveOneRow
<1>1. ASSUME IdsInv  PROVE  ThreadsHaveOneRow
  <2> SUFFICES ASSUME NEW index \in DOMAIN reports, NEW tid \in Tids
               PROVE  LET rows == RowsOf(reports[index].threads, tid) IN
                      /\ \A left, right \in rows : left.ns = right.ns => left = right
                      /\ (\E id \in rows : id.ns = 0) => Cardinality(rows) = 1
    BY DEF ThreadsHaveOneRow
  <2> DEFINE rows == RowsOf(reports[index].threads, tid)
  <2>1. /\ \A left, right \in rows : left.ns = right.ns => left = right
        /\ \A left, right \in rows : left.ns = 0 => left = right
    BY <1>1 DEF IdsInv, ReportedInOrder, ReportIds, RowsOf
  <2> HIDE DEF rows
  <2>2. ASSUME NEW id \in rows, id.ns = 0  PROVE  Cardinality(rows) = 1
    <3>1. rows = {id}
      BY <2>1, <2>2
    <3> QED  BY <3>1, FS_Singleton
  <2> QED  BY <2>1, <2>2 DEF rows
<1> QED  BY <1>1, IdsInvariant, PTL

----------------------------------------------------------------------------
(* Windows and rows are finitely many *)

FiniteInv ==
  /\ IsFiniteSet(DOMAIN windows)
  /\ \A i : IsFiniteSet(IdsOf(windows, i))
  /\ \A i \in DOMAIN reports : IsFiniteSet(ReportIds(i))

CountedInv == OrderInv /\ FiniteInv

LEMMA WithWindowFinite ==
  ASSUME NEW ws, IsFiniteSet(DOMAIN ws), NEW i, NEW w
  PROVE  IsFiniteSet(DOMAIN WithWindow(ws, i, w))
BY FS_AddElement DEF WithWindow

LEMMA TouchedFinite ==
  ASSUME origin \in Nat, nextWindow \in Nat, NEW from \in Nat, NEW to \in Nat
  PROVE  IsFiniteSet(TouchedWindows(from, to))
<1>1. WindowIndex(to) \in Nat
  BY WindowIndexBounds
<1>2. IsFiniteSet(nextWindow .. WindowIndex(to))
  BY <1>1, FS_Interval
<1> QED  BY <1>2, FS_Subset DEF TouchedWindows

LEMMA DeliverFinite ==
  ASSUME CountedInv, Deliver
  PROVE  FiniteInv'
<1>0. PICK e : e = Head(ring)
  OBVIOUS
<1>1. OrderInv /\ RunTypeOK /\ TypeOK /\ origin \in Nat /\ nextWindow \in Nat /\ ring # << >> /\ reports' = reports
  BY DEF CountedInv, OrderInv, TimelineInv, TypeOK, Deliver, Observe
<1>2. e \in EventType /\ e.at \in Nat
  BY <1>0, <1>1, HeadOfRing DEF EventType
<1>3. TrackOf(e).since \in Nat
  BY <1>1, <1>2, TrackOfType DEF TrackType
<1>4. IsFiniteSet(DOMAIN windows)
  BY DEF CountedInv, FiniteInv
<1>5. IsFiniteSet(DOMAIN WindowsAfterLookup(e))
  BY <1>4, WithWindowFinite DEF WindowsAfterLookup, RecordInitializationRace
<1>6. IsFiniteSet(DOMAIN windows')
  <2>1. CASE windows' = RecordLateEvent(windows)
    BY <1>4, <2>1, WithWindowFinite DEF RecordLateEvent
  <2>2. CASE windows' = WindowsAfterLookup(e)
    BY <1>5, <2>2
  <2>3. CASE windows' = RecordInitializationRace(WindowsAfterLookup(e), origin)
    BY <1>5, <2>3, WithWindowFinite DEF RecordInitializationRace
  <2>4. CASE windows' = InOrderWindows(e)
    <3> DEFINE ts == [tid \in {e.tid} |-> TrackOf(e)]
               looked == WindowsAfterLookup(e)
               touched == UNION {TouchedWindows(ts[tid].since, e.at) : tid \in {e.tid}}
    <3>1. DOMAIN AddSegments(looked, ts, {e.tid}, e.at) = DOMAIN looked \cup touched
      BY DEF AddSegments
    <3>2. touched = TouchedWindows(TrackOf(e).since, e.at)
      OBVIOUS
    <3>3. IsFiniteSet(touched)
      BY <1>1, <1>2, <1>3, <3>2, TouchedFinite
    <3> HIDE DEF touched
    <3>4. IsFiniteSet(DOMAIN AddSegments(looked, ts, {e.tid}, e.at))
      BY <1>5, <3>1, <3>3, FS_Union
    <3> HIDE DEF looked, ts
    <3> QED  BY <2>4, <3>4, WithWindowFinite DEF InOrderWindows, RecordEvent, looked, ts
  <2> QED  BY <1>0, <1>1, <2>1, <2>2, <2>3, <2>4, RunObserves DEF InOrderWindows
<1>7. \A i : IsFiniteSet(IdsOf(windows', i))
  <2> SUFFICES ASSUME NEW i  PROVE  IsFiniteSet(IdsOf(windows', i))
    OBVIOUS
  <2> DEFINE me == Identity(e.tid, TrackOf(e))
  <2>1. IdsOf(windows', i) \subseteq IdsOf(windows, i) \cup {me}
    <3>1. /\ Unheard(e) => IdsOf(windows', i) = IdsOf(windows, i)
          /\ ~Unheard(e) => IdsOf(windows', i) \subseteq IdsOf(windows, i) \cup {me}
      BY <1>0, <1>1, DeliverEffect
    <3> HIDE DEF me
    <3> QED  BY <3>1
  <2> HIDE DEF me
  <2>2. IsFiniteSet(IdsOf(windows, i) \cup {me})
    BY FS_AddElement DEF CountedInv, FiniteInv
  <2> QED  BY <2>1, <2>2, FS_Subset
<1>8. \A i \in DOMAIN reports' : IsFiniteSet(DOMAIN reports'[i].threads)
  BY <1>1 DEF CountedInv, FiniteInv, ReportIds
<1> QED  BY <1>6, <1>7, <1>8 DEF FiniteInv, IdsOf, ReportIds

LEMMA SegmentIdsFinite ==
  ASSUME OrderInv
  PROVE  IsFiniteSet(SegmentIds(tracks, Live, NextBoundary, nextWindow))
<1> DEFINE S == {t \in Live : nextWindow \in TouchedWindows(tracks[t].since, NextBoundary)}
           T == {Identity(tid, tracks[tid]) : tid \in S}
           f == [tid \in S |-> Identity(tid, tracks[tid])]
<1>1. S \subseteq Tids
  BY DEF Live, OrderInv, TracksInOrder, TrackInOrder
<1>2. IsFiniteSet(Tids)
  BY ScenarioType DEF OrderInv, RunTypeOK
<1>3. IsFiniteSet(S)
  BY <1>1, <1>2, FS_Subset
<1>4. f \in Surjection(S, T)
  BY DEF Surjection
<1>5. SegmentIds(tracks, Live, NextBoundary, nextWindow) = T
  BY DEF SegmentIds
<1> HIDE DEF S, T, f
<1>6. IsFiniteSet(T)
  BY <1>3, <1>4, FS_Surjection
<1> QED  BY <1>5, <1>6

LEMMA FinishFlushFinite ==
  ASSUME CountedInv, FinishFlush
  PROVE  FiniteInv'
<1>1. OrderInv /\ RunTypeOK /\ TypeOK /\ lost \in Nat /\ origin \in Nat /\ nextWindow \in Nat /\ Advance(lost)
  BY DEF CountedInv, OrderInv, TimelineInv, RunTypeOK, TypeOK, FinishFlush
<1>2. IsFiniteSet(DOMAIN windows')
  <2> DEFINE touched == UNION {TouchedWindows(tracks[tid].since, NextBoundary) : tid \in Live}
             credited == AddSegments(windows, tracks, Live, NextBoundary)
  <2>1. DOMAIN credited = DOMAIN windows \cup touched
    BY DEF AddSegments
  <2>2. touched \subseteq {nextWindow}
    <3>1. \A tid \in Live : tracks[tid].since \in Nat
      BY <1>1, TrackFields DEF Live
    <3> QED  BY <1>1, <3>1, AdvanceTouches
  <2>3. windows' = [i \in DOMAIN credited \ {nextWindow} |-> credited[i]]
    BY <1>1 DEF Advance
  <2>4. DOMAIN windows' = DOMAIN credited \ {nextWindow}
    BY <2>3
  <2> HIDE DEF touched, credited
  <2>5. DOMAIN windows' \subseteq DOMAIN windows
    BY <2>1, <2>2, <2>4
  <2> QED  BY <2>5, FS_Subset DEF CountedInv, FiniteInv
<1> DEFINE ids == SegmentIds(tracks, Live, NextBoundary, nextWindow)
<1>3. /\ \A i : i # nextWindow => IdsOf(windows', i) = IdsOf(windows, i)
      /\ IdsOf(windows', nextWindow) = {}
      /\ DOMAIN reports' = DOMAIN reports \cup {nextWindow}
      /\ \A i \in DOMAIN reports : reports'[i] = reports[i]
      /\ DOMAIN reports'[nextWindow].threads = IdsOf(windows, nextWindow) \cup ids
  <2> DEFINE old == WindowOf(windows, nextWindow)
             report == reports'[nextWindow]
  <2>1. /\ \A i : i # nextWindow => DOMAIN WindowOf(windows', i).stats = DOMAIN WindowOf(windows, i).stats
        /\ WindowOf(windows', nextWindow) = NoWindow
        /\ DOMAIN reports' = DOMAIN reports \cup {nextWindow} /\ nextWindow \notin DOMAIN reports
        /\ \A i \in DOMAIN reports : reports'[i] = reports[i]
        /\ DOMAIN report.threads = DOMAIN old.stats \cup ids
    BY <1>1, AdvanceEffect
  <2>2. DOMAIN NoWindow.stats = {}
    BY DEF NoWindow
  <2> HIDE DEF report, ids
  <2> QED  BY <2>1, <2>2 DEF IdsOf, report
<1>4. IsFiniteSet(ids)
  BY <1>1, SegmentIdsFinite
<1> HIDE DEF ids
<1>5. \A i : IsFiniteSet(IdsOf(windows, i))
  BY DEF CountedInv, FiniteInv
<1>6. \A i : IsFiniteSet(IdsOf(windows', i))
  BY <1>3, <1>5, FS_EmptySet
<1>7. IsFiniteSet(IdsOf(windows, nextWindow) \cup ids)
  BY <1>4, <1>5, FS_Union
<1>8. \A i \in DOMAIN reports' : IsFiniteSet(DOMAIN reports'[i].threads)
  BY <1>3, <1>7 DEF CountedInv, FiniteInv, ReportIds
<1> QED  BY <1>2, <1>6, <1>8 DEF FiniteInv, IdsOf, ReportIds

LEMMA CountedStep == CountedInv /\ [RunNext]_<<vars, runVars>> => CountedInv'
<1> SUFFICES ASSUME CountedInv, [RunNext]_<<vars, runVars>>  PROVE  CountedInv'
  OBVIOUS
<1>1. RunTypeOK /\ OrderInv'
  BY OrderStep DEF CountedInv, OrderInv
<1>2. CASE UNCHANGED vars
  BY <1>1, <1>2 DEF vars, CountedInv, FiniteInv, IdsOf, ReportIds
<1>3. CASE Deliver
  BY <1>1, <1>3, DeliverFinite DEF CountedInv
<1>4. CASE FinishFlush
  BY <1>1, <1>4, FinishFlushFinite DEF CountedInv
<1>5. UNCHANGED vars \/ Deliver \/ FinishFlush
  BY <1>1, RunSteps DEF Fired, Submit, Tick, StartFlush
<1> QED  BY <1>2, <1>3, <1>4, <1>5

LEMMA RunInitCounted == RunInit => CountedInv
<1> SUFFICES ASSUME RunInit  PROVE  CountedInv
  OBVIOUS
<1>1. PICK snapshot \in SnapshotsOf(scenario) : InitFrom(snapshot)
  BY RunStarts
<1>2. windows = << >> /\ reports = << >>
  BY <1>1 DEF InitFrom
<1>3. (\A i : IdsOf(windows, i) = {}) /\ DOMAIN reports = {} /\ DOMAIN windows = {}
  BY <1>2 DEF IdsOf, WindowOf, NoWindow
<1> QED  BY <1>3, RunInitOrder, FS_EmptySet DEF CountedInv, FiniteInv

----------------------------------------------------------------------------
(* What the rows of a TID add up to *)

\* The figures of a row that the theorems are about: its time, and its runnable time
\* that is not the latency of a wakeup.
Figure(row, what) ==
  IF what = "observed" THEN row.observed ELSE row.time["runnable"] - row.latency

\* A figure of the rows of a TID in one window, added up.
Amount(stats, tid, what) ==
  SumFunction([id \in RowsOf(stats, tid) |-> Figure(stats[id], what)])

LEMMA FigureType ==
  ASSUME NEW row \in RowType, NEW what
  PROVE  Figure(row, what) \in Int
BY DEF Figure, RowType, SchedulerStates

LEMMA FigureOfNoRow == \A what : Figure(NoRow, what) = 0
BY DEF Figure, NoRow, SchedulerStates

\* The sum over any finite set that has all the rows of the TID.
Covers(S, f, w, tid, what) ==
  /\ IsStats(w.stats) /\ IsFiniteSet(S) /\ RowsOf(w.stats, tid) \subseteq S
  /\ \A id \in S : id.tid = tid /\ f[id] = Figure(RowOf(w, id), what)

LEMMA AmountOver ==
  ASSUME NEW w, NEW tid, NEW what, NEW S, NEW f, Covers(S, f, w, tid, what)
  PROVE  /\ Amount(w.stats, tid, what) = SumFunctionOnSet(f, S)
         /\ \A id \in S : f[id] \in Int
         /\ Amount(w.stats, tid, what) \in Int
<1> DEFINE T == RowsOf(w.stats, tid)
           g == [id \in T |-> Figure(w.stats[id], what)]
<1>0. /\ IsStats(w.stats) /\ IsFiniteSet(S) /\ RowsOf(w.stats, tid) \subseteq S
      /\ \A id \in S : id.tid = tid /\ f[id] = Figure(RowOf(w, id), what)
  BY DEF Covers
<1>1. Amount(w.stats, tid, what) = SumFunctionOnSet(g, T)
  BY DEF Amount, SumFunction
<1>2. \A id \in S : RowOf(w, id) \in RowType
  BY <1>0, NoRowType DEF RowOf, IsStats
<1>3. \A id \in S : f[id] \in Int
  BY <1>0, <1>2, FigureType
<1>4. \A id \in S \ T : f[id] = 0
  BY <1>0, FigureOfNoRow DEF RowOf, RowsOf
<1>5. \A id \in T : g[id] = f[id] /\ id \in S
  BY <1>0 DEF RowOf, RowsOf
<1>6. IsFiniteSet(T)
  BY <1>0, FS_Subset
<1> HIDE DEF T, g
<1>7. T \subseteq S
  BY <1>0 DEF T
<1>8. SumFunctionOnSet(f, S) = SumFunctionOnSet(f, T)
  BY <1>3, <1>4, <1>7, <1>0, SumOfSupport
<1>9. SumFunctionOnSet(g, T) = SumFunctionOnSet(f, T)
  BY <1>3, <1>5, <1>6, SumSame
<1>10. SumFunctionOnSet(f, S) \in Int
  BY <1>0, <1>3, SumInt
<1> QED  BY <1>1, <1>3, <1>8, <1>9, <1>10

\* What an event adds to a figure of the rows of its TID, in a window.
Added(track, e, i, what) ==
  LET time == IF i \in TouchedWindows(track.since, e.at) THEN Overlap(i, track.since, e.at) ELSE 0
      latency == IF i = WindowIndex(e.at) /\ Measures(track, e) THEN e.at - track.wakeupAt ELSE 0
  IN IF what = "observed" THEN time
     ELSE (IF track.state = "runnable" THEN time ELSE 0) - latency

LEMMA CreditFigure ==
  ASSUME NEW row \in RowType, NEW state \in SchedulerStates, NEW n \in Nat, NEW what
  PROVE  Figure(CreditRow(row, state, n), what)
           = Figure(row, what) + (IF what = "observed" \/ state = "runnable" THEN n ELSE 0)
<1> DEFINE new == CreditRow(row, state, n)
<1>1. /\ row.observed \in Nat /\ row.latency \in Nat /\ row.time["runnable"] \in Nat
      /\ row.time \in [SchedulerStates -> Nat] /\ "runnable" \in SchedulerStates
  BY DEF RowType, SchedulerStates
<1>2. new.observed = row.observed + n /\ new.latency = row.latency
      /\ new.time = [row.time EXCEPT ![state] = @ + n]
  BY DEF CreditRow, CreditState, RowType
<1>3. new.time["runnable"] = row.time["runnable"] + (IF state = "runnable" THEN n ELSE 0)
  BY <1>1, <1>2
<1> HIDE DEF new
<1> QED  BY <1>1, <1>2, <1>3 DEF Figure, new

LEMMA CountedFigure ==
  ASSUME origin \in Nat, nextWindow \in Nat, NEW row \in RowType, NEW track \in TrackType, NEW e \in EventType,
         NEW i \in Nat, NEW what
  PROVE  Figure(Counted(row, track, e, i), what) = Figure(row, what) + Added(track, e, i, what)
<1> DEFINE closed == Closed(row, track, i, e.at)
           time == IF i \in TouchedWindows(track.since, e.at) THEN Overlap(i, track.since, e.at) ELSE 0
           latency == IF i = WindowIndex(e.at) /\ Measures(track, e) THEN e.at - track.wakeupAt ELSE 0
           new == Counted(row, track, e, i)
<1>1. /\ track.since \in Nat /\ e.at \in Nat /\ track.state \in SchedulerStates /\ track.wakeupAt \in Nat
  BY DEF TrackType, EventType
<1>2. Overlap(i, track.since, e.at) \in Nat
  BY <1>1, OverlapType
<1>3. closed \in RowType
  BY <1>1, <1>2, CreditRowType DEF Closed
<1>4. Figure(closed, what) = Figure(row, what) + (IF what = "observed" \/ track.state = "runnable" THEN time ELSE 0)
  <2>1. Figure(row, what) \in Int
    BY FigureType
  <2> QED  BY <1>1, <1>2, <2>1, CreditFigure DEF Closed
<1>5. time \in Nat /\ latency \in Int
  BY <1>1, <1>2
<1>6. closed.observed \in Nat /\ closed.latency \in Nat /\ closed.time["runnable"] \in Nat
  BY <1>3 DEF RowType, SchedulerStates
<1>7. new.observed = closed.observed /\ new.time = closed.time /\ new.latency = closed.latency + latency
  <2> HIDE DEF closed
  <2> QED  BY <1>6 DEF Counted, CountEvent, closed
<1>8. Added(track, e, i, what) = IF what = "observed" THEN time
                                 ELSE (IF track.state = "runnable" THEN time ELSE 0) - latency
  BY DEF Added
<1>9. Figure(row, what) \in Int
  BY FigureType
<1> HIDE DEF closed, time, latency, new
<1>10. Figure(new, what) = IF what = "observed" THEN Figure(closed, what) ELSE Figure(closed, what) - latency
  BY <1>5, <1>6, <1>7 DEF Figure
<1> QED  BY <1>4, <1>5, <1>8, <1>9, <1>10 DEF new

Here(i, tid, what) == Amount(WindowOf(windows, i).stats, tid, what)

LEMMA HereType ==
  ASSUME CountedInv, NEW i, NEW tid, NEW what
  PROVE  Here(i, tid, what) \in Int
<1> DEFINE w == WindowOf(windows, i)
           S == RowsOf(w.stats, tid)
<1>1. IsStats(w.stats)
  BY WindowOfType DEF CountedInv, OrderInv, TimelineInv, TypeOK, IsWindow
<1>2. IsFiniteSet(S) /\ S \subseteq S /\ \A id \in S : id.tid = tid
  <2>1. IsFiniteSet(DOMAIN w.stats)
    BY DEF CountedInv, FiniteInv, IdsOf
  <2> QED  BY <2>1, FS_Subset DEF RowsOf
<1>3. PICK f : \A id \in S : f[id] = Figure(RowOf(w, id), what)
  <2>1. \A id \in S : [x \in S |-> Figure(RowOf(w, x), what)][id] = Figure(RowOf(w, id), what)
    OBVIOUS
  <2> QED  BY <2>1
<1> HIDE DEF S, w
<1>4. Covers(S, f, w, tid, what)
  BY <1>1, <1>2, <1>3 DEF S, Covers
<1>5. Amount(w.stats, tid, what) \in Int
  BY <1>4, AmountOver
<1> QED  BY <1>5 DEF Here, w

LEMMA DeliverAmount ==
  ASSUME CountedInv, Deliver, NEW e, e = Head(ring), NEW i \in Nat, NEW tid, NEW what
  PROVE  Here(i, tid, what)' = Here(i, tid, what)
           + (IF ~Unheard(e) /\ e.tid = tid THEN Added(TrackOf(e), e, i, what) ELSE 0)
<1>1. OrderInv /\ RunTypeOK /\ TypeOK /\ origin \in Nat /\ nextWindow \in Nat /\ ring # << >>
      /\ IsWindows(windows) /\ IsWindows(windows')
  <2>1. OrderInv /\ OrderInv' /\ ring # << >>
    BY OrderStep DEF CountedInv, RunNext, Deliver
  <2> QED  BY <2>1 DEF OrderInv, TimelineInv, TypeOK
<1>2. e \in EventType
  BY <1>1, HeadOfRing
<1>3. TrackOf(e) \in TrackType
  BY <1>1, <1>2, TrackOfType
<1> DEFINE me == Identity(e.tid, TrackOf(e))
           old == WindowOf(windows, i)
           new == WindowOf(windows', i)
           S == RowsOf(old.stats, tid) \cup (IF me.tid = tid THEN {me} ELSE {})
<1>4. IsStats(old.stats) /\ IsStats(new.stats) /\ \A id : RowOf(old, id) \in RowType /\ RowOf(new, id) \in RowType
  BY <1>1, WindowOfType, RowOfType DEF IsWindow
<1>5. IsFiniteSet(S)
  <2>1. IsFiniteSet(RowsOf(old.stats, tid))
    <3>1. IsFiniteSet(DOMAIN old.stats)
      BY DEF CountedInv, FiniteInv, IdsOf
    <3> QED  BY <3>1, FS_Subset DEF RowsOf
  <2> HIDE DEF me, old
  <2> QED  BY <2>1, FS_AddElement
<1>6. me.tid = e.tid
  BY DEF Identity
<1>7. /\ Unheard(e) => /\ DOMAIN new.stats = DOMAIN old.stats
                       /\ \A id : RowOf(new, id) = RowOf(old, id)
      /\ ~Unheard(e) => /\ DOMAIN new.stats \subseteq DOMAIN old.stats \cup {me}
                        /\ \A id : RowOf(new, id) = IF id = me THEN Counted(RowOf(old, id), TrackOf(e), e, i)
                                                    ELSE RowOf(old, id)
  <2>1. /\ Unheard(e) => /\ IdsOf(windows', i) = IdsOf(windows, i)
                         /\ \A id : OpenRow(i, id)' = OpenRow(i, id)
        /\ ~Unheard(e) => /\ IdsOf(windows', i) \subseteq IdsOf(windows, i) \cup {me}
                          /\ \A id : OpenRow(i, id)' = IF id = me THEN Counted(OpenRow(i, id), TrackOf(e), e, i)
                                                       ELSE OpenRow(i, id)
    BY <1>1, DeliverEffect
  <2>2. \A id : OpenRow(i, id)' = RowOf(new, id) /\ OpenRow(i, id) = RowOf(old, id)
    BY DEF OpenRow
  <2> HIDE DEF me, old, new
  <2> QED  BY <2>1, <2>2 DEF IdsOf, old, new
<1>8. PICK f : \A id \in S : f[id] = Figure(RowOf(old, id), what)
  <2>1. \A id \in S : [x \in S |-> Figure(RowOf(old, x), what)][id] = Figure(RowOf(old, id), what)
    OBVIOUS
  <2> QED  BY <2>1
<1>9. PICK g : \A id \in S : g[id] = Figure(RowOf(new, id), what)
  <2>1. \A id \in S : [x \in S |-> Figure(RowOf(new, x), what)][id] = Figure(RowOf(new, id), what)
    OBVIOUS
  <2> QED  BY <2>1
<1>10. Here(i, tid, what) = Amount(old.stats, tid, what) /\ Here(i, tid, what)' = Amount(new.stats, tid, what)
  BY DEF Here
<1>11. /\ Added(TrackOf(e), e, i, what) \in Int
       /\ Figure(Counted(RowOf(old, me), TrackOf(e), e, i), what) = Figure(RowOf(old, me), what) + Added(TrackOf(e), e, i, what)
  <2>1. RowOf(old, me) \in RowType
    BY <1>4
  <2>2. Added(TrackOf(e), e, i, what) \in Int
    <3>1. TrackOf(e).since \in Nat /\ e.at \in Nat /\ TrackOf(e).wakeupAt \in Nat
      BY <1>2, <1>3 DEF TrackType, EventType
    <3>2. Overlap(i, TrackOf(e).since, e.at) \in Nat
      BY <1>1, <3>1, OverlapType
    <3> QED  BY <3>1, <3>2 DEF Added
  <2> QED  BY <1>1, <1>2, <1>3, <2>1, <2>2, CountedFigure
<1>12. RowsOf(old.stats, tid) \subseteq S /\ (\A id \in S : id.tid = tid) /\ (me \in S <=> e.tid = tid)
  BY <1>6 DEF RowsOf
<1>13. RowsOf(new.stats, tid) \subseteq S
  BY <1>6, <1>7 DEF RowsOf
<1> HIDE DEF S, me, old, new
<1>14. /\ Amount(old.stats, tid, what) = SumFunctionOnSet(f, S) /\ \A id \in S : f[id] \in Int
       /\ Amount(old.stats, tid, what) \in Int
  <2>1. Covers(S, f, old, tid, what)
    BY <1>4, <1>5, <1>8, <1>12 DEF Covers
  <2> QED  BY <2>1, AmountOver
<1>15. Amount(new.stats, tid, what) = SumFunctionOnSet(g, S) /\ \A id \in S : g[id] \in Int
  <2>1. Covers(S, g, new, tid, what)
    BY <1>4, <1>5, <1>9, <1>12, <1>13 DEF Covers
  <2> QED  BY <2>1, AmountOver
<1>16. CASE Unheard(e) \/ e.tid # tid
  <2>1. \A id \in S : g[id] = f[id]
    BY <1>6, <1>7, <1>8, <1>9, <1>12, <1>16
  <2>2. SumFunctionOnSet(g, S) = SumFunctionOnSet(f, S)
    BY <1>5, <1>14, <1>15, <2>1, SumSame
  <2> QED  BY <1>10, <1>14, <1>15, <1>16, <2>2
<1>17. CASE ~Unheard(e) /\ e.tid = tid
  <2>1. me \in S /\ \A id \in S \ {me} : g[id] = f[id]
    BY <1>7, <1>8, <1>9, <1>12, <1>17
  <2>2. SumFunctionOnSet(g, S) = SumFunctionOnSet(f, S) + (g[me] - f[me])
    BY <1>5, <1>14, <1>15, <2>1, OneTermChanges
  <2>3. g[me] = f[me] + Added(TrackOf(e), e, i, what)
    BY <1>7, <1>8, <1>9, <1>11, <1>17, <2>1
  <2>4. g[me] - f[me] = Added(TrackOf(e), e, i, what)
    BY <1>11, <1>14, <2>1, <2>3
  <2> QED  BY <1>10, <1>14, <1>15, <1>17, <2>2, <2>4
<1> QED  BY <1>16, <1>17

\* What a boundary adds to a figure of the rows of a TID.
AddedAtBoundary(tid, what) ==
  IF tid \in Live /\ nextWindow \in TouchedWindows(tracks[tid].since, NextBoundary)
     /\ (what = "observed" \/ tracks[tid].state = "runnable")
  THEN Overlap(nextWindow, tracks[tid].since, NextBoundary) ELSE 0

LEMMA BoundaryAmount ==
  ASSUME CountedInv, FinishFlush, NEW n, n = nextWindow, NEW tid, NEW what
  PROVE  Amount(reports'[n].threads, tid, what) = Here(n, tid, what) + AddedAtBoundary(tid, what)
<1>1. OrderInv /\ RunTypeOK /\ TypeOK /\ lost \in Nat /\ origin \in Nat /\ n \in Nat /\ Advance(lost)
      /\ IsWindows(windows) /\ TypeOK'
  <2>1. OrderInv /\ OrderInv'
    BY OrderStep DEF CountedInv, RunNext
  <2> QED  BY <2>1 DEF OrderInv, TimelineInv, RunTypeOK, TypeOK, FinishFlush
<1> DEFINE ids == SegmentIds(tracks, Live, NextBoundary, n)
           old == WindowOf(windows, n)
           new == [stats |-> reports'[n].threads]
           me == Identity(tid, tracks[tid])
           touches == tid \in Live /\ n \in TouchedWindows(tracks[tid].since, NextBoundary)
           S == RowsOf(old.stats, tid) \cup (IF touches THEN {me} ELSE {})
           delta == Overlap(n, tracks[tid].since, NextBoundary)
<1>2. /\ n \in DOMAIN reports'
      /\ DOMAIN new.stats = DOMAIN old.stats \cup ids
      /\ \A id \in DOMAIN new.stats : new.stats[id] =
           IF id \in ids
           THEN CreditRow(RowOf(old, id), tracks[id.tid].state, Overlap(n, tracks[id.tid].since, NextBoundary))
           ELSE RowOf(old, id)
  <2> DEFINE threads == reports'[n].threads
  <2>1. /\ DOMAIN reports' = DOMAIN reports \cup {n}
        /\ DOMAIN threads = DOMAIN old.stats \cup ids
        /\ \A id \in DOMAIN threads : threads[id] =
             IF id \in ids
             THEN CreditRow(RowOf(old, id), tracks[id.tid].state, Overlap(n, tracks[id.tid].since, NextBoundary))
             ELSE RowOf(old, id)
    BY <1>1, AdvanceEffect
  <2>2. new.stats = threads
    OBVIOUS
  <2> HIDE DEF threads, ids, old, new
  <2> QED  BY <2>1, <2>2
<1>3. IsStats(old.stats) /\ IsStats(new.stats) /\ \A id : RowOf(old, id) \in RowType
  <2>1. IsStats(new.stats)
    BY <1>1, <1>2 DEF TypeOK, IsReport
  <2> QED  BY <1>1, <2>1, WindowOfType, RowOfType DEF IsWindow
<1>4. \A id \in ids : id.tid = tid <=> id = me /\ touches
  BY DEF SegmentIds, Identity
<1>5. touches <=> me \in ids
  <2>1. me.tid = tid
    BY DEF Identity
  <2>2. touches => me \in ids
    BY DEF SegmentIds
  <2> HIDE DEF touches, me, ids
  <2> QED  BY <1>4, <2>1, <2>2
<1>6. me.tid = tid
  BY DEF Identity
<1>7. IsFiniteSet(S)
  <2>1. IsFiniteSet(RowsOf(old.stats, tid))
    <3>1. IsFiniteSet(DOMAIN old.stats)
      BY DEF CountedInv, FiniteInv, IdsOf
    <3> QED  BY <3>1, FS_Subset DEF RowsOf
  <2> HIDE DEF me, old, touches
  <2> QED  BY <2>1, FS_AddElement
<1>8. touches => tracks[tid].state \in SchedulerStates /\ delta \in Nat
  <2>1. tid \in Live => tracks[tid].state \in SchedulerStates /\ tracks[tid].since \in Nat
    BY <1>1 DEF Live, TypeOK, TrackType
  <2>2. NextBoundary \in Nat
    BY <1>1, WindowBounds DEF NextBoundary
  <2> QED  BY <1>1, <2>1, <2>2, OverlapType
<1>9. /\ RowsOf(old.stats, tid) \subseteq S /\ (\A id \in S : id.tid = tid) /\ (touches => me \in S)
      /\ (\A id \in S : id = me \/ id \in DOMAIN old.stats)
  BY <1>6 DEF RowsOf
<1> HIDE DEF S
<1>10. RowsOf(new.stats, tid) \subseteq S
  <2>1. \A id \in RowsOf(new.stats, tid) : id.tid = tid /\ (id \in DOMAIN old.stats \/ id \in ids)
    BY <1>2 DEF RowsOf
  <2> HIDE DEF new, old, ids, touches, me
  <2>2. \A id \in RowsOf(new.stats, tid) : id \in RowsOf(old.stats, tid) \/ (id = me /\ touches)
    BY <1>4, <2>1 DEF RowsOf
  <2> QED  BY <1>9, <2>2
<1>11. PICK f : \A id \in S : f[id] = Figure(RowOf(old, id), what)
  <2>1. \A id \in S : [x \in S |-> Figure(RowOf(old, x), what)][id] = Figure(RowOf(old, id), what)
    OBVIOUS
  <2> QED  BY <2>1
<1>12. PICK g : \A id \in S : g[id] = Figure(RowOf(new, id), what)
  <2>1. \A id \in S : [x \in S |-> Figure(RowOf(new, x), what)][id] = Figure(RowOf(new, id), what)
    OBVIOUS
  <2> QED  BY <2>1
<1>13. \A id \in S : RowOf(new, id) = IF id \in ids THEN CreditRow(RowOf(old, id), tracks[tid].state, delta)
                                      ELSE RowOf(old, id)
  <2>1. \A id \in DOMAIN new.stats : RowOf(new, id) = new.stats[id]
    BY DEF RowOf
  <2>2. \A id : id \notin DOMAIN new.stats => RowOf(new, id) = NoRow /\ RowOf(old, id) = NoRow /\ id \notin ids
    BY <1>2 DEF RowOf
  <2> HIDE DEF new, old, ids
  <2> QED  BY <1>2, <1>9, <2>1, <2>2
<1>14. touches => Figure(CreditRow(RowOf(old, me), tracks[tid].state, delta), what)
                    = Figure(RowOf(old, me), what)
                        + (IF what = "observed" \/ tracks[tid].state = "runnable" THEN delta ELSE 0)
  <2>1. RowOf(old, me) \in RowType
    BY <1>3
  <2> QED  BY <1>8, <2>1, CreditFigure
<1>15. /\ Here(n, tid, what) = Amount(old.stats, tid, what) /\ Amount(reports'[n].threads, tid, what) = Amount(new.stats, tid, what)
       /\ AddedAtBoundary(tid, what) = IF touches /\ (what = "observed" \/ tracks[tid].state = "runnable") THEN delta ELSE 0
  BY <1>1 DEF Here, AddedAtBoundary
<1> HIDE DEF old, new, ids, me, touches, delta
<1>16. /\ Amount(old.stats, tid, what) = SumFunctionOnSet(f, S) /\ \A id \in S : f[id] \in Int
       /\ Amount(old.stats, tid, what) \in Int
  <2>1. Covers(S, f, old, tid, what)
    BY <1>3, <1>7, <1>9, <1>11 DEF Covers
  <2> QED  BY <2>1, AmountOver
<1>17. Amount(new.stats, tid, what) = SumFunctionOnSet(g, S) /\ \A id \in S : g[id] \in Int
  <2>1. Covers(S, g, new, tid, what)
    BY <1>3, <1>7, <1>9, <1>10, <1>12 DEF Covers
  <2> QED  BY <2>1, AmountOver
<1>18. CASE ~touches
  <2>1. \A id \in S : g[id] = f[id]
    BY <1>4, <1>9, <1>11, <1>12, <1>13, <1>18
  <2>2. SumFunctionOnSet(g, S) = SumFunctionOnSet(f, S)
    BY <1>7, <1>16, <1>17, <2>1, SumSame
  <2> QED  BY <1>15, <1>16, <1>17, <1>18, <2>2
<1>19. CASE touches
  <2>1. me \in S /\ \A id \in S \ {me} : g[id] = f[id]
    BY <1>4, <1>9, <1>11, <1>12, <1>13, <1>19
  <2>2. SumFunctionOnSet(g, S) = SumFunctionOnSet(f, S) + (g[me] - f[me])
    BY <1>7, <1>16, <1>17, <2>1, OneTermChanges
  <2>3. g[me] = f[me] + (IF what = "observed" \/ tracks[tid].state = "runnable" THEN delta ELSE 0)
    BY <1>5, <1>11, <1>12, <1>13, <1>14, <1>19, <2>1
  <2> QED  BY <1>8, <1>15, <1>16, <1>17, <1>19, <2>1, <2>2, <2>3
<1> QED  BY <1>18, <1>19

LEMMA FlushAmount ==
  ASSUME CountedInv, FinishFlush, NEW n, n = nextWindow, NEW i, NEW tid, NEW what
  PROVE  Here(i, tid, what)' = IF i = n THEN 0 ELSE Here(i, tid, what)
<1>1. OrderInv /\ TypeOK /\ lost \in Nat /\ Advance(lost)
  BY DEF CountedInv, OrderInv, TimelineInv, RunTypeOK, FinishFlush
<1> DEFINE new == WindowOf(windows', i)
           old == WindowOf(windows, i)
<1>2. i # n => DOMAIN new.stats = DOMAIN old.stats /\ \A id : RowOf(new, id) = RowOf(old, id)
  BY <1>1, AdvanceEffect
<1>3. WindowOf(windows', n) = NoWindow
  BY <1>1, AdvanceEffect
<1>4. \A w : Amount(w.stats, tid, what)
               = SumFunctionOnSet([id \in RowsOf(w.stats, tid) |-> Figure(RowOf(w, id), what)], RowsOf(w.stats, tid))
  <2> SUFFICES ASSUME NEW w
               PROVE  Amount(w.stats, tid, what)
               = SumFunctionOnSet([id \in RowsOf(w.stats, tid) |-> Figure(RowOf(w, id), what)], RowsOf(w.stats, tid))
    OBVIOUS
  <2>1. [id \in RowsOf(w.stats, tid) |-> Figure(RowOf(w, id), what)]
          = [id \in RowsOf(w.stats, tid) |-> Figure(w.stats[id], what)]
    BY DEF RowOf, RowsOf
  <2> QED  BY <2>1 DEF Amount, SumFunction
<1>5. RowsOf(NoWindow.stats, tid) = {}
  BY DEF NoWindow, RowsOf
<1>6. Here(i, tid, what)' = Amount(new.stats, tid, what) /\ Here(i, tid, what) = Amount(old.stats, tid, what)
  BY DEF Here
<1>7. CASE i = n
  <2>1. new = NoWindow
    BY <1>3, <1>7
  <2>2. Amount(NoWindow.stats, tid, what) = 0
    BY <1>4, <1>5, SumOfNone
  <2> HIDE DEF new
  <2> QED  BY <1>6, <1>7, <2>1, <2>2
<1>8. CASE i # n
  <2>1. RowsOf(new.stats, tid) = RowsOf(old.stats, tid)
    BY <1>2, <1>8 DEF RowsOf
  <2> HIDE DEF new, old
  <2>2. [id \in RowsOf(new.stats, tid) |-> Figure(RowOf(new, id), what)]
          = [id \in RowsOf(old.stats, tid) |-> Figure(RowOf(old, id), what)]
    BY <1>2, <1>8, <2>1
  <2> QED  BY <1>4, <1>6, <1>8, <2>1, <2>2
<1> QED  BY <1>7, <1>8

----------------------------------------------------------------------------
(* The rows of a TID are of different times *)

\* The time in a window before the end of the last segment of a TID.
Past(i, tid) == IF tid \in DOMAIN tracks THEN Overlap(i, origin, tracks[tid].since) ELSE 0

DisjointInv ==
  /\ CountedInv
  /\ \A i \in Nat, tid \in Tids : Here(i, tid, "observed") <= Past(i, tid)
  /\ \A i \in DOMAIN reports, tid \in Tids : Amount(reports[i].threads, tid, "observed") <= Interval

LEMMA OverlapGrows ==
  ASSUME origin \in Nat, NEW i \in Nat, NEW a \in Nat, NEW b \in Nat, NEW c \in Nat, a <= b, b <= c
  PROVE  Overlap(i, a, b) <= Overlap(i, a, c)
<1>1. Overlap(i, a, c) = Overlap(i, a, b) + Overlap(i, b, c)
  BY OverlapAdds
<1>2. Overlap(i, a, b) \in Nat /\ Overlap(i, b, c) \in Nat
  BY OverlapType
<1> QED  BY <1>1, <1>2

LEMMA OverlapIsBounded ==
  ASSUME origin \in Nat, NEW i \in Nat, NEW a \in Nat, NEW b \in Nat
  PROVE  Overlap(i, a, b) <= Interval
<1>1. WindowStart(i) \in Nat /\ WindowEnd(i) = WindowStart(i) + Interval /\ Interval \in Nat
  BY WindowBounds, IntervalAssumption
<1> QED  BY <1>1 DEF Overlap, later, earlier

\* The last segment of a TID ended no later than the one of the event's track, when a
\* thread takes the TID over.
LEMMA SegmentsFollow ==
  ASSUME OrderInv, ring # << >>, NEW e, e = Head(ring), ~Behind(e)
  PROVE  /\ TrackOf(e).since \in Nat /\ origin <= TrackOf(e).since
         /\ e.tid \in DOMAIN tracks => tracks[e.tid].since \in Nat /\ origin <= tracks[e.tid].since
                                       /\ tracks[e.tid].since <= TrackOf(e).since
<1>1. /\ TrackOf(e) \in TrackType /\ e \in Pending(e.tid) /\ e.at \in Nat
      /\ e.at >= origin => e.at >= watermark
      /\ e.at < origin => watermark = origin
  BY NextToObserve
<1>2. TypeOK /\ TimelineInv /\ origin \in Nat /\ watermark \in Nat
  BY DEF OrderInv, TimelineInv, TypeOK
<1>3. TrackOf(e).since \in Nat
  BY <1>1 DEF TrackType
<1>4. CASE ~Known(e) \/ Replaces(e)
  <2>1. TrackOf(e).since = later(origin, e.at)
    BY <1>4 DEF TrackOf, NewTrack
  <2>2. ASSUME e.tid \in DOMAIN tracks
        PROVE  tracks[e.tid].since \in Nat /\ origin <= tracks[e.tid].since
               /\ tracks[e.tid].since <= later(watermark, e.at)
    <3>1. tracks[e.tid].since \in Nat
      BY <1>2, <2>2, TrackFields
    <3>2. Bounded(tracks[e.tid]) /\ TrackInOrder(e.tid, tracks[e.tid])
      BY <1>2, <2>2 DEF TimelineInv, TracksAreBounded, OrderInv, TracksInOrder
    <3> QED  BY <1>1, <3>1, <3>2 DEF Bounded, TrackInOrder
  <2> QED  BY <1>1, <1>2, <1>3, <2>1, <2>2 DEF later
<1>5. CASE Known(e) /\ ~Replaces(e)
  <2>1. e.tid \in DOMAIN tracks /\ tracks[e.tid] \in TrackType
    BY <1>2, <1>5, TrackFields DEF Known
  <2>2. TrackOf(e).since = tracks[e.tid].since
    BY <1>5, <2>1 DEF TrackOf, TrackType
  <2>3. Bounded(tracks[e.tid])
    BY <1>2, <2>1 DEF TimelineInv, TracksAreBounded
  <2> QED  BY <1>3, <2>2, <2>3 DEF Bounded
<1> QED  BY <1>4, <1>5

\* Where an event leaves the segments of its TID.
LEMMA HeardSince ==
  ASSUME OrderInv, ring # << >>, NEW e, e = Head(ring), ~Behind(e), NEW track, Heard(track, e)
  PROVE  /\ track.since \in Nat
         /\ e.at < origin => track.since = TrackOf(e).since \/ track.since = origin
         /\ e.at >= origin => track.since = e.at /\ TrackOf(e).since <= e.at
<1>1. /\ TrackOf(e) \in TrackType /\ e \in EventType /\ e.at \in Nat
      /\ e.at >= origin => InOrder(TrackOf(e), e)
  BY NextToObserve
<1>2. origin \in Nat
  BY DEF OrderInv, TimelineInv, TypeOK
<1>3. /\ Applied(TrackOf(e), e, FALSE, origin).since = origin
      /\ Applied(TrackOf(e), e, TRUE, e.at).since = e.at
  <2>1. \A measure \in BOOLEAN : \A m \in Nat : Applied(TrackOf(e), e, measure, m).since = m
    BY <1>1, AppliedFields
  <2> QED  BY <1>1, <1>2, <2>1
<1>4. e.at >= origin => TrackOf(e).since <= e.at
  <2>1. TrackOf(e).since \in Nat
    BY <1>1 DEF TrackType
  <2> QED  BY <1>1, <2>1 DEF InOrder
<1>5. TrackOf(e).since \in Nat
  BY <1>1 DEF TrackType
<1>6. CASE e.at < origin /\ track = TrackOf(e)
  BY <1>1, <1>2, <1>5, <1>6
<1>7. CASE e.at < origin /\ track = Applied(TrackOf(e), e, FALSE, origin)
  <2>1. track.since = origin /\ e.at < origin
    BY <1>3, <1>7
  <2>2. e.at \in Nat
    BY <1>1
  <2> QED  BY <1>2, <2>1, <2>2
<1>8. CASE e.at >= origin /\ track = Applied(TrackOf(e), e, TRUE, e.at)
  <2>1. track.since = e.at /\ e.at >= origin
    BY <1>3, <1>8
  <2>2. e.at \in Nat
    BY <1>1
  <2> QED  BY <1>2, <1>4, <2>1, <2>2
<1>9. \/ e.at < origin /\ track = TrackOf(e)
      \/ e.at < origin /\ track = Applied(TrackOf(e), e, FALSE, origin)
      \/ e.at >= origin /\ track = Applied(TrackOf(e), e, TRUE, e.at)
  BY DEF Heard
<1> QED  BY <1>6, <1>7, <1>8, <1>9

LEMMA DeliverDisjoint ==
  ASSUME DisjointInv, Deliver, NEW i \in Nat, NEW tid \in Tids
  PROVE  Here(i, tid, "observed")' <= Past(i, tid)'
<1>0. PICK e : e = Head(ring)
  OBVIOUS
<1>1. CountedInv /\ OrderInv /\ RunTypeOK /\ TypeOK /\ origin \in Nat
  BY DEF DisjointInv, CountedInv, OrderInv, TimelineInv, TypeOK
<1>2. /\ Behind(e) => tracks' = tracks
      /\ ~Behind(e) => /\ DOMAIN tracks' = DOMAIN tracks \cup {e.tid}
                       /\ Heard(tracks'[e.tid], e)
                       /\ \A u \in DOMAIN tracks \ {e.tid} : tracks'[u] = tracks[u]
      /\ origin' = origin /\ nextWindow' = nextWindow /\ ring # << >>
  BY <1>0, <1>1, DeliverTrack
<1>3. Here(i, tid, "observed")' = Here(i, tid, "observed")
        + (IF ~Unheard(e) /\ e.tid = tid THEN Added(TrackOf(e), e, i, "observed") ELSE 0)
  BY <1>0, <1>1, DeliverAmount
<1>4. Here(i, tid, "observed") \in Int /\ Here(i, tid, "observed") <= Past(i, tid)
  BY <1>1, HereType DEF DisjointInv
<1>5. \A a, b : Overlap(i, a, b)' = Overlap(i, a, b)
  BY <1>2 DEF Overlap, WindowStart, WindowEnd
<1>6. Past(i, tid)' = IF tid \in DOMAIN tracks' THEN Overlap(i, origin, tracks'[tid].since) ELSE 0
  BY <1>2 DEF Past, Overlap, WindowStart, WindowEnd
<1>7. CASE Behind(e) \/ e.tid # tid
  <2>1. Past(i, tid)' = Past(i, tid)
    BY <1>2, <1>6, <1>7 DEF Past
  <2>2. Here(i, tid, "observed")' = Here(i, tid, "observed")
    BY <1>3, <1>4, <1>7 DEF Unheard
  <2> QED  BY <1>4, <2>1, <2>2
<1>8. CASE ~Behind(e) /\ e.tid = tid
  <2> DEFINE since == TrackOf(e).since
             after == tracks'[tid].since
  <2>1. /\ since \in Nat /\ origin <= since
        /\ tid \in DOMAIN tracks => tracks[tid].since \in Nat /\ origin <= tracks[tid].since
                                    /\ tracks[tid].since <= since
    BY <1>0, <1>1, <1>2, <1>8, SegmentsFollow
  <2>2. /\ after \in Nat
        /\ e.at < origin => after = since \/ after = origin
        /\ e.at >= origin => after = e.at /\ since <= e.at
    BY <1>0, <1>1, <1>2, <1>8, HeardSince
  <2>3. e.at \in Nat /\ (Unheard(e) <=> e.at < origin)
    BY <1>0, <1>1, <1>2, <1>8, NextToObserve DEF Unheard
  <2>4. Past(i, tid)' = Overlap(i, origin, after)
    BY <1>2, <1>6, <1>8
  <2>5. Added(TrackOf(e), e, i, "observed") = IF i \in TouchedWindows(since, e.at) THEN Overlap(i, since, e.at) ELSE 0
    BY DEF Added
  <2> HIDE DEF since, after
  <2>6. Past(i, tid) <= Overlap(i, origin, since) /\ Past(i, tid) \in Nat /\ Overlap(i, origin, since) \in Nat
    <3>1. CASE tid \in DOMAIN tracks
      BY <1>1, <2>1, <3>1, OverlapGrows, OverlapType DEF Past
    <3>2. CASE tid \notin DOMAIN tracks
      BY <1>1, <2>1, <3>2, OverlapType DEF Past
    <3> QED  BY <3>1, <3>2
  <2>7. CASE e.at < origin
    <3>1. Here(i, tid, "observed")' = Here(i, tid, "observed")
      BY <1>3, <1>4, <2>3, <2>7
    <3>2. CASE after = since
      BY <1>4, <2>4, <2>6, <3>1, <3>2
    <3>3. CASE after = origin
      <4>1. WindowStart(nextWindow) = origin
        <5>1. watermark = origin /\ nextWindow = 0
          BY <1>0, <1>1, <1>2, <1>8, <2>7, NextToObserve
        <5>2. watermark = WindowStart(nextWindow)
          BY <1>1 DEF OrderInv, TimelineInv, Timeline
        <5> QED  BY <5>1, <5>2
      <4>2. since = origin
        <5>1. /\ TrackOf(e).since <= later(watermark, e.at) /\ watermark = origin
              /\ e.at \in Nat
          BY <1>0, <1>1, <1>2, <1>8, <2>7, NextToObserve
        <5> QED  BY <1>1, <2>1, <2>7, <5>1 DEF since, later
      <4> QED  BY <1>4, <2>4, <2>6, <3>1, <3>3, <4>2
    <3> QED  BY <2>2, <2>7, <3>2, <3>3
  <2>8. CASE e.at >= origin
    <3>1. Overlap(i, origin, e.at) = Overlap(i, origin, since) + Overlap(i, since, e.at)
          /\ Overlap(i, since, e.at) \in Nat
      <4>1. origin <= since /\ since <= e.at /\ since \in Nat /\ e.at \in Nat /\ origin \in Nat
        BY <1>1, <2>1, <2>2, <2>3, <2>8
      <4> HIDE DEF since
      <4>2. Overlap(i, since, e.at) \in Nat
        BY <4>1, OverlapType
      <4> QED  BY <4>1, <4>2, OverlapAdds
    <3>2. Added(TrackOf(e), e, i, "observed") <= Overlap(i, since, e.at)
          /\ Added(TrackOf(e), e, i, "observed") \in Nat
      BY <2>5, <3>1
    <3>3. ~Unheard(e)
      BY <1>1, <2>3, <2>8
    <3> QED  BY <1>3, <1>4, <1>8, <2>2, <2>4, <2>6, <2>8, <3>1, <3>2, <3>3
  <2> QED  BY <1>1, <2>3, <2>7, <2>8
<1> QED  BY <1>7, <1>8

LEMMA FinishFlushDisjoint ==
  ASSUME DisjointInv, FinishFlush
  PROVE  /\ \A i \in Nat, tid \in Tids : Here(i, tid, "observed")' <= Past(i, tid)'
         /\ \A i \in DOMAIN reports', tid \in Tids : Amount(reports'[i].threads, tid, "observed") <= Interval
<1>0. PICK n : n = nextWindow
  OBVIOUS
<1>1. /\ CountedInv /\ OrderInv /\ RunTypeOK /\ TypeOK /\ lost \in Nat /\ Advance(lost)
      /\ origin \in Nat /\ n \in Nat /\ NextBoundary \in Nat /\ NextBoundary = WindowEnd(n)
      /\ origin' = origin /\ origin <= NextBoundary
  <2>1. CountedInv /\ OrderInv /\ RunTypeOK /\ TypeOK /\ lost \in Nat /\ Advance(lost)
    BY DEF DisjointInv, CountedInv, OrderInv, TimelineInv, RunTypeOK, FinishFlush
  <2>2. origin \in Nat /\ n \in Nat
    BY <1>0, <2>1 DEF TypeOK
  <2>3. WindowStart(n) \in Nat /\ WindowEnd(n) \in Nat /\ origin <= WindowStart(n)
        /\ WindowEnd(n) = WindowStart(n) + Interval /\ Interval \in Nat
    BY <2>2, WindowBounds, IntervalAssumption
  <2> QED  BY <1>0, <2>1, <2>2, <2>3 DEF NextBoundary, Advance
<1>2. \A tid \in DOMAIN tracks : tracks[tid].since \in Nat /\ origin <= tracks[tid].since
  BY <1>1, TrackFields DEF OrderInv, TimelineInv, TracksAreBounded, Bounded
<1>3. tracks' = [tid \in DOMAIN tracks |->
                   IF tid \in Live THEN [tracks[tid] EXCEPT !.since = NextBoundary] ELSE tracks[tid]]
  BY <1>1 DEF Advance
<1>4. ASSUME NEW tid \in DOMAIN tracks
      PROVE  /\ tid \in DOMAIN tracks' /\ tracks'[tid].since \in Nat /\ tracks[tid].since <= tracks'[tid].since
             /\ tid \in Live => tracks'[tid].since = NextBoundary
  <2>1. CASE tid \in Live
    <3>1. tracks'[tid].since = NextBoundary
      BY <1>1, <1>3, <2>1, TrackFields DEF TrackType
    <3> QED  BY <1>1, <1>2, <1>3, <2>1, <3>1 DEF Live
  <2>2. CASE tid \notin Live
    BY <1>2, <1>3, <2>2
  <2> QED  BY <2>1, <2>2
<1>5. \A i, tid : Here(i, tid, "observed")' = IF i = n THEN 0 ELSE Here(i, tid, "observed")
  BY <1>0, <1>1, FlushAmount
<1>6. \A i \in Nat, tid \in Tids : Here(i, tid, "observed") \in Int /\ Here(i, tid, "observed") <= Past(i, tid)
  BY <1>1, HereType DEF DisjointInv
<1>7. ASSUME NEW i \in Nat, NEW tid \in Tids
      PROVE  /\ Past(i, tid)' \in Nat /\ Past(i, tid) \in Nat /\ Past(i, tid) <= Past(i, tid)'
             /\ Past(i, tid) <= Interval
  <2>0. \A a, b : Overlap(i, a, b)' = Overlap(i, a, b)
    BY <1>1 DEF Overlap, WindowStart, WindowEnd
  <2>1. Past(i, tid)' = IF tid \in DOMAIN tracks THEN Overlap(i, origin, tracks'[tid].since) ELSE 0
    BY <1>1, <1>3, <2>0 DEF Past, Overlap, WindowStart, WindowEnd
  <2>2. CASE tid \in DOMAIN tracks
    <3>1. Overlap(i, origin, tracks[tid].since) <= Overlap(i, origin, tracks'[tid].since)
      BY <1>1, <1>2, <1>4, <2>2, OverlapGrows
    <3>2. Overlap(i, origin, tracks[tid].since) \in Nat /\ Overlap(i, origin, tracks'[tid].since) \in Nat
      BY <1>1, <1>2, <1>4, <2>2, OverlapType
    <3>3. Overlap(i, origin, tracks[tid].since) <= Interval
      BY <1>1, <1>2, <2>2, OverlapIsBounded
    <3> QED  BY <2>1, <2>2, <3>1, <3>2, <3>3 DEF Past
  <2>3. CASE tid \notin DOMAIN tracks
    BY <2>1, <2>3, IntervalAssumption DEF Past
  <2> QED  BY <2>2, <2>3
<1>8. \A i \in Nat, tid \in Tids : Here(i, tid, "observed")' <= Past(i, tid)'
  BY <1>5, <1>6, <1>7
<1>9. ASSUME NEW tid \in Tids
      PROVE  Amount(reports'[n].threads, tid, "observed") <= Interval
  <2>1. Amount(reports'[n].threads, tid, "observed") = Here(n, tid, "observed") + AddedAtBoundary(tid, "observed")
    BY <1>0, <1>1, BoundaryAmount
  <2>2. AddedAtBoundary(tid, "observed") =
          IF tid \in Live /\ n \in TouchedWindows(tracks[tid].since, NextBoundary)
          THEN Overlap(n, tracks[tid].since, NextBoundary) ELSE 0
    BY <1>0 DEF AddedAtBoundary
  <2>3. Here(n, tid, "observed") \in Int /\ Here(n, tid, "observed") <= Past(n, tid)
        /\ Past(n, tid) \in Nat /\ Past(n, tid) <= Interval /\ Interval \in Nat
    BY <1>1, <1>6, <1>7, IntervalAssumption
  <2>4. CASE tid \in Live
    <3>1. tid \in DOMAIN tracks /\ tracks[tid].since < NextBoundary
      BY <2>4, <1>1, <1>2 DEF Live
    <3>2. Overlap(n, origin, NextBoundary)
            = Overlap(n, origin, tracks[tid].since) + Overlap(n, tracks[tid].since, NextBoundary)
      BY <1>1, <1>2, <3>1, OverlapAdds
    <3>3. Overlap(n, origin, NextBoundary) <= Interval
      BY <1>1, OverlapIsBounded
    <3>4. Overlap(n, origin, tracks[tid].since) \in Nat /\ Overlap(n, tracks[tid].since, NextBoundary) \in Nat
      BY <1>1, <1>2, <3>1, OverlapType
    <3>5. Past(n, tid) = Overlap(n, origin, tracks[tid].since)
      BY <3>1 DEF Past
    <3>6. AddedAtBoundary(tid, "observed") \in Nat
          /\ AddedAtBoundary(tid, "observed") <= Overlap(n, tracks[tid].since, NextBoundary)
      BY <2>2, <3>4
    <3>7. Overlap(n, origin, NextBoundary) \in Nat
      BY <1>1, OverlapType
    <3> QED  BY <2>1, <2>3, <3>2, <3>3, <3>4, <3>5, <3>6, <3>7
  <2>5. CASE tid \notin Live
    BY <2>1, <2>2, <2>3, <2>5
  <2> QED  BY <2>4, <2>5
<1>10. DOMAIN reports' = DOMAIN reports \cup {n} /\ \A i \in DOMAIN reports : reports'[i] = reports[i]
  BY <1>0, <1>1, AdvanceEffect
<1>11. \A i \in DOMAIN reports', tid \in Tids : Amount(reports'[i].threads, tid, "observed") <= Interval
  BY <1>9, <1>10 DEF DisjointInv
<1> QED  BY <1>8, <1>11

LEMMA DisjointStep == DisjointInv /\ [RunNext]_<<vars, runVars>> => DisjointInv'
<1> SUFFICES ASSUME DisjointInv, [RunNext]_<<vars, runVars>>  PROVE  DisjointInv'
  OBVIOUS
<1>1. CountedInv /\ CountedInv' /\ RunTypeOK /\ scenario' = scenario
  <2>1. CountedInv /\ OrderInv /\ RunTypeOK
    BY DEF DisjointInv, CountedInv, OrderInv
  <2>2. CountedInv'
    BY <2>1, CountedStep
  <2>3. scenario' = scenario
    <3>1. CASE UNCHANGED <<vars, runVars>>
      BY <3>1 DEF runVars
    <3>2. CASE RunNext
      BY <2>1, <3>2, RunSteps DEF Fired, Submit, Tick, Deliver, StartFlush, FinishFlush
    <3> QED  BY <3>1, <3>2
  <2> QED  BY <2>1, <2>2, <2>3
<1>2. Tids' = Tids
  BY <1>1 DEF Tids
<1>3. CASE UNCHANGED vars
  <2>1. \A i, tid : Here(i, tid, "observed")' = Here(i, tid, "observed") /\ Past(i, tid)' = Past(i, tid)
    BY <1>3 DEF vars, Here, Past, Overlap, WindowStart, WindowEnd
  <2> QED  BY <1>1, <1>2, <1>3, <2>1 DEF vars, DisjointInv
<1>4. CASE Deliver
  <2>1. reports' = reports
    BY <1>4 DEF Deliver, Observe
  <2> QED  BY <1>1, <1>2, <1>4, <2>1, DeliverDisjoint DEF DisjointInv
<1>5. CASE FinishFlush
  BY <1>1, <1>2, <1>5, FinishFlushDisjoint DEF DisjointInv
<1>6. UNCHANGED vars \/ Deliver \/ FinishFlush
  BY <1>1, RunSteps DEF Fired, Submit, Tick, StartFlush
<1> QED  BY <1>3, <1>4, <1>5, <1>6

LEMMA RunInitDisjoint == RunInit => DisjointInv
<1> SUFFICES ASSUME RunInit  PROVE  DisjointInv
  OBVIOUS
<1>1. PICK snapshot \in SnapshotsOf(scenario) : InitFrom(snapshot)
  BY RunStarts
<1>2. windows = << >> /\ reports = << >>
  BY <1>1 DEF InitFrom
<1>3. CountedInv
  BY RunInitCounted
<1>4. origin \in Nat /\ TypeOK
  BY <1>3 DEF CountedInv, OrderInv, TimelineInv, TypeOK
<1>5. \A i, tid : Here(i, tid, "observed") = 0
  <2> SUFFICES ASSUME NEW i, NEW tid  PROVE  Here(i, tid, "observed") = 0
    OBVIOUS
  <2>1. WindowOf(windows, i) = NoWindow
    BY <1>2 DEF WindowOf
  <2>2. RowsOf(NoWindow.stats, tid) = {}
    BY DEF NoWindow, RowsOf
  <2> QED  BY <2>1, <2>2, SumOfNone DEF Here, Amount, SumFunction
<1>6. \A i \in Nat, tid \in Tids : Past(i, tid) \in Nat
  BY <1>4, TrackFields, OverlapType DEF Past
<1>7. DOMAIN reports = {}
  BY <1>2
<1> QED  BY <1>3, <1>5, <1>6, <1>7 DEF DisjointInv

\* In a window, the rows of a TID have no more time than the segments of the TID up to
\* the end of the last one: a segment is credited to one row, and the segments of all
\* the threads that have the TID follow each other.
THEOREM DisjointInvariant == RunSpec => []DisjointInv
<1>1. RunInit => DisjointInv
  BY RunInitDisjoint
<1>2. DisjointInv /\ [RunNext]_<<vars, runVars>> => DisjointInv'
  BY DisjointStep
<1> QED  BY <1>1, <1>2, PTL DEF RunSpec

\* The rows of a TID in one report claim no more time than the interval has, in
\* whichever order the threads of the TID and their events come (Observe,
\* addTrackSegment, Advance).
THEOREM RowsAreDisjoint == RunSpec => []RowsOfOneTidAreDisjoint
<1>1. DisjointInv => RowsOfOneTidAreDisjoint
  <2> SUFFICES ASSUME DisjointInv, NEW i \in DOMAIN reports, NEW tid \in Tids
               PROVE  SumFunction([id \in RowsOf(reports[i].threads, tid) |-> reports[i].threads[id].observed])
                        <= Interval
    BY DEF RowsOfOneTidAreDisjoint
  <2>1. [id \in RowsOf(reports[i].threads, tid) |-> reports[i].threads[id].observed]
          = [id \in RowsOf(reports[i].threads, tid) |-> Figure(reports[i].threads[id], "observed")]
    BY DEF Figure
  <2> QED  BY <2>1 DEF DisjointInv, Amount
<1> QED  BY <1>1, DisjointInvariant, PTL

----------------------------------------------------------------------------
(* Every event is counted once *)

\* The events from before the end of the initial scan are observed before the first
\* boundary: what waits for it counts them in.
ScanEventsComeFirst ==
  /\ \A i \in DOMAIN ring :
       ring[i].at < Origin => ~advanced /\ (barrier # NoFlush => i <= barrier)
  /\ \A tid \in Tids : inflight[tid] # NoEvent => inflight[tid].at >= Origin

InFlight == {tid \in Tids : inflight[tid] # NoEvent}
Queued == {i \in DOMAIN ring : ring[i].at >= Origin}
CountsOf(ws) == SumFunction([i \in DOMAIN ws |-> ws[i].events + ws[i].late])

Accounted ==
  emitted = lost + Cardinality(InFlight) + Cardinality(Queued) + CountsOf(windows) + CountsOf(reports)

LEMMA AccountedForm == EventsAreAccounted <=> Accounted
BY DEF EventsAreAccounted, Accounted, InFlight, Queued, CountsOf

AccountedInv == CountedInv /\ ScanEventsComeFirst /\ Accounted

LEMMA CardinalityType ==
  ASSUME RunTypeOK
  PROVE  /\ IsFiniteSet(InFlight) /\ Cardinality(InFlight) \in Nat
         /\ IsFiniteSet(Queued) /\ Cardinality(Queued) \in Nat
<1>1. IsFiniteSet(Tids)
  BY ScenarioType DEF RunTypeOK
<1>2. Len(ring) \in Nat /\ DOMAIN ring = 1 .. Len(ring)
  BY DEF RunTypeOK
<1>3. IsFiniteSet(DOMAIN ring)
  BY <1>2, FS_Interval
<1>4. IsFiniteSet(InFlight) /\ IsFiniteSet(Queued)
  BY <1>1, <1>3, FS_Subset DEF InFlight, Queued
<1> QED  BY <1>4, FS_CardinalityType

\* The counts of a map of windows or reports, over any finite set that has its indices.
IsCounts(f, S, ws) ==
  /\ IsFiniteSet(S) /\ DOMAIN ws \subseteq S
  /\ \A i \in DOMAIN ws : ws[i].events \in Nat /\ ws[i].late \in Nat
  /\ \A i \in S : f[i] = IF i \in DOMAIN ws THEN ws[i].events + ws[i].late ELSE 0

LEMMA CountsOver ==
  ASSUME NEW ws, NEW S, NEW f, IsCounts(f, S, ws)
  PROVE  /\ CountsOf(ws) = SumFunctionOnSet(f, S) /\ CountsOf(ws) \in Int
         /\ \A i \in S : f[i] \in Int
<1> DEFINE D == DOMAIN ws
           g == [i \in D |-> ws[i].events + ws[i].late]
<1>1. /\ IsFiniteSet(S) /\ D \subseteq S
      /\ \A i \in D : g[i] = f[i] /\ f[i] \in Int
      /\ \A i \in S \ D : f[i] = 0
      /\ \A i \in S : f[i] \in Int
  BY DEF IsCounts
<1>2. CountsOf(ws) = SumFunctionOnSet(g, D)
  BY DEF CountsOf, SumFunction
<1> HIDE DEF D, g
<1>3. IsFiniteSet(D)
  BY <1>1, FS_Subset
<1>4. SumFunctionOnSet(f, S) = SumFunctionOnSet(f, D)
  BY <1>1, SumOfSupport
<1>5. SumFunctionOnSet(f, D) = SumFunctionOnSet(g, D)
  BY <1>1, <1>3, SumSame
<1>6. SumFunctionOnSet(f, S) \in Int
  BY <1>1, SumInt
<1> QED  BY <1>1, <1>2, <1>4, <1>5, <1>6

LEMMA CountsExist ==
  ASSUME NEW ws, NEW S, IsFiniteSet(S), DOMAIN ws \subseteq S,
         \A i \in DOMAIN ws : ws[i].events \in Nat /\ ws[i].late \in Nat
  PROVE  \E f : IsCounts(f, S, ws)
<1> DEFINE f == [i \in S |-> IF i \in DOMAIN ws THEN ws[i].events + ws[i].late ELSE 0]
<1>1. \A i \in S : f[i] = IF i \in DOMAIN ws THEN ws[i].events + ws[i].late ELSE 0
  OBVIOUS
<1> HIDE DEF f
<1> QED  BY <1>1 DEF IsCounts

\* The counts of two maps that differ by n at one index.
LEMMA OneCountChanges ==
  ASSUME NEW ws, NEW vs, IsFiniteSet(DOMAIN ws), IsFiniteSet(DOMAIN vs), NEW k, NEW n \in Int,
         \A i \in DOMAIN ws : ws[i].events \in Nat /\ ws[i].late \in Nat,
         \A i \in DOMAIN vs : vs[i].events \in Nat /\ vs[i].late \in Nat,
         \A i : (IF i \in DOMAIN vs THEN vs[i].events + vs[i].late ELSE 0)
                  = (IF i \in DOMAIN ws THEN ws[i].events + ws[i].late ELSE 0) + (IF i = k THEN n ELSE 0)
  PROVE  CountsOf(ws) \in Int /\ CountsOf(vs) = CountsOf(ws) + n
<1> DEFINE S == DOMAIN ws \cup DOMAIN vs \cup {k}
<1>1. IsFiniteSet(S)
  <2>1. IsFiniteSet(DOMAIN ws \cup DOMAIN vs)
    BY FS_Union
  <2> QED  BY <2>1, FS_AddElement
<1>2. DOMAIN ws \subseteq S /\ DOMAIN vs \subseteq S /\ k \in S
  OBVIOUS
<1> HIDE DEF S
<1>3. PICK f : IsCounts(f, S, ws)
  BY <1>1, <1>2, CountsExist
<1>4. PICK g : IsCounts(g, S, vs)
  BY <1>1, <1>2, CountsExist
<1>5. /\ CountsOf(ws) = SumFunctionOnSet(f, S) /\ CountsOf(ws) \in Int /\ \A i \in S : f[i] \in Int
      /\ CountsOf(vs) = SumFunctionOnSet(g, S) /\ \A i \in S : g[i] \in Int
  BY <1>3, <1>4, CountsOver
<1>6. \A i \in S : g[i] = f[i] + (IF i = k THEN n ELSE 0)
  BY <1>3, <1>4 DEF IsCounts
<1>7. \A i \in S \ {k} : g[i] = f[i]
  BY <1>5, <1>6
<1>8. g[k] - f[k] = n
  BY <1>2, <1>5, <1>6
<1>9. SumFunctionOnSet(g, S) = SumFunctionOnSet(f, S) + (g[k] - f[k])
  BY <1>1, <1>2, <1>5, <1>7, OneTermChanges
<1> QED  BY <1>5, <1>8, <1>9

LEMMA CountFields ==
  ASSUME TypeOK
  PROVE  /\ \A i \in DOMAIN windows : windows[i].events \in Nat /\ windows[i].late \in Nat
         /\ \A i \in DOMAIN reports : reports[i].events \in Nat /\ reports[i].late \in Nat
         /\ IsFiniteSet(DOMAIN reports)
         /\ \A i : Count(i) + Late(i) = IF i \in DOMAIN windows THEN windows[i].events + windows[i].late ELSE 0
<1>1. \A i \in DOMAIN windows : windows[i].events \in Nat /\ windows[i].late \in Nat
  BY DEF TypeOK, IsWindows, IsWindow
<1>2. \A i \in DOMAIN reports : reports[i].events \in Nat /\ reports[i].late \in Nat
  BY DEF TypeOK, IsReport
<1>3. IsFiniteSet(DOMAIN reports)
  <2>1. 0 \in Int /\ nextWindow - 1 \in Int /\ DOMAIN reports = 0 .. nextWindow - 1
    BY DEF TypeOK
  <2> QED  BY <2>1, FS_Interval
<1>4. \A i : Count(i) + Late(i) = IF i \in DOMAIN windows THEN windows[i].events + windows[i].late ELSE 0
  BY DEF Count, Late, WindowOf, NoWindow
<1> QED  BY <1>1, <1>2, <1>3, <1>4

LEMMA FiredAccounts ==
  ASSUME AccountedInv, CountedInv', NEW tid \in Tids, NEW e, NEW t, Fired(tid, e, t)
  PROVE  ScanEventsComeFirst' /\ Accounted'
<1>1. /\ e.at = clock /\ e # NoEvent /\ inflight[tid] = NoEvent /\ inflight' = [inflight EXCEPT ![tid] = e]
      /\ emitted' = emitted + 1 /\ UNCHANGED <<scenario, ring, lost, barrier, advanced, windows, reports>>
  BY DEF Fired, vars
<1>2. RunTypeOK /\ clock \in Nat /\ Origin <= clock /\ inflight \in [Tids -> StreamEvents \cup {NoEvent}]
      /\ Tids' = Tids /\ Origin' = Origin
  BY <1>1, SameScenario DEF AccountedInv, CountedInv, OrderInv, RunTypeOK
<1>3. InFlight' = InFlight \cup {tid} /\ tid \notin InFlight
  BY <1>1, <1>2 DEF InFlight
<1>4. Cardinality(InFlight') = Cardinality(InFlight) + 1
  BY <1>2, <1>3, CardinalityType, FS_AddElement
<1>5. Queued' = Queued
  BY <1>1, <1>2 DEF Queued
<1>6. ScanEventsComeFirst'
  BY <1>1, <1>2 DEF AccountedInv, ScanEventsComeFirst
<1>7. CountsOf(windows)' = CountsOf(windows) /\ CountsOf(reports)' = CountsOf(reports)
  BY <1>1
<1>8. Accounted'
  <2>1. Cardinality(InFlight) \in Nat /\ Cardinality(Queued) \in Nat /\ lost \in Nat /\ emitted \in Nat
    BY <1>2, CardinalityType DEF RunTypeOK
  <2>2. CountsOf(windows) \in Int /\ CountsOf(reports) \in Int
    <3>1. TypeOK /\ IsFiniteSet(DOMAIN windows)
      BY DEF AccountedInv, CountedInv, OrderInv, TimelineInv, FiniteInv
    <3> QED  BY <3>1, CountFields, CountsExist, CountsOver
  <2>3. emitted = lost + Cardinality(InFlight) + Cardinality(Queued) + CountsOf(windows) + CountsOf(reports)
    BY DEF AccountedInv, Accounted
  <2>4. emitted' = lost' + Cardinality(InFlight') + Cardinality(Queued') + CountsOf(windows)' + CountsOf(reports)'
    BY <1>1, <1>4, <1>5, <1>7, <2>1, <2>2, <2>3
  <2> QED  BY <2>4 DEF Accounted
<1> QED  BY <1>6, <1>8

LEMMA AccountedSums ==
  ASSUME AccountedInv
  PROVE  /\ RunTypeOK /\ TypeOK /\ OrderInv /\ IsFiniteSet(DOMAIN windows)
         /\ IsFiniteSet(InFlight) /\ Cardinality(InFlight) \in Nat
         /\ IsFiniteSet(Queued) /\ Cardinality(Queued) \in Nat
         /\ lost \in Nat /\ emitted \in Nat /\ CountsOf(windows) \in Int /\ CountsOf(reports) \in Int
         /\ emitted = lost + Cardinality(InFlight) + Cardinality(Queued) + CountsOf(windows) + CountsOf(reports)
<1>1. RunTypeOK /\ TypeOK /\ OrderInv /\ IsFiniteSet(DOMAIN windows)
  BY DEF AccountedInv, CountedInv, OrderInv, TimelineInv, FiniteInv
<1>2. lost \in Nat /\ emitted \in Nat
  BY <1>1 DEF RunTypeOK
<1>3. CountsOf(windows) \in Int /\ CountsOf(reports) \in Int
  BY <1>1, CountFields, CountsExist, CountsOver
<1> QED  BY <1>1, <1>2, <1>3, CardinalityType DEF AccountedInv, Accounted

LEMMA SubmitAccounts ==
  ASSUME AccountedInv, NEW tid \in Tids, Submit(tid)
  PROVE  ScanEventsComeFirst' /\ Accounted'
<1>0. PICK e : e = inflight[tid]
  OBVIOUS
<1>1. /\ e # NoEvent /\ inflight' = [inflight EXCEPT ![tid] = NoEvent]
      /\ \/ ring' = Append(ring, e) /\ lost' = lost
         \/ ring' = ring /\ lost' = lost + 1
      /\ UNCHANGED <<scenario, emitted, barrier, advanced, windows, reports>>
  BY <1>0 DEF Submit, vars
<1>2. /\ Tids' = Tids /\ Origin' = Origin /\ inflight \in [Tids -> StreamEvents \cup {NoEvent}]
      /\ ring \in Seq(StreamEvents) /\ Len(ring) \in Nat /\ DOMAIN ring = 1 .. Len(ring)
  BY <1>1, AccountedSums, SameScenario DEF RunTypeOK
<1>3. e.at >= Origin /\ e \in StreamEvents
  BY <1>0, <1>1, <1>2 DEF AccountedInv, ScanEventsComeFirst
<1>4. InFlight' = InFlight \ {tid} /\ tid \in InFlight
  BY <1>0, <1>1, <1>2 DEF InFlight
<1>5. Cardinality(InFlight') = Cardinality(InFlight) - 1
  BY <1>4, AccountedSums, FS_RemoveElement
<1>6. CountsOf(windows)' = CountsOf(windows) /\ CountsOf(reports)' = CountsOf(reports)
  BY <1>1
<1>7. CASE ring' = ring /\ lost' = lost + 1
  <2>1. Queued' = Queued
    BY <1>2, <1>7 DEF Queued
  <2>2. ScanEventsComeFirst'
    BY <1>1, <1>2, <1>7 DEF AccountedInv, ScanEventsComeFirst
  <2>3. emitted' = lost' + Cardinality(InFlight') + Cardinality(Queued') + CountsOf(windows)' + CountsOf(reports)'
    BY <1>1, <1>5, <1>6, <1>7, <2>1, AccountedSums
  <2> QED  BY <2>2, <2>3 DEF Accounted
<1>8. CASE ring' = Append(ring, e) /\ lost' = lost
  <2> DEFINE last == Len(ring) + 1
  <2>1. /\ DOMAIN ring' = DOMAIN ring \cup {last} /\ last \notin DOMAIN ring
        /\ ring'[last] = e /\ \A i \in DOMAIN ring : ring'[i] = ring[i]
    <3>1. Len(ring') = Len(ring) + 1 /\ DOMAIN ring' = 1 .. Len(ring')
          /\ ring'[last] = e /\ \A i \in 1 .. Len(ring) : ring'[i] = ring[i]
      BY <1>2, <1>3, <1>8, AppendProperties
    <3> QED  BY <1>2, <3>1
  <2> HIDE DEF last
  <2>2. Queued' = Queued \cup {last} /\ last \notin Queued
    BY <1>2, <1>3, <2>1 DEF Queued
  <2>3. Cardinality(Queued') = Cardinality(Queued) + 1
    BY <2>2, AccountedSums, FS_AddElement
  <2>4. ScanEventsComeFirst'
    <3>1. \A i \in DOMAIN ring' : ring'[i].at < Origin => i \in DOMAIN ring /\ ring[i].at < Origin
      <4>1. ~(e.at < Origin)
        <5>1. e.at \in Nat /\ Origin \in Nat
          BY <1>3, AccountedSums, ScenarioType, EventsAssumption DEF RunTypeOK, StreamEvents, EventType
        <5> QED  BY <1>3, <5>1
      <4> QED  BY <2>1, <4>1
    <3> QED  BY <1>1, <1>2, <3>1 DEF AccountedInv, ScanEventsComeFirst
  <2>5. emitted' = lost' + Cardinality(InFlight') + Cardinality(Queued') + CountsOf(windows)' + CountsOf(reports)'
    BY <1>1, <1>5, <1>6, <1>8, <2>3, AccountedSums
  <2> QED  BY <2>4, <2>5 DEF Accounted
<1> QED  BY <1>1, <1>7, <1>8

\* Numbers moved down by one are as many.
LEMMA ShiftedSet ==
  ASSUME NEW A, IsFiniteSet(A), A \subseteq Int
  PROVE  IsFiniteSet({i - 1 : i \in A}) /\ Cardinality({i - 1 : i \in A}) = Cardinality(A)
<1> DEFINE B == {i - 1 : i \in A}
           f == [i \in A |-> i - 1]
<1>1. f \in Bijection(A, B)
  BY DEF Bijection, Injection, Surjection, IsInjective
<1>2. ExistsBijection(A, B)
  BY <1>1 DEF ExistsBijection
<1> HIDE DEF B
<1>3. IsFiniteSet(B) /\ Cardinality(B) = Cardinality(A)
  BY <1>2, FS_Bijection
<1> QED  BY <1>3 DEF B

LEMMA DeliverAccounts ==
  ASSUME AccountedInv, CountedInv', Deliver
  PROVE  ScanEventsComeFirst' /\ Accounted'
<1>0. PICK e : e = Head(ring)
  OBVIOUS
<1>1. /\ ring # << >> /\ ring' = Tail(ring)
      /\ barrier' = IF barrier > 0 THEN barrier - 1 ELSE barrier
      /\ UNCHANGED <<scenario, emitted, lost, inflight, advanced, reports, origin, nextWindow>>
  BY DEF Deliver, Observe
<1>2. /\ Tids' = Tids /\ Origin' = Origin /\ origin = Origin /\ Origin \in Nat /\ nextWindow \in Nat
      /\ barrier \in Nat \cup {NoFlush} /\ NoFlush = -1
      /\ OrderInv /\ TypeOK /\ RunTypeOK
  BY <1>1, AccountedSums, SameScenario, ScenarioType DEF RunTypeOK, TypeOK, NoFlush
<1>3. /\ e = ring[1] /\ e.at \in Nat /\ e \in EventType /\ 1 \in DOMAIN ring
      /\ \A i \in DOMAIN ring' : i + 1 \in DOMAIN ring /\ ring'[i] = ring[i + 1] /\ i \in Nat
      /\ \A i \in DOMAIN ring \ {1} : i - 1 \in DOMAIN ring' /\ i \in Nat
  <2>1. /\ e = ring[1] /\ e.at \in Nat /\ e \in EventType /\ 1 \in DOMAIN ring
        /\ \A i \in DOMAIN ring' : i + 1 \in DOMAIN ring /\ ring'[i] = ring[i + 1]
        /\ Len(ring) \in Nat \ {0} /\ Len(Tail(ring)) = Len(ring) - 1 /\ Tail(ring) \in Seq(StreamEvents)
    BY <1>0, <1>1, <1>2, HeadOfRing DEF EventType
  <2>2. DOMAIN ring = 1 .. Len(ring) /\ DOMAIN ring' = 1 .. Len(ring) - 1
    BY <1>1, <1>2, <2>1 DEF RunTypeOK
  <2> QED  BY <2>1, <2>2
<1>4. ScanEventsComeFirst'
  <2>1. ASSUME NEW i \in DOMAIN ring', ring'[i].at < Origin
        PROVE  ~advanced /\ (barrier' # NoFlush => i <= barrier')
    <3>1. i + 1 \in DOMAIN ring /\ ring[i + 1].at < Origin /\ i \in Nat
      BY <1>3, <2>1
    <3>2. ~advanced /\ (barrier # NoFlush => i + 1 <= barrier)
      BY <3>1 DEF AccountedInv, ScanEventsComeFirst
    <3> QED  BY <1>1, <1>2, <3>1, <3>2
  <2> QED  BY <1>1, <1>2, <2>1 DEF AccountedInv, ScanEventsComeFirst
<1>5. InFlight' = InFlight /\ CountsOf(reports)' = CountsOf(reports)
  BY <1>1, <1>2 DEF InFlight
<1>6. Cardinality(Queued') = Cardinality(Queued) - (IF e.at >= Origin THEN 1 ELSE 0)
  <2> DEFINE rest == Queued \ {1}
  <2>1. IsFiniteSet(rest) /\ Cardinality(rest) = Cardinality(Queued) - (IF e.at >= Origin THEN 1 ELSE 0)
    <3>1. 1 \in Queued <=> e.at >= Origin
      BY <1>3 DEF Queued
    <3> QED  BY <3>1, AccountedSums, FS_RemoveElement
  <2>2. rest \subseteq Int
    BY <1>3 DEF Queued
  <2>3. Queued' = {i - 1 : i \in rest}
    <3>1. ASSUME NEW i \in Queued'  PROVE  i \in {j - 1 : j \in rest}
      <4>1. i \in DOMAIN ring' /\ ring'[i].at >= Origin
        BY <1>2, <3>1 DEF Queued
      <4>2. i + 1 \in DOMAIN ring /\ ring[i + 1].at >= Origin /\ i \in 1 .. Len(ring')
        BY <1>1, <1>2, <1>3, <4>1, HeadOfRing DEF RunTypeOK
      <4>3. i + 1 \in Queued /\ i + 1 # 1 /\ i = (i + 1) - 1
        BY <4>2 DEF Queued
      <4> QED  BY <4>3
    <3>2. ASSUME NEW j \in rest  PROVE  j - 1 \in Queued'
      <4>1. j \in DOMAIN ring \ {1} /\ ring[j].at >= Origin
        BY <3>2 DEF Queued
      <4>2. j - 1 \in DOMAIN ring' /\ j \in Nat
        BY <1>3, <4>1
      <4>3. ring'[j - 1] = ring[(j - 1) + 1] /\ (j - 1) + 1 = j
        BY <1>3, <4>2
      <4> QED  BY <1>2, <4>1, <4>2, <4>3 DEF Queued
    <3> QED  BY <3>1, <3>2
  <2> HIDE DEF rest
  <2> QED  BY <2>1, <2>2, <2>3, ShiftedSet
<1>7. PICK k : k = IF Behind(e) THEN nextWindow ELSE WindowIndex(e.at)
  OBVIOUS
<1>8. PICK n \in Int : n = IF e.at >= Origin THEN 1 ELSE 0
  OBVIOUS
<1>9. e.at < Origin => ~Behind(e)
  BY <1>0, <1>3 DEF AccountedInv, ScanEventsComeFirst, Behind
<1>10. \A i : (Count(i) + Late(i))' = Count(i) + Late(i) + (IF i = k THEN n ELSE 0)
  <2> SUFFICES ASSUME NEW i  PROVE  Count(i)' + Late(i)' = Count(i) + Late(i) + (IF i = k THEN n ELSE 0)
    OBVIOUS
  <2>1. /\ Unheard(e) => Count(i)' = Count(i)
        /\ ~Unheard(e) => Count(i)' = Count(i) + (IF i = WindowIndex(e.at) THEN 1 ELSE 0)
        /\ Late(i)' = Late(i) + (IF Behind(e) /\ i = nextWindow THEN 1 ELSE 0)
    BY <1>0, <1>2, DeliverEffect
  <2>2. Count(i) \in Nat /\ Late(i) \in Nat
    BY <1>2, CountFields, WindowOfType DEF Count, Late, TypeOK, IsWindow
  <2>3. Unheard(e) <=> Behind(e) \/ e.at < Origin
    BY <1>2 DEF Unheard
  <2>4. e.at < Origin <=> ~(e.at >= Origin)
    BY <1>2, <1>3
  <2> QED  BY <1>7, <1>8, <1>9, <2>1, <2>2, <2>3, <2>4
<1>11. CountsOf(windows)' = CountsOf(windows) + n
  <2>1. TypeOK /\ TypeOK' /\ IsFiniteSet(DOMAIN windows) /\ IsFiniteSet(DOMAIN windows')
    BY <1>2, AccountedSums DEF CountedInv, OrderInv, TimelineInv, FiniteInv
  <2>2. /\ \A i \in DOMAIN windows : windows[i].events \in Nat /\ windows[i].late \in Nat
        /\ \A i \in DOMAIN windows' : windows'[i].events \in Nat /\ windows'[i].late \in Nat
    BY <2>1 DEF TypeOK, IsWindows, IsWindow
  <2>3. \A i : (IF i \in DOMAIN windows' THEN windows'[i].events + windows'[i].late ELSE 0)
                 = (IF i \in DOMAIN windows THEN windows[i].events + windows[i].late ELSE 0)
                     + (IF i = k THEN n ELSE 0)
    BY <1>10 DEF Count, Late, WindowOf, NoWindow
  <2>4. CountsOf(windows') = CountsOf(windows) + n
    BY <2>1, <2>2, <2>3, OneCountChanges
  <2> QED  BY <2>4 DEF CountsOf
<1>12. emitted' = lost' + Cardinality(InFlight') + Cardinality(Queued') + CountsOf(windows)' + CountsOf(reports)'
  BY <1>1, <1>5, <1>6, <1>8, <1>11, AccountedSums
<1> QED  BY <1>4, <1>12 DEF Accounted

LEMMA FinishFlushAccounts ==
  ASSUME AccountedInv, CountedInv', FinishFlush
  PROVE  ScanEventsComeFirst' /\ Accounted'
<1>0. PICK n : n = nextWindow
  OBVIOUS
<1>1. /\ barrier = 0 /\ UNCHANGED <<scenario, ring, emitted, inflight, lost>> /\ Advance(lost)
  BY DEF FinishFlush
<1>2. /\ Tids' = Tids /\ Origin' = Origin /\ TypeOK /\ TypeOK' /\ lost \in Nat
      /\ IsFiniteSet(DOMAIN windows) /\ IsFiniteSet(DOMAIN windows')
  <2>1. TypeOK' /\ IsFiniteSet(DOMAIN windows')
    BY DEF CountedInv, OrderInv, TimelineInv, FiniteInv
  <2> QED  BY <1>1, <2>1, AccountedSums, SameScenario
<1>3. \A i \in DOMAIN ring : ~(ring[i].at < Origin)
  <2>1. \A i \in DOMAIN ring : ~(i <= 0)
    BY AccountedSums DEF RunTypeOK
  <2> QED  BY <1>1, <2>1 DEF AccountedInv, ScanEventsComeFirst, NoFlush
<1>4. ScanEventsComeFirst'
  BY <1>1, <1>2, <1>3 DEF AccountedInv, ScanEventsComeFirst
<1>5. InFlight' = InFlight /\ Queued' = Queued
  BY <1>1, <1>2 DEF InFlight, Queued
<1> DEFINE old == WindowOf(windows, n)
           report == reports'[n]
<1>6. /\ \A i : i # n => Count(i)' = Count(i) /\ Late(i)' = Late(i)
      /\ Count(n)' = 0 /\ Late(n)' = 0
      /\ DOMAIN reports' = DOMAIN reports \cup {n} /\ n \notin DOMAIN reports
      /\ \A i \in DOMAIN reports : reports'[i] = reports[i]
      /\ report.late = old.late /\ report.events = old.events
  <2> DEFINE new(i) == WindowOf(windows', i)
             before(i) == WindowOf(windows, i)
  <2>1. /\ \A i : i # n => new(i).late = before(i).late /\ new(i).events = before(i).events
        /\ new(n) = NoWindow
        /\ DOMAIN reports' = DOMAIN reports \cup {n} /\ n \notin DOMAIN reports
        /\ \A i \in DOMAIN reports : reports'[i] = reports[i]
        /\ report.late = old.late /\ report.events = old.events
    BY <1>0, <1>1, <1>2, AdvanceEffect
  <2>2. \A i : /\ Count(i)' = new(i).events /\ Late(i)' = new(i).late
               /\ Count(i) = before(i).events /\ Late(i) = before(i).late
    BY DEF Count, Late
  <2>3. NoWindow.events = 0 /\ NoWindow.late = 0
    BY DEF NoWindow
  <2> HIDE DEF new, before, old, report
  <2> QED  BY <2>1, <2>2, <2>3
<1>7. PICK c \in Nat : c = Count(n) + Late(n)
  <2>1. Count(n) \in Nat /\ Late(n) \in Nat
    BY <1>2, WindowOfType DEF Count, Late, TypeOK, IsWindow
  <2> QED  BY <2>1
<1>8. CountsOf(windows)' = CountsOf(windows) + (0 - c)
  <2>1. /\ \A i \in DOMAIN windows : windows[i].events \in Nat /\ windows[i].late \in Nat
        /\ \A i \in DOMAIN windows' : windows'[i].events \in Nat /\ windows'[i].late \in Nat
    BY <1>2 DEF TypeOK, IsWindows, IsWindow
  <2>2. \A i : (Count(i) + Late(i))' = Count(i) + Late(i) + (IF i = n THEN 0 - c ELSE 0)
    <3> SUFFICES ASSUME NEW i  PROVE  Count(i)' + Late(i)' = Count(i) + Late(i) + (IF i = n THEN 0 - c ELSE 0)
      OBVIOUS
    <3>1. Count(i) \in Nat /\ Late(i) \in Nat
      BY <1>2, WindowOfType DEF Count, Late, TypeOK, IsWindow
    <3> QED  BY <1>6, <1>7, <3>1
  <2>3. PICK m \in Int : m = 0 - c
    OBVIOUS
  <2>4. \A i : (IF i \in DOMAIN windows' THEN windows'[i].events + windows'[i].late ELSE 0)
                 = (IF i \in DOMAIN windows THEN windows[i].events + windows[i].late ELSE 0)
                     + (IF i = n THEN m ELSE 0)
    BY <2>2, <2>3 DEF Count, Late, WindowOf, NoWindow
  <2>5. IsFiniteSet(DOMAIN windows) /\ IsFiniteSet(DOMAIN windows')
    BY <1>2
  <2>6. CountsOf(windows') = CountsOf(windows) + m
    BY <2>1, <2>4, <2>5, OneCountChanges
  <2> QED  BY <2>3, <2>6 DEF CountsOf
<1>9. CountsOf(reports)' = CountsOf(reports) + c
  <2>1. IsFiniteSet(DOMAIN reports) /\ IsFiniteSet(DOMAIN reports')
    BY <1>2, <1>6, CountFields, FS_AddElement
  <2>2. /\ \A i \in DOMAIN reports : reports[i].events \in Nat /\ reports[i].late \in Nat
        /\ \A i \in DOMAIN reports' : reports'[i].events \in Nat /\ reports'[i].late \in Nat
    BY <1>2 DEF TypeOK, IsReport
  <2>3. report.events + report.late = c
    BY <1>6, <1>7 DEF Count, Late
  <2> HIDE DEF report
  <2>4. \A i : (IF i \in DOMAIN reports' THEN reports'[i].events + reports'[i].late ELSE 0)
                 = (IF i \in DOMAIN reports THEN reports[i].events + reports[i].late ELSE 0)
                     + (IF i = n THEN c ELSE 0)
    BY <1>6, <2>2, <2>3 DEF report
  <2>5. c \in Int
    OBVIOUS
  <2>6. CountsOf(reports') = CountsOf(reports) + c
    BY <2>1, <2>2, <2>4, <2>5, OneCountChanges
  <2> QED  BY <2>6 DEF CountsOf
<1>10. emitted' = lost' + Cardinality(InFlight') + Cardinality(Queued') + CountsOf(windows)' + CountsOf(reports)'
  BY <1>1, <1>5, <1>8, <1>9, AccountedSums
<1> QED  BY <1>4, <1>10 DEF Accounted

LEMMA OthersAccount ==
  ASSUME AccountedInv,
         UNCHANGED <<scenario, emitted, lost, inflight, ring, advanced, windows, reports>>,
         barrier' = barrier \/ barrier' = Len(ring)
  PROVE  ScanEventsComeFirst' /\ Accounted'
<1>1. Tids' = Tids /\ Origin' = Origin
  BY SameScenario
<1>2. \A i \in DOMAIN ring : i <= Len(ring)
  BY AccountedSums DEF RunTypeOK
<1>3. ScanEventsComeFirst'
  BY <1>1, <1>2 DEF AccountedInv, ScanEventsComeFirst
<1>4. InFlight' = InFlight /\ Queued' = Queued
  BY <1>1 DEF InFlight, Queued
<1> QED  BY <1>3, <1>4 DEF AccountedInv, Accounted, CountsOf

LEMMA AccountedStep == AccountedInv /\ [RunNext]_<<vars, runVars>> => AccountedInv'
<1> SUFFICES ASSUME AccountedInv, [RunNext]_<<vars, runVars>>  PROVE  ScanEventsComeFirst' /\ Accounted'
  BY CountedStep DEF AccountedInv
<1>1. RunTypeOK /\ CountedInv'
  BY AccountedSums, CountedStep DEF AccountedInv
<1>2. CASE UNCHANGED <<vars, runVars>>
  BY <1>2, OthersAccount DEF vars, runVars
<1>3. CASE Tick \/ StartFlush
  BY <1>3, OthersAccount DEF Tick, StartFlush, vars
<1>4. CASE RunNext
  BY <1>1, <1>3, <1>4, RunSteps, FiredAccounts, SubmitAccounts, DeliverAccounts, FinishFlushAccounts
<1> QED  BY <1>2, <1>4

LEMMA RunInitAccounted == RunInit => AccountedInv
<1> SUFFICES ASSUME RunInit  PROVE  AccountedInv
  OBVIOUS
<1>1. CountedInv /\ RunTypeOK
  BY RunInitCounted, RunInitType
<1>2. PICK snapshot \in SnapshotsOf(scenario) : InitFrom(snapshot)
  BY RunStarts
<1>3. windows = << >> /\ reports = << >> /\ ~advanced
  BY <1>2 DEF InitFrom
<1>4. /\ \A i \in DOMAIN ring : ring[i].at < Origin
      /\ inflight = [tid \in Tids |-> NoEvent] /\ lost = 0 /\ barrier = NoFlush /\ emitted = 0
  BY RunStarts
<1>5. Origin \in Nat /\ \A i \in DOMAIN ring : ring[i].at \in Nat
  BY <1>1, ScenarioType, RingIsPending, PendingType DEF RunTypeOK
<1>6. InFlight = {} /\ Queued = {}
  BY <1>4, <1>5 DEF InFlight, Queued
<1>7. ScanEventsComeFirst
  BY <1>3, <1>4 DEF ScanEventsComeFirst
<1>8. CountsOf(<< >>) = 0
  <2>1. DOMAIN << >> = {}
    OBVIOUS
  <2> QED  BY <2>1, SumOfNone DEF CountsOf, SumFunction
<1> QED  BY <1>1, <1>3, <1>4, <1>6, <1>7, <1>8, FS_EmptySet DEF AccountedInv, Accounted

\* What the collector has counted, the kernel has lost and is on its way adds up to the
\* events so far; the events from before the end of the initial scan, which count
\* nowhere, are observed before the first boundary.
THEOREM AccountedInvariant == RunSpec => []AccountedInv
<1>1. RunInit => AccountedInv
  BY RunInitAccounted
<1>2. AccountedInv /\ [RunNext]_<<vars, runVars>> => AccountedInv'
  BY AccountedStep
<1> QED  BY <1>1, <1>2, PTL DEF RunSpec

\* No event is forgotten and none counted twice, on any path from the tracepoint to the
\* report (emit_task_event, Observe, Advance).
THEOREM NoEventIsForgotten == RunSpec => []EventsAreAccounted
<1>1. AccountedInv => EventsAreAccounted
  BY AccountedForm DEF AccountedInv
<1> QED  BY <1>1, AccountedInvariant, PTL

----------------------------------------------------------------------------
(* The windows share out a segment *)

\* How much of a segment is before the end of the windows up to the k-th from n.
Clipped(n, k, from, to) == later(from, earlier(to, WindowStart(n + k))) - from

LEMMA ClippedGrows ==
  ASSUME origin \in Nat, NEW n \in Nat, NEW k \in Nat, NEW from \in Nat, NEW to \in Nat,
         WindowStart(n) <= from, from <= to
  PROVE  /\ Clipped(n, k + 1, from, to) = Clipped(n, k, from, to) + Overlap(n + k, from, to)
         /\ Clipped(n, 0, from, to) = 0
<1>1. /\ WindowStart(n) \in Nat /\ WindowStart(n + k) \in Nat /\ WindowEnd(n + k) \in Nat
      /\ WindowEnd(n + k) = WindowStart(n + (k + 1)) /\ WindowEnd(n + k) = WindowStart(n + k) + Interval
  <2>1. n + k \in Nat /\ n + (k + 1) = (n + k) + 1
    OBVIOUS
  <2> QED  BY <2>1, WindowBounds
<1>2. Interval \in Nat \ {0}
  BY IntervalAssumption
<1>3. n + 0 = n
  OBVIOUS
<1>4. Clipped(n, 0, from, to) = 0
  BY <1>1, <1>3 DEF Clipped, later, earlier
<1> QED  BY <1>1, <1>2, <1>4 DEF Clipped, Overlap, later, earlier

LEMMA SharesUpTo ==
  ASSUME origin \in Nat, NEW n \in Nat, NEW from \in Nat, NEW to \in Nat,
         WindowStart(n) <= from, from <= to,
         NEW m \in Nat, NEW f, \A i \in n .. n + m : f[i] = Overlap(i, from, to),
         NEW k \in 0 .. m
  PROVE  SumFunctionOnSet(f, n .. n + k - 1) = Clipped(n, k, from, to)
<1> DEFINE Adds(j) == SumFunctionOnSet(f, n .. n + j - 1) = Clipped(n, j, from, to)
           bad == {j \in 0 .. m : ~Adds(j)}
<1> SUFFICES ASSUME bad # {}  PROVE  FALSE
  OBVIOUS
<1>1. bad \in SUBSET Nat
  OBVIOUS
<1> HIDE DEF bad
<1>2. PICK j \in bad : \A l \in bad : j <= l
  BY <1>1, LeastExists
<1>3. j \in 0 .. m /\ ~Adds(j)
  BY <1>2 DEF bad
<1>4. CASE j = 0
  <2>1. n .. n + j - 1 = {}
    BY <1>4
  <2>2. SumFunctionOnSet(f, n .. n + j - 1) = 0
    BY <2>1, SumOfNone
  <2> QED  BY <1>3, <1>4, <2>2, ClippedGrows
<1>5. CASE j # 0
  <2>1. PICK l \in Nat : l = j - 1
    BY <1>3, <1>5
  <2>2. l \in 0 .. m /\ j = l + 1 /\ l \notin bad
    BY <1>2, <1>3, <2>1
  <2>3. Adds(l)
    BY <2>2 DEF bad
  <2> DEFINE S == n .. n + l - 1
  <2>4. /\ n .. n + j - 1 = S \cup {n + l} /\ n + l \notin S
        /\ \A i \in S : i \in n .. n + m /\ i \in Nat
        /\ n + l \in n .. n + m /\ n + l \in Nat
    BY <2>1, <2>2
  <2>5. IsFiniteSet(S)
    BY <2>1, FS_Interval
  <2>6. (\A i \in S : f[i] \in Int) /\ f[n + l] \in Int
    <3>1. \A i \in Nat : Overlap(i, from, to) \in Nat
      BY OverlapType
    <3> QED  BY <2>4, <3>1
  <2> HIDE DEF S
  <2>7. SumFunctionOnSet(f, S \cup {n + l}) = f[n + l] + SumFunctionOnSet(f, S)
    BY <2>4, <2>5, <2>6, SumAdds
  <2>8. Clipped(n, j, from, to) = Clipped(n, l, from, to) + Overlap(n + l, from, to)
    BY <2>1, <2>2, ClippedGrows
  <2>9. SumFunctionOnSet(f, S) = Clipped(n, l, from, to) /\ f[n + l] = Overlap(n + l, from, to)
    BY <2>3, <2>4 DEF S
  <2>10. Clipped(n, l, from, to) \in Int
    BY <2>5, <2>6, <2>9, SumInt
  <2>11. f[n + l] + SumFunctionOnSet(f, S) = Clipped(n, j, from, to)
    BY <2>6, <2>8, <2>9, <2>10
  <2>12. n .. n + j - 1 = S \cup {n + l}
    BY <2>4
  <2>13. SumFunctionOnSet(f, n .. n + j - 1) = Clipped(n, j, from, to)
    BY <2>7, <2>11, <2>12
  <2> QED  BY <1>3, <2>13
<1> QED  BY <1>4, <1>5

\* A segment that starts no earlier than the first open window is shared out in full.
LEMMA SegmentIsShared ==
  ASSUME origin \in Nat, nextWindow \in Nat, NEW from \in Nat, NEW to \in Nat,
         WindowStart(nextWindow) <= from, from <= to,
         NEW S, IsFiniteSet(S), TouchedWindows(from, to) \subseteq S,
         NEW f, \A i \in S : f[i] = IF i \in TouchedWindows(from, to) THEN Overlap(i, from, to) ELSE 0
  PROVE  SumFunctionOnSet(f, S) = to - from /\ \A i \in S : f[i] \in Int
<1>0. PICK n \in Nat : n = nextWindow
  OBVIOUS
<1> DEFINE T == TouchedWindows(from, to)
           last == WindowIndex(to)
<1>1. last \in Nat /\ to < WindowEnd(last)
  BY WindowIndexBounds
<1>2. n <= last
  <2>1. WindowStart(n) <= to
    <3>1. WindowStart(n) \in Nat
      BY WindowBounds
    <3> QED  BY <1>0, <3>1
  <2>2. ASSUME last < n  PROVE  FALSE
    <3>1. WindowEnd(last) <= WindowStart(n)
      BY <1>1, <2>2, WindowOrder
    <3>2. WindowEnd(last) \in Nat /\ WindowStart(n) \in Nat
      BY <1>1, WindowBounds
    <3> QED  BY <1>1, <2>1, <3>1, <3>2
  <2> QED  BY <1>1, <2>2
<1>3. PICK k \in Nat : k = last - n /\ last = n + k
  BY <1>1, <1>2
<1>4. \A i \in T : i \in n .. last
  BY <1>0 DEF TouchedWindows
<1>5. \A i \in n .. last : i \notin T => Overlap(i, from, to) = 0
  <2>1. \A i \in n .. last : i \in Nat /\ Overlap(i, from, to) \in Nat
    BY <1>1, OverlapType
  <2> QED  BY <1>0, <2>1 DEF TouchedWindows
<1> HIDE DEF T, last
<1>6. PICK g : \A i \in n .. n + k + 1 : g[i] = Overlap(i, from, to)
  <2>1. \A i \in n .. n + k + 1 : [x \in n .. n + k + 1 |-> Overlap(x, from, to)][i] = Overlap(i, from, to)
    OBVIOUS
  <2> QED  BY <2>1
<1>7. SumFunctionOnSet(g, n .. n + k) = Clipped(n, k + 1, from, to)
  <2>1. k + 1 \in Nat /\ k + 1 \in 0 .. k + 1 /\ n + (k + 1) = n + k + 1 /\ n + (k + 1) - 1 = n + k
    BY <1>3
  <2>2. SumFunctionOnSet(g, n .. n + (k + 1) - 1) = Clipped(n, k + 1, from, to)
    BY <1>0, <1>6, <2>1, SharesUpTo
  <2> QED  BY <2>1, <2>2
<1>8. Clipped(n, k + 1, from, to) = to - from
  <2>1. WindowStart(n + (k + 1)) = WindowEnd(last) /\ WindowEnd(last) \in Nat
    <3>1. n + (k + 1) = last + 1
      BY <1>1, <1>3
    <3> QED  BY <1>1, <3>1, WindowBounds
  <2> QED  BY <1>1, <2>1 DEF Clipped, later, earlier
<1>9. IsFiniteSet(n .. n + k)
  BY <1>3, FS_Interval
<1>10. \A i \in n .. n + k : g[i] \in Int /\ (i \notin T => g[i] = 0)
  <2>1. \A i \in n .. n + k : i \in n .. n + k + 1 /\ i \in Nat
    BY <1>3
  <2>2. \A i \in Nat : Overlap(i, from, to) \in Nat
    BY OverlapType
  <2> QED  BY <1>3, <1>5, <1>6, <2>1, <2>2
<1>11. \A i \in T : f[i] = g[i] /\ i \in n .. n + k /\ i \in S /\ f[i] \in Int
  <2>1. \A i \in T : i \in n .. n + k /\ i \in n .. n + k + 1 /\ i \in S
    BY <1>3, <1>4 DEF T
  <2> QED  BY <1>6, <1>10, <2>1 DEF T
<1>12. SumFunctionOnSet(g, n .. n + k) = SumFunctionOnSet(g, T)
  <2>1. T \subseteq n .. n + k
    BY <1>11
  <2> QED  BY <1>9, <1>10, <2>1, SumOfSupport
<1>13. \A i \in S : f[i] \in Int /\ (i \notin T => f[i] = 0)
  BY <1>11 DEF T
<1>14. SumFunctionOnSet(f, S) = SumFunctionOnSet(f, T)
  <2>1. T \subseteq S
    BY DEF T
  <2> QED  BY <1>13, <2>1, SumOfSupport
<1>15. SumFunctionOnSet(f, T) = SumFunctionOnSet(g, T)
  <2>1. IsFiniteSet(T)
    BY FS_Subset DEF T
  <2> QED  BY <1>11, <2>1, SumSame
<1> QED  BY <1>7, <1>8, <1>12, <1>13, <1>14, <1>15

----------------------------------------------------------------------------
(* The runnable time that is not latency *)

NetIn(ws, i, tid) == Amount(WindowOf(ws, i).stats, tid, "net")
NetOf(ws, tid) == SumFunction([i \in DOMAIN ws |-> NetIn(ws, i, tid)])
WindowsNet(tid) == NetOf(windows, tid)
ReportsNet(tid) == SumFunction([i \in DOMAIN reports |-> Amount(reports[i].threads, tid, "net")])

\* The runnable time since the wakeup that a switch-in is yet to measure.
Owed(tid) ==
  IF tid \in DOMAIN tracks /\ tracks[tid].wakeupAt # NoTime
  THEN tracks[tid].since - tracks[tid].wakeupAt ELSE 0

NetInv ==
  /\ CountedInv /\ PendingWakeupIsRunnable
  /\ \A tid \in Tids : Owed(tid) <= WindowsNet(tid) + ReportsNet(tid)

LEMMA StatsAmountType ==
  ASSUME NEW stats, IsStats(stats), IsFiniteSet(DOMAIN stats), NEW tid, NEW what
  PROVE  Amount(stats, tid, what) \in Int
<1> DEFINE S == RowsOf(stats, tid)
           f == [id \in S |-> Figure(stats[id], what)]
<1>1. Amount(stats, tid, what) = SumFunctionOnSet(f, S)
  BY DEF Amount, SumFunction
<1>2. IsFiniteSet(S)
  BY FS_Subset DEF RowsOf
<1>3. \A id \in S : f[id] \in Int
  BY FigureType DEF RowsOf, IsStats
<1> HIDE DEF S, f
<1> QED  BY <1>1, <1>2, <1>3, SumInt

LEMMA ReportsNetType ==
  ASSUME CountedInv, NEW tid
  PROVE  /\ IsFiniteSet(DOMAIN reports) /\ ReportsNet(tid) \in Int
         /\ \A i \in DOMAIN reports : Amount(reports[i].threads, tid, "net") \in Int
<1>1. TypeOK /\ FiniteInv
  BY DEF CountedInv, OrderInv, TimelineInv
<1>2. IsFiniteSet(DOMAIN reports)
  BY <1>1, CountFields
<1>3. \A i \in DOMAIN reports : Amount(reports[i].threads, tid, "net") \in Int
  <2>1. \A i \in DOMAIN reports : IsStats(reports[i].threads) /\ IsFiniteSet(DOMAIN reports[i].threads)
    BY <1>1 DEF TypeOK, IsReport, FiniteInv, ReportIds
  <2> QED  BY <2>1, StatsAmountType
<1> DEFINE D == DOMAIN reports
           f == [i \in D |-> Amount(reports[i].threads, tid, "net")]
<1>4. ReportsNet(tid) = SumFunctionOnSet(f, D)
  BY DEF ReportsNet, SumFunction
<1>5. \A i \in D : f[i] \in Int
  BY <1>3
<1> HIDE DEF f
<1>6. SumFunctionOnSet(f, D) \in Int
  BY <1>2, <1>5, SumInt
<1> QED  BY <1>2, <1>3, <1>4, <1>6

\* The sum over any finite set that has all the windows.
CoversWindows(S, f, ws, tid) ==
  /\ IsFiniteSet(S) /\ DOMAIN ws \subseteq S
  /\ \A i \in S : f[i] = NetIn(ws, i, tid) /\ f[i] \in Int

LEMMA NetOver ==
  ASSUME NEW ws, NEW S, NEW f, NEW tid, CoversWindows(S, f, ws, tid)
  PROVE  NetOf(ws, tid) = SumFunctionOnSet(f, S) /\ NetOf(ws, tid) \in Int
<1> DEFINE D == DOMAIN ws
           g == [i \in D |-> NetIn(ws, i, tid)]
<1>1. /\ IsFiniteSet(S) /\ D \subseteq S
      /\ \A i \in S : f[i] = NetIn(ws, i, tid) /\ f[i] \in Int
  BY DEF CoversWindows
<1>2. NetOf(ws, tid) = SumFunctionOnSet(g, D)
  BY DEF NetOf, SumFunction
<1>3. \A i \in S : i \notin D => f[i] = 0
  <2>1. RowsOf(NoWindow.stats, tid) = {}
    BY DEF NoWindow, RowsOf
  <2>2. Amount(NoWindow.stats, tid, "net") = 0
    BY <2>1, SumOfNone DEF Amount, SumFunction
  <2> QED  BY <1>1, <2>2 DEF NetIn, WindowOf
<1>4. \A i \in D : g[i] = f[i] /\ f[i] \in Int
  BY <1>1
<1> HIDE DEF D, g
<1>5. IsFiniteSet(D)
  BY <1>1, FS_Subset
<1>6. SumFunctionOnSet(f, S) = SumFunctionOnSet(f, D)
  BY <1>1, <1>3, SumOfSupport
<1>7. SumFunctionOnSet(f, D) = SumFunctionOnSet(g, D)
  BY <1>4, <1>5, SumSame
<1>8. SumFunctionOnSet(f, S) \in Int
  BY <1>1, SumInt
<1> QED  BY <1>2, <1>6, <1>7, <1>8

LEMMA WindowsCovered ==
  ASSUME NEW ws, NEW tid, NEW S, IsFiniteSet(S), DOMAIN ws \subseteq S, \A i \in S : NetIn(ws, i, tid) \in Int
  PROVE  \E f : CoversWindows(S, f, ws, tid)
<1> DEFINE f == [i \in S |-> NetIn(ws, i, tid)]
<1>1. \A i \in S : f[i] = NetIn(ws, i, tid) /\ f[i] \in Int
  OBVIOUS
<1> HIDE DEF f
<1> QED  BY <1>1 DEF CoversWindows

LEMMA WindowsNetType ==
  ASSUME CountedInv, NEW tid
  PROVE  WindowsNet(tid) \in Int /\ \A i : NetIn(windows, i, tid) = Here(i, tid, "net") /\ NetIn(windows, i, tid) \in Int
<1>1. IsFiniteSet(DOMAIN windows)
  BY DEF CountedInv, FiniteInv
<1>2. \A i : NetIn(windows, i, tid) = Here(i, tid, "net") /\ NetIn(windows, i, tid) \in Int
  BY HereType DEF NetIn, Here
<1> QED  BY <1>1, <1>2, WindowsCovered, NetOver DEF WindowsNet

\* What an event of a TID adds to the runnable time of its rows that is not latency.
Gain(track, e) ==
  (IF track.state = "runnable" THEN e.at - track.since ELSE 0)
    - (IF Measures(track, e) THEN e.at - track.wakeupAt ELSE 0)

LEMMA GainIsShared ==
  ASSUME origin \in Nat, nextWindow \in Nat, NEW track \in TrackType, NEW e \in EventType,
         WindowStart(nextWindow) <= track.since, track.since <= e.at,
         NEW S, IsFiniteSet(S), TouchedWindows(track.since, e.at) \subseteq S, WindowIndex(e.at) \in S,
         NEW a, \A i \in S : a[i] = Added(track, e, i, "net")
  PROVE  SumFunctionOnSet(a, S) = Gain(track, e) /\ \A i \in S : a[i] \in Int
<1>0. track.since \in Nat /\ e.at \in Nat /\ track.wakeupAt \in Nat
  BY DEF TrackType, EventType
<1>1. PICK f : \A i \in S : f[i] = IF i \in TouchedWindows(track.since, e.at)
                                   THEN Overlap(i, track.since, e.at) ELSE 0
  <2> DEFINE f == [i \in S |-> IF i \in TouchedWindows(track.since, e.at)
                               THEN Overlap(i, track.since, e.at) ELSE 0]
  <2>1. \A i \in S : f[i] = IF i \in TouchedWindows(track.since, e.at)
                            THEN Overlap(i, track.since, e.at) ELSE 0
    OBVIOUS
  <2> QED  BY <2>1
<1>2. PICK g : \A i \in S : g[i] = IF track.state = "runnable" THEN f[i] ELSE 0
  <2>1. \A i \in S : [x \in S |-> IF track.state = "runnable" THEN f[x] ELSE 0][i]
                       = IF track.state = "runnable" THEN f[i] ELSE 0
    OBVIOUS
  <2> QED  BY <2>1
<1>3. PICK l \in Int : l = IF Measures(track, e) THEN e.at - track.wakeupAt ELSE 0
  BY <1>0
<1>4. PICK h : \A i \in S : h[i] = IF i = WindowIndex(e.at) THEN 0 - l ELSE 0
  <2>1. \A i \in S : [x \in S |-> IF x = WindowIndex(e.at) THEN 0 - l ELSE 0][i]
                       = IF i = WindowIndex(e.at) THEN 0 - l ELSE 0
    OBVIOUS
  <2> QED  BY <2>1
<1>5. SumFunctionOnSet(f, S) = e.at - track.since /\ \A i \in S : f[i] \in Int
  BY <1>0, <1>1, SegmentIsShared
<1>6. /\ SumFunctionOnSet(g, S) = IF track.state = "runnable" THEN e.at - track.since ELSE 0
      /\ \A i \in S : g[i] \in Int
  <2>1. CASE track.state = "runnable"
    BY <1>2, <1>5, <2>1, SumSame
  <2>2. CASE track.state # "runnable"
    BY <1>2, <2>2, SumOfZeros
  <2> QED  BY <2>1, <2>2
<1>7. /\ SumFunctionOnSet(h, S) = 0 - l
      /\ \A i \in S : h[i] \in Int
  <2> DEFINE T == {WindowIndex(e.at)}
  <2>1. \A i \in S : h[i] \in Int /\ (i \notin T => h[i] = 0)
    BY <1>4
  <2>2. T \subseteq S /\ IsFiniteSet(T) /\ WindowIndex(e.at) \in T /\ T \ {WindowIndex(e.at)} = {}
    BY FS_Singleton
  <2> HIDE DEF T
  <2>3. SumFunctionOnSet(h, S) = SumFunctionOnSet(h, T)
    BY <2>1, <2>2, SumOfSupport
  <2>4. \A i \in T : h[i] \in Int
    BY <2>1, <2>2
  <2>5. SumFunctionOnSet(h, T) = h[WindowIndex(e.at)] + SumFunctionOnSet(h, T \ {WindowIndex(e.at)})
    BY <2>2, <2>4, SumTakesOut
  <2>6. SumFunctionOnSet(h, T \ {WindowIndex(e.at)}) = 0
    BY <2>2, SumOfNone
  <2>7. h[WindowIndex(e.at)] = 0 - l
    BY <1>4
  <2>8. 0 - l \in Int /\ (0 - l) + 0 = 0 - l
    OBVIOUS
  <2> QED  BY <2>1, <2>3, <2>5, <2>6, <2>7, <2>8
<1>8. \A i \in S : a[i] = g[i] + h[i]
  BY <1>1, <1>2, <1>3, <1>4, <1>5 DEF Added
<1>9. SumFunctionOnSet(a, S) = SumFunctionOnSet(g, S) + SumFunctionOnSet(h, S)
  BY <1>6, <1>7, <1>8, SumOfSums
<1> QED  BY <1>0, <1>3, <1>6, <1>7, <1>8, <1>9 DEF Gain

\* Where the segment that an event closes starts: in no window that was reported.
LEMMA SegmentIsOpen ==
  ASSUME OrderInv, ring # << >>, NEW e, e = Head(ring), ~Unheard(e)
  PROVE  /\ TrackOf(e) \in TrackType /\ e \in EventType /\ origin \in Nat /\ nextWindow \in Nat
         /\ TrackOf(e).since \in Nat /\ e.at \in Nat /\ origin <= e.at /\ TrackOf(e).since <= e.at
         /\ InOrder(TrackOf(e), e) /\ WindowStart(nextWindow) <= TrackOf(e).since
<1>1. ~Behind(e) /\ ~(e.at < origin)
  BY DEF Unheard
<1>2. TypeOK /\ TimelineInv /\ Timeline /\ origin \in Nat /\ nextWindow \in Nat
  BY DEF OrderInv, TimelineInv, TypeOK
<1>3. /\ TrackOf(e) \in TrackType /\ e \in EventType /\ e.at \in Nat /\ TrackOf(e).alive
      /\ e.at >= origin => e.at >= watermark /\ InOrder(TrackOf(e), e)
  BY <1>1, NextToObserve
<1>4. e.at >= origin
  BY <1>1, <1>2, <1>3
<1>5. TrackOf(e).since \in Nat /\ TrackOf(e).since <= e.at
  BY <1>3, <1>4 DEF InOrder, TrackType
<1>6. WindowStart(nextWindow) \in Nat /\ watermark = WindowStart(nextWindow)
  BY <1>2, WindowBounds DEF Timeline
<1>7. WindowStart(nextWindow) <= TrackOf(e).since
  <2>1. CASE ~Known(e) \/ Replaces(e)
    <3>1. TrackOf(e).since = later(origin, e.at)
      BY <2>1 DEF TrackOf, NewTrack
    <3> QED  BY <1>2, <1>3, <1>4, <1>6, <3>1 DEF later
  <2>2. CASE Known(e) /\ ~Replaces(e)
    <3>1. e.tid \in DOMAIN tracks /\ tracks[e.tid] \in TrackType
      BY <1>2, <2>2, TrackFields DEF Known
    <3>2. TrackOf(e).since = tracks[e.tid].since /\ TrackOf(e).alive = tracks[e.tid].alive
      BY <2>2, <3>1 DEF TrackOf, TrackType
    <3>3. Bounded(tracks[e.tid])
      BY <1>2, <3>1 DEF TimelineInv, TracksAreBounded
    <3> QED  BY <1>3, <3>2, <3>3 DEF Bounded
  <2> QED  BY <2>1, <2>2
<1> QED  BY <1>2, <1>3, <1>4, <1>5, <1>7

LEMMA DeliverNet ==
  ASSUME CountedInv, CountedInv', Deliver, NEW e, e = Head(ring), NEW tid
  PROVE  /\ WindowsNet(tid)' = WindowsNet(tid)
              + (IF ~Unheard(e) /\ e.tid = tid THEN Gain(TrackOf(e), e) ELSE 0)
         /\ ReportsNet(tid)' = ReportsNet(tid)
<1>1. /\ OrderInv /\ ring # << >> /\ reports' = reports /\ FiniteInv /\ FiniteInv'
  BY DEF CountedInv, Deliver, Observe
<1>2. ReportsNet(tid)' = ReportsNet(tid)
  BY <1>1 DEF ReportsNet
<1> DEFINE base == DOMAIN windows \cup DOMAIN windows'
           more == IF Unheard(e) THEN {}
                   ELSE TouchedWindows(TrackOf(e).since, e.at) \cup {WindowIndex(e.at)}
<1>3. PICK S : S = base \cup more
  OBVIOUS
<1>4. IsFiniteSet(S)
  <2>1. IsFiniteSet(base)
    BY <1>1, FS_Union DEF FiniteInv
  <2>2. IsFiniteSet(more)
    <3>1. CASE Unheard(e)
      BY <3>1, FS_EmptySet
    <3>2. CASE ~Unheard(e)
      <4>1. IsFiniteSet(TouchedWindows(TrackOf(e).since, e.at))
        BY <1>1, <3>2, SegmentIsOpen, TouchedFinite
      <4> QED  BY <3>2, <4>1, FS_AddElement
    <3> QED  BY <3>1, <3>2
  <2> HIDE DEF base, more
  <2> QED  BY <1>3, <2>1, <2>2, FS_Union
<1>5. /\ DOMAIN windows \subseteq S /\ DOMAIN windows' \subseteq S
      /\ ~Unheard(e) => TouchedWindows(TrackOf(e).since, e.at) \subseteq S /\ WindowIndex(e.at) \in S
      /\ \A i \in S : i \in Nat
  <2>1. DOMAIN windows \subseteq Nat /\ DOMAIN windows' \subseteq Nat
    BY DEF CountedInv, OrderInv, TimelineInv, TypeOK, IsWindows
  <2>2. ~Unheard(e) => TouchedWindows(TrackOf(e).since, e.at) \subseteq Nat /\ WindowIndex(e.at) \in Nat
    BY <1>1, SegmentIsOpen, TouchedWindowsType, WindowIndexBounds
  <2> QED  BY <1>3, <2>1, <2>2
<1> HIDE DEF base, more
<1>6. \A i \in S : /\ NetIn(windows, i, tid) \in Int
                   /\ NetIn(windows', i, tid) = NetIn(windows, i, tid)
                        + (IF ~Unheard(e) /\ e.tid = tid THEN Added(TrackOf(e), e, i, "net") ELSE 0)
  <2> SUFFICES ASSUME NEW i \in S
               PROVE  /\ NetIn(windows, i, tid) \in Int
                      /\ NetIn(windows', i, tid) = NetIn(windows, i, tid)
                           + (IF ~Unheard(e) /\ e.tid = tid THEN Added(TrackOf(e), e, i, "net") ELSE 0)
    OBVIOUS
  <2>1. Here(i, tid, "net")' = Here(i, tid, "net")
          + (IF ~Unheard(e) /\ e.tid = tid THEN Added(TrackOf(e), e, i, "net") ELSE 0)
    BY <1>5, DeliverAmount
  <2>2. Here(i, tid, "net") = NetIn(windows, i, tid) /\ Here(i, tid, "net")' = NetIn(windows', i, tid)
    BY DEF Here, NetIn
  <2> QED  BY <2>1, <2>2, WindowsNetType
<1>7. PICK f : CoversWindows(S, f, windows, tid)
  BY <1>4, <1>5, <1>6, WindowsCovered
<1>8. /\ WindowsNet(tid) = SumFunctionOnSet(f, S) /\ WindowsNet(tid) \in Int
      /\ \A i \in S : f[i] \in Int /\ f[i] = NetIn(windows, i, tid)
  BY <1>7, NetOver DEF CoversWindows, WindowsNet
<1>9. PICK a : \A i \in S : a[i] = Added(TrackOf(e), e, i, "net")
  <2>1. \A i \in S : [x \in S |-> Added(TrackOf(e), e, x, "net")][i] = Added(TrackOf(e), e, i, "net")
    OBVIOUS
  <2> QED  BY <2>1
<1>10. ~Unheard(e) => SumFunctionOnSet(a, S) = Gain(TrackOf(e), e) /\ \A i \in S : a[i] \in Int
  BY <1>1, <1>4, <1>5, <1>9, SegmentIsOpen, GainIsShared
<1>11. \A i \in S : /\ NetIn(windows', i, tid) \in Int
                    /\ NetIn(windows', i, tid) = f[i] + (IF ~Unheard(e) /\ e.tid = tid THEN a[i] ELSE 0)
  BY <1>6, <1>8, <1>9, <1>10
<1>12. PICK g : CoversWindows(S, g, windows', tid)
  <2>1. \A ws : DOMAIN ws \subseteq S /\ (\A i \in S : NetIn(ws, i, tid) \in Int) => \E g : CoversWindows(S, g, ws, tid)
    BY <1>4, WindowsCovered
  <2> QED  BY <1>5, <1>11, <2>1
<1>13. /\ WindowsNet(tid)' = SumFunctionOnSet(g, S)
       /\ \A i \in S : g[i] \in Int /\ g[i] = NetIn(windows', i, tid)
  <2>1. \A ws : CoversWindows(S, g, ws, tid) => NetOf(ws, tid) = SumFunctionOnSet(g, S)
    BY NetOver
  <2>2. NetOf(windows', tid) = SumFunctionOnSet(g, S)
    BY <1>12, <2>1
  <2> QED  BY <1>12, <2>2 DEF CoversWindows, WindowsNet
<1>14. CASE Unheard(e) \/ e.tid # tid
  <2>1. \A i \in S : g[i] = f[i] /\ f[i] \in Int
    BY <1>8, <1>11, <1>13, <1>14
  <2>2. SumFunctionOnSet(f, S) = SumFunctionOnSet(g, S)
    BY <1>4, <2>1, SumSame
  <2> QED  BY <1>2, <1>8, <1>13, <1>14, <2>2
<1>15. CASE ~Unheard(e) /\ e.tid = tid
  <2>1. \A i \in S : g[i] = f[i] + a[i]
    BY <1>11, <1>13, <1>15
  <2>2. SumFunctionOnSet(g, S) = SumFunctionOnSet(f, S) + SumFunctionOnSet(a, S)
    BY <1>4, <1>8, <1>10, <1>15, <2>1, SumOfSums
  <2> QED  BY <1>2, <1>8, <1>10, <1>13, <1>15, <2>2
<1> QED  BY <1>14, <1>15

LEMMA FlushNet ==
  ASSUME CountedInv, CountedInv', FinishFlush, NEW tid
  PROVE  WindowsNet(tid)' + ReportsNet(tid)' = WindowsNet(tid) + ReportsNet(tid) + AddedAtBoundary(tid, "net")
<1>0. PICK n : n = nextWindow
  OBVIOUS
<1>1. TypeOK /\ lost \in Nat /\ Advance(lost) /\ FiniteInv /\ FiniteInv'
  BY DEF CountedInv, OrderInv, TimelineInv, RunTypeOK, FinishFlush
<1>2. PICK S : S = DOMAIN windows \cup DOMAIN windows' \cup {n}
  OBVIOUS
<1>3. IsFiniteSet(S) /\ n \in S /\ DOMAIN windows \subseteq S /\ DOMAIN windows' \subseteq S
  <2>1. IsFiniteSet(DOMAIN windows \cup DOMAIN windows')
    BY <1>1, FS_Union DEF FiniteInv
  <2> QED  BY <1>2, <2>1, FS_AddElement
<1>4. \A i \in S : /\ NetIn(windows, i, tid) \in Int
                   /\ NetIn(windows', i, tid) = IF i = n THEN 0 ELSE NetIn(windows, i, tid)
  <2> SUFFICES ASSUME NEW i \in S
               PROVE  /\ NetIn(windows, i, tid) \in Int
                      /\ NetIn(windows', i, tid) = IF i = n THEN 0 ELSE NetIn(windows, i, tid)
    OBVIOUS
  <2>1. Here(i, tid, "net")' = IF i = n THEN 0 ELSE Here(i, tid, "net")
    BY <1>0, FlushAmount
  <2>2. Here(i, tid, "net") = NetIn(windows, i, tid) /\ Here(i, tid, "net")' = NetIn(windows', i, tid)
    BY DEF Here, NetIn
  <2> QED  BY <2>1, <2>2, WindowsNetType
<1>5. PICK f : CoversWindows(S, f, windows, tid)
  BY <1>3, <1>4, WindowsCovered
<1>6. PICK g : CoversWindows(S, g, windows', tid)
  <2>1. \A ws : DOMAIN ws \subseteq S /\ (\A i \in S : NetIn(ws, i, tid) \in Int) => \E h : CoversWindows(S, h, ws, tid)
    BY <1>3, WindowsCovered
  <2> QED  BY <1>3, <1>4, <2>1
<1>7. /\ WindowsNet(tid) = SumFunctionOnSet(f, S) /\ WindowsNet(tid) \in Int
      /\ \A i \in S : f[i] \in Int /\ f[i] = NetIn(windows, i, tid)
  BY <1>5, NetOver DEF CoversWindows, WindowsNet
<1>8. /\ WindowsNet(tid)' = SumFunctionOnSet(g, S)
      /\ \A i \in S : g[i] \in Int /\ g[i] = NetIn(windows', i, tid)
  <2>1. \A ws : CoversWindows(S, g, ws, tid) => NetOf(ws, tid) = SumFunctionOnSet(g, S)
    BY NetOver
  <2>2. NetOf(windows', tid) = SumFunctionOnSet(g, S)
    BY <1>6, <2>1
  <2> QED  BY <1>6, <2>2 DEF CoversWindows, WindowsNet
<1>9. WindowsNet(tid)' = WindowsNet(tid) - NetIn(windows, n, tid)
  <2>1. \A i \in S \ {n} : g[i] = f[i]
    BY <1>4, <1>7, <1>8
  <2>2. g[n] = 0 /\ f[n] = NetIn(windows, n, tid) /\ f[n] \in Int
    BY <1>3, <1>4, <1>7, <1>8
  <2>3. SumFunctionOnSet(g, S) = SumFunctionOnSet(f, S) + (g[n] - f[n])
    BY <1>3, <1>7, <1>8, <2>1, OneTermChanges
  <2> QED  BY <1>7, <1>8, <2>2, <2>3
<1> DEFINE Term(rs, i) == Amount(rs[i].threads, tid, "net")
<1>10. /\ DOMAIN reports' = DOMAIN reports \cup {n} /\ n \notin DOMAIN reports
       /\ \A i \in DOMAIN reports : reports'[i] = reports[i]
  BY <1>0, <1>1, AdvanceEffect
<1>11. Term(reports', n) = NetIn(windows, n, tid) + AddedAtBoundary(tid, "net")
  <2>1. Amount(reports'[n].threads, tid, "net") = Here(n, tid, "net") + AddedAtBoundary(tid, "net")
    BY <1>0, BoundaryAmount
  <2> QED  BY <2>1 DEF Here, NetIn
<1>12. PICK D : D = DOMAIN reports
  OBVIOUS
<1>13. /\ IsFiniteSet(D) /\ ReportsNet(tid) \in Int /\ n \notin D
       /\ \A i \in D : Term(reports, i) \in Int /\ Term(reports', i) = Term(reports, i)
  BY <1>10, <1>12, ReportsNetType
<1>14. AddedAtBoundary(tid, "net") \in Int /\ NetIn(windows, n, tid) \in Int
  <2>1. AddedAtBoundary(tid, "net") \in Int
    <3>1. origin \in Nat /\ n \in Nat /\ NextBoundary \in Nat
      BY <1>0, <1>1, WindowBounds DEF TypeOK, NextBoundary
    <3>2. tid \in Live => tracks[tid].since \in Nat
      BY <1>1, TrackFields DEF Live
    <3>3. tid \in Live => Overlap(n, tracks[tid].since, NextBoundary) \in Nat
      BY <3>1, <3>2, OverlapType
    <3> QED  BY <1>0, <3>3 DEF AddedAtBoundary
  <2> QED  BY <1>3, <1>4, <2>1
<1>15. PICK h : \A i \in D \cup {n} : h[i] = Term(reports', i)
  <2>1. \A i \in D \cup {n} : [x \in D \cup {n} |-> Term(reports', x)][i] = Term(reports', i)
    OBVIOUS
  <2> QED  BY <2>1
<1>16. ReportsNet(tid) = SumFunctionOnSet(h, D)
  <2> DEFINE old == [i \in D |-> Term(reports, i)]
  <2>1. ReportsNet(tid) = SumFunctionOnSet(old, D)
    BY <1>12 DEF ReportsNet, SumFunction
  <2>2. \A i \in D : old[i] \in Int /\ old[i] = h[i]
    BY <1>13, <1>15
  <2> HIDE DEF old
  <2> QED  BY <1>13, <2>1, <2>2, SumSame
<1>17. ReportsNet(tid)' = SumFunctionOnSet(h, D \cup {n})
  <2> DEFINE new == [i \in D \cup {n} |-> Term(reports', i)]
  <2>1. ReportsNet(tid)' = SumFunctionOnSet(new, D \cup {n})
    BY <1>10, <1>12 DEF ReportsNet, SumFunction
  <2>2. \A i \in D \cup {n} : new[i] \in Int /\ new[i] = h[i]
    BY <1>11, <1>13, <1>14, <1>15
  <2>3. IsFiniteSet(D \cup {n})
    BY <1>13, FS_AddElement
  <2> HIDE DEF new
  <2> QED  BY <2>1, <2>2, <2>3, SumSame
<1>18. ReportsNet(tid)' = ReportsNet(tid) + NetIn(windows, n, tid) + AddedAtBoundary(tid, "net")
  <2>1. (\A i \in D : h[i] \in Int) /\ h[n] = NetIn(windows, n, tid) + AddedAtBoundary(tid, "net") /\ h[n] \in Int
    BY <1>11, <1>13, <1>14, <1>15
  <2>2. SumFunctionOnSet(h, D \cup {n}) = h[n] + SumFunctionOnSet(h, D)
    BY <1>13, <2>1, SumAdds
  <2> QED  BY <1>13, <1>14, <1>16, <1>17, <2>1, <2>2
<1> QED  BY <1>7, <1>9, <1>13, <1>14, <1>18

LEMMA DeliverNetInv ==
  ASSUME NetInv, CountedInv', Deliver, NEW tid \in Tids
  PROVE  Owed(tid)' <= WindowsNet(tid)' + ReportsNet(tid)'
<1>0. PICK e : e = Head(ring)
  OBVIOUS
<1>1. CountedInv /\ OrderInv /\ RunTypeOK /\ TypeOK /\ TimelineInv /\ ring # << >> /\ origin \in Nat
      /\ PendingWakeupIsRunnable /\ WakeupInv
  BY DEF NetInv, CountedInv, OrderInv, TimelineInv, TypeOK, Deliver, WakeupInv
<1>2. WindowsNet(tid) \in Int /\ ReportsNet(tid) \in Int /\ Owed(tid) <= WindowsNet(tid) + ReportsNet(tid)
  BY <1>1, WindowsNetType, ReportsNetType DEF NetInv
<1>3. /\ WindowsNet(tid)' = WindowsNet(tid) + (IF ~Unheard(e) /\ e.tid = tid THEN Gain(TrackOf(e), e) ELSE 0)
      /\ ReportsNet(tid)' = ReportsNet(tid)
  BY <1>0, <1>1, DeliverNet
<1>4. /\ Behind(e) => tracks' = tracks
      /\ ~Behind(e) => /\ DOMAIN tracks' = DOMAIN tracks \cup {e.tid}
                       /\ Heard(tracks'[e.tid], e)
                       /\ \A u \in DOMAIN tracks \ {e.tid} : tracks'[u] = tracks[u]
  BY <1>0, <1>1, DeliverTrack
<1>5. Owed(tid) \in Int /\ 0 <= Owed(tid)
  <2>1. tid \in DOMAIN tracks => tracks[tid].since \in Nat /\ tracks[tid].wakeupAt \in Nat
    BY <1>1 DEF TypeOK, TrackType
  <2> QED  BY <1>1, <2>1 DEF Owed, PendingWakeupIsRunnable
<1>6. CASE Behind(e) \/ e.tid # tid
  <2>1. Owed(tid)' = Owed(tid)
    BY <1>4, <1>6 DEF Owed, NoTime
  <2> QED  BY <1>2, <1>3, <1>6, <2>1 DEF Unheard
<1>7. CASE ~Behind(e) /\ e.tid = tid
  <2>20. PICK old : old = TrackOf(e)
    OBVIOUS
  <2>21. PICK new : new = tracks'[tid]
    OBVIOUS
  <2>1. Owed(tid)' = IF new.wakeupAt # NoTime THEN new.since - new.wakeupAt ELSE 0
    BY <1>4, <1>7, <2>21 DEF Owed, NoTime
  <2>2. /\ e \in EventType /\ e.at \in Nat /\ old \in TrackType
        /\ e.at < origin => old.since <= later(watermark, e.at) /\ watermark = origin
    BY <1>0, <1>1, <1>7, <2>20, NextToObserve
  <2>22. \/ e.at < origin /\ new = old
         \/ e.at < origin /\ new = Applied(old, e, FALSE, origin)
         \/ e.at >= origin /\ new = Applied(old, e, TRUE, e.at)
    <3>1. Heard(new, e)
      BY <1>4, <1>7, <2>21
    <3> QED  BY <2>20, <3>1 DEF Heard
  <2>3. PendingIsRunnable(old)
    BY <1>1, <2>2, <2>20, TrackOfPending
  <2>4. IF old.wakeupAt # NoTime THEN old.since - old.wakeupAt <= Owed(tid) ELSE TRUE
    <3>1. CASE ~Known(e) \/ Replaces(e)
      BY <2>20, <3>1 DEF TrackOf, NewTrack
    <3>2. CASE Known(e) /\ ~Replaces(e)
      <4>1. tid \in DOMAIN tracks /\ tracks[tid] \in TrackType
        BY <1>1, <1>7, <3>2, TrackFields DEF Known
      <4>2. old.since = tracks[tid].since /\ old.wakeupAt = tracks[tid].wakeupAt
        BY <1>7, <2>20, <3>2, <4>1 DEF TrackOf, TrackType
      <4>3. tracks[tid].since \in Nat /\ tracks[tid].wakeupAt \in Nat
        BY <4>1 DEF TrackType
      <4> QED  BY <4>1, <4>2, <4>3 DEF Owed
    <3> QED  BY <3>1, <3>2
  <2>5. old.since \in Nat /\ old.wakeupAt \in Nat /\ old.state \in SchedulerStates
    BY <2>2 DEF TrackType
  <2>6. CASE e.at < origin /\ new = old
    <3>1. Unheard(e)
      BY <2>6 DEF Unheard
    <3> QED  BY <1>2, <1>3, <1>5, <2>1, <2>4, <2>5, <2>6, <3>1
  <2>7. CASE e.at < origin /\ new = Applied(old, e, FALSE, origin)
    <3>1. Unheard(e)
      BY <2>7 DEF Unheard
    <3>2. new.since = origin /\ (new.wakeupAt = old.wakeupAt \/ new.wakeupAt = NoTime)
      <4>1. new.since = origin /\ new.wakeupAt = ApplyTransition(old, e, FALSE).wakeupAt
        BY <1>1, <2>2, <2>7, AppliedFields
      <4>2. ApplyTransition(old, e, FALSE).wakeupAt \in {old.wakeupAt, NoTime}
        BY <2>2 DEF ApplyTransition, TrackType, EventType, EventKinds
      <4> QED  BY <4>1, <4>2
    <3>3. old.wakeupAt # NoTime => origin <= old.wakeupAt /\ old.wakeupAt <= old.since
      BY <2>3 DEF PendingIsRunnable
    <3>4. later(watermark, e.at) = origin
      BY <1>1, <2>2, <2>7 DEF later
    <3>5. Owed(tid)' <= Owed(tid)
      <4>1. old.since <= origin
        BY <2>2, <2>7, <3>4
      <4>2. new.since = origin /\ (new.wakeupAt # NoTime => new.wakeupAt = old.wakeupAt)
        BY <3>2
      <4> QED  BY <1>1, <1>5, <2>1, <2>4, <2>5, <3>3, <4>1, <4>2
    <3>6. WindowsNet(tid)' = WindowsNet(tid)
      BY <1>2, <1>3, <3>1
    <3>7. Owed(tid)' \in Int
      BY <1>1, <2>1, <2>5, <3>2
    <3> QED  BY <1>2, <1>3, <1>5, <3>5, <3>6, <3>7
  <2>8. CASE e.at >= origin /\ new = Applied(old, e, TRUE, e.at)
    <3>1. ~Unheard(e)
      BY <1>1, <1>7, <2>2, <2>8 DEF Unheard
    <3>2. old.since <= e.at
      BY <1>0, <1>1, <2>20, <3>1, SegmentIsOpen
    <3> DEFINE applied == ApplyTransition(old, e, TRUE)
    <3>3. new.since = e.at /\ new.wakeupAt = applied.wakeupAt
      BY <2>2, <2>8, AppliedFields
    <3>4. old.wakeupAt # NoTime => old.state = "runnable" /\ old.wakeupAt <= old.since
      BY <2>3 DEF PendingIsRunnable
    <3>5. applied.wakeupAt = NoTime \/ applied.wakeupAt = e.at
      <4>1. CASE e.kind = "wakeup" /\ old.state = "on_cpu"
        BY <3>4, <4>1 DEF ApplyTransition
      <4>2. CASE e.kind = "wakeup" /\ old.state # "on_cpu"
        <5>1. applied = [[old EXCEPT !.state = "runnable"] EXCEPT !.wakeupAt = e.at]
          BY <2>8, <4>2 DEF ApplyTransition
        <5> HIDE DEF applied
        <5> QED  BY <2>2, <5>1 DEF TrackType
      <4>3. CASE e.kind = "switch_in"
        BY <2>2, <4>3 DEF ApplyTransition, TrackType
      <4>4. CASE e.kind = "switch_out"
        BY <2>2, <4>4 DEF ApplyTransition, TrackType
      <4> QED  BY <2>2, <4>1, <4>2, <4>3, <4>4 DEF EventType, EventKinds
    <3>6. 0 - Owed(tid) <= Gain(old, e) /\ Gain(old, e) \in Int
      <4>1. Gain(old, e) \in Int
        BY <2>2, <2>5 DEF Gain
      <4>2. CASE Measures(old, e)
        <5>1. old.wakeupAt # NoTime
          BY <4>2 DEF Measures
        <5>2. Gain(old, e) = (e.at - old.since) - (e.at - old.wakeupAt)
          BY <3>4, <4>2, <5>1 DEF Gain
        <5> QED  BY <1>5, <2>2, <2>4, <2>5, <4>1, <5>1, <5>2
      <4>3. CASE ~Measures(old, e)
        <5>1. Gain(old, e) >= 0
          BY <2>2, <2>5, <3>2, <4>3 DEF Gain
        <5> QED  BY <1>5, <4>1, <5>1
      <4> QED  BY <4>2, <4>3
    <3>7. Owed(tid)' = 0
      <4> HIDE DEF applied
      <4>1. new.since = e.at /\ (new.wakeupAt = NoTime \/ new.wakeupAt = e.at)
        BY <3>3, <3>5
      <4>2. e.at - e.at = 0
        BY <2>2
      <4> QED  BY <2>1, <4>1, <4>2
    <3> HIDE DEF applied
    <3> QED  BY <1>2, <1>3, <1>5, <1>7, <2>20, <3>1, <3>6, <3>7
  <2> QED  BY <2>6, <2>7, <2>8, <2>22
<1> QED  BY <1>6, <1>7

LEMMA FlushNetInv ==
  ASSUME NetInv, CountedInv', FinishFlush, NEW tid \in Tids
  PROVE  Owed(tid)' <= WindowsNet(tid)' + ReportsNet(tid)'
<1>0. PICK n : n = nextWindow
  OBVIOUS
<1>1. /\ CountedInv /\ TypeOK /\ TimelineInv /\ PendingWakeupIsRunnable /\ lost \in Nat /\ Advance(lost)
      /\ origin \in Nat /\ n \in Nat /\ NextBoundary \in Nat /\ NextBoundary = WindowEnd(n)
  <2>1. /\ CountedInv /\ TypeOK /\ TimelineInv /\ PendingWakeupIsRunnable /\ lost \in Nat /\ Advance(lost)
    BY DEF NetInv, CountedInv, OrderInv, TimelineInv, RunTypeOK, FinishFlush
  <2> QED  BY <1>0, <2>1, WindowBounds DEF TypeOK, NextBoundary
<1>2. /\ WindowsNet(tid) \in Int /\ ReportsNet(tid) \in Int /\ Owed(tid) <= WindowsNet(tid) + ReportsNet(tid)
      /\ WindowsNet(tid)' + ReportsNet(tid)' = WindowsNet(tid) + ReportsNet(tid) + AddedAtBoundary(tid, "net")
  BY <1>1, WindowsNetType, ReportsNetType, FlushNet DEF NetInv
<1>3. tracks' = [u \in DOMAIN tracks |->
                   IF u \in Live THEN [tracks[u] EXCEPT !.since = NextBoundary] ELSE tracks[u]]
  BY <1>1 DEF Advance
<1>4. CASE tid \in Live
  <2>1. /\ tid \in DOMAIN tracks /\ tracks[tid].alive /\ NextBoundary > tracks[tid].since
        /\ tracks[tid] \in TrackType /\ tracks[tid].since \in Nat /\ tracks[tid].wakeupAt \in Nat
        /\ WindowStart(n) <= tracks[tid].since
    BY <1>0, <1>1, <1>4 DEF Live, TypeOK, TrackType, TimelineInv, TracksAreBounded, Bounded
  <2>2. PICK since \in Nat : since = tracks[tid].since
    BY <2>1
  <2>3. Overlap(n, since, NextBoundary) = NextBoundary - since
    <3>1. WindowStart(n) \in Nat
      BY <1>1, WindowBounds
    <3> QED  BY <1>1, <2>1, <2>2, <3>1 DEF Overlap, later, earlier
  <2>4. n \in TouchedWindows(since, NextBoundary)
    <3>1. n <= WindowIndex(NextBoundary)
      <4>1. WindowIndex(NextBoundary) \in Nat /\ NextBoundary < WindowEnd(WindowIndex(NextBoundary))
        BY <1>1, WindowIndexBounds
      <4>2. ASSUME WindowIndex(NextBoundary) < n  PROVE  FALSE
        <5>1. WindowEnd(WindowIndex(NextBoundary)) <= WindowStart(n)
          BY <1>1, <4>1, <4>2, WindowOrder
        <5>2. WindowStart(n) \in Nat /\ WindowStart(n) <= NextBoundary
              /\ WindowEnd(WindowIndex(NextBoundary)) \in Nat
          BY <1>1, <4>1, WindowBounds, IntervalAssumption
        <5> QED  BY <1>1, <4>1, <5>1, <5>2
      <4> QED  BY <1>1, <4>1, <4>2
    <3>2. Overlap(n, since, NextBoundary) > 0
      BY <1>1, <2>1, <2>2, <2>3
    <3>3. WindowIndex(NextBoundary) \in Nat
      BY <1>1, WindowIndexBounds
    <3> QED  BY <1>0, <1>1, <3>1, <3>2, <3>3 DEF TouchedWindows
  <2>5. AddedAtBoundary(tid, "net") = IF tracks[tid].state = "runnable" THEN NextBoundary - since ELSE 0
    BY <1>0, <1>4, <2>2, <2>3, <2>4 DEF AddedAtBoundary
  <2>6. tid \in DOMAIN tracks' /\ tracks'[tid].wakeupAt = tracks[tid].wakeupAt /\ tracks'[tid].since = NextBoundary
    BY <1>3, <1>4, <2>1 DEF TrackType
  <2>7. Owed(tid)' = IF tracks[tid].wakeupAt # NoTime THEN NextBoundary - tracks[tid].wakeupAt ELSE 0
    BY <2>6 DEF Owed, NoTime
  <2>8. Owed(tid) = IF tracks[tid].wakeupAt # NoTime THEN since - tracks[tid].wakeupAt ELSE 0
    BY <2>1, <2>2 DEF Owed
  <2>9. tracks[tid].wakeupAt # NoTime => tracks[tid].state = "runnable"
    BY <1>1, <2>1 DEF PendingWakeupIsRunnable
  <2> QED  BY <1>1, <1>2, <2>1, <2>2, <2>5, <2>7, <2>8, <2>9
<1>5. CASE tid \notin Live
  <2>1. Owed(tid)' = Owed(tid)
    BY <1>3, <1>5 DEF Owed, NoTime
  <2>2. AddedAtBoundary(tid, "net") = 0
    BY <1>5 DEF AddedAtBoundary
  <2> QED  BY <1>2, <2>1, <2>2
<1> QED  BY <1>4, <1>5

LEMMA NetStep == NetInv /\ [RunNext]_<<vars, runVars>> => NetInv'
<1> SUFFICES ASSUME NetInv, [RunNext]_<<vars, runVars>>  PROVE  NetInv'
  OBVIOUS
<1>1. CountedInv /\ CountedInv' /\ RunTypeOK /\ TimelineInv /\ WakeupInv
  <2>1. CountedInv /\ RunTypeOK /\ TimelineInv /\ WakeupInv
    BY DEF NetInv, CountedInv, OrderInv, WakeupInv
  <2> QED  BY <2>1, CountedStep
<1>2. scenario' = scenario
  <2>1. CASE UNCHANGED <<vars, runVars>>
    BY <2>1 DEF runVars
  <2>2. CASE RunNext
    BY <1>1, <2>2, RunSteps DEF Fired, Submit, Tick, Deliver, StartFlush, FinishFlush
  <2> QED  BY <2>1, <2>2
<1>3. Tids' = Tids
  BY <1>2 DEF Tids
<1>4. PendingWakeupIsRunnable'
  <2>1. [Next]_vars
    BY <1>1, RunStepImplements
  <2> QED  BY <1>1, <2>1, WakeupStep DEF WakeupInv
<1>5. CASE UNCHANGED vars
  <2>1. \A tid : Owed(tid)' = Owed(tid) /\ WindowsNet(tid)' = WindowsNet(tid) /\ ReportsNet(tid)' = ReportsNet(tid)
    BY <1>5 DEF vars, Owed, NoTime, WindowsNet, ReportsNet
  <2> QED  BY <1>1, <1>3, <1>4, <2>1 DEF NetInv
<1>6. CASE Deliver
  BY <1>1, <1>3, <1>4, <1>6, DeliverNetInv DEF NetInv
<1>7. CASE FinishFlush
  BY <1>1, <1>3, <1>4, <1>7, FlushNetInv DEF NetInv
<1>8. UNCHANGED vars \/ Deliver \/ FinishFlush
  BY <1>1, RunSteps DEF Fired, Submit, Tick, StartFlush
<1> QED  BY <1>5, <1>6, <1>7, <1>8

LEMMA RunInitNet == RunInit => NetInv
<1> SUFFICES ASSUME RunInit  PROVE  NetInv
  OBVIOUS
<1>1. PICK snapshot \in SnapshotsOf(scenario) : InitFrom(snapshot)
  BY RunStarts
<1>2. windows = << >> /\ reports = << >> /\ \A tid \in DOMAIN tracks : tracks[tid].wakeupAt = NoTime
  BY <1>1 DEF InitFrom, SeedTrack
<1>3. CountedInv /\ PendingWakeupIsRunnable
  BY RunInitCounted, RunStarts, InitPending
<1>4. DOMAIN << >> = {}
  OBVIOUS
<1>5. \A tid : WindowsNet(tid) = 0 /\ ReportsNet(tid) = 0
  BY <1>2, <1>4, SumOfNone DEF WindowsNet, NetOf, ReportsNet, SumFunction
<1>6. \A tid : Owed(tid) = 0
  BY <1>2 DEF Owed
<1> QED  BY <1>3, <1>5, <1>6 DEF NetInv

\* The rows of a TID always have as much runnable time, beyond the latencies measured in
\* them, as the wakeup has waited that is not measured yet.
THEOREM NetInvariant == RunSpec => []NetInv
<1>1. RunInit => NetInv
  BY RunInitNet
<1>2. NetInv /\ [RunNext]_<<vars, runVars>> => NetInv'
  BY NetStep
<1> QED  BY <1>1, <1>2, PTL DEF RunSpec

LEMMA SplitStats ==
  ASSUME NEW stats, IsStats(stats), IsFiniteSet(DOMAIN stats), NEW tid
  PROVE  /\ RunnableTime(stats, tid) = Amount(stats, tid, "net") + Latencies(stats, tid)
         /\ Amount(stats, tid, "net") \in Int /\ Latencies(stats, tid) \in Int
<1> DEFINE S == RowsOf(stats, tid)
           f == [id \in S |-> Figure(stats[id], "net")]
           g == [id \in S |-> stats[id].latency]
           h == [id \in S |-> stats[id].time["runnable"]]
<1>1. IsFiniteSet(S)
  BY FS_Subset DEF RowsOf
<1>2. \A id \in S : stats[id].latency \in Int /\ stats[id].time["runnable"] \in Int
  BY DEF RowsOf, IsStats, RowType, SchedulerStates
<1>3. \A id \in S : f[id] \in Int /\ g[id] \in Int /\ h[id] = f[id] + g[id]
  BY <1>2 DEF Figure
<1>4. /\ Amount(stats, tid, "net") = SumFunctionOnSet(f, S) /\ Latencies(stats, tid) = SumFunctionOnSet(g, S)
      /\ RunnableTime(stats, tid) = SumFunctionOnSet(h, S)
  BY DEF Amount, Latencies, RunnableTime, SumFunction
<1> HIDE DEF S, f, g, h
<1> QED  BY <1>1, <1>3, <1>4, SumOfSums, SumInt

LEMMA SplitAll ==
  ASSUME NEW D, IsFiniteSet(D), NEW f, NEW g, NEW h,
         \A i \in D : f[i] \in Int /\ g[i] \in Int /\ h[i] = f[i] + g[i]
  PROVE  /\ SumFunctionOnSet(h, D) = SumFunctionOnSet(f, D) + SumFunctionOnSet(g, D)
         /\ SumFunctionOnSet(f, D) \in Int /\ SumFunctionOnSet(g, D) \in Int
BY SumOfSums, SumInt

LEMMA NetIsTheDifference == NetInv => LatencyIsRunnableTime
<1> SUFFICES ASSUME NetInv, NEW tid \in Tids
             PROVE  SumFunction([i \in DOMAIN windows |-> Latencies(windows[i].stats, tid)])
                      + SumFunction([i \in DOMAIN reports |-> Latencies(reports[i].threads, tid)])
                    <= SumFunction([i \in DOMAIN windows |-> RunnableTime(windows[i].stats, tid)])
                      + SumFunction([i \in DOMAIN reports |-> RunnableTime(reports[i].threads, tid)])
  BY DEF LatencyIsRunnableTime
<1>1. CountedInv /\ TypeOK /\ FiniteInv /\ IsFiniteSet(DOMAIN windows) /\ IsFiniteSet(DOMAIN reports)
  <2>1. CountedInv /\ TypeOK /\ FiniteInv
    BY DEF NetInv, CountedInv, OrderInv, TimelineInv
  <2> QED  BY <2>1, ReportsNetType DEF FiniteInv
<1>2. \A i \in DOMAIN windows : IsStats(windows[i].stats) /\ IsFiniteSet(DOMAIN windows[i].stats)
  BY <1>1 DEF TypeOK, IsWindows, IsWindow, FiniteInv, IdsOf, WindowOf
<1>3. \A i \in DOMAIN reports : IsStats(reports[i].threads) /\ IsFiniteSet(DOMAIN reports[i].threads)
  BY <1>1 DEF TypeOK, IsReport, FiniteInv, ReportIds
<1> DEFINE W == DOMAIN windows
           R == DOMAIN reports
           wf == [i \in W |-> Amount(windows[i].stats, tid, "net")]
           wg == [i \in W |-> Latencies(windows[i].stats, tid)]
           wh == [i \in W |-> RunnableTime(windows[i].stats, tid)]
           rf == [i \in R |-> Amount(reports[i].threads, tid, "net")]
           rg == [i \in R |-> Latencies(reports[i].threads, tid)]
           rh == [i \in R |-> RunnableTime(reports[i].threads, tid)]
<1>4. \A i \in W : wf[i] \in Int /\ wg[i] \in Int /\ wh[i] = wf[i] + wg[i]
  BY <1>2, SplitStats
<1>5. \A i \in R : rf[i] \in Int /\ rg[i] \in Int /\ rh[i] = rf[i] + rg[i]
  BY <1>3, SplitStats
<1>6. WindowsNet(tid) = SumFunctionOnSet(wf, W)
  <2>1. [i \in W |-> NetIn(windows, i, tid)] = wf
    BY DEF NetIn, WindowOf
  <2> HIDE DEF wf
  <2> QED  BY <2>1 DEF WindowsNet, NetOf, SumFunction, wf
<1>7. ReportsNet(tid) = SumFunctionOnSet(rf, R)
  BY DEF ReportsNet, SumFunction
<1>8. 0 <= WindowsNet(tid) + ReportsNet(tid)
  <2>1. Owed(tid) <= WindowsNet(tid) + ReportsNet(tid) /\ WindowsNet(tid) \in Int /\ ReportsNet(tid) \in Int
    BY <1>1, WindowsNetType, ReportsNetType DEF NetInv
  <2>2. Owed(tid) \in Int /\ 0 <= Owed(tid)
    <3>1. tid \in DOMAIN tracks => tracks[tid].since \in Nat /\ tracks[tid].wakeupAt \in Nat
      BY <1>1 DEF TypeOK, TrackType
    <3> QED  BY <3>1 DEF Owed, PendingWakeupIsRunnable, NetInv
  <2> QED  BY <2>1, <2>2
<1>9. /\ SumFunction(wg) = SumFunctionOnSet(wg, W) /\ SumFunction(wh) = SumFunctionOnSet(wh, W)
      /\ SumFunction(rg) = SumFunctionOnSet(rg, R) /\ SumFunction(rh) = SumFunctionOnSet(rh, R)
  BY DEF SumFunction
<1>10. SumFunction(wg) + SumFunction(rg) <= SumFunction(wh) + SumFunction(rh)
  <2> HIDE DEF W, R, wf, wg, wh, rf, rg, rh
  <2>1. IsFiniteSet(W) /\ IsFiniteSet(R)
    BY <1>1 DEF W, R
  <2>2. /\ SumFunctionOnSet(wh, W) = SumFunctionOnSet(wf, W) + SumFunctionOnSet(wg, W)
        /\ SumFunctionOnSet(wf, W) \in Int /\ SumFunctionOnSet(wg, W) \in Int
    BY <1>4, <2>1, SplitAll
  <2>3. /\ SumFunctionOnSet(rh, R) = SumFunctionOnSet(rf, R) + SumFunctionOnSet(rg, R)
        /\ SumFunctionOnSet(rf, R) \in Int /\ SumFunctionOnSet(rg, R) \in Int
    BY <1>5, <2>1, SplitAll
  <2> QED  BY <1>6, <1>7, <1>8, <1>9, <2>2, <2>3
<1> QED  BY <1>10

\* No latency is counted that was not also counted as runnable time of the same TID:
\* whatever is lost, late or split over windows, the latencies are at most the runnable
\* time (applyTransition, recordEvent, addTrackSegment, Advance).
THEOREM LatencyIsCovered == RunSpec => []LatencyIsRunnableTime
BY NetInvariant, NetIsTheDifference, PTL

----------------------------------------------------------------------------
(* The reports are exact about states, or there is evidence *)

\* The threads that an event leads from and to.
Moves(p, e, q) ==
  /\ q.ns = e.ns
  /\ p.ns # e.ns => p.state \in {"none", "dead"} /\ e.kind = "wakeup"
  /\ e.kind = "wakeup" =>
       q.state = IF p.ns = e.ns /\ p.state = "on_cpu" THEN "on_cpu" ELSE "runnable"
  /\ e.kind = "switch_in" => q.state = "on_cpu"
  /\ e.kind = "switch_out" => q.state # "on_cpu" /\ (e.state # "unknown" => q.state = e.state)

\* The thread of a TID before the events in the ring, and after each of them.
Paths == [0 .. Len(ring) -> [ns : Nat, state : KernelStates]]

Joined(tid, path) ==
  /\ \A i \in DOMAIN ring : ring[i].tid = tid =>
       /\ Moves(path[i - 1], ring[i], path[i])
       /\ ring[i].at < Origin => path[i - 1] = path[i] /\ path[i].state # "on_cpu"
  /\ \A i, j \in 0 .. Len(ring) :
       i < j /\ (\A k \in i + 1 .. j : ring[k].tid # tid) => path[i] = path[j]
  /\ IF inflight[tid] = NoEvent THEN thread[tid] = path[Len(ring)]
     ELSE Moves(path[Len(ring)], inflight[tid], thread[tid])

\* An instant after the first i events of the ring and before the others, as far as
\* they are of a TID.
Between(tid, t, i) ==
  /\ \A j \in 1 .. i : ring[j].tid = tid => ring[j].at <= t
  /\ \A j \in i + 1 .. Len(ring) : ring[j].tid = tid => t < ring[j].at
  /\ inflight[tid] # NoEvent => t < inflight[tid].at

\* When the segment of a TID starts that is still to be credited.
SegmentStart(tid) == IF tid \in DOMAIN tracks THEN tracks[tid].since ELSE origin

Shown(tid, path) ==
  \A t \in DOMAIN timeline : t >= SegmentStart(tid) =>
    /\ \A i \in 0 .. Len(ring) : Between(tid, t, i) => timeline[t][tid] = path[i]
    /\ inflight[tid] # NoEvent /\ t >= inflight[tid].at => timeline[t][tid] = thread[tid]

IsPath(tid, path) == path \in Paths /\ Joined(tid, path) /\ Shown(tid, path)

NsOf(ns) == IF ns = 0 THEN FirstStart ELSE ns

\* A track that is in the state of its thread, as far as its sample allows.
Agrees(tid, p) ==
  LET track == tracks[tid] IN
  IF settled[tid] = Never THEN p.state # "on_cpu" /\ track.state # "on_cpu"
  ELSE IF track.state \in KnownStates
       THEN p = [ns |-> NsOf(track.ns), state |-> track.state]
       ELSE p.state # "on_cpu"

\* The events from before the end of the initial scan.
ScanEvents(tid) == {i \in DOMAIN ring : ring[i].tid = tid /\ ring[i].at < Origin}

\* The track of a TID is in the state from which the path of its thread starts.
Starts(tid, p) ==
  IF tid \in DOMAIN tracks
  THEN /\ ScanEvents(tid) = {} /\ proven[tid] # Never => Agrees(tid, p)
       /\ \A i \in ScanEvents(tid) : ring[i].at < tracks[tid].seedAt => Agrees(tid, p)
  ELSE p.state # "on_cpu"

Followed(tid) == \E path : IsPath(tid, path) /\ Starts(tid, path[0])

\* The initial scan, and what is known of a TID before and after its first events.
Seeds(tid) ==
  /\ settled[tid] \in Nat /\ proven[tid] \in Nat
  /\ IF tid \in DOMAIN tracks
     THEN /\ tracks[tid].seedAt <= tracks[tid].since
          /\ settled[tid] = Never \/ settled[tid] <= tracks[tid].since
          /\ proven[tid] = Never \/ proven[tid] <= tracks[tid].since
          /\ \A i \in ScanEvents(tid) :
               /\ ring[i].kind # "switch_in" /\ (ring[i].kind = "switch_out" => ring[i].state = "sleeping")
               /\ tracks[tid].state # "on_cpu" /\ NsOf(tracks[tid].ns) = ring[i].ns
               /\ tracks[tid].lastEvent <= ring[i].at \/ ring[i].at < tracks[tid].seedAt
     ELSE ScanEvents(tid) = {} /\ settled[tid] = 0 /\ proven[tid] = 0

\* A thread was in a state, as far as this is claimed: before it is settled and proven, the
\* reports of its state are no promise.
Holds(t, tid, ns, state) ==
  t < settled[tid] \/ t < proven[tid] \/ timeline[t][tid] = [ns |-> NsOf(ns), state |-> state]

TrueInstants(i, id, state) ==
  {t \in WindowStart(i) .. WindowEnd(i) - 1 :
     t < SegmentStart(id.tid) /\ Holds(t, id.tid, id.ns, state)}

RowsAreTrue ==
  \A i \in Nat : \A id \in [tid : Tids, ticks : Nat, ns : Nat] : \A state \in KnownStates :
    OpenRow(i, id).time[state] <= Cardinality(TrueInstants(i, id, state))

TimelineOK ==
  /\ DOMAIN timeline = Origin .. clock - 1
  /\ settled \in [Tids -> Nat] /\ proven \in [Tids -> Nat]

TracksAreTrue == \A tid \in Tids : Seeds(tid) /\ Followed(tid)

TruthInv ==
  IdsInv /\ AccountedInv /\ TimelineOK /\ (Missed \/ (RowsAreTrue /\ TracksAreTrue))

\* The fields of an event are those it is made of (handle_sched_switch, handle_sched_wakeup).
LEMMA EventFields ==
  ASSUME NEW tid, NEW ns, NEW kind, NEW state, NEW at
  PROVE  LET e == Event(tid, ns, kind, state, at) IN
         e.tid = tid /\ e.ns = ns /\ e.kind = kind /\ e.state = state /\ e.at = at
BY DEF Event, EventOf

\* An event leads from the thread before it to the one after it.
LEMMA TracepointMoves ==
  ASSUME RunTypeOK, SwitchesAreRead, NEW tid \in Tids, Tracepoint(tid)
  PROVE  \E e \in StreamEvents : \E t :
           Fired(tid, e, t) /\ Moves(thread[tid], e, t) /\ UNCHANGED <<timeline, settled, proven>>
<1>0. PICK e \in StreamEvents : \E t : Fired(tid, e, t)
  BY TracepointFires
<1>1. PICK t : Fired(tid, e, t)
  BY <1>0
<1>2. DOMAIN inflight = Tids /\ DOMAIN thread = Tids
  BY DEF RunTypeOK
<1>3. e = inflight'[tid] /\ t = thread'[tid]
  BY <1>1, <1>2 DEF Fired
<1>4. ASSUME NEW ns, NEW kind, NEW state, NEW after, Fires(tid, ns, kind, state, after)
      PROVE  /\ e.ns = ns /\ e.kind = kind /\ e.state = state /\ t.ns = ns /\ t.state = after
             /\ UNCHANGED <<timeline, settled, proven>>
  <2>1. inflight'[tid] = Event(tid, ns, kind, state, clock) /\ thread'[tid] = [ns |-> ns, state |-> after]
    BY <1>2, <1>4 DEF Fires
  <2>2. UNCHANGED <<timeline, settled, proven>>
    BY <1>4 DEF Fires, seedVars
  <2> QED  BY <1>3, <2>1, <2>2, EventFields
<1>5. thread[tid].ns \in Int
  BY ScenarioType DEF RunTypeOK
<1>6. Moves(thread[tid], e, t) /\ UNCHANGED <<timeline, settled, proven>>
  <2>1. CASE Wakeup(tid)
    <3> DEFINE after == IF thread[tid].state = "on_cpu" THEN "on_cpu" ELSE "runnable"
    <3>1. Fires(tid, thread[tid].ns, "wakeup", "runnable", after)
      BY <2>1 DEF Wakeup
    <3>2. /\ e.ns = thread[tid].ns /\ e.kind = "wakeup" /\ t.ns = thread[tid].ns /\ t.state = after
          /\ UNCHANGED <<timeline, settled, proven>>
      <4> HIDE DEF after
      <4> QED  BY <1>4, <3>1
    <3> QED  BY <3>2 DEF Moves
  <2>2. CASE SwitchIn(tid)
    <3>1. Fires(tid, thread[tid].ns, "switch_in", "on_cpu", "on_cpu")
      BY <2>2 DEF SwitchIn
    <3>2. /\ e.ns = thread[tid].ns /\ e.kind = "switch_in" /\ t.ns = thread[tid].ns /\ t.state = "on_cpu"
          /\ UNCHANGED <<timeline, settled, proven>>
      BY <1>4, <3>1
    <3> QED  BY <3>2 DEF Moves
  <2>3. CASE Spawn(tid)
    <3>1. Fires(tid, thread[tid].ns + 1, "wakeup", "runnable", "runnable") /\ thread[tid].state \in {"none", "dead"}
      BY <2>3 DEF Spawn
    <3>2. /\ e.ns = thread[tid].ns + 1 /\ e.kind = "wakeup" /\ t.ns = thread[tid].ns + 1 /\ t.state = "runnable"
          /\ UNCHANGED <<timeline, settled, proven>>
      BY <1>4, <3>1
    <3> QED  BY <1>5, <3>1, <3>2 DEF Moves
  <2>4. ASSUME NEW switch \in Switches, SwitchOut(tid, switch)
        PROVE  Moves(thread[tid], e, t) /\ UNCHANGED <<timeline, settled, proven>>
    <3> DEFINE state == stateAfterSwitch(switch.flags, switch.preempted)
    <3>1. Fires(tid, thread[tid].ns, "switch_out", state, switch.state)
      BY <2>4 DEF SwitchOut
    <3>2. switch.state # "on_cpu" /\ state \in {switch.state, "unknown"}
      BY DEF SwitchesAreRead, Switches, RunTypeOK
    <3> HIDE DEF state
    <3>3. /\ e.ns = thread[tid].ns /\ e.kind = "switch_out" /\ e.state = state
          /\ t.ns = thread[tid].ns /\ t.state = switch.state
          /\ UNCHANGED <<timeline, settled, proven>>
      BY <1>4, <3>1
    <3> QED  BY <3>2, <3>3 DEF Moves
  <2> QED  BY <2>1, <2>2, <2>3, <2>4 DEF Tracepoint
<1> QED  BY <1>1, <1>6

\* Every step of a run, with what the threads do in it.
LEMMA TrueSteps ==
  ASSUME RunTypeOK, SwitchesAreRead, RunNext
  PROVE  \/ \E tid \in Tids : \E e \in StreamEvents : \E t :
              Fired(tid, e, t) /\ Moves(thread[tid], e, t) /\ UNCHANGED <<timeline, settled, proven>>
         \/ \E tid \in Tids : Submit(tid)
         \/ Tick \/ Deliver \/ StartFlush \/ FinishFlush
BY TracepointMoves DEF RunNext, Tracepoint

----------------------------------------------------------------------------

\* What a path is made of.
LEMMA PathType ==
  ASSUME RunTypeOK, NEW path \in Paths
  PROVE  /\ Len(ring) \in Nat /\ DOMAIN ring = 1 .. Len(ring) /\ DOMAIN path = 0 .. Len(ring)
         /\ \A i \in 0 .. Len(ring) : path[i] \in [ns : Nat, state : KernelStates]
BY DEF RunTypeOK, Paths

\* A step that leaves the tracks, the samples and the ring alone leaves the start of a path.
LEMMA StillStarts ==
  ASSUME UNCHANGED <<vars, scenario, ring, settled, proven>>, NEW tid
  PROVE  /\ \A p : Starts(tid, p) => Starts(tid, p)'
         /\ Seeds(tid) => Seeds(tid)'
         /\ SegmentStart(tid)' = SegmentStart(tid)
<1>1. UNCHANGED <<Tids, FirstStart, Origin, MaxClock, Never, tracks, origin>>
  BY SameScenario DEF vars, Never
<1>2. ScanEvents(tid)' = ScanEvents(tid)
  BY <1>1 DEF ScanEvents
<1>3. \A p : Agrees(tid, p)' = Agrees(tid, p)
  BY <1>1 DEF Agrees, NsOf
<1>4. ASSUME NEW p, Starts(tid, p)  PROVE Starts(tid, p)'
  BY <1>1, <1>2, <1>3, <1>4 DEF Starts
<1> QED  BY <1>1, <1>2, <1>4 DEF Seeds, SegmentStart, NsOf

\* When a tracepoint fires, the path of its thread ends in the event in flight, and the
\* paths of the others stay as they are.
LEMMA FiredFollows ==
  ASSUME OrderInv, TimelineOK, NEW tid \in Tids, NEW e \in StreamEvents, NEW t, Fired(tid, e, t),
         Moves(thread[tid], e, t), UNCHANGED <<timeline, settled, proven>>,
         NEW u \in Tids, Followed(u)
  PROVE  Followed(u)'
<1>1. PICK path : IsPath(u, path) /\ Starts(u, path[0])
  BY DEF Followed
<1>2. RunTypeOK /\ path \in Paths
  BY <1>1 DEF OrderInv, IsPath
<1>3. /\ ring' = ring /\ inflight' = [inflight EXCEPT ![tid] = e] /\ inflight[tid] = NoEvent
      /\ thread' = [thread EXCEPT ![tid] = t] /\ DOMAIN thread = Tids /\ DOMAIN inflight = Tids
      /\ UNCHANGED <<vars, scenario, clock>> /\ e # NoEvent /\ e.at = clock
  BY <1>2 DEF Fired, RunTypeOK
<1>4. UNCHANGED <<Tids, FirstStart, Origin, MaxClock>> /\ SegmentStart(u)' = SegmentStart(u)
      /\ Starts(u, path[0])'
  BY <1>1, <1>3, SameScenario, StillStarts
<1>5. Paths' = Paths
  BY <1>3 DEF Paths, KernelStates
<1>6. Joined(u, path)'
  BY <1>1, <1>3, <1>4 DEF IsPath, Joined, Moves
<1>7. \A s \in DOMAIN timeline : s < clock
  <2>1. Origin \in Int /\ clock \in Int
    BY <1>2, ScenarioType DEF RunTypeOK
  <2> QED  BY <2>1 DEF TimelineOK
<1>8. Shown(u, path)'
  <2> SUFFICES ASSUME NEW s \in DOMAIN timeline, s >= SegmentStart(u)
               PROVE  /\ \A i \in 0 .. Len(ring) : Between(u, s, i)' => timeline[s][u] = path[i]
                      /\ inflight'[u] # NoEvent /\ s >= inflight'[u].at => timeline[s][u] = thread'[u]
    BY <1>3, <1>4 DEF Shown
  <2>1. /\ \A i \in 0 .. Len(ring) : Between(u, s, i) => timeline[s][u] = path[i]
        /\ inflight[u] # NoEvent /\ s >= inflight[u].at => timeline[s][u] = thread[u]
    BY <1>1 DEF IsPath, Shown
  <2>2. s < clock /\ s \in Int /\ clock \in Int
    <3>1. Origin \in Int /\ clock \in Int
      BY <1>2, ScenarioType DEF RunTypeOK
    <3> QED  BY <1>7, <3>1 DEF TimelineOK
  <2>3. \A i \in 0 .. Len(ring) : Between(u, s, i)' => Between(u, s, i)
    BY <1>3 DEF Between
  <2>4. CASE u = tid
    BY <1>3, <2>1, <2>2, <2>3, <2>4
  <2>5. CASE u # tid
    BY <1>3, <2>1, <2>3, <2>5
  <2> QED  BY <2>4, <2>5
<1> QED  BY <1>2, <1>4, <1>5, <1>6, <1>8 DEF Followed, IsPath

\* The instant that a tick adds to the timeline is after all that is on its way.
LEMMA TickFollows ==
  ASSUME OrderInv, TimelineOK, Tick, NEW u \in Tids, Followed(u)
  PROVE  Followed(u)'
<1>1. PICK path : IsPath(u, path) /\ Starts(u, path[0])
  BY DEF Followed
<1>2. RunTypeOK /\ path \in Paths /\ PendingInOrder
  BY <1>1 DEF OrderInv, IsPath
<1>3. /\ UNCHANGED <<ring, inflight, thread, vars, scenario, settled, proven>> /\ clock' = clock + 1
      /\ timeline' = [t \in DOMAIN timeline \cup {clock} |-> IF t = clock THEN thread ELSE timeline[t]]
  BY DEF Tick, seedVars
<1>4. UNCHANGED <<Tids, FirstStart, Origin, MaxClock>> /\ SegmentStart(u)' = SegmentStart(u)
      /\ Starts(u, path[0])'
  BY <1>1, <1>3, SameScenario, StillStarts
<1>5. Paths' = Paths
  BY <1>3 DEF Paths, KernelStates
<1>6. Joined(u, path)'
  BY <1>1, <1>3, <1>4 DEF IsPath, Joined, Moves
<1>7. Len(ring) \in Nat /\ DOMAIN ring = 1 .. Len(ring) /\ clock \in Nat
  BY <1>2, PathType DEF RunTypeOK
<1>8. /\ \A i \in DOMAIN ring : ring[i].tid = u => ring[i].at <= clock /\ ring[i].at \in Nat
      /\ inflight[u] # NoEvent => inflight[u].at <= clock /\ inflight[u].at \in Nat
  <2>1. \A e \in Pending(u) : e.at <= clock /\ e.at \in Nat
    BY <1>2, PendingType DEF PendingInOrder
  <2> QED  BY <2>1 DEF Pending
<1>9. ASSUME NEW i \in 0 .. Len(ring), Between(u, clock, i)
      PROVE  thread[u] = path[i]
  <2>1. inflight[u] = NoEvent /\ \A j \in i + 1 .. Len(ring) : ring[j].tid # u
    BY <1>7, <1>8, <1>9 DEF Between
  <2>2. thread[u] = path[Len(ring)]
    BY <1>1, <2>1 DEF IsPath, Joined
  <2>3. CASE i = Len(ring)
    BY <2>2, <2>3
  <2>4. CASE i < Len(ring)
    <3>1. i \in 0 .. Len(ring) /\ Len(ring) \in 0 .. Len(ring)
      BY <1>7
    <3>2. path[i] = path[Len(ring)]
      BY <1>1, <2>1, <2>4, <3>1 DEF IsPath, Joined
    <3> QED  BY <2>2, <3>2
  <2> QED  BY <1>7, <2>3, <2>4
<1>10. Shown(u, path)'
  <2> SUFFICES ASSUME NEW s \in DOMAIN timeline', s >= SegmentStart(u)
               PROVE  /\ \A i \in 0 .. Len(ring) : Between(u, s, i) => timeline'[s][u] = path[i]
                      /\ inflight[u] # NoEvent /\ s >= inflight[u].at => timeline'[s][u] = thread[u]
    BY <1>3, <1>4 DEF Shown, Between
  <2>1. CASE s = clock
    BY <1>3, <1>9, <2>1
  <2>2. CASE s # clock
    <3>1. s \in DOMAIN timeline /\ timeline'[s] = timeline[s]
      BY <1>3, <2>2
    <3> QED  BY <1>1, <3>1 DEF IsPath, Shown
  <2> QED  BY <2>1, <2>2
<1> QED  BY <1>2, <1>4, <1>5, <1>6, <1>10 DEF Followed, IsPath

\* A record that enters the ring makes the path of its thread one event longer.
LEMMA SubmitFollows ==
  ASSUME OrderInv, ScanEventsComeFirst, TimelineOK, NEW tid \in Tids, Submit(tid), lost' = lost,
         NEW u \in Tids, Followed(u), Seeds(u)
  PROVE  Followed(u)' /\ Seeds(u)'
<1>1. PICK path : IsPath(u, path) /\ Starts(u, path[0])
  BY DEF Followed
<1>2. RunTypeOK /\ path \in Paths /\ lost \in Nat
  BY <1>1 DEF OrderInv, IsPath, RunTypeOK
<1>n. PICK n : n = Len(ring)
  OBVIOUS
<1> DEFINE e == inflight[tid]
           last == IF u = tid THEN thread[u] ELSE path[n]
<1>3. /\ e # NoEvent /\ e.tid = tid /\ inflight' = [inflight EXCEPT ![tid] = NoEvent] /\ DOMAIN inflight = Tids
      /\ UNCHANGED <<thread, vars, scenario, settled, proven, clock, timeline>> /\ ring' = Append(ring, e)
      /\ e.at >= Origin
  <2>1. ring' = Append(ring, inflight[tid])
    BY <1>2 DEF Submit
  <2> QED  BY <1>2, <2>1 DEF Submit, RunTypeOK, seedVars, ScanEventsComeFirst
<1>4. UNCHANGED <<Tids, FirstStart, Origin, MaxClock, Never, tracks, origin>>
      /\ SegmentStart(u)' = SegmentStart(u)
  BY <1>3, SameScenario DEF vars, SegmentStart, Never
<1>5. /\ n \in Nat /\ DOMAIN ring = 1 .. n /\ Len(ring') = n + 1 /\ DOMAIN ring' = 1 .. n + 1
      /\ ring'[n + 1] = e /\ \A i \in 1 .. n : ring'[i] = ring[i]
      /\ \A i \in 0 .. n : path[i] \in [ns : Nat, state : KernelStates]
      /\ thread[u] \in [ns : Nat, state : KernelStates]
  <2>1. thread[u] \in [ns : Nat, state : KernelStates]
    <3>1. FirstStart \in Nat /\ emitted \in Nat
      BY <1>2, ScenarioType DEF RunTypeOK
    <3> QED  BY <1>2, <3>1 DEF RunTypeOK
  <2>2. ring \in Seq(StreamEvents)
    BY <1>2 DEF RunTypeOK
  <2>3. n \in Nat /\ DOMAIN ring = 1 .. n /\ \A i \in 0 .. n : path[i] \in [ns : Nat, state : KernelStates]
    BY <1>n, <1>2, PathType
  <2> HIDE DEF e
  <2> QED  BY <1>3, <2>1, <2>2, <2>3
<1> HIDE DEF e
<1>0. PICK longer : longer = [i \in 0 .. n + 1 |-> IF i = n + 1 THEN last ELSE path[i]]
  OBVIOUS
<1>6. /\ longer[n + 1] = last /\ \A i \in 0 .. n : longer[i] = path[i]
  BY <1>0, <1>5
<1>7. longer \in Paths'
  <2>1. last \in [ns : Nat, state : KernelStates]
    BY <1>5
  <2>2. \A i \in 0 .. n + 1 : longer[i] \in [ns : Nat, state : KernelStates]
    <3> HIDE DEF last
    <3> QED  BY <1>5, <1>6, <2>1
  <2>3. longer = [i \in 0 .. n + 1 |-> longer[i]]
    BY <1>0
  <2>4. KernelStates' = KernelStates
    BY DEF KernelStates
  <2> HIDE DEF last
  <2> QED  BY <1>5, <2>2, <2>3, <2>4 DEF Paths
<1>8. inflight'[u] = IF u = tid THEN NoEvent ELSE inflight[u]
  BY <1>3
<1>9. ScanEvents(u)' = ScanEvents(u) /\ \A i \in ScanEvents(u) : ring'[i] = ring[i]
  <2>1. e.at \in Int /\ Origin \in Int
    BY <1>2, <1>3, ScenarioType DEF RunTypeOK, StreamEvents, e
  <2>2. ~(e.at < Origin)
    BY <1>3, <2>1
  <2>3. \A i : i \in 1 .. n + 1 <=> i \in 1 .. n \/ i = n + 1
    BY <1>5
  <2> QED  BY <1>4, <1>5, <2>2, <2>3 DEF ScanEvents
<1>10. Starts(u, longer[0])' /\ Seeds(u)'
  <2>1. longer[0] = path[0]
    BY <1>5, <1>6
  <2>2. \A p : Agrees(u, p)' = Agrees(u, p)
    BY <1>3, <1>4 DEF Agrees, NsOf
  <2>3. Starts(u, path[0])'
    BY <1>1, <1>3, <1>4, <1>9, <2>2 DEF Starts
  <2> QED  BY <1>3, <1>4, <1>9, <2>1, <2>3 DEF Seeds, NsOf
<1>11. Joined(u, longer)'
  <2>1. ASSUME NEW i \in 1 .. n + 1, ring'[i].tid = u
        PROVE  Moves(longer[i - 1], ring'[i], longer[i]) /\ (ring'[i].at < Origin => longer[i - 1] = longer[i] /\ longer[i].state # "on_cpu")
    <3>1. CASE i \in 1 .. n
      <4>1. i - 1 \in 0 .. n /\ i \in 0 .. n
        BY <1>5, <3>1
      <4>2. longer[i - 1] = path[i - 1] /\ longer[i] = path[i] /\ ring'[i] = ring[i]
        BY <1>5, <1>6, <3>1, <4>1
      <4>3. i \in DOMAIN ring /\ ring[i].tid = u
        BY <1>5, <2>1, <3>1, <4>2
      <4>4. Moves(path[i - 1], ring[i], path[i]) /\ (ring[i].at < Origin => path[i - 1] = path[i] /\ path[i].state # "on_cpu")
        BY <1>1, <4>3 DEF IsPath, Joined
      <4> QED  BY <4>2, <4>4
    <3>2. CASE i = n + 1
      <4>1. ring'[i] = e /\ u = tid /\ e = inflight[u] /\ longer[i] = thread[u] /\ longer[i - 1] = path[n]
        BY <1>3, <1>5, <1>6, <2>1, <3>2 DEF e
      <4>2. Moves(path[n], e, thread[u])
        BY <1>n, <1>1, <1>3, <4>1 DEF IsPath, Joined
      <4>3. ~(e.at < Origin)
        <5>1. e.at \in Int /\ Origin \in Int
          BY <1>2, <1>3, ScenarioType DEF RunTypeOK, StreamEvents, e
        <5> QED  BY <1>3, <5>1
      <4> QED  BY <4>1, <4>2, <4>3
    <3> QED  BY <1>5, <3>1, <3>2
  <2>2. ASSUME NEW i \in 0 .. n + 1, NEW j \in 0 .. n + 1, i < j, \A k \in i + 1 .. j : ring'[k].tid # u
        PROVE  longer[i] = longer[j]
    <3>1. i \in 0 .. n
      BY <1>5, <2>2
    <3>2. CASE j \in 0 .. n
      <4>1. \A k \in i + 1 .. j : ring[k].tid # u
        BY <1>5, <2>2, <3>1, <3>2
      <4>2. path[i] = path[j]
        BY <1>n, <1>1, <2>2, <3>1, <3>2, <4>1 DEF IsPath, Joined
      <4> QED  BY <1>6, <3>1, <3>2, <4>2
    <3>3. CASE j = n + 1
      <4>1. u # tid
        <5>1. n + 1 \in i + 1 .. j
          BY <1>5, <3>1, <3>3
        <5> QED  BY <1>3, <1>5, <2>2, <5>1
      <4>2. longer[j] = path[n] /\ longer[i] = path[i]
        BY <1>6, <3>1, <3>3, <4>1
      <4>3. CASE i = n
        BY <4>2, <4>3
      <4>4. CASE i < n
        <5>1. \A k \in i + 1 .. n : ring[k].tid # u
          BY <1>5, <2>2, <3>1, <3>3
        <5>2. n \in 0 .. n
          BY <1>5
        <5>3. path[i] = path[n]
          BY <1>n, <1>1, <3>1, <4>4, <5>1, <5>2 DEF IsPath, Joined
        <5> QED  BY <4>2, <5>3
      <4> QED  BY <1>5, <3>1, <4>3, <4>4
    <3> QED  BY <1>5, <3>2, <3>3
  <2>3. IF inflight'[u] = NoEvent THEN thread[u] = longer[n + 1] ELSE Moves(longer[n + 1], inflight'[u], thread[u])
    <3>1. CASE u = tid
      BY <1>6, <1>8, <3>1
    <3>2. CASE u # tid
      BY <1>n, <1>1, <1>6, <1>8, <3>2 DEF IsPath, Joined
    <3> QED  BY <3>1, <3>2
  <2>4. \A p, f, q : Moves(p, f, q)' = Moves(p, f, q)
    BY DEF Moves
  <2> QED  BY <1>3, <1>4, <1>5, <2>1, <2>2, <2>3, <2>4 DEF Joined
<1>12. Shown(u, longer)'
  <2> SUFFICES ASSUME NEW s \in DOMAIN timeline, s >= SegmentStart(u)
               PROVE  /\ \A i \in 0 .. n + 1 : Between(u, s, i)' => timeline[s][u] = longer[i]
                      /\ inflight'[u] # NoEvent /\ s >= inflight'[u].at => timeline[s][u] = thread[u]
    BY <1>3, <1>4, <1>5 DEF Shown
  <2>1. /\ \A i \in 0 .. n : Between(u, s, i) => timeline[s][u] = path[i]
        /\ inflight[u] # NoEvent /\ s >= inflight[u].at => timeline[s][u] = thread[u]
    BY <1>n, <1>1 DEF IsPath, Shown
  <2>2. ASSUME NEW i \in 0 .. n, Between(u, s, i)'
        PROVE  timeline[s][u] = longer[i]
    <3>1. /\ \A j \in 1 .. i : ring[j].tid = u => ring[j].at <= s
          /\ \A j \in i + 1 .. n : ring[j].tid = u => s < ring[j].at
      BY <1>5, <2>2 DEF Between
    <3>2. inflight[u] # NoEvent => s < inflight[u].at
      <4>1. CASE u = tid
        <5>1. n + 1 \in i + 1 .. n + 1
          BY <1>5
        <5>2. ring'[n + 1] = inflight[u] /\ ring'[n + 1].tid = u
          BY <1>3, <1>5, <4>1 DEF e
        <5> QED  BY <1>5, <2>2, <5>1, <5>2 DEF Between
      <4>2. CASE u # tid
        BY <1>8, <2>2, <4>2 DEF Between
      <4> QED  BY <4>1, <4>2
    <3>3. Between(u, s, i)
      BY <1>n, <3>1, <3>2 DEF Between
    <3> QED  BY <1>6, <2>1, <3>3
  <2>3. ASSUME Between(u, s, n + 1)'
        PROVE  timeline[s][u] = longer[n + 1]
    <3>1. CASE u = tid
      <4>1. n + 1 \in 1 .. n + 1 /\ ring'[n + 1] = inflight[u] /\ ring'[n + 1].tid = u
        BY <1>3, <1>5, <3>1 DEF e
      <4>2. inflight[u].at <= s
        BY <2>3, <4>1 DEF Between
      <4>3. inflight[u].at \in Int /\ s \in Int
        <5>1. Origin \in Int /\ clock \in Int
          BY <1>2, ScenarioType DEF RunTypeOK
        <5>2. s \in Int
          BY <5>1 DEF TimelineOK
        <5>3. inflight[u].at \in Int
          BY <1>2, <1>3, <3>1 DEF RunTypeOK, StreamEvents, e
        <5> QED  BY <5>2, <5>3
      <4> QED  BY <1>3, <1>6, <2>1, <3>1, <4>2, <4>3 DEF e
    <3>2. CASE u # tid
      <4>1. Between(u, s, n)
        BY <1>n, <1>5, <1>8, <2>3, <3>2 DEF Between
      <4>2. timeline[s][u] = path[n]
        BY <1>5, <2>1, <4>1
      <4> QED  BY <1>6, <3>2, <4>2
    <3> QED  BY <3>1, <3>2
  <2>4. \A i \in 0 .. n + 1 : i \in 0 .. n \/ i = n + 1
    BY <1>5
  <2>5. inflight'[u] # NoEvent /\ s >= inflight'[u].at => timeline[s][u] = thread[u]
    BY <1>8, <2>1
  <2> QED  BY <2>2, <2>3, <2>4, <2>5
<1> QED  BY <1>7, <1>10, <1>11, <1>12 DEF Followed, IsPath

\* The start of a flush leaves the paths alone.
LEMMA StartFlushFollows ==
  ASSUME StartFlush, NEW u \in Tids, Followed(u), Seeds(u)
  PROVE  Followed(u)' /\ Seeds(u)'
<1>1. PICK path : IsPath(u, path) /\ Starts(u, path[0])
  BY DEF Followed
<1>2. /\ UNCHANGED <<vars, scenario, clock, thread, inflight, ring, timeline, settled, proven>>
  BY DEF StartFlush, seedVars
<1>3. UNCHANGED <<Tids, FirstStart, Origin, MaxClock>> /\ SegmentStart(u)' = SegmentStart(u)
      /\ Starts(u, path[0])' /\ Seeds(u)'
  BY <1>1, <1>2, SameScenario, StillStarts
<1>4. IsPath(u, path)'
  <2>1. path \in Paths'
    BY <1>1, <1>2 DEF IsPath, Paths, KernelStates
  <2>2. Joined(u, path)'
    BY <1>1, <1>2, <1>3 DEF IsPath, Joined, Moves
  <2>3. Shown(u, path)'
    BY <1>1, <1>2, <1>3 DEF IsPath, Shown, Between
  <2> QED  BY <2>1, <2>2, <2>3 DEF IsPath
<1> QED  BY <1>3, <1>4 DEF Followed

\* The end of a flush moves the segments to the boundary, and forgets only threads without one.
LEMMA FinishFlushFollows ==
  ASSUME OrderInv, TimelineOK, FinishFlush, NEW u \in Tids, Followed(u), Seeds(u)
  PROVE  Followed(u)' /\ Seeds(u)' /\ SegmentStart(u) \in Nat /\ SegmentStart(u)' \in Nat
         /\ SegmentStart(u) <= SegmentStart(u)'
<1>1. PICK path : IsPath(u, path) /\ Starts(u, path[0])
  BY DEF Followed
<1>2. /\ UNCHANGED <<origin, scenario, clock, thread, inflight, ring, timeline, settled, proven>>
      /\ tracks' = [tid \in DOMAIN tracks |->
                      IF tid \in Live THEN [tracks[tid] EXCEPT !.since = NextBoundary] ELSE tracks[tid]]
  BY DEF FinishFlush, Advance, seedVars
<1>3. UNCHANGED <<Tids, FirstStart, Origin, MaxClock, Never>>
  BY <1>2, SameScenario DEF Never
<1>4. RunTypeOK /\ TypeOK /\ origin \in Nat /\ nextWindow \in Nat /\ NextBoundary \in Nat
  <2>1. RunTypeOK /\ TypeOK /\ origin \in Nat /\ nextWindow \in Nat
    BY DEF OrderInv, TimelineInv, TypeOK
  <2>2. NextBoundary \in Nat
    BY <2>1, WindowBounds DEF NextBoundary
  <2> QED  BY <2>1, <2>2
<1>5. u \in DOMAIN tracks =>
        /\ u \in DOMAIN tracks' /\ tracks[u].since \in Nat /\ tracks'[u].since \in Nat
        /\ tracks[u].since <= tracks'[u].since
        /\ tracks'[u].seedAt = tracks[u].seedAt /\ tracks'[u].lastEvent = tracks[u].lastEvent
        /\ tracks'[u].ns = tracks[u].ns /\ tracks'[u].state = tracks[u].state
        /\ tracks[u].seedAt \in Nat
  <2> SUFFICES ASSUME u \in DOMAIN tracks
               PROVE  /\ u \in DOMAIN tracks' /\ tracks[u].since \in Nat /\ tracks'[u].since \in Nat
                      /\ tracks[u].since <= tracks'[u].since
                      /\ tracks'[u].seedAt = tracks[u].seedAt /\ tracks'[u].lastEvent = tracks[u].lastEvent
                      /\ tracks'[u].ns = tracks[u].ns /\ tracks'[u].state = tracks[u].state
                      /\ tracks[u].seedAt \in Nat
    OBVIOUS
  <2>1. tracks[u] \in TrackType /\ tracks[u].since \in Nat
    BY <1>4, TrackFields
  <2>2. u \in Live => NextBoundary > tracks[u].since
    BY DEF Live
  <2>3. tracks'[u] = IF u \in Live THEN [tracks[u] EXCEPT !.since = NextBoundary] ELSE tracks[u]
    BY <1>2
  <2> HIDE DEF Live
  <2> QED  BY <1>2, <1>4, <2>1, <2>2, <2>3 DEF TrackType
<1>6. SegmentStart(u) \in Nat /\ SegmentStart(u)' \in Nat /\ SegmentStart(u) <= SegmentStart(u)'
      /\ DOMAIN tracks' = DOMAIN tracks
  BY <1>2, <1>4, <1>5 DEF SegmentStart
<1>7. ScanEvents(u)' = ScanEvents(u)
  BY <1>2, <1>3 DEF ScanEvents
<1>8. IsPath(u, path)'
  <2>1. path \in Paths'
    BY <1>1, <1>2 DEF IsPath, Paths, KernelStates
  <2>2. Joined(u, path)'
    BY <1>1, <1>2, <1>3 DEF IsPath, Joined, Moves
  <2>3. \A s \in DOMAIN timeline : s \in Int
    <3>1. Origin \in Int /\ clock \in Int
      BY <1>4, ScenarioType DEF RunTypeOK
    <3> QED  BY <3>1 DEF TimelineOK
  <2>4. \A s \in DOMAIN timeline : s >= SegmentStart(u)' => s >= SegmentStart(u)
    BY <1>6, <2>3
  <2>5. Shown(u, path)'
    BY <1>1, <1>2, <2>4 DEF IsPath, Shown, Between
  <2> QED  BY <2>1, <2>2, <2>5 DEF IsPath
<1>9. \A p : u \in DOMAIN tracks => Agrees(u, p)' = Agrees(u, p)
  BY <1>2, <1>3, <1>5 DEF Agrees, NsOf
<1>10. Starts(u, path[0])'
  <2>1. CASE u \in DOMAIN tracks
    <3>1. /\ ScanEvents(u) = {} /\ proven[u] # Never => Agrees(u, path[0])
          /\ \A i \in ScanEvents(u) : ring[i].at < tracks[u].seedAt => Agrees(u, path[0])
      BY <1>1, <2>1 DEF Starts
    <3>2. Agrees(u, path[0])' <=> Agrees(u, path[0])
      BY <1>9, <2>1
    <3> QED  BY <1>2, <1>3, <1>5, <1>7, <2>1, <3>1, <3>2 DEF Starts
  <2>2. CASE u \notin DOMAIN tracks
    BY <1>1, <1>6, <2>2 DEF Starts
  <2> QED  BY <2>1, <2>2
<1>11. Seeds(u)'
  <2>1. settled[u] \in Nat /\ proven[u] \in Nat
    BY DEF Seeds
  <2> QED  BY <1>2, <1>3, <1>5, <1>6, <1>7, <2>1 DEF Seeds, NsOf
<1> QED  BY <1>6, <1>8, <1>10, <1>11 DEF Followed

\* What is left of a path when the first event has been observed.
LEMMA PathGoesOn ==
  ASSUME RunTypeOK, TimelineOK, ring # << >>, ring' = Tail(ring),
         UNCHANGED <<inflight, thread, timeline, scenario>>, NEW u \in Tids, NEW path, IsPath(u, path),
         SegmentStart(u) \in Nat, SegmentStart(u)' \in Nat, SegmentStart(u) <= SegmentStart(u)',
         ring[1].tid = u => ring[1].at <= SegmentStart(u)'
  PROVE  \E rest : IsPath(u, rest)' /\ rest[0] = path[1]
<1>n. PICK n : n = Len(ring)
  OBVIOUS
<1>1. /\ n \in Nat \ {0} /\ DOMAIN ring = 1 .. n /\ Len(ring') = n - 1 /\ DOMAIN ring' = 1 .. n - 1
      /\ \A i \in 1 .. n - 1 : i + 1 \in 1 .. n /\ ring'[i] = ring[i + 1]
      /\ \A i \in 0 .. n : path[i] \in [ns : Nat, state : KernelStates]
  <2>1. path \in Paths
    BY DEF IsPath
  <2>2. \A i \in 0 .. n : path[i] \in [ns : Nat, state : KernelStates]
    BY <1>n, <2>1, PathType
  <2>3. ring \in Seq(StreamEvents)
    BY DEF RunTypeOK
  <2> QED  BY <1>n, <2>2, <2>3, HeadOfRing
<1>0. PICK rest : rest = [i \in 0 .. n - 1 |-> path[i + 1]]
  OBVIOUS
<1>2. \A i \in 0 .. n - 1 : rest[i] = path[i + 1]
  BY <1>0
<1>3. rest[0] = path[1]
  BY <1>1, <1>2
<1>4. UNCHANGED <<Tids, FirstStart, Origin, MaxClock>>
  BY SameScenario
<1>5. rest \in Paths'
  <2>1. \A i \in 0 .. n - 1 : rest[i] \in [ns : Nat, state : KernelStates]
    <3>1. \A i \in 0 .. n - 1 : i + 1 \in 0 .. n
      BY <1>1
    <3> QED  BY <1>1, <1>2, <3>1
  <2>2. rest = [i \in 0 .. n - 1 |-> rest[i]]
    BY <1>0
  <2>3. KernelStates' = KernelStates
    BY DEF KernelStates
  <2> QED  BY <1>1, <2>1, <2>2, <2>3 DEF Paths
<1>6. Joined(u, rest)'
  <2>1. ASSUME NEW i \in 1 .. n - 1, ring'[i].tid = u
        PROVE  Moves(rest[i - 1], ring'[i], rest[i]) /\ (ring'[i].at < Origin => rest[i - 1] = rest[i] /\ rest[i].state # "on_cpu")
    <3>1. i - 1 \in 0 .. n - 1 /\ i \in 0 .. n - 1 /\ i + 1 \in 1 .. n
      BY <1>1
    <3>2. rest[i - 1] = path[i] /\ rest[i] = path[i + 1] /\ ring'[i] = ring[i + 1]
      BY <1>1, <1>2, <3>1
    <3>3. ring[i + 1].tid = u /\ i + 1 \in DOMAIN ring
      BY <1>1, <2>1, <3>1, <3>2
    <3>4. Moves(path[i + 1 - 1], ring[i + 1], path[i + 1])
          /\ (ring[i + 1].at < Origin => path[i + 1 - 1] = path[i + 1] /\ path[i + 1].state # "on_cpu")
      BY <3>3 DEF IsPath, Joined
    <3>5. i + 1 - 1 = i
      BY <1>1
    <3> QED  BY <3>2, <3>4, <3>5
  <2>2. ASSUME NEW i \in 0 .. n - 1, NEW j \in 0 .. n - 1, i < j, \A k \in i + 1 .. j : ring'[k].tid # u
        PROVE  rest[i] = rest[j]
    <3>1. i + 1 \in 0 .. n /\ j + 1 \in 0 .. n /\ i + 1 < j + 1
      BY <1>1, <2>2
    <3>2. ASSUME NEW k \in i + 1 + 1 .. j + 1  PROVE  ring[k].tid # u
      <4>1. k - 1 \in i + 1 .. j /\ k - 1 \in 1 .. n - 1 /\ k - 1 + 1 = k
        BY <1>1, <3>2
      <4>2. ring'[k - 1].tid # u /\ ring'[k - 1] = ring[k - 1 + 1]
        BY <1>1, <2>2, <4>1
      <4> QED  BY <4>1, <4>2
    <3>3. path[i + 1] = path[j + 1]
      BY <1>n, <3>1, <3>2 DEF IsPath, Joined
    <3> QED  BY <1>2, <3>3
  <2>3. IF inflight[u] = NoEvent THEN thread[u] = rest[n - 1] ELSE Moves(rest[n - 1], inflight[u], thread[u])
    <3>1. rest[n - 1] = path[n]
      BY <1>1, <1>2
    <3> QED  BY <1>n, <3>1 DEF IsPath, Joined
  <2>4. \A p, f, q : Moves(p, f, q)' = Moves(p, f, q)
    BY DEF Moves
  <2> QED  BY <1>1, <1>4, <2>1, <2>2, <2>3, <2>4 DEF Joined
<1>7. Shown(u, rest)'
  <2>1. \A s \in DOMAIN timeline : s \in Int
    <3>1. Origin \in Int /\ clock \in Int
      BY ScenarioType DEF RunTypeOK
    <3> QED  BY <3>1 DEF TimelineOK
  <2> SUFFICES ASSUME NEW s \in DOMAIN timeline, s >= SegmentStart(u)'
               PROVE  /\ \A i \in 0 .. n - 1 : Between(u, s, i)' => timeline[s][u] = rest[i]
                      /\ inflight[u] # NoEvent /\ s >= inflight[u].at => timeline[s][u] = thread[u]
    BY <1>1, <1>4 DEF Shown
  <2>2. s >= SegmentStart(u) /\ (ring[1].tid = u => ring[1].at <= s)
    <3>1. s >= SegmentStart(u)
      BY <2>1
    <3>2. ASSUME ring[1].tid = u  PROVE  ring[1].at <= s
      <4>1. ring[1] \in StreamEvents /\ MaxClock \in Int
        BY HeadOfRing, ScenarioType DEF RunTypeOK
      <4>2. ring[1].at \in Int
        BY <4>1 DEF StreamEvents
      <4> QED  BY <2>1, <3>2, <4>2
    <3> QED  BY <3>1, <3>2
  <2>3. ASSUME NEW i \in 0 .. n - 1, Between(u, s, i)'
        PROVE  timeline[s][u] = rest[i]
    <3>1. ASSUME NEW j \in 1 .. i + 1, ring[j].tid = u  PROVE  ring[j].at <= s
      <4>1. CASE j = 1
        BY <2>2, <3>1, <4>1
      <4>2. CASE j # 1
        <5>1. j - 1 \in 1 .. i /\ j - 1 \in 1 .. n - 1 /\ j - 1 + 1 = j
          BY <1>1, <4>2
        <5>2. ring'[j - 1] = ring[j]
          BY <1>1, <5>1
        <5> QED  BY <2>3, <3>1, <5>1, <5>2 DEF Between
      <4> QED  BY <4>1, <4>2
    <3>2. ASSUME NEW j \in i + 1 + 1 .. n, ring[j].tid = u  PROVE  s < ring[j].at
      <4>1. j - 1 \in i + 1 .. n - 1 /\ j - 1 \in 1 .. n - 1 /\ j - 1 + 1 = j
        BY <1>1
      <4>2. ring'[j - 1] = ring[j]
        BY <1>1, <4>1
      <4> QED  BY <1>1, <2>3, <3>2, <4>1, <4>2 DEF Between
    <3>3. inflight[u] # NoEvent => s < inflight[u].at
      BY <2>3 DEF Between
    <3>4. Between(u, s, i + 1) /\ i + 1 \in 0 .. n
      BY <1>1, <1>n, <3>1, <3>2, <3>3 DEF Between
    <3> QED  BY <1>2, <1>n, <2>2, <3>4 DEF IsPath, Shown
  <2>4. inflight[u] # NoEvent /\ s >= inflight[u].at => timeline[s][u] = thread[u]
    BY <2>2 DEF IsPath, Shown
  <2> QED  BY <2>3, <2>4
<1> QED  BY <1>3, <1>5, <1>6, <1>7 DEF IsPath

\* The events of the scan that are left.
LEMMA ScanGoesOn ==
  ASSUME RunTypeOK, ring # << >>, ring' = Tail(ring), UNCHANGED scenario, NEW u
  PROVE  /\ \A i \in ScanEvents(u)' : i + 1 \in ScanEvents(u) /\ ring'[i] = ring[i + 1]
         /\ ScanEvents(u)' = {} /\ ring[1].tid # u => ScanEvents(u) = {}
<1>1. ring \in Seq(StreamEvents) /\ Len(ring) \in Nat \ {0} /\ DOMAIN ring = 1 .. Len(ring)
      /\ Len(ring') = Len(ring) - 1 /\ DOMAIN ring' = 1 .. Len(ring) - 1
      /\ \A i \in DOMAIN ring' : i + 1 \in DOMAIN ring /\ ring'[i] = ring[i + 1]
  BY HeadOfRing DEF RunTypeOK
<1>2. UNCHANGED Origin
  BY SameScenario
<1>3. ASSUME ScanEvents(u)' = {}, ring[1].tid # u, NEW i \in ScanEvents(u)  PROVE FALSE
  <2>1. i \in DOMAIN ring /\ ring[i].tid = u /\ ring[i].at < Origin
    BY DEF ScanEvents
  <2>2. i - 1 \in DOMAIN ring' /\ i - 1 + 1 = i
    BY <1>1, <1>3, <2>1
  <2>3. ring'[i - 1] = ring[i]
    BY <1>1, <2>2
  <2>4. i - 1 \in ScanEvents(u)'
    BY <1>2, <2>1, <2>2, <2>3 DEF ScanEvents
  <2> QED  BY <1>3, <2>4
<1> QED  BY <1>1, <1>2, <1>3 DEF ScanEvents

\* The tracks that an event leaves alone.
LEMMA DeliverOthers ==
  ASSUME OrderInv, TimelineOK, Deliver, NEW e, e = Head(ring), ~Behind(e), NEW u \in Tids, u # e.tid,
         Followed(u), Seeds(u)
  PROVE  Followed(u)' /\ Seeds(u)' /\ SegmentStart(u)' = SegmentStart(u)
<1>1. /\ RunTypeOK /\ TypeOK /\ ring # << >> /\ ring' = Tail(ring) /\ e = ring[1]
      /\ DOMAIN tracks' = DOMAIN tracks \cup {e.tid}
      /\ \A v \in DOMAIN tracks \ {e.tid} : tracks'[v] = tracks[v]
      /\ UNCHANGED <<origin, scenario, clock, thread, inflight>>
  BY DeliverTrack, HeadOfRing DEF OrderInv, TimelineInv
<1>2. UNCHANGED <<Tids, FirstStart, Origin, MaxClock, Never, timeline>>
      /\ settled'[u] = settled[u] /\ proven'[u] = proven[u]
  BY <1>1, SameScenario DEF Deliver, TimelineOK, Never
<1>3. SegmentStart(u)' = SegmentStart(u) /\ SegmentStart(u) \in Nat
      /\ (u \in DOMAIN tracks <=> u \in DOMAIN tracks') /\ (u \in DOMAIN tracks => tracks'[u] = tracks[u])
  <2>1. u \in DOMAIN tracks => tracks[u].since \in Nat
    BY <1>1, TrackFields
  <2>2. origin \in Nat
    BY <1>1 DEF TypeOK
  <2> QED  BY <1>1, <2>1, <2>2 DEF SegmentStart
<1>4. PICK path : IsPath(u, path) /\ Starts(u, path[0])
  BY DEF Followed
<1>5. PICK rest : IsPath(u, rest)' /\ rest[0] = path[1]
  <2>1. SegmentStart(u)' \in Nat /\ SegmentStart(u) <= SegmentStart(u)'
    BY <1>3
  <2>2. ring[1].tid # u
    BY <1>1
  <2> QED  BY <1>1, <1>2, <1>3, <1>4, <2>1, <2>2, PathGoesOn
<1>6. path[1] = path[0]
  <2>1. Len(ring) \in Nat \ {0}
    BY <1>1, HeadOfRing
  <2>2. 0 \in 0 .. Len(ring) /\ 1 \in 0 .. Len(ring) /\ \A k \in 0 + 1 .. 1 : k = 1
    BY <2>1
  <2>3. \A k \in 0 + 1 .. 1 : ring[k].tid # u
    BY <1>1, <2>2
  <2>4. path[0] = path[1]
    BY <1>4, <2>2, <2>3 DEF IsPath, Joined
  <2> QED  BY <2>4
<1>7. /\ \A i \in ScanEvents(u)' : i + 1 \in ScanEvents(u) /\ ring'[i] = ring[i + 1]
      /\ ScanEvents(u)' = {} => ScanEvents(u) = {}
  <2>1. ring[1].tid # u
    BY <1>1
  <2> QED  BY <1>1, <2>1, ScanGoesOn
<1>8. Seeds(u)'
  <2>1. CASE u \in DOMAIN tracks
    <3>1. \A i \in ScanEvents(u)' :
               /\ ring'[i].kind # "switch_in" /\ (ring'[i].kind = "switch_out" => ring'[i].state = "sleeping")
               /\ tracks[u].state # "on_cpu" /\ NsOf(tracks[u].ns) = ring'[i].ns
               /\ tracks[u].lastEvent <= ring'[i].at \/ ring'[i].at < tracks[u].seedAt
      BY <1>7, <2>1 DEF Seeds
    <3>2. u \in DOMAIN tracks' /\ tracks'[u] = tracks[u]
      BY <1>3, <2>1
    <3> QED  BY <1>2, <2>1, <3>1, <3>2 DEF Seeds, NsOf
  <2>2. CASE u \notin DOMAIN tracks
    <3>1. ScanEvents(u) = {}
      BY <2>2 DEF Seeds
    <3>2. ScanEvents(u)' = {}
      BY <1>7, <3>1
    <3> QED  BY <1>2, <1>3, <2>2, <3>2 DEF Seeds
  <2> QED  BY <2>1, <2>2
<1>9. Starts(u, rest[0])'
  <2>0. u \in DOMAIN tracks => (Agrees(u, rest[0])' <=> Agrees(u, path[0]))
    BY <1>2, <1>3, <1>5, <1>6 DEF Agrees, NsOf
  <2>1. CASE u \in DOMAIN tracks
    <3>1. /\ ScanEvents(u) = {} /\ proven[u] # Never => Agrees(u, path[0])
          /\ \A i \in ScanEvents(u) : ring[i].at < tracks[u].seedAt => Agrees(u, path[0])
      BY <1>4, <2>1 DEF Starts
    <3>2. \A i \in ScanEvents(u)' : ring'[i].at < tracks[u].seedAt => Agrees(u, path[0])
      BY <1>7, <3>1
    <3>3. u \in DOMAIN tracks' /\ tracks'[u] = tracks[u]
      BY <1>3, <2>1
    <3>4. ScanEvents(u)' = {} /\ proven'[u] # Never' => Agrees(u, rest[0])'
      BY <1>2, <1>7, <2>0, <2>1, <3>1
    <3>5. \A i \in ScanEvents(u)' : ring'[i].at < tracks'[u].seedAt => Agrees(u, rest[0])'
      BY <2>0, <2>1, <3>2, <3>3
    <3> QED  BY <3>3, <3>4, <3>5 DEF Starts
  <2>2. CASE u \notin DOMAIN tracks
    <3>1. path[0].state # "on_cpu"
      BY <1>4, <2>2 DEF Starts
    <3>2. u \notin DOMAIN tracks'
      BY <1>3, <2>2
    <3> QED  BY <1>5, <1>6, <3>1, <3>2 DEF Starts
  <2> QED  BY <2>1, <2>2
<1> QED  BY <1>3, <1>5, <1>8, <1>9 DEF Followed

\* A thread is not taken for another one.
LEMMA SameThreadIsKept ==
  ASSUME IdsInv, ring # << >>, NEW e, e = Head(ring), ~Behind(e), e.tid \in DOMAIN tracks,
         NsOf(tracks[e.tid].ns) = e.ns
  PROVE  ~Replaces(e)
<1>1. OrderInv /\ RunTypeOK /\ TypeOK /\ e \in StreamEvents
  BY HeadOfRing DEF IdsInv, OrderInv, TimelineInv
<1>2. CASE tracks[e.tid].ns = 0
  <2>1. tracks[e.tid].ticks = ProcTicks(FirstStart, scenario.offset, ticksPerSecond) /\ e.ns = FirstStart
    BY <1>1, <1>2 DEF OrderInv, TracksInOrder, TrackInOrder, NsOf
  <2>2. e.ticks = 0 \/ e.ticks = ProcTicks(FirstStart, scenario.offset, ticksPerSecond)
    BY <1>1, <2>1, EventIsRight DEF Right
  <2> QED  BY <1>2, <2>1, <2>2 DEF Replaces, IdentityChanged
<1>3. CASE tracks[e.tid].ns # 0
  <2>1. tracks[e.tid].ns = e.ns
    BY <1>3 DEF NsOf
  <2>2. Settled(tracks[e.tid])
    BY DEF IdsInv, IdsInOrder
  <2>3. e.ticks = 0 \/ e.ticks = tracks[e.tid].ticks
    BY <1>1, <1>3, <2>1, <2>2, HeadOfRing DEF Settled
  <2> QED  BY <2>1, <2>3 DEF Replaces, IdentityChanged
<1> QED  BY <1>2, <1>3

\* The state of a track after an event.
StateAfter(track, e) ==
  IF e.kind = "wakeup" THEN IF track.state = "on_cpu" THEN "on_cpu" ELSE "runnable"
  ELSE IF e.kind = "switch_in" THEN "on_cpu" ELSE e.state

\* The state of a track after applyTransition.
LEMMA AppliedState ==
  ASSUME NEW track \in TrackType, NEW e \in EventType, NEW measure \in BOOLEAN, NEW n \in Nat
  PROVE  Applied(track, e, measure, n).state = StateAfter(track, e)
<1>1. Applied(track, e, measure, n).state = ApplyTransition(track, e, measure).state
  BY AppliedFields
<1>2. e.kind \in {"wakeup", "switch_in", "switch_out"}
  BY DEF EventType, EventKinds
<1>3. ApplyTransition(track, e, measure).state = StateAfter(track, e)
  BY <1>2 DEF ApplyTransition, StateAfter, TrackType
<1> QED  BY <1>1, <1>3

\* A track that is not replaced keeps all but its identity (trackForEvent).
LEMMA KeptTrack ==
  ASSUME TypeOK, NEW e \in EventType, Known(e), ~Replaces(e)
  PROVE  LET old == tracks[e.tid]
             new == TrackOf(e)
         IN /\ new.state = old.state /\ new.since = old.since
            /\ new.seedAt = old.seedAt /\ new.lastEvent = old.lastEvent
<1>1. tracks[e.tid] \in TrackType
  BY DEF TypeOK, Known
<1> QED  BY <1>1 DEF TrackOf, TrackType

\* The track that an event from before the end of the scan leaves, and one from after it.
LEMMA HeardExactly ==
  ASSUME OrderInv, Deliver, NEW e, e = Head(ring), ~Behind(e)
  PROVE  LET track == TrackOf(e) IN
         /\ e.at < origin => tracks'[e.tid] = IF e.at < track.seedAt \/ e.at < track.lastEvent THEN track
                                              ELSE Applied(track, e, FALSE, origin)
         /\ e.at >= origin => tracks'[e.tid] = Applied(track, e, TRUE, e.at)
<1> DEFINE track == TrackOf(e)
<1>1. Observe(e) /\ ring # << >> /\ RunTypeOK
  BY DEF Deliver, OrderInv
<1>2. e.at \in Nat /\ origin \in Nat /\ track \in TrackType /\ (e.at >= origin => e.at >= track.seedAt /\ InOrder(track, e))
  BY <1>1, NextToObserve DEF OrderInv, TimelineInv, TypeOK
<1>3. track.seedAt \in Nat /\ track.lastEvent \in Nat
  BY <1>2 DEF TrackType
<1>4. \A t : SetTrack(e.tid, t) => tracks'[e.tid] = t
  BY DEF SetTrack
<1>5. CASE ObserveBehindWatermark(e)
  BY <1>5 DEF ObserveBehindWatermark
<1>6. CASE ObserveBeforeSeed(e)
  <2>1. e.at < track.seedAt /\ SetTrack(e.tid, track)
    BY <1>6 DEF ObserveBeforeSeed
  <2>2. tracks'[e.tid] = track
    BY <1>4, <2>1
  <2> HIDE DEF track
  <2>3. e.at < origin /\ ~(e.at >= origin)
    BY <1>2, <1>3, <2>1
  <2> QED  BY <1>2, <2>1, <2>2, <2>3 DEF track
<1>7. CASE ObserveBeforeOrigin(e)
  <2>1. /\ e.at >= track.seedAt /\ e.at < origin
        /\ IF e.at < track.lastEvent THEN SetTrack(e.tid, track)
           ELSE SetTrack(e.tid, Applied(track, e, FALSE, origin))
    BY <1>7 DEF ObserveBeforeOrigin
  <2>2. tracks'[e.tid] = IF e.at < track.lastEvent THEN track ELSE Applied(track, e, FALSE, origin)
    BY <1>4, <2>1
  <2> HIDE DEF track
  <2>3. ~(e.at < track.seedAt) /\ ~(e.at >= origin)
    BY <1>2, <1>3, <2>1
  <2> QED  BY <2>2, <2>3 DEF track
<1>8. CASE ObserveOutOfOrder(e)
  BY <1>2, <1>8 DEF ObserveOutOfOrder
<1>9. CASE ObserveInOrder(e)
  <2>1. e.at >= origin /\ SetTrack(e.tid, Applied(track, e, TRUE, e.at))
    BY <1>9 DEF ObserveInOrder
  <2>2. tracks'[e.tid] = Applied(track, e, TRUE, e.at)
    BY <1>4, <2>1
  <2>3. ~(e.at < origin)
    BY <1>2, <2>1
  <2> QED  BY <2>2, <2>3
<1> QED  BY <1>1, <1>5, <1>6, <1>7, <1>8, <1>9 DEF Observe

\* Where the segment of a TID starts after an event of it.
LEMMA SegmentMoves ==
  ASSUME OrderInv, Deliver, NEW e, e = Head(ring), ~Behind(e)
  PROVE  /\ SegmentStart(e.tid) \in Nat /\ SegmentStart(e.tid)' \in Nat
         /\ SegmentStart(e.tid) <= SegmentStart(e.tid)'
         /\ SegmentStart(e.tid)' = tracks'[e.tid].since /\ e.tid \in DOMAIN tracks'
         /\ tracks'[e.tid].since = IF e.at >= origin THEN e.at ELSE origin
         /\ e.at < origin => SegmentStart(e.tid)' = SegmentStart(e.tid)
<1>1. ring # << >> /\ e.tid \in DOMAIN tracks' /\ Heard(tracks'[e.tid], e) /\ UNCHANGED origin
  BY DeliverTrack
<1>2. /\ TrackOf(e).since \in Nat /\ origin <= TrackOf(e).since
      /\ e.tid \in DOMAIN tracks => tracks[e.tid].since \in Nat /\ origin <= tracks[e.tid].since
                                    /\ tracks[e.tid].since <= TrackOf(e).since
  BY <1>1, SegmentsFollow
<1>3. /\ tracks'[e.tid].since \in Nat
      /\ e.at < origin => tracks'[e.tid].since = TrackOf(e).since \/ tracks'[e.tid].since = origin
      /\ e.at >= origin => tracks'[e.tid].since = e.at /\ TrackOf(e).since <= e.at
  <2>1. \A track : Heard(track, e) =>
          /\ track.since \in Nat
          /\ e.at < origin => track.since = TrackOf(e).since \/ track.since = origin
          /\ e.at >= origin => track.since = e.at /\ TrackOf(e).since <= e.at
    BY <1>1, HeardSince
  <2> QED  BY <1>1, <2>1
<1>4. /\ e.at \in Nat /\ origin \in Nat /\ TrackOf(e).since <= later(watermark, e.at)
      /\ e.at < origin => watermark = origin
  BY <1>1, NextToObserve DEF OrderInv, TimelineInv, TypeOK
<1>5. SegmentStart(e.tid)' = tracks'[e.tid].since
  BY <1>1 DEF SegmentStart
<1>6. e.at < origin => TrackOf(e).since = origin
  BY <1>2, <1>4 DEF later
<1>7. SegmentStart(e.tid) \in Nat /\ SegmentStart(e.tid) <= TrackOf(e).since /\ origin <= SegmentStart(e.tid)
  BY <1>2, <1>4 DEF SegmentStart
<1> QED  BY <1>1, <1>2, <1>3, <1>4, <1>5, <1>6, <1>7

\* The thread before and after the event that is observed.
LEMMA OwnPath ==
  ASSUME OrderInv, TimelineOK, Deliver, NEW e, e = Head(ring), ~Behind(e), Followed(e.tid)
  PROVE  \E p, q \in [ns : Nat, state : KernelStates] : \E rest :
           /\ Starts(e.tid, p) /\ Moves(p, e, q)
           /\ e.at < Origin => p = q /\ q.state # "on_cpu"
           /\ IsPath(e.tid, rest)' /\ rest[0] = q
<1>1. PICK path : IsPath(e.tid, path) /\ Starts(e.tid, path[0])
  BY DEF Followed
<1>2. RunTypeOK /\ ring # << >> /\ ring' = Tail(ring) /\ UNCHANGED <<origin, inflight, thread, timeline, scenario>>
  BY DeliverTrack DEF OrderInv, Deliver
<1>3. e \in StreamEvents /\ e = ring[1] /\ 1 \in DOMAIN ring /\ Len(ring) \in Nat \ {0}
  BY <1>2, HeadOfRing
<1>4. path \in Paths /\ 0 \in 0 .. Len(ring) /\ 1 \in 0 .. Len(ring)
  BY <1>1, <1>3 DEF IsPath
<1>5. path[0] \in [ns : Nat, state : KernelStates] /\ path[1] \in [ns : Nat, state : KernelStates]
  BY <1>2, <1>4, PathType
<1>6. Moves(path[0], e, path[1]) /\ (e.at < Origin => path[0] = path[1] /\ path[1].state # "on_cpu")
  <2>1. Moves(path[1 - 1], ring[1], path[1]) /\ (ring[1].at < Origin => path[1 - 1] = path[1] /\ path[1].state # "on_cpu")
    BY <1>1, <1>3 DEF IsPath, Joined
  <2> QED  BY <1>3, <2>1
<1>7. PICK rest : IsPath(e.tid, rest)' /\ rest[0] = path[1]
  <2>1. e.tid \in Tids /\ e.at \in Nat /\ Origin = origin /\ origin \in Nat
    BY <1>2, <1>3, ScenarioType DEF StreamEvents, RunTypeOK
  <2>2. /\ SegmentStart(e.tid) \in Nat /\ SegmentStart(e.tid)' \in Nat
        /\ SegmentStart(e.tid) <= SegmentStart(e.tid)' /\ e.at <= SegmentStart(e.tid)'
    BY <2>1, SegmentMoves
  <2>3. ring[1].tid = e.tid => ring[1].at <= SegmentStart(e.tid)'
    BY <1>3, <2>2
  <2> QED  BY <1>1, <1>2, <2>1, <2>2, <2>3, PathGoesOn
<1> QED  BY <1>1, <1>5, <1>6, <1>7

\* When a TID is settled and proven, after an event of it.
LEMMA SeedMoves ==
  ASSUME RunTypeOK, TimelineOK, Deliver, NEW e, e = Head(ring)
  PROVE  /\ settled'[e.tid] = IF e.at < Origin THEN settled[e.tid] ELSE earlier(settled[e.tid], e.at)
         /\ proven'[e.tid] = IF e.kind = "wakeup" THEN proven[e.tid] ELSE earlier(proven[e.tid], e.at)
         /\ \A u \in Tids \ {e.tid} : settled'[u] = settled[u] /\ proven'[u] = proven[u]
         /\ UNCHANGED <<Tids, FirstStart, Origin, MaxClock, Never, timeline>>
         /\ e \in StreamEvents /\ e.tid \in Tids /\ e.at \in Nat /\ e.at < Never /\ Origin = origin
         /\ settled[e.tid] \in Nat /\ proven[e.tid] \in Nat
<1>1. ring # << >> /\ UNCHANGED <<scenario, timeline>>
  BY DEF Deliver
<1>2. e \in StreamEvents /\ e.tid \in Tids /\ e.at \in Nat /\ e.at < Never
  <2>1. e \in StreamEvents
    BY <1>1, HeadOfRing
  <2>2. MaxClock \in Nat
    BY ScenarioType DEF RunTypeOK
  <2> QED  BY <2>1, <2>2 DEF StreamEvents, Never
<1>3. /\ settled' = IF e.at < Origin THEN settled ELSE [settled EXCEPT ![e.tid] = earlier(@, e.at)]
      /\ proven' = IF e.kind = "wakeup" THEN proven ELSE [proven EXCEPT ![e.tid] = earlier(@, e.at)]
  BY DEF Deliver
<1>4. settled \in [Tids -> Nat] /\ proven \in [Tids -> Nat]
  BY DEF TimelineOK
<1>5. UNCHANGED <<Tids, FirstStart, Origin, MaxClock, Never>>
  BY <1>1, SameScenario DEF Never
<1> QED  BY <1>1, <1>2, <1>3, <1>4, <1>5 DEF RunTypeOK

\* An event from before the end of the scan sets the state that the first segment is in,
\* or is one that the sample has seen.
LEMMA DeliverScan ==
  ASSUME IdsInv, TimelineOK, Deliver, NEW e, e = Head(ring), ~Behind(e), e.at < Origin,
         Followed(e.tid), Seeds(e.tid)
  PROVE  Followed(e.tid)' /\ Seeds(e.tid)'
<1> DEFINE u == e.tid
           old == tracks[e.tid]
           new == tracks'[e.tid]
<1>0. PICK p, q \in [ns : Nat, state : KernelStates] : \E rest :
           /\ Starts(e.tid, p) /\ Moves(p, e, q)
           /\ p = q /\ q.state # "on_cpu"
           /\ IsPath(e.tid, rest)' /\ rest[0] = q
  BY OwnPath DEF IdsInv
<1>1. PICK rest :
           /\ Starts(e.tid, p) /\ Moves(p, e, q)
           /\ p = q /\ q.state # "on_cpu"
           /\ IsPath(e.tid, rest)' /\ rest[0] = q
  BY <1>0
<1>2. OrderInv /\ RunTypeOK /\ TypeOK /\ ring # << >> /\ e = ring[1] /\ e \in EventType /\ ring' = Tail(ring)
      /\ PendingInOrder /\ UNCHANGED scenario
  BY HeadOfRing, DeliverTrack DEF IdsInv, OrderInv, TimelineInv, Deliver
<1>3. /\ settled'[u] = settled[u] /\ settled[u] \in Nat /\ proven[u] \in Nat
      /\ proven'[u] = IF e.kind = "wakeup" THEN proven[u] ELSE earlier(proven[u], e.at)
      /\ UNCHANGED <<Tids, FirstStart, Origin, MaxClock, Never>>
      /\ e.at \in Nat /\ e.at < Never /\ Origin = origin /\ origin \in Nat
  BY <1>2, SeedMoves DEF TypeOK
<1>4. 1 \in ScanEvents(u) /\ u \in DOMAIN tracks
  <2>1. 1 \in ScanEvents(u)
    BY <1>2, HeadOfRing DEF ScanEvents
  <2> QED  BY <2>1 DEF Seeds
<1>5. /\ old.seedAt <= old.since /\ (settled[u] = Never \/ settled[u] <= old.since)
      /\ (proven[u] = Never \/ proven[u] <= old.since)
      /\ \A i \in ScanEvents(u) :
           /\ ring[i].kind # "switch_in" /\ (ring[i].kind = "switch_out" => ring[i].state = "sleeping")
           /\ old.state # "on_cpu" /\ NsOf(old.ns) = ring[i].ns
           /\ old.lastEvent <= ring[i].at \/ ring[i].at < old.seedAt
  BY <1>4 DEF Seeds
<1>6. ~Replaces(e) /\ TrackOf(e) \in TrackType /\ TrackOf(e).ns = e.ns /\ e.ns \in Nat \ {0}
  <2>1. NsOf(old.ns) = e.ns
    BY <1>2, <1>4, <1>5
  <2> QED  BY <1>2, <1>4, <2>1, SameThreadIsKept, NextToObserve
<1>7. /\ TrackOf(e).state = old.state /\ TrackOf(e).since = old.since
      /\ TrackOf(e).seedAt = old.seedAt /\ TrackOf(e).lastEvent = old.lastEvent
      /\ old \in TrackType
  BY <1>2, <1>4, <1>6, KeptTrack DEF Known, TypeOK
<1>8. /\ u \in DOMAIN tracks' /\ new.since = origin /\ old.since \in Nat /\ old.since <= origin
      /\ old.seedAt \in Nat /\ old.lastEvent \in Nat
  <2>1. ~(e.at >= origin)
    BY <1>3
  <2>2. u \in DOMAIN tracks' /\ new.since = origin /\ SegmentStart(u) <= origin
    BY <1>2, <1>3, <2>1, SegmentMoves
  <2> QED  BY <1>4, <1>7, <2>2 DEF SegmentStart, TrackType
<1>9. \A i \in ScanEvents(u)' : i + 1 \in ScanEvents(u) /\ ring'[i] = ring[i + 1] /\ e.at <= ring'[i].at
  <2>1. \A i \in ScanEvents(u)' : i + 1 \in ScanEvents(u) /\ ring'[i] = ring[i + 1]
    BY <1>2, ScanGoesOn
  <2>2. ASSUME NEW i \in ScanEvents(u)'  PROVE e.at <= ring'[i].at
    <3>1. i + 1 \in DOMAIN ring /\ ring[i + 1].tid = ring[1].tid /\ i \in DOMAIN ring'
      BY <1>2, <2>1 DEF ScanEvents
    <3>2. i \in Nat \ {0}
      BY <1>2, <3>1, HeadOfRing
    <3>3. 1 \in DOMAIN ring /\ 1 < i + 1
      BY <1>2, <3>2, HeadOfRing
    <3>4. Precedes(ring[1], ring[i + 1])
      BY <1>2, <3>1, <3>3 DEF PendingInOrder
    <3> QED  BY <1>2, <2>1, <3>4 DEF Precedes
  <2> QED  BY <2>1, <2>2
<1>10. e.ns = q.ns /\ q = [ns |-> q.ns, state |-> q.state] /\ NsOf(e.ns) = e.ns /\ NsOf(old.ns) = e.ns
       /\ e.kind # "switch_in" /\ (e.kind = "switch_out" => e.state = "sleeping") /\ old.state # "on_cpu"
       /\ (old.lastEvent <= e.at \/ e.at < old.seedAt)
  <2>1. NsOf(e.ns) = e.ns
    BY <1>6 DEF NsOf
  <2>2. e.ns = q.ns
    BY <1>1 DEF Moves
  <2> HIDE DEF u, old
  <2> QED  BY <1>1, <1>2, <1>4, <1>5, <2>1, <2>2
<1>11. e.kind \in {"wakeup", "switch_in", "switch_out"}
  BY <1>2 DEF EventType, EventKinds
<1>12. /\ new.seedAt = old.seedAt /\ new.state # "on_cpu" /\ new.ns = e.ns
       /\ \/ new.lastEvent = old.lastEvent
          \/ new.lastEvent = e.at
       /\ Agrees(u, q)'
  <2>1. CASE e.at < old.seedAt
    <3>1. new = TrackOf(e)
      BY <1>2, <1>3, <1>7, <2>1, HeardExactly
    <3>2. Agrees(u, q)
      BY <1>1, <1>2, <1>4, <2>1 DEF Starts
    <3>3. Agrees(u, q)'
      BY <1>3, <1>6, <1>7, <1>10, <3>1, <3>2 DEF Agrees, NsOf
    <3> QED  BY <1>6, <1>7, <1>10, <3>1, <3>3
  <2>2. CASE ~(e.at < old.seedAt)
    <3>1. ~(e.at < old.lastEvent)
      <4> HIDE DEF u, old, new
      <4> QED  BY <1>3, <1>8, <1>10, <2>2
    <3>2. new = Applied(TrackOf(e), e, FALSE, origin)
      BY <1>2, <1>3, <1>7, <2>2, <3>1, HeardExactly
    <3>3. new.seedAt = old.seedAt /\ new.ns = e.ns /\ new.lastEvent = e.at
      <4>1. LET t == Applied(TrackOf(e), e, FALSE, origin) IN
            t.seedAt = TrackOf(e).seedAt /\ t.ns = TrackOf(e).ns /\ t.lastEvent = e.at
        <5>1. FALSE \in BOOLEAN /\ e \in EventType /\ origin \in Nat /\ TrackOf(e) \in TrackType
          BY <1>2, <1>3, <1>6
        <5> HIDE DEF u, old, new
        <5> QED  BY ONLY <5>1, AppliedFields
      <4> QED  BY <1>6, <1>7, <3>2, <4>1
    <3>4. new.state = StateAfter(TrackOf(e), e)
      <4>1. Applied(TrackOf(e), e, FALSE, origin).state = StateAfter(TrackOf(e), e)
        BY <1>2, <1>3, <1>6, AppliedState
      <4> QED  BY <3>2, <4>1
    <3>5. new.state = q.state /\ q.state \in {"runnable", "sleeping"}
      <4>1. CASE e.kind = "wakeup"
        <5>1. q.state = "runnable"
          BY <1>1, <4>1 DEF Moves
        <5> QED  BY <1>7, <1>10, <3>4, <4>1, <5>1 DEF StateAfter
      <4>2. CASE e.kind = "switch_out"
        <5>1. e.state = "sleeping" /\ q.state = e.state
          BY <1>1, <1>10, <4>2 DEF Moves
        <5> QED  BY <3>4, <4>2, <5>1 DEF StateAfter
      <4> QED  BY <1>10, <1>11, <4>1, <4>2
    <3>6. Agrees(u, q)'
      <4>1. NsOf(new.ns) = q.ns /\ new.ns # 0
        BY <1>6, <1>10, <3>3
      <4>2. q = [ns |-> NsOf(new.ns), state |-> new.state] /\ new.state # "on_cpu" /\ q.state # "on_cpu"
        BY <1>1, <1>10, <3>5, <4>1
      <4>3. q = [ns |-> new.ns, state |-> new.state]
        BY <4>1, <4>2 DEF NsOf
      <4> QED  BY <4>1, <4>2, <4>3 DEF Agrees, NsOf
    <3> QED  BY <1>10, <3>3, <3>5, <3>6
  <2> QED  BY <2>1, <2>2
<1>13. Starts(u, q)'
  BY <1>8, <1>12 DEF Starts
<1>14. Seeds(u)'
  <2>1. settled'[u] \in Nat /\ proven'[u] \in Nat /\ (settled'[u] = Never \/ settled'[u] <= origin)
        /\ (proven'[u] = Never \/ proven'[u] <= origin)
    <3> HIDE DEF u, old
    <3> QED  BY <1>3, <1>5, <1>8 DEF earlier
  <2>2. new.seedAt <= new.since
    <3>1. new.seedAt = old.seedAt /\ new.since = origin /\ old.seedAt <= old.since
          /\ old.since \in Nat /\ old.since <= origin /\ old.seedAt \in Nat /\ origin \in Nat
      BY <1>3, <1>5, <1>8, <1>12
    <3> HIDE DEF u, old, new
    <3> QED  BY <3>1
  <2>3. ASSUME NEW i \in ScanEvents(u)'
        PROVE  /\ ring'[i].kind # "switch_in" /\ (ring'[i].kind = "switch_out" => ring'[i].state = "sleeping")
               /\ new.state # "on_cpu" /\ NsOf(new.ns) = ring'[i].ns
               /\ new.lastEvent <= ring'[i].at \/ ring'[i].at < new.seedAt
    <3>1. i + 1 \in ScanEvents(u) /\ ring'[i] = ring[i + 1] /\ e.at <= ring'[i].at
      BY <1>9
    <3>2. /\ ring'[i].kind # "switch_in" /\ (ring'[i].kind = "switch_out" => ring'[i].state = "sleeping")
          /\ NsOf(old.ns) = ring'[i].ns
          /\ old.lastEvent <= ring'[i].at \/ ring'[i].at < old.seedAt
      BY <1>5, <3>1
    <3>3. NsOf(new.ns) = ring'[i].ns
      BY <1>10, <1>12, <3>2
    <3> HIDE DEF u, old, new
    <3> QED  BY <1>12, <3>1, <3>2, <3>3
  <2> QED  BY <1>3, <1>8, <2>1, <2>2, <2>3 DEF Seeds, NsOf
<1> QED  BY <1>1, <1>13, <1>14 DEF Followed

\* After an event the track of a TID is in the state of its thread: an event tells it, or
\* it follows from the state that the track was in.
LEMMA DeliverOwn ==
  ASSUME IdsInv, TimelineOK, Deliver, NEW e, e = Head(ring), ~Behind(e), e.at >= Origin,
         Followed(e.tid), Seeds(e.tid)
  PROVE  Followed(e.tid)' /\ Seeds(e.tid)'
<1> DEFINE u == e.tid
           old == tracks[e.tid]
           new == tracks'[e.tid]
<1>0. PICK p, q \in [ns : Nat, state : KernelStates] : \E rest :
           /\ Starts(e.tid, p) /\ Moves(p, e, q)
           /\ IsPath(e.tid, rest)' /\ rest[0] = q
  BY OwnPath DEF IdsInv
<1>1. PICK rest :
           /\ Starts(e.tid, p) /\ Moves(p, e, q)
           /\ IsPath(e.tid, rest)' /\ rest[0] = q
  BY <1>0
<1>2. OrderInv /\ RunTypeOK /\ TypeOK /\ ring # << >> /\ e = ring[1] /\ 1 \in DOMAIN ring /\ e \in EventType
      /\ ring' = Tail(ring) /\ PendingInOrder /\ UNCHANGED scenario
  BY HeadOfRing, DeliverTrack DEF IdsInv, OrderInv, TimelineInv, Deliver
<1>3. /\ settled'[u] = earlier(settled[u], e.at) /\ settled[u] \in Nat /\ proven[u] \in Nat
      /\ proven'[u] = IF e.kind = "wakeup" THEN proven[u] ELSE earlier(proven[u], e.at)
      /\ UNCHANGED <<Tids, FirstStart, Origin, MaxClock, Never>>
      /\ e.at \in Nat /\ e.at < Never /\ Origin = origin /\ origin \in Nat
  <2>1. e.at \in Nat /\ Origin = origin /\ origin \in Nat
    BY <1>2, SeedMoves DEF TypeOK
  <2>2. ~(e.at < Origin)
    BY <2>1
  <2> QED  BY <1>2, <2>1, <2>2, SeedMoves
<1>4. ScanEvents(u) = {} /\ ScanEvents(u)' = {}
  <2>1. ASSUME NEW i \in ScanEvents(u)  PROVE FALSE
    <3>1. i \in DOMAIN ring /\ ring[i].tid = ring[1].tid /\ ring[i].at < Origin
      BY <1>2 DEF ScanEvents
    <3>2. i \in Nat \ {0} /\ ring[i].at \in Nat
      BY <1>2, <3>1, RingIsPending, HeadOfRing DEF RunTypeOK, StreamEvents
    <3>3. CASE i = 1
      BY <1>2, <1>3, <3>1, <3>3
    <3>4. CASE 1 < i
      <4>1. Precedes(ring[1], ring[i])
        BY <1>2, <3>1, <3>4 DEF PendingInOrder
      <4> QED  BY <1>2, <1>3, <3>1, <3>2, <4>1 DEF Precedes
    <3> QED  BY <3>2, <3>3, <3>4
  <2>2. ScanEvents(u) = {}
    BY <2>1
  <2>3. ScanEvents(u)' = {}
    BY <1>2, <2>2, ScanGoesOn
  <2> QED  BY <2>2, <2>3
<1>5. TrackOf(e) \in TrackType /\ TrackOf(e).ns = e.ns /\ e.ns \in Nat \ {0} /\ TrackOf(e).since <= e.at
      /\ new = Applied(TrackOf(e), e, TRUE, e.at)
  <2>1. TrackOf(e) \in TrackType /\ TrackOf(e).ns = e.ns /\ e.ns \in Nat \ {0} /\ InOrder(TrackOf(e), e)
    BY <1>2, <1>3, NextToObserve
  <2>2. TrackOf(e).since \in Nat
    BY <2>1 DEF TrackType
  <2> QED  BY <1>2, <1>3, <2>1, <2>2, HeardExactly DEF InOrder
<1>6. new.ns = e.ns /\ new.since = e.at /\ new.seedAt = TrackOf(e).seedAt /\ u \in DOMAIN tracks'
  <2>1. TRUE \in BOOLEAN /\ e \in EventType /\ e.at \in Nat /\ TrackOf(e) \in TrackType
    BY <1>2, <1>3, <1>5
  <2>2. LET t == Applied(TrackOf(e), e, TRUE, e.at) IN
        t.ns = TrackOf(e).ns /\ t.since = e.at /\ t.seedAt = TrackOf(e).seedAt
    BY ONLY <2>1, AppliedFields
  <2>3. u \in DOMAIN tracks'
    BY <1>2, DeliverTrack
  <2> QED  BY <1>5, <2>2, <2>3
<1>7. new.state = StateAfter(TrackOf(e), e)
  <2>1. TRUE \in BOOLEAN /\ e \in EventType /\ e.at \in Nat /\ TrackOf(e) \in TrackType
    BY <1>2, <1>3, <1>5
  <2>2. Applied(TrackOf(e), e, TRUE, e.at).state = StateAfter(TrackOf(e), e)
    BY ONLY <2>1, AppliedState
  <2> QED  BY <1>5, <2>2
<1>8. e.kind \in {"wakeup", "switch_in", "switch_out"} /\ e.state \in SchedulerStates
  BY <1>2 DEF EventType, EventKinds
<1>9. /\ u \in DOMAIN tracks =>
           /\ proven[u] # Never => Agrees(u, p)
           /\ proven[u] = Never \/ proven[u] <= old.since
           /\ settled[u] = Never \/ settled[u] <= old.since
           /\ old.since \in Nat /\ old.since <= e.at /\ NsOf(old.ns) \in Nat
      /\ u \notin DOMAIN tracks => p.state # "on_cpu" /\ proven[u] = 0
  <2>1. u \in DOMAIN tracks => old.since \in Nat /\ old.since <= e.at /\ NsOf(old.ns) \in Nat
    <3>1. FirstStart \in Nat
      BY <1>2, ScenarioType DEF RunTypeOK
    <3>2. u \in DOMAIN tracks => old.since \in Nat /\ old.since <= TrackOf(e).since /\ TrackOf(e).since \in Nat
      BY <1>2, SegmentsFollow
    <3>3. u \in DOMAIN tracks => old.ns \in Nat
      BY <1>2, TrackFields
    <3> QED  BY <1>3, <1>5, <3>1, <3>2, <3>3 DEF NsOf
  <2> HIDE DEF u, old
  <2> QED  BY <1>1, <1>4, <2>1 DEF Starts, Seeds, u, old
<1>10. ASSUME e.kind = "wakeup", proven[u] # Never
       PROVE  new.state = q.state
  <2>1. q.state = IF p.ns = e.ns /\ p.state = "on_cpu" THEN "on_cpu" ELSE "runnable"
    BY <1>1, <1>10 DEF Moves
  <2>2. new.state = IF TrackOf(e).state = "on_cpu" THEN "on_cpu" ELSE "runnable"
    BY <1>7, <1>10 DEF StateAfter
  <2>3. CASE u \notin DOMAIN tracks
    <3>1. TrackOf(e).state = "unknown"
      BY <2>3 DEF TrackOf, Known, NewTrack
    <3> QED  BY <1>9, <2>1, <2>2, <2>3, <3>1
  <2>4. CASE u \in DOMAIN tracks /\ Replaces(e)
    <3>1. TrackOf(e).state = "unknown"
      BY <2>4 DEF TrackOf, NewTrack
    <3>2. NsOf(old.ns) # e.ns
      BY <1>2, <2>4, SameThreadIsKept
    <3>3. ~(p.ns = e.ns /\ p.state = "on_cpu")
      <4>1. Agrees(u, p)
        BY <1>9, <1>10, <2>4
      <4> QED  BY <3>2, <4>1 DEF Agrees
    <3> QED  BY <2>1, <2>2, <3>1, <3>3
  <2>5. CASE u \in DOMAIN tracks /\ ~Replaces(e)
    <3>1. TrackOf(e).state = old.state
      BY <1>2, <2>5, KeptTrack DEF Known
    <3>2. Agrees(u, p)
      BY <1>9, <1>10, <2>5
    <3>3. CASE old.state = "on_cpu"
      <4>1. p.state = "on_cpu"
        BY <3>2, <3>3 DEF Agrees, KnownStates, SchedulerStates
      <4>2. p.ns = e.ns
        BY <1>1, <4>1 DEF Moves
      <4> QED  BY <2>1, <2>2, <3>1, <3>3, <4>1, <4>2
    <3>4. CASE old.state # "on_cpu"
      <4>1. p.state # "on_cpu"
        BY <3>2, <3>4 DEF Agrees
      <4> QED  BY <2>1, <2>2, <3>1, <3>4, <4>1
    <3> QED  BY <3>3, <3>4
  <2> QED  BY <2>3, <2>4, <2>5
<1>11. ASSUME e.kind = "switch_in"  PROVE new.state = q.state
  BY <1>1, <1>7, <1>11 DEF Moves, StateAfter
<1>12. ASSUME e.kind = "switch_out"
       PROVE  IF new.state \in KnownStates THEN new.state = q.state ELSE q.state # "on_cpu"
  BY <1>1, <1>7, <1>12 DEF Moves, StateAfter, KnownStates
<1>13. settled'[u] \in Nat /\ proven'[u] \in Nat /\ settled'[u] <= e.at /\ settled'[u] # Never
       /\ (proven'[u] = Never \/ proven'[u] <= e.at)
  <2> HIDE DEF u, old
  <2>1. Never \in Nat
    <3>1. MaxClock \in Nat
      BY <1>2, ScenarioType DEF RunTypeOK
    <3> QED  BY <3>1 DEF Never
  <2> QED  BY <1>3, <1>9, <2>1 DEF earlier
<1>14. ASSUME proven'[u] # Never  PROVE Agrees(u, q)'
  <2>1. IF new.state \in KnownStates THEN new.state = q.state ELSE q.state # "on_cpu"
    <3>1. CASE e.kind = "wakeup"
      <4>1. new.state = q.state
        BY <1>3, <1>10, <1>14, <3>1
      <4>2. "on_cpu" \in KnownStates
        BY DEF KnownStates, SchedulerStates
      <4> QED  BY <4>1, <4>2
    <3>2. CASE e.kind = "switch_in"
      <4>1. new.state = q.state
        BY <1>11, <3>2
      <4>2. "on_cpu" \in KnownStates
        BY DEF KnownStates, SchedulerStates
      <4> QED  BY <4>1, <4>2
    <3>3. CASE e.kind = "switch_out"
      BY <1>12, <3>3
    <3> QED  BY <1>8, <3>1, <3>2, <3>3
  <2>2. q = [ns |-> q.ns, state |-> q.state] /\ q.ns = e.ns
    BY <1>1 DEF Moves
  <2>3. NsOf(new.ns) = q.ns /\ FirstStart' = FirstStart
    BY <1>3, <1>5, <1>6, <2>2 DEF NsOf
  <2>4. new.state \in KnownStates => q = [ns |-> NsOf(new.ns), state |-> new.state]
    BY <2>1, <2>2, <2>3
  <2>5. KnownStates' = KnownStates
    BY DEF KnownStates
  <2>6. settled'[u] # Never'
    BY <1>3, <1>13
  <2> QED  BY <2>1, <2>3, <2>4, <2>5, <2>6 DEF Agrees, NsOf
<1>15. Starts(u, q)'
  BY <1>3, <1>4, <1>6, <1>14 DEF Starts
<1>16. Seeds(u)'
  <2>1. TracksAreBounded' /\ u \in DOMAIN tracks'
    <3>1. TypeOK /\ TimelineInv /\ Observe(e)
      BY <1>2 DEF OrderInv, TimelineInv, Deliver
    <3> QED  BY <1>2, <1>6, <3>1, ObserveTimeline
  <2>2. new.seedAt <= new.since
    BY <2>1 DEF TracksAreBounded, Bounded
  <2> QED  BY <1>3, <1>4, <1>6, <1>13, <2>2 DEF Seeds
<1> QED  BY <1>1, <1>15, <1>16 DEF Followed

----------------------------------------------------------------------------

\* The instants of a window at which a row is right are finitely many.
LEMMA InstantsType ==
  ASSUME origin \in Nat, NEW i \in Nat, NEW id, NEW state
  PROVE  /\ TrueInstants(i, id, state) \subseteq WindowStart(i) .. WindowEnd(i) - 1
         /\ IsFiniteSet(TrueInstants(i, id, state)) /\ Cardinality(TrueInstants(i, id, state)) \in Nat
         /\ \A t \in TrueInstants(i, id, state) : t \in Nat /\ origin <= t
<1>1. WindowStart(i) \in Nat /\ WindowEnd(i) \in Nat /\ origin <= WindowStart(i)
  BY WindowBounds
<1>2. TrueInstants(i, id, state) \subseteq WindowStart(i) .. WindowEnd(i) - 1
  BY DEF TrueInstants
<1>3. IsFiniteSet(WindowStart(i) .. WindowEnd(i) - 1)
  BY <1>1, FS_Interval
<1>4. IsFiniteSet(TrueInstants(i, id, state)) /\ Cardinality(TrueInstants(i, id, state)) \in Nat
  BY <1>2, <1>3, FS_Subset, FS_CardinalityType
<1> QED  BY <1>1, <1>2, <1>4

\* What is claimed of an instant stays true while the segment of a TID goes on.
StaysTrue(tid) ==
  \A t \in Nat : origin <= t /\ t < SegmentStart(tid) =>
    /\ t < SegmentStart(tid)'
    /\ t < settled[tid] => t < settled'[tid]
    /\ t < proven[tid] => t < proven'[tid]
    /\ timeline'[t] = timeline[t]

\* What was true of a TID before its segment stays true.
LEMMA InstantsGrow ==
  ASSUME origin \in Nat, UNCHANGED <<origin, scenario>>, NEW i \in Nat, NEW id, NEW state, StaysTrue(id.tid)
  PROVE  /\ TrueInstants(i, id, state) \subseteq TrueInstants(i, id, state)'
         /\ Cardinality(TrueInstants(i, id, state)) <= Cardinality(TrueInstants(i, id, state)')
         /\ Cardinality(TrueInstants(i, id, state)) \in Nat /\ Cardinality(TrueInstants(i, id, state)') \in Nat
<1>1. FirstStart' = FirstStart
  BY SameScenario
<1>2. WindowStart(i)' = WindowStart(i) /\ WindowEnd(i)' = WindowEnd(i)
  BY DEF WindowStart, WindowEnd
<1>3. ASSUME NEW t \in TrueInstants(i, id, state)  PROVE t \in TrueInstants(i, id, state)'
  <2>1. t \in Nat /\ origin <= t /\ t < SegmentStart(id.tid) /\ Holds(t, id.tid, id.ns, state)
    BY InstantsType DEF TrueInstants
  <2>2. t < SegmentStart(id.tid)' /\ Holds(t, id.tid, id.ns, state)'
    BY <1>1, <2>1 DEF StaysTrue, Holds, NsOf
  <2> QED  BY <1>2, <2>2 DEF TrueInstants
<1>4. TrueInstants(i, id, state) \subseteq TrueInstants(i, id, state)'
  BY <1>3
<1>5. PICK now : now = TrueInstants(i, id, state)'
  OBVIOUS
<1>6. now \subseteq WindowStart(i) .. WindowEnd(i) - 1
  BY <1>2, <1>5 DEF TrueInstants
<1>7. WindowStart(i) \in Nat /\ WindowEnd(i) \in Nat
  BY WindowBounds
<1>8. IsFiniteSet(now) /\ Cardinality(now) \in Nat
  <2>1. IsFiniteSet(WindowStart(i) .. WindowEnd(i) - 1)
    BY <1>7, FS_Interval
  <2>2. IsFiniteSet(now)
    BY <1>6, <2>1, FS_Subset
  <2> QED  BY <2>2, FS_CardinalityType
<1>9. Cardinality(TrueInstants(i, id, state)) <= Cardinality(now)
  BY <1>4, <1>5, <1>8, FS_Subset
<1> QED  BY <1>4, <1>5, <1>8, <1>9, InstantsType

\* The instants of a segment that lie in a window.
Slice(i, from, to) == later(from, WindowStart(i)) .. earlier(to, WindowEnd(i)) - 1

\* The part of a window in an interval has as many instants as the interval overlaps it.
LEMMA SliceType ==
  ASSUME origin \in Nat, NEW i \in Nat, NEW from \in Nat, NEW to \in Nat
  PROVE  /\ IsFiniteSet(Slice(i, from, to)) /\ Cardinality(Slice(i, from, to)) = Overlap(i, from, to)
         /\ Overlap(i, from, to) \in Nat
         /\ \A t \in Slice(i, from, to) : t \in WindowStart(i) .. WindowEnd(i) - 1 /\ from <= t /\ t < to /\ t \in Nat
<1>1. WindowStart(i) \in Nat /\ WindowEnd(i) \in Nat
  BY WindowBounds
<1>2. PICK a \in Nat : a = later(from, WindowStart(i)) /\ from <= a /\ WindowStart(i) <= a
  BY <1>1 DEF later
<1>3. PICK b \in Nat : b = earlier(to, WindowEnd(i)) /\ b <= to /\ b <= WindowEnd(i)
  BY <1>1 DEF earlier
<1>4. Slice(i, from, to) = a .. b - 1 /\ Overlap(i, from, to) = IF b > a THEN b - a ELSE 0
  BY <1>2, <1>3 DEF Slice, Overlap
<1>5. a .. b - 1 \in SUBSET Int /\ IsFiniteSet(a .. b - 1) /\ Cardinality(a .. b - 1) = IF a > b - 1 THEN 0 ELSE b - 1 - a + 1
  <2>1. b - 1 \in Int
    OBVIOUS
  <2> QED  BY <2>1, FS_Interval
<1>6. Cardinality(a .. b - 1) = IF b > a THEN b - a ELSE 0
  BY <1>5
<1> QED  BY <1>1, <1>2, <1>3, <1>4, <1>5, <1>6

\* A segment adds its instants to those before it.
LEMMA InstantsAdd ==
  ASSUME origin \in Nat, UNCHANGED <<origin, scenario>>, NEW i \in Nat, NEW id, NEW state, StaysTrue(id.tid),
         NEW from \in Nat, NEW to \in Nat, SegmentStart(id.tid) \in Nat, SegmentStart(id.tid) <= from,
         \A t \in Nat : from <= t /\ t < to => t < SegmentStart(id.tid)' /\ Holds(t, id.tid, id.ns, state)'
  PROVE  Cardinality(TrueInstants(i, id, state)) + Overlap(i, from, to) <= Cardinality(TrueInstants(i, id, state)')
<1> DEFINE old == TrueInstants(i, id, state)
           slice == Slice(i, from, to)
<1>1. PICK now : now = TrueInstants(i, id, state)'
  OBVIOUS
<1>2. old \subseteq now /\ Cardinality(now) \in Nat
  BY <1>1, InstantsGrow
<1>3. WindowStart(i)' = WindowStart(i) /\ WindowEnd(i)' = WindowEnd(i) /\ WindowStart(i) \in Nat /\ WindowEnd(i) \in Nat
  BY WindowBounds DEF WindowStart, WindowEnd
<1>4. IsFiniteSet(now)
  <2>1. now \subseteq WindowStart(i) .. WindowEnd(i) - 1
    BY <1>1, <1>3 DEF TrueInstants
  <2>2. IsFiniteSet(WindowStart(i) .. WindowEnd(i) - 1)
    BY <1>3, FS_Interval
  <2> QED  BY <2>1, <2>2, FS_Subset
<1>5. /\ IsFiniteSet(slice) /\ Cardinality(slice) = Overlap(i, from, to) /\ Overlap(i, from, to) \in Nat
      /\ \A t \in slice : t \in WindowStart(i) .. WindowEnd(i) - 1 /\ from <= t /\ t < to /\ t \in Nat
  BY SliceType
<1>6. slice \subseteq now
  <2> SUFFICES ASSUME NEW t \in slice  PROVE t \in now
    OBVIOUS
  <2>1. t \in WindowStart(i) .. WindowEnd(i) - 1 /\ t < SegmentStart(id.tid)' /\ Holds(t, id.tid, id.ns, state)'
    BY <1>5
  <2> QED  BY <1>1, <1>3, <2>1 DEF TrueInstants
<1>7. old \cap slice = {}
  <2> SUFFICES ASSUME NEW t \in old, t \in slice  PROVE FALSE
    OBVIOUS
  <2>1. t < SegmentStart(id.tid) /\ t \in Nat /\ from <= t
    BY <1>5 DEF TrueInstants
  <2> QED  BY <2>1
<1>8. IsFiniteSet(old) /\ Cardinality(old) \in Nat
  BY InstantsType
<1> HIDE DEF old, slice
<1>9. Cardinality(old \cup slice) = Cardinality(old) + Cardinality(slice)
  <2>1. Cardinality(old \cap slice) = 0
    BY <1>7, FS_EmptySet
  <2>2. Cardinality(old \cup slice) = Cardinality(old) + Cardinality(slice) - Cardinality(old \cap slice)
    BY <1>5, <1>8, FS_Union
  <2> QED  BY <1>5, <1>8, <2>1, <2>2
<1>10. Cardinality(old \cup slice) <= Cardinality(now)
  BY <1>2, <1>4, <1>6, FS_Subset
<1> QED  BY <1>1, <1>5, <1>9, <1>10 DEF old, slice

\* Observe leaves each TID with a track that follows the path of its thread, and what was
\* true before the segments still true.
LEMMA DeliverFollows ==
  ASSUME IdsInv, TimelineOK, TracksAreTrue, Deliver, NEW e, e = Head(ring), ~Behind(e)
  PROVE  TracksAreTrue' /\ \A u \in Tids : StaysTrue(u)
<1>1. OrderInv /\ RunTypeOK /\ ring # << >>
  BY DEF IdsInv, OrderInv, Deliver
<1>2. /\ settled'[e.tid] = IF e.at < Origin THEN settled[e.tid] ELSE earlier(settled[e.tid], e.at)
      /\ proven'[e.tid] = IF e.kind = "wakeup" THEN proven[e.tid] ELSE earlier(proven[e.tid], e.at)
      /\ \A u \in Tids \ {e.tid} : settled'[u] = settled[u] /\ proven'[u] = proven[u]
      /\ UNCHANGED <<Tids, timeline>> /\ e.tid \in Tids /\ e.at \in Nat /\ Origin = origin /\ origin \in Nat
      /\ settled[e.tid] \in Nat /\ proven[e.tid] \in Nat
  <2>1. origin \in Nat
    BY <1>1 DEF OrderInv, TimelineInv, TypeOK
  <2> QED  BY <1>1, <2>1, SeedMoves
<1>3. ASSUME NEW u \in Tids  PROVE Followed(u)' /\ Seeds(u)'
  <2>1. Followed(u) /\ Seeds(u)
    BY DEF TracksAreTrue
  <2>2. CASE u = e.tid
    <3>1. e.at < Origin \/ e.at >= Origin
      BY <1>2
    <3> QED  BY <2>1, <2>2, <3>1, DeliverScan, DeliverOwn
  <2>3. CASE u # e.tid
    BY <1>1, <2>1, <2>3, DeliverOthers
  <2> QED  BY <2>2, <2>3
<1>4. ASSUME NEW u \in Tids  PROVE StaysTrue(u)
  <2>1. CASE u = e.tid
    <3>1. /\ SegmentStart(e.tid) \in Nat /\ SegmentStart(e.tid)' \in Nat
          /\ SegmentStart(e.tid) <= SegmentStart(e.tid)'
          /\ SegmentStart(e.tid)' = IF e.at >= origin THEN e.at ELSE origin
      BY <1>1, SegmentMoves
    <3>2. CASE e.at < origin
      <4>1. SegmentStart(e.tid) <= origin
        BY <1>2, <3>1, <3>2
      <4> QED  BY <1>2, <2>1, <3>1, <4>1 DEF StaysTrue
    <3>3. CASE e.at >= origin
      <4>1. settled'[e.tid] = earlier(settled[e.tid], e.at) /\ SegmentStart(e.tid) <= e.at
        BY <1>2, <3>1, <3>3
      <4> QED  BY <1>2, <2>1, <3>1, <4>1 DEF StaysTrue, earlier
    <3> QED  BY <1>2, <3>2, <3>3
  <2>2. CASE u # e.tid
    <3>1. SegmentStart(u)' = SegmentStart(u)
      BY <1>1, <2>2, DeliverOthers DEF TracksAreTrue
    <3> QED  BY <1>2, <2>2, <3>1 DEF StaysTrue
  <2> QED  BY <2>1, <2>2
<1> QED  BY <1>2, <1>3, <1>4 DEF TracksAreTrue

\* Up to its next event a thread is what the path starts with.
LEMMA ShownBefore ==
  ASSUME RunTypeOK, NEW u \in Tids, NEW path, Shown(u, path), NEW t \in DOMAIN timeline, t >= SegmentStart(u),
         \A f \in Pending(u) : t < f.at
  PROVE  timeline[t][u] = path[0]
<1>1. Len(ring) \in Nat /\ DOMAIN ring = 1 .. Len(ring)
  BY DEF RunTypeOK
<1>2. Between(u, t, 0)
  BY <1>1 DEF Between, Pending
<1>3. 0 \in 0 .. Len(ring)
  BY <1>1
<1> QED  BY <1>2, <1>3 DEF Shown

\* The next event is the first of its TID.
LEMMA HeadIsFirst ==
  ASSUME OrderInv, ring # << >>, NEW e, e = Head(ring)
  PROVE  /\ \A f \in Pending(e.tid) : e.at <= f.at
         /\ e.at \in Nat /\ e.at <= clock
         /\ e.at >= Origin => ScanEvents(e.tid) = {}
<1>1. RunTypeOK /\ PendingInOrder /\ e = ring[1] /\ 1 \in DOMAIN ring /\ Len(ring) \in Nat
  BY HeadOfRing DEF OrderInv
<1>2. e \in Pending(e.tid) /\ e.tid \in Tids
  BY <1>1, RingIsPending
<1>3. e.at \in Nat /\ e.at <= clock
  BY <1>1, <1>2, PendingType DEF PendingInOrder
<1>4. ASSUME NEW i \in DOMAIN ring, ring[i].tid = e.tid  PROVE e.at <= ring[i].at
  <2>1. i \in Nat \ {0}
    BY <1>1 DEF RunTypeOK
  <2>2. CASE i = 1
    BY <1>1, <1>3, <2>2
  <2>3. CASE 1 < i
    BY <1>1, <1>4, <2>3 DEF PendingInOrder, Precedes
  <2> QED  BY <2>1, <2>2, <2>3
<1>5. inflight[e.tid] # NoEvent => e.at <= inflight[e.tid].at
  BY <1>1 DEF PendingInOrder, Precedes
<1>6. \A f \in Pending(e.tid) : e.at <= f.at
  BY <1>4, <1>5 DEF Pending
<1>7. ASSUME e.at >= Origin, NEW i \in ScanEvents(e.tid)  PROVE FALSE
  <2>1. i \in DOMAIN ring /\ e.at <= ring[i].at /\ ring[i].at < Origin
    BY <1>4 DEF ScanEvents
  <2>2. ring[i].at \in Nat /\ Origin \in Nat
    BY <1>1, <2>1, RingIsPending, ScenarioType DEF RunTypeOK, StreamEvents
  <2> QED  BY <1>3, <1>7, <2>1, <2>2
<1> QED  BY <1>3, <1>6, <1>7

\* The segment that an event closes is of its thread, in the state of the track.
LEMMA OwnSegment ==
  ASSUME IdsInv, TimelineOK, TracksAreTrue, Deliver, NEW e, e = Head(ring), ~Behind(e), e.at >= origin,
         Known(e), NEW state \in KnownStates, state = TrackOf(e).state
  PROVE  /\ TrackOf(e).since = SegmentStart(e.tid)
         /\ \A t \in Nat : TrackOf(e).since <= t /\ t < e.at =>
              t < SegmentStart(e.tid)' /\ Holds(t, e.tid, e.ns, state)'
<1> DEFINE u == e.tid
           old == tracks[e.tid]
<1>1. OrderInv /\ RunTypeOK /\ TypeOK /\ ring # << >> /\ e = ring[1] /\ 1 \in DOMAIN ring /\ e \in EventType
      /\ Len(ring) \in Nat \ {0}
  BY HeadOfRing DEF IdsInv, OrderInv, TimelineInv, Deliver
<1>2. ~Replaces(e)
  <2>1. SUFFICES ASSUME Replaces(e)  PROVE FALSE
    OBVIOUS
  <2>2. TrackOf(e).state = "unknown"
    BY <2>1 DEF TrackOf, NewTrack
  <2> QED  BY <2>2 DEF KnownStates
<1>3. TrackOf(e).state = old.state /\ TrackOf(e).since = old.since /\ old.since = SegmentStart(u)
  BY <1>1, <1>2, KeptTrack DEF Known, SegmentStart
<1>4. /\ settled'[u] = earlier(settled[u], e.at) /\ settled[u] \in Nat /\ proven[u] \in Nat
      /\ proven'[u] = IF e.kind = "wakeup" THEN proven[u] ELSE earlier(proven[u], e.at)
      /\ UNCHANGED <<FirstStart, timeline>> /\ u \in Tids
      /\ e.at \in Nat /\ e.at < Never /\ Origin = origin /\ origin \in Nat
  <2>1. e.at \in Nat /\ Origin = origin /\ origin \in Nat
    BY <1>1, SeedMoves DEF TypeOK
  <2>2. ~(e.at < Origin)
    BY <2>1
  <2> QED  BY <1>1, <2>1, <2>2, SeedMoves
<1>5. SegmentStart(u)' = e.at /\ SegmentStart(u) \in Nat /\ origin <= SegmentStart(u)
  <2>1. origin <= old.since
    BY <1>1, SegmentsFollow DEF Known
  <2> QED  BY <1>1, <1>3, <2>1, SegmentMoves
<1>6. PICK path : IsPath(u, path) /\ Starts(u, path[0])
  BY <1>4 DEF TracksAreTrue, Followed
<1>7. Moves(path[0], e, path[1]) /\ path[0] \in [ns : Nat, state : KernelStates]
  <2>1. Moves(path[1 - 1], ring[1], path[1])
    BY <1>1, <1>6 DEF IsPath, Joined
  <2>2. path \in Paths /\ 0 \in 0 .. Len(ring)
    BY <1>1, <1>6 DEF IsPath
  <2>3. path[0] \in [ns : Nat, state : KernelStates]
    BY <1>1, <2>2, PathType
  <2> QED  BY <1>1, <2>1, <2>3
<1>8. ASSUME settled[u] # Never, proven[u] # Never
      PROVE  path[0] = [ns |-> NsOf(e.ns), state |-> old.state]
  <2>1. ScanEvents(u) = {}
    BY <1>1, <1>4, HeadIsFirst
  <2>2. Agrees(u, path[0])
    BY <1>6, <1>8, <2>1 DEF Starts, Known
  <2>3. path[0] = [ns |-> NsOf(old.ns), state |-> old.state]
    BY <1>3, <1>8, <2>2 DEF Agrees
  <2>4. path[0].ns = e.ns
    BY <1>3, <1>7, <2>3 DEF Moves, KnownStates, SchedulerStates
  <2>5. NsOf(e.ns) = e.ns
    BY <1>1 DEF EventType, NsOf
  <2> QED  BY <2>3, <2>4, <2>5
<1>9. ASSUME NEW t \in Nat, old.since <= t, t < e.at
      PROVE  t < settled'[u] \/ t < proven'[u] \/ timeline'[t][u] = [ns |-> NsOf(e.ns), state |-> old.state]
  <2>1. CASE settled[u] = Never
    <3> HIDE DEF u, old
    <3> QED  BY <1>4, <1>9, <2>1 DEF earlier
  <2>2. CASE proven[u] = Never
    <3>1. Never \in Nat
      BY <1>4, <2>2
    <3> HIDE DEF u, old
    <3> QED  BY <1>4, <1>9, <2>2, <3>1 DEF earlier
  <2>3. CASE settled[u] # Never /\ proven[u] # Never
    <3>1. t \in DOMAIN timeline
      <4>1. e.at <= clock /\ clock \in Nat
        BY <1>1, HeadIsFirst DEF RunTypeOK
      <4>2. origin <= t /\ t <= clock - 1
        <5>1. origin <= old.since /\ old.since \in Nat
          BY <1>3, <1>5
        <5> HIDE DEF old
        <5> QED  BY <1>4, <1>9, <4>1, <5>1
      <4> QED  BY <1>4, <4>1, <4>2 DEF TimelineOK
    <3>2. \A f \in Pending(u) : t < f.at
      <4>1. \A f \in Pending(u) : e.at <= f.at /\ f.at \in Nat
        BY <1>1, <1>4, HeadIsFirst, PendingType
      <4> QED  BY <1>4, <1>9, <4>1
    <3>3. timeline[t][u] = path[0]
      <4>1. t >= SegmentStart(u)
        BY <1>3, <1>9
      <4> QED  BY <1>1, <1>4, <1>6, <3>1, <3>2, <4>1, ShownBefore DEF IsPath
    <3> QED  BY <1>4, <1>8, <2>3, <3>3
  <2> QED  BY <2>1, <2>2, <2>3
<1>10. \A t \in Nat : old.since <= t /\ t < e.at => Holds(t, u, e.ns, state)'
  BY <1>3, <1>4, <1>9 DEF Holds, NsOf
<1>11. \A t \in Nat : t < e.at => t < SegmentStart(u)'
  BY <1>5
<1> QED  BY <1>3, <1>10, <1>11

\* The times of a row, after the segment and the event that are counted in it.
LEMMA CreditTime ==
  ASSUME NEW row \in RowType, NEW credited \in SchedulerStates, NEW n \in Nat, NEW state \in SchedulerStates
  PROVE  CreditRow(row, credited, n).time[state] = row.time[state] + (IF state = credited THEN n ELSE 0)
         /\ row.time[state] \in Nat
<1>1. row.time \in [SchedulerStates -> Nat]
  BY DEF RowType
<1>2. CreditRow(row, credited, n).time = CreditState(row.time, credited, n)
  BY DEF CreditRow, RowType
<1> QED  BY <1>1, <1>2 DEF CreditState

\* What addTrackSegment adds to a row of a window: the overlap, to the state of the track.
LEMMA CountedTime ==
  ASSUME origin \in Nat, nextWindow \in Nat, NEW row \in RowType, NEW track \in TrackType, NEW e \in EventType,
         NEW i \in Nat, NEW state \in SchedulerStates
  PROVE  Counted(row, track, e, i).time[state] = row.time[state]
           + (IF state = track.state /\ i \in TouchedWindows(track.since, e.at)
              THEN Overlap(i, track.since, e.at) ELSE 0)
<1>1. Overlap(i, track.since, e.at) \in Nat /\ track.state \in SchedulerStates /\ row.time[state] \in Nat
  BY OverlapType DEF TrackType, EventType, RowType
<1>2. Counted(row, track, e, i).time = Closed(row, track, i, e.at).time
  BY DEF Counted, CountEvent
<1>3. Closed(row, track, i, e.at).time[state] = row.time[state]
           + (IF state = track.state /\ i \in TouchedWindows(track.since, e.at)
              THEN Overlap(i, track.since, e.at) ELSE 0)
  <2> DEFINE touched == i \in TouchedWindows(track.since, e.at)
             n == Overlap(i, track.since, e.at)
  <2>1. CreditRow(row, track.state, n).time[state] = row.time[state] + (IF state = track.state THEN n ELSE 0)
    <3> HIDE DEF n
    <3> QED  BY <1>1, CreditTime DEF n
  <2>2. Closed(row, track, i, e.at) = IF touched THEN CreditRow(row, track.state, n) ELSE row
    BY DEF Closed
  <2> HIDE DEF touched, n
  <2>3. Closed(row, track, i, e.at).time[state] = row.time[state] + (IF state = track.state /\ touched THEN n ELSE 0)
    BY <1>1, <2>1, <2>2
  <2> QED  BY <2>3 DEF touched, n
<1> QED  BY <1>2, <1>3

RowIds == [tid : Tids, ticks : Nat, ns : Nat]

\* Observe adds to the rows only time at which the thread was in the state of the row.
LEMMA DeliverRows ==
  ASSUME IdsInv, TimelineOK, TracksAreTrue, RowsAreTrue, Deliver, NEW e, e = Head(ring), ~Behind(e)
  PROVE  RowsAreTrue'
<1>1. /\ OrderInv /\ RunTypeOK /\ TypeOK /\ ring # << >> /\ origin \in Nat /\ nextWindow \in Nat
      /\ UNCHANGED <<origin, scenario>>
  BY DeliverTrack DEF IdsInv, OrderInv, TimelineInv, TypeOK, Deliver
<1>2. \A u \in Tids : StaysTrue(u)
  BY DeliverFollows
<1>3. /\ TrackOf(e) \in TrackType /\ e \in EventType /\ TrackOf(e).ns = e.ns /\ e.tid \in Tids
      /\ origin \in Nat /\ e.at \in Nat /\ e.ns \in Nat \ {0}
      /\ e.at >= origin => TrackOf(e).since <= e.at
  <2>1. TrackOf(e) \in TrackType /\ e \in EventType /\ TrackOf(e).ns = e.ns /\ e.tid \in Tids /\ e.at \in Nat
        /\ e.ns \in Nat \ {0} /\ (e.at >= origin => InOrder(TrackOf(e), e))
    BY <1>1, NextToObserve
  <2>2. TrackOf(e).since \in Nat
    BY <2>1 DEF TrackType
  <2> QED  BY <1>1, <2>1, <2>2 DEF InOrder
<1>4. PICK track \in TrackType : track = TrackOf(e)
  BY <1>3
<1>5. ASSUME NEW i \in Nat, NEW id \in RowIds, NEW state \in KnownStates
      PROVE  OpenRow(i, id)'.time[state] <= Cardinality(TrueInstants(i, id, state)')
  <2>1. OpenRow(i, id).time[state] <= Cardinality(TrueInstants(i, id, state))
        /\ OpenRow(i, id) \in RowType /\ OpenRow(i, id).time[state] \in Nat /\ state \in SchedulerStates
    <3>1. OpenRow(i, id) \in RowType
      BY <1>1, WindowOfType, RowOfType DEF TypeOK, OpenRow
    <3> QED  BY <3>1 DEF RowsAreTrue, RowType, KnownStates, RowIds
  <2>2. /\ Cardinality(TrueInstants(i, id, state)) <= Cardinality(TrueInstants(i, id, state)')
        /\ Cardinality(TrueInstants(i, id, state)) \in Nat /\ Cardinality(TrueInstants(i, id, state)') \in Nat
    BY <1>1, <1>2, InstantsGrow DEF RowIds
  <2> DEFINE counts == ~Unheard(e) /\ id = Identity(e.tid, track) /\ state = track.state
                       /\ i \in TouchedWindows(track.since, e.at)
             n == Overlap(i, track.since, e.at)
  <2>3. OpenRow(i, id)'.time[state] = OpenRow(i, id).time[state] + (IF counts THEN n ELSE 0)
    <3>1. OpenRow(i, id)' = IF ~Unheard(e) /\ id = Identity(e.tid, track) THEN Counted(OpenRow(i, id), track, e, i)
                            ELSE OpenRow(i, id)
      BY <1>1, <1>4, DeliverEffect
    <3>2. Counted(OpenRow(i, id), track, e, i).time[state] = OpenRow(i, id).time[state]
           + (IF state = track.state /\ i \in TouchedWindows(track.since, e.at)
              THEN Overlap(i, track.since, e.at) ELSE 0)
      BY <1>1, <1>3, <2>1, CountedTime
    <3> QED  BY <2>1, <3>1, <3>2
  <2>4. CASE counts
    <3>1. e.at >= origin /\ ~Behind(e) /\ id.tid = e.tid /\ id.ns = e.ns
      BY <1>3, <1>4, <2>4 DEF Unheard, Identity
    <3>2. i \in TouchedWindows(track.since, e.at) /\ n > 0 /\ n \in Nat /\ track.since \in Nat
      BY <1>3, <1>4, <2>4, OverlapType DEF TouchedWindows, TrackType
    <3>3. Known(e)
      <4>1. SUFFICES ASSUME ~Known(e)  PROVE FALSE
        OBVIOUS
      <4>2. track.state = "unknown"
        BY <1>4, <4>1 DEF TrackOf, NewTrack
      <4> QED  BY <2>4, <4>2 DEF KnownStates
    <3>4. /\ track.since = SegmentStart(e.tid)
          /\ \A t \in Nat : track.since <= t /\ t < e.at => t < SegmentStart(e.tid)' /\ Holds(t, e.tid, e.ns, state)'
      BY <1>4, <2>4, <3>1, <3>3, OwnSegment
    <3>5. \A t \in Nat : track.since <= t /\ t < e.at => t < SegmentStart(id.tid)' /\ Holds(t, id.tid, id.ns, state)'
      BY <3>1, <3>4
    <3>6. StaysTrue(id.tid) /\ SegmentStart(id.tid) \in Nat /\ SegmentStart(id.tid) <= track.since
      BY <1>2, <3>1, <3>2, <3>4 DEF RowIds
    <3>7. Cardinality(TrueInstants(i, id, state)) + n <= Cardinality(TrueInstants(i, id, state)')
      BY <1>1, <1>3, <3>2, <3>5, <3>6, InstantsAdd
    <3> HIDE DEF n, counts
    <3> QED  BY <2>1, <2>2, <2>3, <2>4, <3>2, <3>7
  <2>5. CASE ~counts
    <3> HIDE DEF n, counts
    <3> QED  BY <2>1, <2>2, <2>3, <2>5
  <2> QED  BY <2>4, <2>5
<1>6. Tids' = Tids
  BY <1>1, SameScenario
<1>7. KnownStates' = KnownStates
  BY DEF KnownStates
<1> QED  BY <1>5, <1>6, <1>7 DEF RowsAreTrue, RowIds

\* A step that leaves the accumulator and the samples alone.
LEMMA OthersRows ==
  ASSUME OrderInv, RowsAreTrue, UNCHANGED <<vars, scenario, settled, proven>>,
         \A t \in Nat : origin <= t /\ t < clock => timeline'[t] = timeline[t]
  PROVE  RowsAreTrue'
<1>1. /\ TypeOK /\ RunTypeOK /\ origin \in Nat /\ origin <= clock /\ clock \in Nat
  BY DEF OrderInv, TimelineInv, TypeOK, RunTypeOK
<1>2. UNCHANGED <<Tids, origin, windows, tracks>>
  BY SameScenario DEF vars
<1>3. ASSUME NEW u \in Tids  PROVE StaysTrue(u)
  <2>1. SegmentStart(u)' = SegmentStart(u)
    BY <1>2 DEF SegmentStart
  <2>2. SegmentStart(u) <= clock /\ SegmentStart(u) \in Nat
    <3>1. u \in DOMAIN tracks => tracks[u].since <= clock /\ tracks[u].since \in Nat
      BY <1>1, TrackFields DEF OrderInv, TracksInOrder, TrackInOrder
    <3> QED  BY <1>1, <3>1 DEF SegmentStart
  <2> QED  BY <1>1, <2>1, <2>2 DEF StaysTrue
<1>4. ASSUME NEW i \in Nat, NEW id \in RowIds, NEW state \in KnownStates
      PROVE  OpenRow(i, id)'.time[state] <= Cardinality(TrueInstants(i, id, state)')
  <2>1. OpenRow(i, id).time[state] <= Cardinality(TrueInstants(i, id, state))
    BY DEF RowsAreTrue, RowIds
  <2>2. OpenRow(i, id)' = OpenRow(i, id)
    BY <1>2 DEF OpenRow
  <2>3. OpenRow(i, id).time[state] \in Nat
    <3>1. OpenRow(i, id) \in RowType
      BY <1>1, WindowOfType, RowOfType DEF TypeOK, OpenRow
    <3> QED  BY <3>1 DEF RowType, KnownStates
  <2>4. /\ Cardinality(TrueInstants(i, id, state)) <= Cardinality(TrueInstants(i, id, state)')
        /\ Cardinality(TrueInstants(i, id, state)) \in Nat /\ Cardinality(TrueInstants(i, id, state)') \in Nat
    BY <1>1, <1>2, <1>3, InstantsGrow DEF RowIds
  <2> QED  BY <2>1, <2>2, <2>3, <2>4
<1>5. KnownStates' = KnownStates
  BY DEF KnownStates
<1> QED  BY <1>2, <1>4, <1>5 DEF RowsAreTrue, RowIds

\* Advance takes one window away, and leaves the rows of the others alone.
LEMMA FlushRows ==
  ASSUME OrderInv, TimelineOK, RowsAreTrue, TracksAreTrue, FinishFlush
  PROVE  RowsAreTrue'
<1>1. /\ TypeOK /\ RunTypeOK /\ origin \in Nat /\ nextWindow \in Nat /\ lost \in Nat /\ Advance(lost)
      /\ UNCHANGED <<origin, scenario, timeline, settled, proven>>
  BY DEF OrderInv, TimelineInv, TypeOK, RunTypeOK, FinishFlush, Advance, seedVars
<1>2. UNCHANGED Tids
  BY <1>1, SameScenario
<1>3. ASSUME NEW u \in Tids  PROVE StaysTrue(u)
  <2>1. SegmentStart(u) \in Nat /\ SegmentStart(u)' \in Nat /\ SegmentStart(u) <= SegmentStart(u)'
    BY FinishFlushFollows DEF TracksAreTrue
  <2> QED  BY <1>1, <2>1 DEF StaysTrue
<1>4. ASSUME NEW i \in Nat, NEW id \in RowIds, NEW state \in KnownStates
      PROVE  OpenRow(i, id)'.time[state] <= Cardinality(TrueInstants(i, id, state)')
  <2>1. OpenRow(i, id).time[state] <= Cardinality(TrueInstants(i, id, state))
    BY DEF RowsAreTrue, RowIds
  <2>2. /\ Cardinality(TrueInstants(i, id, state)) <= Cardinality(TrueInstants(i, id, state)')
        /\ Cardinality(TrueInstants(i, id, state)) \in Nat /\ Cardinality(TrueInstants(i, id, state)') \in Nat
    BY <1>1, <1>3, InstantsGrow DEF RowIds
  <2>3. OpenRow(i, id).time[state] \in Nat /\ state \in SchedulerStates
    <3>1. OpenRow(i, id) \in RowType
      BY <1>1, WindowOfType, RowOfType DEF TypeOK, OpenRow
    <3> QED  BY <3>1 DEF RowType, KnownStates
  <2>4. CASE i = nextWindow
    <3>1. WindowOf(windows', i) = NoWindow
      BY <1>1, <2>4, AdvanceEffect
    <3>2. OpenRow(i, id)' = RowOf(WindowOf(windows', i), id)
      BY DEF OpenRow
    <3>3. OpenRow(i, id)' = NoRow
      BY <3>1, <3>2 DEF RowOf, NoWindow
    <3>4. NoRow.time[state] = 0
      BY <2>3 DEF NoRow
    <3> QED  BY <2>2, <3>3, <3>4
  <2>5. CASE i # nextWindow
    <3>1. RowOf(WindowOf(windows', i), id) = RowOf(WindowOf(windows, i), id)
      BY <1>1, <2>5, AdvanceEffect
    <3>2. OpenRow(i, id)' = OpenRow(i, id)
      BY <3>1 DEF OpenRow
    <3> QED  BY <2>1, <2>2, <2>3, <3>2
  <2> QED  BY <2>4, <2>5
<1>5. KnownStates' = KnownStates
  BY DEF KnownStates
<1> QED  BY <1>2, <1>4, <1>5 DEF RowsAreTrue, RowIds

\* What is known to be missing stays known, and a late event is known at once.
LEMMA DeliverMisses ==
  ASSUME OrderInv, Deliver
  PROVE  (Missed \/ Behind(Head(ring)) => Missed') /\ Late(nextWindow) <= Late(nextWindow)'
         /\ (Behind(Head(ring)) => Late(nextWindow)' > 0)
<1>0. PICK e : e = Head(ring)
  OBVIOUS
<1>n. PICK n : n = nextWindow
  OBVIOUS
<1>1. OrderInv /\ TypeOK /\ lost \in Nat
  BY DEF OrderInv, TimelineInv, RunTypeOK
<1>2. UNCHANGED <<nextWindow, reports, lost>>
  BY <1>0, <1>1, DeliverTrack
<1>3. Late(n) \in Nat /\ Late(n)' = Late(n) + (IF Behind(e) /\ n = nextWindow THEN 1 ELSE 0)
  BY <1>0, <1>1, DeliverEffect, LateType
<1>4. Late(nextWindow)' = Late(n)' /\ Late(nextWindow) = Late(n)
  BY <1>2, <1>n DEF Late
<1> QED  BY <1>0, <1>n, <1>1, <1>2, <1>3, <1>4 DEF Missed

\* What has been lost or late stays so.
LEMMA MissedStays ==
  ASSUME OrderInv, [RunNext]_<<vars, runVars>>, Missed
  PROVE  Missed'
<1>1. RunTypeOK /\ RunTypeOK' /\ TypeOK /\ lost \in Nat /\ lost' \in Nat /\ nextWindow \in Nat
  BY OrderStep DEF OrderInv, TimelineInv, TypeOK, RunTypeOK
<1>2. ASSUME UNCHANGED vars, lost <= lost'  PROVE Missed'
  BY <1>1, <1>2 DEF Missed, Late, vars
<1>3. ASSUME NEW tid \in Tids, NEW e \in StreamEvents, NEW t, Fired(tid, e, t)  PROVE Missed'
  BY <1>1, <1>2, <1>3 DEF Fired
<1>4. ASSUME NEW tid \in Tids, Submit(tid)  PROVE Missed'
  BY <1>1, <1>2, <1>4 DEF Submit
<1>5. CASE Deliver
  BY <1>5, DeliverMisses
<1>6. CASE FinishFlush
  <2>1. Advance(lost) /\ lost' = lost
    BY <1>6 DEF FinishFlush
  <2>2. /\ DOMAIN reports' = DOMAIN reports \cup {nextWindow} /\ nextWindow \notin DOMAIN reports
        /\ \A i \in DOMAIN reports : reports'[i] = reports[i]
        /\ reports'[nextWindow].late = Late(nextWindow)
    BY <1>1, <2>1, AdvanceEffect DEF Late
  <2> QED  BY <2>1, <2>2 DEF Missed
<1>7. CASE Tick \/ StartFlush \/ UNCHANGED <<vars, runVars>>
  <2>1. UNCHANGED vars /\ lost' = lost
    BY <1>7 DEF Tick, StartFlush, runVars
  <2> QED  BY <1>1, <1>2, <2>1
<1> QED  BY <1>1, <1>3, <1>4, <1>5, <1>6, <1>7, RunSteps

\* The timeline only gets longer, by one instant with each tick.
LEMMA TimelineStays ==
  ASSUME OrderInv, TimelineOK, [RunNext]_<<vars, runVars>>
  PROVE  TimelineOK'
<1>1. RunTypeOK /\ clock \in Nat /\ Origin \in Nat /\ Origin <= clock
  BY ScenarioType DEF OrderInv, RunTypeOK
<1>2. ASSUME UNCHANGED <<scenario, clock, timeline, settled, proven>>  PROVE TimelineOK'
  BY <1>2, SameScenario DEF TimelineOK
<1>3. ASSUME NEW tid \in Tids, Tracepoint(tid) \/ Submit(tid)  PROVE TimelineOK'
  <2>1. UNCHANGED <<scenario, clock, timeline, settled, proven>>
    BY <1>3 DEF Tracepoint, Wakeup, SwitchIn, Spawn, SwitchOut, Fires, Submit, seedVars
  <2> QED  BY <1>2, <2>1
<1>4. CASE Tick
  <2>1. /\ UNCHANGED <<scenario, settled, proven>> /\ clock' = clock + 1
        /\ DOMAIN timeline' = DOMAIN timeline \cup {clock}
    BY <1>4 DEF Tick, seedVars
  <2>2. DOMAIN timeline = Origin .. clock - 1
    BY DEF TimelineOK
  <2>3. DOMAIN timeline' = Origin .. clock' - 1
    <3>1. DOMAIN timeline' = (Origin .. clock - 1) \cup {clock}
      BY <2>1, <2>2
    <3>2. clock' - 1 = clock
      BY <1>1, <2>1
    <3>3. (Origin .. clock - 1) \cup {clock} = Origin .. clock
      BY <1>1
    <3> QED  BY <3>1, <3>2, <3>3
  <2> QED  BY <2>1, <2>3, SameScenario DEF TimelineOK
<1>5. CASE Deliver
  <2>1. UNCHANGED <<scenario, clock, timeline>> /\ ring # << >>
    BY <1>5 DEF Deliver
  <2>2. PICK e : e = Head(ring)
    OBVIOUS
  <2>3. e.at \in Nat
    BY <1>1, <2>1, <2>2, <1>5, SeedMoves DEF TimelineOK
  <2>4. settled' \in [Tids -> Nat] /\ proven' \in [Tids -> Nat]
    <3>1. settled \in [Tids -> Nat] /\ proven \in [Tids -> Nat]
      BY DEF TimelineOK
    <3>2. /\ settled' = IF e.at < Origin THEN settled ELSE [settled EXCEPT ![e.tid] = earlier(@, e.at)]
          /\ proven' = IF e.kind = "wakeup" THEN proven ELSE [proven EXCEPT ![e.tid] = earlier(@, e.at)]
      BY <1>5, <2>2 DEF Deliver
    <3> QED  BY <2>3, <3>1, <3>2 DEF earlier
  <2> QED  BY <2>1, <2>4, SameScenario DEF TimelineOK
<1>6. CASE StartFlush \/ FinishFlush \/ UNCHANGED <<vars, runVars>>
  <2>1. UNCHANGED <<scenario, clock, timeline, settled, proven>>
    BY <1>6 DEF StartFlush, FinishFlush, runVars, seedVars
  <2> QED  BY <1>2, <2>1
<1> QED  BY <1>3, <1>4, <1>5, <1>6 DEF RunNext, Tracepoint

\* Nothing that a step does makes the tracks or the rows wrong without evidence.
LEMMA TruthSteps ==
  ASSUME SwitchesAreRead, IdsInv, AccountedInv, TimelineOK, ~Missed, ~Missed', RowsAreTrue, TracksAreTrue,
         [RunNext]_<<vars, runVars>>
  PROVE  RowsAreTrue' /\ TracksAreTrue'
<1>1. /\ OrderInv /\ RunTypeOK /\ ScanEventsComeFirst /\ clock \in Nat /\ Origin = origin /\ lost \in Nat
      /\ DOMAIN timeline = Origin .. clock - 1
  BY DEF IdsInv, OrderInv, AccountedInv, RunTypeOK, TimelineOK
<1>2. \A u \in Tids : Followed(u) /\ Seeds(u)
  BY DEF TracksAreTrue
<1>3. ASSUME UNCHANGED <<vars, scenario, ring, settled, proven, timeline>>,
             \A u \in Tids : Followed(u)'
      PROVE  RowsAreTrue' /\ TracksAreTrue'
  <2>1. RowsAreTrue'
    BY <1>1, <1>3, OthersRows
  <2>2. \A u \in Tids : Seeds(u)'
    BY <1>2, <1>3, StillStarts
  <2> QED  BY <1>3, <2>1, <2>2, SameScenario DEF TracksAreTrue
<1>4. ASSUME NEW tid \in Tids, NEW e \in StreamEvents, NEW t, Fired(tid, e, t), Moves(thread[tid], e, t),
             UNCHANGED <<timeline, settled, proven>>
      PROVE  RowsAreTrue' /\ TracksAreTrue'
  <2>1. \A u \in Tids : Followed(u)'
    BY <1>1, <1>2, <1>4, FiredFollows
  <2>2. UNCHANGED <<vars, scenario, ring, settled, proven, timeline>>
    BY <1>4 DEF Fired
  <2> QED  BY <1>3, <2>1, <2>2
<1>5. ASSUME NEW tid \in Tids, Submit(tid)
      PROVE  RowsAreTrue' /\ TracksAreTrue'
  <2>1. UNCHANGED <<vars, scenario, settled, proven, timeline>>
    BY <1>5 DEF Submit, seedVars
  <2>2. lost' = lost
    BY <1>1, <1>5 DEF Submit, Missed
  <2>3. \A u \in Tids : Followed(u)' /\ Seeds(u)'
    BY <1>1, <1>2, <1>5, <2>2, SubmitFollows
  <2>4. RowsAreTrue'
    BY <1>1, <2>1, OthersRows
  <2> QED  BY <2>1, <2>3, <2>4, SameScenario DEF TracksAreTrue
<1>6. CASE Tick
  <2>1. /\ UNCHANGED <<vars, scenario, ring, settled, proven>>
        /\ timeline' = [t \in DOMAIN timeline \cup {clock} |-> IF t = clock THEN thread ELSE timeline[t]]
    BY <1>6 DEF Tick, seedVars
  <2>2. \A t \in Nat : origin <= t /\ t < clock => timeline'[t] = timeline[t]
    <3>1. ASSUME NEW t \in Nat, origin <= t, t < clock  PROVE timeline'[t] = timeline[t]
      <4>1. t \in Origin .. clock - 1 /\ t # clock
        <5>1. origin \in Nat
          BY <1>1, ScenarioType DEF RunTypeOK
        <5> QED  BY <1>1, <3>1, <5>1
      <4> QED  BY <1>1, <2>1, <4>1
    <3> QED  BY <3>1
  <2>3. RowsAreTrue'
    BY <1>1, <2>1, <2>2, OthersRows
  <2>4. \A u \in Tids : Followed(u)' /\ Seeds(u)'
    BY <1>1, <1>2, <1>6, <2>1, TickFollows, StillStarts
  <2> QED  BY <2>1, <2>3, <2>4, SameScenario DEF TracksAreTrue
<1>7. CASE Deliver
  <2>1. ~Behind(Head(ring))
    BY <1>1, <1>7, DeliverMisses
  <2> QED  BY <1>7, <2>1, DeliverFollows, DeliverRows
<1>8. CASE StartFlush
  <2>1. UNCHANGED <<vars, scenario, ring, settled, proven, timeline>>
    BY <1>8 DEF StartFlush, seedVars
  <2> QED  BY <1>2, <1>3, <1>8, <2>1, StartFlushFollows
<1>9. CASE FinishFlush
  <2>1. \A u \in Tids : Followed(u)' /\ Seeds(u)'
    BY <1>1, <1>2, <1>9, FinishFlushFollows
  <2>2. UNCHANGED Tids
    BY <1>9, SameScenario DEF FinishFlush
  <2> QED  BY <1>1, <1>9, <2>1, <2>2, FlushRows DEF TracksAreTrue
<1>10. CASE UNCHANGED <<vars, runVars>>
  <2>1. UNCHANGED <<vars, scenario, ring, settled, proven, timeline, inflight, thread, clock>>
    BY <1>10 DEF runVars, seedVars
  <2>2. ASSUME NEW u \in Tids  PROVE Followed(u)'
    <3>1. PICK path : IsPath(u, path) /\ Starts(u, path[0])
      BY <1>2 DEF Followed
    <3>2. UNCHANGED <<Tids, Origin, tracks, origin>>
      BY <2>1, SameScenario DEF vars
    <3>3. IsPath(u, path)'
      BY <2>1, <3>1, <3>2 DEF IsPath, Paths, Joined, Shown, Between, SegmentStart, Moves, KernelStates
    <3> QED  BY <2>1, <3>1, <3>3, StillStarts DEF Followed
  <2> QED  BY <1>3, <2>1, <2>2
<1> QED  BY <1>1, <1>4, <1>5, <1>6, <1>7, <1>8, <1>9, <1>10, TrueSteps

\* As long as nothing has been lost or late, every step keeps the rows and the tracks true.
LEMMA TruthStep ==
  ASSUME SwitchesAreRead, TruthInv, [RunNext]_<<vars, runVars>>
  PROVE  TruthInv'
<1>1. OrderInv
  BY DEF TruthInv, IdsInv
<1>2. IdsInv' /\ AccountedInv' /\ TimelineOK'
  BY <1>1, IdsStep, AccountedStep, TimelineStays DEF TruthInv
<1>3. Missed => Missed'
  BY <1>1, MissedStays
<1>4. ~Missed /\ ~Missed' => RowsAreTrue' /\ TracksAreTrue'
  BY TruthSteps DEF TruthInv
<1> QED  BY <1>2, <1>3, <1>4 DEF TruthInv

\* What the initial scan may have missed of a thread.
LEMMA HistoryShape ==
  ASSUME NEW tid, NEW history \in Histories(tid)
  PROVE  \/ history.event = << >> /\ history.after \in {"on_cpu", "runnable", "sleeping"}
            /\ history.before = history.after
         \/ /\ history.event # << >> /\ history.event[1].tid = tid /\ history.event[1].ns = FirstStart
            /\ \/ history.event[1].kind = "wakeup" /\ history.after = "runnable"
               \/ /\ history.event[1].kind = "switch_out" /\ history.event[1].state = "sleeping"
                  /\ history.after = "sleeping"
<1> DEFINE Change(before, after, kind) ==
             {[before |-> before, after |-> after,
               event |-> <<Event(tid, FirstStart, kind, after, at)>>] : at \in 1 .. Origin - 1}
<1>1. \/ history \in {[before |-> state, after |-> state, event |-> << >>] :
                         state \in {"on_cpu", "runnable", "sleeping"}}
      \/ history \in Change("sleeping", "runnable", "wakeup")
      \/ history \in Change("on_cpu", "sleeping", "switch_out")
  BY DEF Histories
<1>2. ASSUME NEW before, NEW after, NEW kind, history \in Change(before, after, kind)
      PROVE  /\ history.after = after /\ history.event # << >>
             /\ history.event[1].tid = tid /\ history.event[1].ns = FirstStart
             /\ history.event[1].kind = kind /\ history.event[1].state = after
  <2>1. PICK at \in 1 .. Origin - 1 :
          history = [before |-> before, after |-> after, event |-> <<Event(tid, FirstStart, kind, after, at)>>]
    BY <1>2
  <2>2. PICK e : e = Event(tid, FirstStart, kind, after, at)
    OBVIOUS
  <2>3. e.tid = tid /\ e.ns = FirstStart /\ e.kind = kind /\ e.state = after
    BY <2>2, EventFields
  <2>4. history = [before |-> before, after |-> after, event |-> <<e>>]
    BY <2>1, <2>2
  <2> QED  BY <2>3, <2>4
<1>3. CASE history \in {[before |-> state, after |-> state, event |-> << >>] :
                         state \in {"on_cpu", "runnable", "sleeping"}}
  BY <1>3
<1>4. CASE history \in Change("sleeping", "runnable", "wakeup")
  <2> HIDE DEF Change
  <2> QED  BY <1>2, <1>4
<1>5. CASE history \in Change("on_cpu", "sleeping", "switch_out")
  <2> HIDE DEF Change
  <2> QED  BY <1>2, <1>5
<1> QED  BY <1>1, <1>3, <1>4, <1>5

\* What a scan says of a thread that nothing happens to is right, and otherwise the
\* event after which it is right is on its way.
LEMMA ScanIsRight ==
  ASSUME NEW tid, NEW history \in Histories(tid), NEW sample, sample.state \in {"running", "sleeping"},
         SampleOf(history, sample), sample.state = "sleeping",
         history.event = << >> \/ (~Skewed(history, sample) /\ sample.at > history.event[1].at)
  PROVE  history.after = "sleeping"
<1>1. CASE history.event = << >>
  <2>1. PICK read : sample.state = ProcState(StateAt(history, read))
    BY DEF SampleOf
  <2>2. StateAt(history, read) = history.after
    BY <1>1 DEF StateAt
  <2> QED  BY <1>1, <2>1, <2>2, HistoryShape DEF ProcState
<1>2. CASE history.event # << >>
  BY <1>2, HistoryShape DEF Skewed, ProcState
<1> QED  BY <1>1, <1>2

\* The initial scan seeds tracks that follow the paths of their threads (Seed).
LEMMA RunInitTracks ==
  ASSUME RunInit
  PROVE  TracksAreTrue
<1>1. /\ scenario \in Scenarios /\ RunTypeOK /\ OrderInv
      /\ ring \in Seq({e \in StreamEvents : e.tid \in Initial /\ e.ns = FirstStart /\ e.at < Origin
                                          /\ e.state # "dead"})
      /\ inflight = [tid \in Tids |-> NoEvent]
  BY RunStarts, RunInitType, RunInitOrder
<1>2. PICK snapshot \in SnapshotsOf(scenario) :
      \E history \in [Initial -> UNION {Histories(tid) : tid \in Initial}] :
       /\ \A tid \in Initial :
            /\ history[tid] \in Histories(tid)
            /\ SampleOf(history[tid], snapshot.samples[tid])
       /\ InitFrom(snapshot)
       /\ settled = [tid \in Tids |->
            IF tid \in Initial /\ Skewed(history[tid], snapshot.samples[tid]) THEN Never ELSE 0]
       /\ proven = [tid \in Tids |->
            IF tid \in Initial /\ snapshot.samples[tid].state = "running" THEN Never ELSE 0]
       /\ thread = [tid \in Tids |->
            [ns |-> FirstStart, state |-> IF tid \in Initial THEN history[tid].after ELSE "none"]]
       /\ LET events == {history[tid].event[1] : tid \in {t \in Initial : history[t].event # << >>}}
          IN /\ ring \in [1 .. Cardinality(events) -> events]
             /\ \A e \in events : \E i \in DOMAIN ring : ring[i] = e
       /\ timeline = << >>
  BY DEF RunInit
<1>3. PICK history \in [Initial -> UNION {Histories(tid) : tid \in Initial}] :
       /\ \A tid \in Initial :
            /\ history[tid] \in Histories(tid)
            /\ SampleOf(history[tid], snapshot.samples[tid])
       /\ InitFrom(snapshot)
       /\ settled = [tid \in Tids |->
            IF tid \in Initial /\ Skewed(history[tid], snapshot.samples[tid]) THEN Never ELSE 0]
       /\ proven = [tid \in Tids |->
            IF tid \in Initial /\ snapshot.samples[tid].state = "running" THEN Never ELSE 0]
       /\ thread = [tid \in Tids |->
            [ns |-> FirstStart, state |-> IF tid \in Initial THEN history[tid].after ELSE "none"]]
       /\ LET events == {history[tid].event[1] : tid \in {t \in Initial : history[t].event # << >>}}
          IN /\ ring \in [1 .. Cardinality(events) -> events]
             /\ \A e \in events : \E i \in DOMAIN ring : ring[i] = e
       /\ timeline = << >>
  BY <1>2
<1>4. /\ snapshot.finished = Origin
      /\ snapshot.samples \in [Initial -> [ticks : {ProcTicks(FirstStart, scenario.offset, ticksPerSecond)},
                                         state : {"running", "sleeping"}, at : 1 .. Origin]]
  BY DEF SnapshotsOf, Origin, Initial, FirstStart
<1>5. /\ Origin \in Nat \ {0} /\ FirstStart \in Nat \ {0} /\ Never \in Nat \ {0} /\ Initial \subseteq Tids
      /\ Len(ring) \in Nat /\ DOMAIN ring = 1 .. Len(ring)
  BY <1>1, ScenarioType DEF Never
<1>6. tracks = [tid \in Initial |-> SeedTrack(snapshot.samples[tid], Origin)] /\ DOMAIN tracks = Initial
  BY <1>3, <1>4 DEF InitFrom
<1>7. ASSUME NEW tid \in Initial
      PROVE  LET track == tracks[tid]
                 sample == snapshot.samples[tid]
             IN /\ track.ns = 0 /\ track.since = Origin /\ track.seedAt = sample.at /\ track.lastEvent = sample.at
                /\ track.state = (IF sample.state = "running" THEN "unknown" ELSE "sleeping")
                /\ sample.state \in {"running", "sleeping"} /\ sample.at \in 1 .. Origin
  <2>1. /\ snapshot.samples[tid].state \in {"running", "sleeping"} /\ snapshot.samples[tid].at \in 1 .. Origin
        /\ snapshot.samples[tid].at # NoTime
    BY <1>4, <1>5 DEF NoTime
  <2>2. tracks[tid] = SeedTrack(snapshot.samples[tid], Origin)
    BY <1>6
  <2> QED  BY <2>1, <2>2 DEF SeedTrack, SeedState
<1>8. ASSUME NEW i \in DOMAIN ring
      PROVE  /\ ring[i].tid \in Initial /\ history[ring[i].tid].event # << >>
             /\ ring[i] = history[ring[i].tid].event[1] /\ ring[i].at < Origin /\ ring[i].at \in Nat
  <2>1. ring[i] \in {history[tid].event[1] : tid \in {t \in Initial : history[t].event # << >>}}
    BY <1>3
  <2>2. PICK tid \in Initial : history[tid].event # << >> /\ ring[i] = history[tid].event[1]
    BY <2>1
  <2>3. ring[i].tid = tid
    BY <1>3, <2>2, HistoryShape
  <2>4. ring[i].at < Origin
    BY <1>1, <1>5
  <2>5. ring[i].at \in Nat
    BY <1>1, RingIsPending, PendingType
  <2> QED  BY <2>2, <2>3, <2>4, <2>5
<1>9. ASSUME NEW tid \in Tids  PROVE Seeds(tid)
  <2>1. CASE tid \in Initial
    <3>1. settled[tid] \in {0, Never} /\ proven[tid] \in {0, Never}
      BY <1>3
    <3>2. ASSUME NEW i \in ScanEvents(tid)
          PROVE  /\ ring[i].kind # "switch_in" /\ (ring[i].kind = "switch_out" => ring[i].state = "sleeping")
                 /\ tracks[tid].state # "on_cpu" /\ NsOf(tracks[tid].ns) = ring[i].ns
                 /\ tracks[tid].lastEvent <= ring[i].at \/ ring[i].at < tracks[tid].seedAt
      <4>1. i \in DOMAIN ring /\ ring[i].tid = tid /\ ring[i].at \in Nat
            /\ ring[i] = history[tid].event[1] /\ history[tid].event # << >>
        BY <1>8 DEF ScanEvents
      <4>2. ring[i].kind \in {"wakeup", "switch_out"} /\ (ring[i].kind = "switch_out" => ring[i].state = "sleeping")
            /\ ring[i].ns = FirstStart
        BY <1>3, <2>1, <4>1, HistoryShape
      <4> QED  BY <1>5, <1>7, <2>1, <4>1, <4>2 DEF NsOf
    <3> QED  BY <1>5, <1>6, <1>7, <2>1, <3>1, <3>2 DEF Seeds
  <2>2. CASE tid \notin Initial
    <3>1. ScanEvents(tid) = {}
      BY <1>8, <2>2 DEF ScanEvents
    <3> QED  BY <1>3, <1>6, <2>2, <3>1 DEF Seeds
  <2> QED  BY <2>1, <2>2
<1>10. ASSUME NEW tid \in Tids  PROVE Followed(tid)
  <2> DEFINE p == thread[tid]
             path == [i \in 0 .. Len(ring) |-> p]
  <2>1. /\ p = [ns |-> FirstStart, state |-> IF tid \in Initial THEN history[tid].after ELSE "none"]
        /\ p \in [ns : Nat, state : KernelStates]
    BY <1>1, <1>3, ThreadType DEF RunTypeOK, KernelStates
  <2>2. path \in Paths
    BY <2>1 DEF Paths
  <2>3. /\ \A i \in 0 .. Len(ring) : path[i] = p
        /\ \A i \in DOMAIN ring : path[i - 1] = p /\ path[i] = p
    BY <1>5
  <2>4. p.ns = FirstStart /\ p.state = (IF tid \in Initial THEN history[tid].after ELSE "none")
    BY <2>1
  <2>5. ASSUME NEW i \in DOMAIN ring, ring[i].tid = tid
        PROVE  Moves(p, ring[i], p) /\ p.state # "on_cpu"
    <3>1. /\ tid \in Initial /\ history[tid].event # << >> /\ ring[i] = history[tid].event[1]
          /\ history[tid] \in Histories(tid)
      BY <1>3, <1>8, <2>5
    <3>2. p.state = history[tid].after /\ ring[i].ns = FirstStart
          /\ \/ ring[i].kind = "wakeup" /\ p.state = "runnable"
             \/ ring[i].kind = "switch_out" /\ ring[i].state = "sleeping" /\ p.state = "sleeping"
      BY <2>4, <3>1, HistoryShape
    <3> HIDE DEF p
    <3> QED  BY <2>4, <3>2 DEF Moves
  <2>6. Joined(tid, path)
    <3>1. inflight[tid] = NoEvent /\ thread[tid] = p /\ path[Len(ring)] = p
      BY <1>1, <1>5, <2>3
    <3> HIDE DEF path, p
    <3> QED  BY <2>3, <2>5, <3>1 DEF Joined
  <2>7. Shown(tid, path)
    BY <1>3 DEF Shown
  <2>8. ASSUME tid \in Initial,
               \/ ScanEvents(tid) = {} /\ proven[tid] # Never
               \/ \E i \in ScanEvents(tid) : ring[i].at < tracks[tid].seedAt
        PROVE  Agrees(tid, p)
    <3> DEFINE sample == snapshot.samples[tid]
    <3>1. /\ history[tid] \in Histories(tid) /\ SampleOf(history[tid], sample)
          /\ settled[tid] = (IF Skewed(history[tid], sample) THEN Never ELSE 0)
          /\ proven[tid] = (IF sample.state = "running" THEN Never ELSE 0)
          /\ sample.state \in {"running", "sleeping"} /\ p.state = history[tid].after
          /\ tracks[tid].state = (IF sample.state = "running" THEN "unknown" ELSE "sleeping")
          /\ tracks[tid].seedAt = sample.at /\ NsOf(tracks[tid].ns) = FirstStart
      BY <1>3, <1>7, <2>4, <2>8 DEF NsOf
    <3>2. CASE ScanEvents(tid) = {} /\ proven[tid] # Never
      <4>1. history[tid].event = << >>
        <5>1. SUFFICES ASSUME history[tid].event # << >>  PROVE FALSE
          OBVIOUS
        <5>2. PICK i \in DOMAIN ring : ring[i] = history[tid].event[1]
          BY <1>3, <2>8, <5>1
        <5>3. ring[i].tid = tid
          BY <3>1, <5>1, <5>2, HistoryShape
        <5> QED  BY <1>8, <3>2, <5>2, <5>3 DEF ScanEvents
      <4>2. sample.state = "sleeping" /\ settled[tid] # Never
        BY <1>5, <3>1, <3>2, <4>1 DEF Skewed
      <4>3. history[tid].after = "sleeping"
        <5> HIDE DEF sample, p, path
        <5> QED  BY <3>1, <4>1, <4>2, ScanIsRight
      <4> QED  BY <2>1, <2>4, <3>1, <4>2, <4>3 DEF Agrees, KnownStates, SchedulerStates
    <3>3. CASE \E i \in ScanEvents(tid) : ring[i].at < tracks[tid].seedAt
      <4>1. PICK i \in ScanEvents(tid) : ring[i].at < tracks[tid].seedAt
        BY <3>3
      <4>2. history[tid].event # << >> /\ ring[i] = history[tid].event[1] /\ ring[i].at < sample.at
            /\ ring[i].at \in Nat /\ sample.at \in Nat
        BY <1>7, <1>8, <2>8, <3>1, <4>1 DEF ScanEvents
      <4>3. p.state \in {"runnable", "sleeping"} /\ tracks[tid].state # "on_cpu"
        BY <3>1, <4>2, HistoryShape
      <4>4. CASE settled[tid] = Never
        BY <4>3, <4>4 DEF Agrees
      <4>5. CASE settled[tid] # Never /\ sample.state = "sleeping"
        <5>1. ~Skewed(history[tid], sample) /\ sample.at > history[tid].event[1].at
          BY <3>1, <4>2, <4>5
        <5>2. history[tid].after = "sleeping"
          <6> HIDE DEF sample, p, path
          <6> QED  BY <3>1, <4>5, <5>1, ScanIsRight
        <5> QED  BY <2>1, <2>4, <3>1, <4>5, <5>2 DEF Agrees, KnownStates, SchedulerStates
      <4>6. CASE settled[tid] # Never /\ sample.state = "running"
        BY <3>1, <4>3, <4>6 DEF Agrees, KnownStates
      <4> QED  BY <3>1, <4>4, <4>5, <4>6
    <3> QED  BY <2>8, <3>2, <3>3
  <2>9. Starts(tid, p)
    <3>1. CASE tid \in Initial
      BY <1>6, <2>8, <3>1 DEF Starts
    <3>2. CASE tid \notin Initial
      BY <1>6, <2>4, <3>2 DEF Starts
    <3> QED  BY <3>1, <3>2
  <2>10. path[0] = p
    BY <1>5
  <2> HIDE DEF path, p
  <2> QED  BY <2>2, <2>6, <2>7, <2>9, <2>10 DEF Followed, IsPath
<1> QED  BY <1>9, <1>10 DEF TracksAreTrue

\* A run starts with tracks that agree with their threads, and with empty rows.
LEMMA RunInitTruth == RunInit => TruthInv
<1> SUFFICES ASSUME RunInit  PROVE TruthInv
  OBVIOUS
<1>1. IdsInv /\ AccountedInv /\ TracksAreTrue /\ RunTypeOK
  BY RunInitIds, RunInitAccounted, RunInitTracks, RunInitType
<1>2. windows = << >> /\ timeline = << >> /\ clock = Origin /\ Origin \in Nat /\ Never \in Nat /\ origin \in Nat
  BY <1>1, ScenarioType DEF RunInit, InitFrom, RunTypeOK, Never
<1>3. TimelineOK
  <2>1. settled \in [Tids -> Nat] /\ proven \in [Tids -> Nat]
    BY <1>2 DEF RunInit
  <2>2. DOMAIN timeline = {} /\ Origin .. clock - 1 = {}
    BY <1>2
  <2> QED  BY <2>1, <2>2 DEF TimelineOK
<1>4. RowsAreTrue
  <2> SUFFICES ASSUME NEW i \in Nat, NEW id \in [tid : Tids, ticks : Nat, ns : Nat], NEW state \in KnownStates
               PROVE  OpenRow(i, id).time[state] <= Cardinality(TrueInstants(i, id, state))
    BY DEF RowsAreTrue
  <2>1. OpenRow(i, id) = NoRow
    BY <1>2 DEF OpenRow, WindowOf, NoWindow, RowOf
  <2>2. NoRow.time[state] = 0
    BY DEF NoRow, KnownStates
  <2>3. Cardinality(TrueInstants(i, id, state)) \in Nat
    BY <1>2, InstantsType
  <2> QED  BY <2>1, <2>2, <2>3
<1> QED  BY <1>1, <1>3, <1>4 DEF TruthInv

\* What is on its way is not older than the window before the last, and a flush leaves
\* nothing that is older than the window it ends.
Opened == WindowStart(nextWindow)

PendingIsRecent ==
  /\ \A tid \in Tids : inflight[tid] # NoEvent =>
       clock <= inflight[tid].at + MaxFlight /\ (barrier # NoFlush => Opened <= inflight[tid].at)
  /\ \A i \in DOMAIN ring : barrier # NoFlush /\ i > barrier => Opened <= ring[i].at
  /\ \A tid \in Tids : \A e \in Pending(tid) : nextWindow > 0 => Opened <= e.at + Interval

RecentInv == OrderInv /\ PendingIsRecent

\* Where the open window starts and ends, next to the clock.
LEMMA OpenedType ==
  ASSUME OrderInv
  PROVE  /\ Opened \in Nat /\ Opened = watermark /\ Opened <= clock /\ NextBoundary = Opened + Interval
         /\ nextWindow \in Nat /\ clock \in Nat /\ MaxFlight \in Nat /\ origin \in Nat /\ Interval \in Nat
         /\ (barrier # NoFlush => NextBoundary <= clock) /\ barrier \in Nat \cup {NoFlush}
         /\ \A tid \in Tids : inflight[tid] # NoEvent => inflight[tid].at \in Nat /\ inflight[tid] \in Pending(tid)
         /\ \A i \in DOMAIN ring : ring[i].at \in Nat
         /\ \A tid \in Tids : \A e \in Pending(tid) : e.at \in Nat
<1>1. TypeOK /\ RunTypeOK /\ nextWindow \in Nat /\ origin \in Nat /\ clock \in Nat /\ barrier \in Nat \cup {NoFlush}
  BY DEF OrderInv, TimelineInv, TypeOK, RunTypeOK
<1>2. Opened \in Nat /\ NextBoundary = Opened + Interval
  BY <1>1, WindowBounds DEF Opened, NextBoundary
<1>3. Opened = watermark /\ watermark <= clock /\ (barrier # NoFlush => NextBoundary <= clock)
  BY DEF OrderInv, TimelineInv, Timeline, WatermarkIsPast, Opened
<1>4. MaxFlight \in Nat
  BY <1>1, ScenariosAssumption DEF RunTypeOK, MaxFlight
<1>5. \A tid \in Tids : inflight[tid] # NoEvent => inflight[tid].at \in Nat /\ inflight[tid] \in Pending(tid)
  <2>1. \A tid \in Tids : inflight[tid] # NoEvent => inflight[tid] \in Pending(tid)
    BY DEF Pending
  <2> QED  BY <1>1, <2>1, PendingType
<1>6. \A i \in DOMAIN ring : ring[i].at \in Nat
  BY <1>1, RingIsPending, PendingType
<1> QED  BY <1>1, <1>2, <1>3, <1>4, <1>5, <1>6, PendingType, IntervalAssumption

\* No step leaves anything on its way that is older than the window before the open one.
LEMMA RecentStep ==
  ASSUME FlightIsShort, RecentInv, [RunNext]_<<vars, runVars>>
  PROVE  RecentInv'
<1>1. OrderInv /\ OrderInv' /\ RunTypeOK /\ PendingIsRecent /\ nextWindow \in Nat /\ clock \in Nat /\ Opened \in Nat
  BY OrderStep, OpenedType DEF RecentInv, OrderInv
<1>2. MaxFlight <= Interval /\ MaxFlight \in Nat /\ Interval \in Nat
  BY <1>1, OpenedType DEF FlightIsShort, RunTypeOK, MaxFlight
<1>3. ASSUME UNCHANGED <<vars, scenario>>  PROVE UNCHANGED <<Tids, MaxFlight, Opened, nextWindow>>
  BY <1>3, SameScenario DEF vars, Opened, WindowStart, MaxFlight
<1> SUFFICES PendingIsRecent'
  BY <1>1 DEF RecentInv
<1>4. ASSUME NEW tid \in Tids, NEW e \in StreamEvents, NEW t, Fired(tid, e, t)
      PROVE  PendingIsRecent'
  <2>1. UNCHANGED <<vars, scenario, clock, ring, barrier>> /\ inflight' = [inflight EXCEPT ![tid] = e] /\ e.at = clock
        /\ DOMAIN inflight = Tids
    BY <1>1, <1>4 DEF Fired, RunTypeOK
  <2>2. UNCHANGED <<Tids, MaxFlight, Opened, nextWindow>>
    BY <1>3, <2>1
  <2>3. Opened <= e.at /\ e.at <= e.at + MaxFlight /\ Opened <= e.at + Interval
    BY <1>1, <1>2, <2>1, OpenedType
  <2>4. \A u \in Tids : inflight'[u] = IF u = tid THEN e ELSE inflight[u]
    BY <2>1
  <2>5. \A u \in Tids : \A f \in Pending(u)' : f \in Pending(u) \/ f = e
    BY <1>1, <1>4, FiredPending
  <2> QED  BY <1>1, <2>1, <2>2, <2>3, <2>4, <2>5 DEF PendingIsRecent
<1>5. ASSUME NEW tid \in Tids, Submit(tid)
      PROVE  PendingIsRecent'
  <2>1. /\ UNCHANGED <<vars, scenario, clock, barrier>> /\ inflight' = [inflight EXCEPT ![tid] = NoEvent]
        /\ DOMAIN inflight = Tids /\ inflight[tid] # NoEvent
        /\ ring' = ring \/ ring' = Append(ring, inflight[tid])
    BY <1>1, <1>5 DEF Submit, RunTypeOK
  <2>2. UNCHANGED <<Tids, MaxFlight, Opened, nextWindow>>
    BY <1>3, <2>1
  <2>3. \A u \in Tids : \A f \in Pending(u)' : f \in Pending(u)
    BY <1>1, <1>5, SubmitPending
  <2>4. \A u \in Tids : inflight'[u] # NoEvent => inflight'[u] = inflight[u]
    BY <2>1
  <2>5. \A i \in DOMAIN ring' : (i \in DOMAIN ring /\ ring'[i] = ring[i]) \/ ring'[i] = inflight[tid]
    <3>1. CASE ring' = ring
      BY <3>1
    <3>2. CASE ring' = Append(ring, inflight[tid])
      BY <1>1, <3>2 DEF RunTypeOK
    <3> QED  BY <2>1, <3>1, <3>2
  <2>6. barrier # NoFlush => Opened <= inflight[tid].at
    BY <1>1, <2>1 DEF PendingIsRecent
  <2> QED  BY <1>1, <2>1, <2>2, <2>3, <2>4, <2>5, <2>6 DEF PendingIsRecent
<1>6. CASE Tick
  <2>1. /\ UNCHANGED <<vars, scenario, inflight, ring, barrier>> /\ clock' = clock + 1
        /\ \A tid \in Tids : inflight[tid] # NoEvent => clock < inflight[tid].at + MaxFlight
    BY <1>6 DEF Tick
  <2>2. UNCHANGED <<Tids, MaxFlight, Opened, nextWindow>>
    BY <1>3, <2>1
  <2>3. \A tid \in Tids : inflight[tid] # NoEvent => clock' <= inflight[tid].at + MaxFlight
    BY <1>1, <1>2, <2>1, OpenedType
  <2>4. \A u \in Tids : Pending(u)' = Pending(u)
    BY <2>1 DEF Pending
  <2> QED  BY <1>1, <2>1, <2>2, <2>3, <2>4 DEF PendingIsRecent
<1>7. CASE Deliver
  <2>1. /\ UNCHANGED <<scenario, inflight, clock, origin, nextWindow>> /\ ring # << >> /\ ring' = Tail(ring)
        /\ barrier' = (IF barrier > 0 THEN barrier - 1 ELSE barrier)
    BY <1>1, <1>7, DeliverTrack DEF Deliver
  <2>2. UNCHANGED <<Tids, MaxFlight, Opened, nextWindow>>
    BY <2>1, SameScenario DEF Opened, WindowStart, MaxFlight
  <2>3. barrier \in Nat \cup {NoFlush} /\ NoFlush = -1
    BY <1>1, OpenedType DEF NoFlush
  <2>4. barrier' # NoFlush => barrier # NoFlush
    BY <2>1, <2>3
  <2>5. ASSUME NEW i \in DOMAIN ring', barrier' # NoFlush, i > barrier'
        PROVE  Opened <= ring'[i].at
    <3>1. i + 1 \in DOMAIN ring /\ ring'[i] = ring[i + 1] /\ i \in Nat
      BY <1>1, <2>1, HeadOfRing DEF RunTypeOK
    <3>2. i + 1 > barrier
      BY <2>1, <2>3, <2>4, <2>5, <3>1
    <3> QED  BY <1>1, <2>4, <2>5, <3>1, <3>2 DEF PendingIsRecent
  <2>6. \A u \in Tids : \A f \in Pending(u)' : f \in Pending(u)
    BY <1>1, <1>7, DeliverPending
  <2> QED  BY <1>1, <2>1, <2>2, <2>4, <2>5, <2>6 DEF PendingIsRecent
<1>8. CASE StartFlush
  <2>1. UNCHANGED <<vars, scenario, inflight, ring, clock>> /\ barrier' = Len(ring) /\ clock >= NextBoundary
    BY <1>8 DEF StartFlush
  <2>2. UNCHANGED <<Tids, MaxFlight, Opened, nextWindow>>
    BY <1>3, <2>1
  <2>3. \A tid \in Tids : inflight[tid] # NoEvent => Opened <= inflight[tid].at
    <3>1. SUFFICES ASSUME NEW tid \in Tids, inflight[tid] # NoEvent  PROVE Opened <= inflight[tid].at
      OBVIOUS
    <3>2. clock <= inflight[tid].at + MaxFlight
      BY <1>1, <3>1 DEF PendingIsRecent
    <3>3. NextBoundary = Opened + Interval /\ inflight[tid].at \in Nat
      BY <1>1, <3>1, OpenedType
    <3> QED  BY <1>1, <1>2, <2>1, <3>2, <3>3
  <2>4. \A i \in DOMAIN ring : ~(i > barrier')
    BY <1>1, <2>1 DEF RunTypeOK
  <2>5. \A u \in Tids : Pending(u)' = Pending(u)
    BY <2>1 DEF Pending
  <2> QED  BY <1>1, <2>1, <2>2, <2>3, <2>4, <2>5 DEF PendingIsRecent
<1>9. CASE FinishFlush
  <2>1. UNCHANGED <<scenario, inflight, ring, clock>> /\ barrier = 0 /\ barrier' = NoFlush /\ barrier # NoFlush
    BY <1>9 DEF FinishFlush, NoFlush
  <2>2. UNCHANGED <<Tids, MaxFlight>>
    BY <2>1, SameScenario DEF MaxFlight
  <2>3. Opened' = Opened + Interval
    <3>1. nextWindow' = nextWindow + 1 /\ origin' = origin /\ origin \in Nat
      BY <1>1, <1>9, OpenedType DEF FinishFlush, Advance
    <3> QED  BY <1>1, <3>1, WindowBounds DEF Opened, WindowEnd, WindowStart
  <2>4. \A i \in DOMAIN ring : Opened <= ring[i].at /\ ring[i].at \in Nat
    <3>1. SUFFICES ASSUME NEW i \in DOMAIN ring  PROVE Opened <= ring[i].at /\ ring[i].at \in Nat
      OBVIOUS
    <3>2. i > barrier
      BY <1>1, <2>1 DEF RunTypeOK
    <3> QED  BY <1>1, <2>1, <3>2, OpenedType DEF PendingIsRecent
  <2>5. \A tid \in Tids : inflight[tid] # NoEvent => Opened <= inflight[tid].at
    BY <1>1, <2>1 DEF PendingIsRecent
  <2>6. \A u \in Tids : \A e \in Pending(u) : Opened <= e.at /\ e.at \in Nat
    <3>1. \A u \in Tids : \A e \in Pending(u) : Opened <= e.at
      BY <2>4, <2>5 DEF Pending
    <3> QED  BY <1>1, <3>1, OpenedType
  <2>7. \A u \in Tids : \A e \in Pending(u) : Opened' <= e.at + Interval
    BY <1>1, <1>2, <2>3, <2>6
  <2>8. \A u \in Tids : Pending(u)' = Pending(u)
    BY <2>1 DEF Pending
  <2> QED  BY <1>1, <2>1, <2>2, <2>7, <2>8 DEF PendingIsRecent
<1>10. CASE UNCHANGED <<vars, runVars>>
  <2>1. UNCHANGED <<vars, scenario, inflight, ring, clock, barrier>>
    BY <1>10 DEF runVars
  <2>2. UNCHANGED <<Tids, MaxFlight, Opened, nextWindow>>
    BY <1>3, <2>1
  <2>3. \A u \in Tids : Pending(u)' = Pending(u)
    BY <2>1 DEF Pending
  <2> QED  BY <1>1, <2>1, <2>2, <2>3 DEF PendingIsRecent
<1> QED  BY <1>1, <1>4, <1>5, <1>6, <1>7, <1>8, <1>9, <1>10, RunSteps

\* A run starts with nothing older than its first window.
LEMMA RunInitRecent == RunInit => RecentInv
<1> SUFFICES ASSUME RunInit  PROVE RecentInv
  OBVIOUS
<1>1. OrderInv /\ inflight = [tid \in Tids |-> NoEvent] /\ barrier = NoFlush
  BY RunInitOrder, RunStarts
<1>2. nextWindow = 0
  BY DEF RunInit, InitFrom
<1> QED  BY <1>1, <1>2 DEF RecentInv, PendingIsRecent

\* What is on its way when a window has been reported is not older than that window, when
\* no record is on its way for longer than a window (flushSchedulerEvents).
THEOREM RecentInvariant == ASSUME FlightIsShort PROVE RunSpec => []RecentInv
BY RunInitRecent, RecentStep, PTL DEF RunSpec

\* Until an event is lost or late, what the open windows hold of a state is at most the time
\* that the thread was in it, and each track is in the state of its thread before the first event
\* that is still on its way (Seed, Observe, applyTransition, addTrackSegment, trackForEvent).
THEOREM TruthInvariant == ASSUME SwitchesAreRead PROVE RunSpec => []TruthInv
BY RunInitTruth, TruthStep, PTL DEF RunSpec

\* The instants of a window at which a thread was in a state.
Told(i, id, state) ==
  {t \in WindowStart(i) .. WindowEnd(i) - 1 : timeline[t][id.tid] = [ns |-> NsOf(id.ns), state |-> state]}

\* The time that a thread was in a state in a window, as a number of instants.
LEMMA TruthForm ==
  ASSUME NEW i, NEW id, NEW state
  PROVE  Truth(i, id, state) = Cardinality(Told(i, id, state))
BY DEF Truth, Told, NsOf

\* The instants of a window are finitely many, and a part of them is not more.
LEMMA ToldType ==
  ASSUME origin \in Nat, NEW i \in Nat, NEW id, NEW state
  PROVE  /\ IsFiniteSet(Told(i, id, state)) /\ Cardinality(Told(i, id, state)) \in Nat
         /\ \A S : S \subseteq Told(i, id, state) =>
              IsFiniteSet(S) /\ Cardinality(S) \in Nat /\ Cardinality(S) <= Cardinality(Told(i, id, state))
<1>1. WindowStart(i) \in Nat /\ WindowEnd(i) \in Nat
  BY WindowBounds
<1>2. IsFiniteSet(WindowStart(i) .. WindowEnd(i) - 1)
  BY <1>1, FS_Interval
<1>3. IsFiniteSet(Told(i, id, state))
  <2>1. Told(i, id, state) \subseteq WindowStart(i) .. WindowEnd(i) - 1
    BY DEF Told
  <2> QED  BY <1>2, <2>1, FS_Subset
<1> QED  BY <1>3, FS_Subset, FS_CardinalityType

\* What was claimed of a TID whose track an event had seeded is true without reserve.
LEMMA SeededIsTold ==
  ASSUME TimelineOK, origin \in Nat, NEW i \in Nat, NEW id, id.tid \in Tids, NEW state, Seeded(i, id.tid)
  PROVE  TrueInstants(i, id, state) \subseteq Told(i, id, state)
<1>1. WindowStart(i) \in Nat /\ WindowEnd(i) \in Nat /\ settled[id.tid] \in Nat /\ proven[id.tid] \in Nat
  BY WindowBounds DEF TimelineOK
<1>2. settled[id.tid] <= WindowStart(i) /\ proven[id.tid] <= WindowStart(i)
  BY DEF Seeded
<1>3. ASSUME NEW t \in TrueInstants(i, id, state)  PROVE t \in Told(i, id, state)
  <2>1. t \in WindowStart(i) .. WindowEnd(i) - 1 /\ Holds(t, id.tid, id.ns, state)
    BY DEF TrueInstants
  <2>2. ~(t < settled[id.tid]) /\ ~(t < proven[id.tid])
    BY <1>1, <1>2, <2>1
  <2> QED  BY <2>1, <2>2 DEF Holds, Told
<1> QED  BY <1>3

\* At a boundary that nothing older is on its way to, the segments that are still open are
\* in the states of their threads.
LEMMA LastSegment ==
  ASSUME IdsInv, TimelineOK, TracksAreTrue, barrier # NoFlush, NEW tid \in DOMAIN tracks, Seeded(nextWindow, tid),
         \A u \in Tids : \A e \in Pending(u) : NextBoundary <= e.at,
         tracks[tid].state \in KnownStates,
         NEW t \in Nat, tracks[tid].since <= t, t < NextBoundary
  PROVE  timeline[t][tid] = [ns |-> NsOf(tracks[tid].ns), state |-> tracks[tid].state]
<1>1. /\ OrderInv /\ RunTypeOK /\ TypeOK /\ tid \in Tids /\ tracks[tid].since \in Nat /\ Origin = origin
      /\ origin \in Nat /\ clock <= MaxClock /\ MaxClock \in Nat
  BY TrackFields, ScenarioType DEF IdsInv, OrderInv, TimelineInv, TypeOK, RunTypeOK, TracksInOrder, TrackInOrder
<1>2. /\ NextBoundary \in Nat /\ NextBoundary <= clock /\ clock \in Nat /\ Opened \in Nat /\ Opened <= clock
      /\ origin < NextBoundary
  <2>1. /\ NextBoundary = Opened + Interval /\ NextBoundary <= clock /\ clock \in Nat /\ Opened \in Nat
        /\ Opened <= clock /\ nextWindow \in Nat
    BY <1>1, OpenedType
  <2>2. origin <= Opened
    BY <1>1, <2>1, WindowBounds DEF Opened
  <2> QED  BY <1>1, <2>1, <2>2, IntervalAssumption
<1>3. PICK path : IsPath(tid, path) /\ Starts(tid, path[0])
  BY <1>1 DEF TracksAreTrue, Followed
<1>4. settled[tid] # Never /\ proven[tid] # Never
  <2>1. settled[tid] <= Opened /\ proven[tid] <= Opened
    BY DEF Seeded, Opened
  <2>2. Never = MaxClock + 1 /\ settled[tid] \in Nat /\ proven[tid] \in Nat
    BY <1>1 DEF Never, TimelineOK
  <2> QED  BY <1>1, <1>2, <2>1, <2>2
<1>5. ScanEvents(tid) = {}
  <2>1. \A i \in DOMAIN ring : ring[i].tid = tid => NextBoundary <= ring[i].at /\ ring[i].at \in Nat
    <3>1. \A e \in Pending(tid) : NextBoundary <= e.at /\ e.at \in Nat
      BY <1>1, OpenedType
    <3> QED  BY <3>1 DEF Pending
  <2> QED  BY <1>1, <1>2, <2>1 DEF ScanEvents
<1>6. path[0] = [ns |-> NsOf(tracks[tid].ns), state |-> tracks[tid].state]
  BY <1>3, <1>4, <1>5 DEF Starts, Agrees
<1>7. t \in DOMAIN timeline
  <2>1. origin <= tracks[tid].since
    BY DEF IdsInv, OrderInv, TimelineInv, TracksAreBounded, Bounded
  <2>2. Origin <= t /\ t <= clock - 1
    BY <1>1, <1>2, <2>1
  <2> QED  BY <1>1, <1>2, <2>2 DEF TimelineOK
<1>8. \A f \in Pending(tid) : t < f.at
  <2>1. \A f \in Pending(tid) : NextBoundary <= f.at /\ f.at \in Nat
    BY <1>1, OpenedType
  <2> QED  BY <1>2, <2>1
<1>9. t >= SegmentStart(tid)
  BY DEF SegmentStart
<1>10. timeline[t][tid] = path[0]
  BY <1>1, <1>3, <1>7, <1>8, <1>9, ShownBefore DEF IsPath
<1> QED  BY <1>6, <1>10

\* The report that a flush makes is exact when nothing was missed and nothing that is
\* older is on its way.
LEMMA FlushIsExact ==
  ASSUME IdsInv, TimelineOK, RowsAreTrue, TracksAreTrue, FinishFlush, NEW n, n = nextWindow,
         \A u \in Tids : \A e \in Pending(u) : NextBoundary <= e.at
  PROVE  ReportIsExact(n)'
<1>1. /\ OrderInv /\ RunTypeOK /\ TypeOK /\ n \in Nat /\ origin \in Nat /\ barrier # NoFlush /\ lost \in Nat
      /\ UNCHANGED <<origin, scenario, timeline, settled, proven>> /\ Advance(lost)
  BY DEF IdsInv, OrderInv, TimelineInv, TypeOK, RunTypeOK, FinishFlush, seedVars, Advance, NoFlush
<1>2. UNCHANGED <<Tids, FirstStart>>
  BY <1>1, SameScenario
<1>3. NextBoundary \in Nat
  BY <1>1, WindowBounds DEF NextBoundary
<1> DEFINE ids == SegmentIds(tracks, Live, NextBoundary, n)
<1>4. /\ DOMAIN reports'[n].threads = IdsOf(windows, n) \cup ids
      /\ \A id \in DOMAIN reports'[n].threads : reports'[n].threads[id] =
           IF id \in ids
           THEN CreditRow(OpenRow(n, id), tracks[id.tid].state, Overlap(n, tracks[id.tid].since, NextBoundary))
           ELSE OpenRow(n, id)
  BY <1>1, AdvanceEffect DEF IdsOf, OpenRow
<1>5. ASSUME NEW id \in ids
      PROVE  /\ id.tid \in DOMAIN tracks /\ id.ns = tracks[id.tid].ns /\ id \in RowIds
  <2>1. PICK tid \in Live : id = Identity(tid, tracks[tid])
    BY DEF SegmentIds
  <2>2. tid \in DOMAIN tracks /\ tid \in Tids /\ tracks[tid].ns \in Nat /\ tracks[tid].ticks \in Nat
    BY <1>1, <2>1, TrackFields DEF Live, OrderInv, TracksInOrder, TrackInOrder
  <2> QED  BY <2>1, <2>2 DEF Identity, RowIds
<1>6. ASSUME NEW id \in IdsOf(windows, n)
      PROVE  id \in RowIds
  <2>1. id.tid \in DOMAIN tracks
    BY DEF IdsInv, IdsInOrder
  <2>2. id.tid \in Tids
    BY <1>1, <2>1 DEF OrderInv, TracksInOrder, TrackInOrder
  <2>3. id \in IdentityType
    BY <1>1, WindowOfType DEF TypeOK, IsWindow, IsStats, IdsOf
  <2> QED  BY <2>2, <2>3 DEF IdentityType, RowIds
<1>7. ASSUME NEW id \in RowIds, Seeded(n, id.tid), NEW state \in KnownStates, id \in DOMAIN reports'[n].threads
      PROVE  reports'[n].threads[id].time[state] <= Truth(n, id, state)
  <2>1. /\ OpenRow(n, id) \in RowType /\ OpenRow(n, id).time[state] \in Nat /\ state \in SchedulerStates
        /\ OpenRow(n, id).time[state] <= Cardinality(TrueInstants(n, id, state))
    <3>1. OpenRow(n, id) \in RowType
      BY <1>1, WindowOfType, RowOfType DEF TypeOK, OpenRow
    <3> QED  BY <1>1, <3>1 DEF RowsAreTrue, RowType, KnownStates, RowIds
  <2>2. TrueInstants(n, id, state) \subseteq Told(n, id, state) /\ Cardinality(Told(n, id, state)) \in Nat
        /\ Cardinality(TrueInstants(n, id, state)) <= Cardinality(Told(n, id, state))
        /\ Cardinality(TrueInstants(n, id, state)) \in Nat
    BY <1>1, <1>7, SeededIsTold, ToldType DEF RowIds
  <2>3. CASE id \in ids
    <3> DEFINE track == tracks[id.tid]
               over == Overlap(n, track.since, NextBoundary)
               slice == Slice(n, track.since, NextBoundary)
    <3>1. track \in TrackType /\ id.tid \in DOMAIN tracks /\ id.ns = track.ns /\ track.since \in Nat
          /\ track.state \in SchedulerStates
      BY <1>1, <1>5, <2>3, TrackFields DEF TrackType
    <3>2. /\ IsFiniteSet(slice) /\ Cardinality(slice) = over /\ over \in Nat
          /\ \A t \in slice : t \in WindowStart(n) .. WindowEnd(n) - 1 /\ track.since <= t /\ t < NextBoundary /\ t \in Nat
      <4> HIDE DEF track
      <4> QED  BY <1>1, <1>3, <3>1, SliceType
    <3>3. reports'[n].threads[id].time[state] = OpenRow(n, id).time[state] + (IF state = track.state THEN over ELSE 0)
      <4>1. reports'[n].threads[id] = CreditRow(OpenRow(n, id), track.state, over)
        BY <1>4, <1>7, <2>3
      <4> HIDE DEF track, over
      <4> QED  BY <2>1, <3>1, <3>2, <4>1, CreditTime
    <3>4. CASE state = track.state
      <4>1. slice \subseteq Told(n, id, state)
        <5> SUFFICES ASSUME NEW t \in slice  PROVE t \in Told(n, id, state)
          OBVIOUS
        <5>1. t \in WindowStart(n) .. WindowEnd(n) - 1 /\ track.since <= t /\ t < NextBoundary /\ t \in Nat
          BY <3>2
        <5>2. timeline[t][id.tid] = [ns |-> NsOf(track.ns), state |-> track.state]
          BY <1>1, <1>7, <3>1, <3>4, <5>1, LastSegment
        <5> QED  BY <3>1, <3>4, <5>1, <5>2 DEF Told
      <4>2. TrueInstants(n, id, state) \cap slice = {}
        <5> SUFFICES ASSUME NEW t \in TrueInstants(n, id, state), t \in slice  PROVE FALSE
          OBVIOUS
        <5>1. t < track.since
          BY <3>1 DEF TrueInstants, SegmentStart
        <5>2. track.since <= t /\ t \in Nat
          BY <3>2
        <5> QED  BY <3>1, <5>1, <5>2
      <4>3. Cardinality(TrueInstants(n, id, state) \cup slice) = Cardinality(TrueInstants(n, id, state)) + over
        <5>1. Cardinality(TrueInstants(n, id, state) \cap slice) = 0
          BY <4>2, FS_EmptySet
        <5>2. IsFiniteSet(TrueInstants(n, id, state))
          BY <1>1, InstantsType
        <5>3. Cardinality(TrueInstants(n, id, state) \cup slice)
                = Cardinality(TrueInstants(n, id, state)) + Cardinality(slice)
                    - Cardinality(TrueInstants(n, id, state) \cap slice)
          BY <3>2, <5>2, FS_Union
        <5> HIDE DEF slice, over
        <5> QED  BY <2>2, <3>2, <5>1, <5>3
      <4>4. Cardinality(TrueInstants(n, id, state) \cup slice) <= Cardinality(Told(n, id, state))
        <5>1. TrueInstants(n, id, state) \cup slice \subseteq Told(n, id, state)
          BY <2>2, <4>1
        <5> HIDE DEF slice
        <5> QED  BY <1>1, <5>1, ToldType
      <4>5. reports'[n].threads[id].time[state] = OpenRow(n, id).time[state] + over
        BY <3>3, <3>4
      <4> HIDE DEF slice, over, track
      <4> QED  BY <2>1, <2>2, <3>2, <4>3, <4>4, <4>5, TruthForm
    <3>5. CASE state # track.state
      <4>1. reports'[n].threads[id].time[state] = OpenRow(n, id).time[state]
        <5> HIDE DEF over
        <5> QED  BY <2>1, <3>3, <3>5
      <4> QED  BY <2>1, <2>2, <4>1, TruthForm
    <3> QED  BY <3>4, <3>5
  <2>4. CASE id \notin ids
    <3>1. reports'[n].threads[id] = OpenRow(n, id)
      BY <1>4, <1>7, <2>4
    <3> QED  BY <2>1, <2>2, <3>1, TruthForm
  <2> QED  BY <2>3, <2>4
<1>8. \A id : \A state \in KnownStates : Truth(n, id, state)' = Truth(n, id, state)
  BY <1>1, <1>2 DEF Truth, WindowStart, WindowEnd
<1>9. \A tid : Seeded(n, tid)' = Seeded(n, tid)
  BY <1>1 DEF Seeded, WindowStart
<1>10. \A id \in DOMAIN reports'[n].threads : id \in RowIds
  BY <1>4, <1>5, <1>6
<1>11. KnownStates' = KnownStates
  BY DEF KnownStates
<1> QED  BY <1>7, <1>8, <1>9, <1>10, <1>11 DEF ReportIsExact, RowIsExact

\* Evidence is an event that was missed, or one that is still on its way.
LEMMA EvidenceForm ==
  ASSUME RunTypeOK, NEW n, Evidence(n)
  PROVE  \/ MissedBy(n + 1)
         \/ nextWindow = n + 1 /\ Late(nextWindow) > 0
         \/ \E tid \in Tids : \E e \in Pending(tid) : e.at < WindowEnd(n)
<1>1. \A i \in DOMAIN ring : ring[i].tid \in Tids /\ ring[i] \in Pending(ring[i].tid)
  BY RingIsPending
<1>2. \A tid \in Tids : inflight[tid] # NoEvent => inflight[tid] \in Pending(tid)
  BY DEF Pending
<1> QED  BY <1>1, <1>2 DEF Evidence, MissedBy, Late

\* Of what is on its way, and of what arrives, every event is in the order of the windows.
LEMMA DeliverIsEvidence ==
  ASSUME RecentInv, Deliver, NEW e, e = Head(ring), NEW n \in DOMAIN reports, e.at < WindowEnd(n)
  PROVE  Behind(e) /\ nextWindow = n + 1
<1>1. /\ OrderInv /\ RunTypeOK /\ ring # << >> /\ origin \in Nat /\ nextWindow \in Nat /\ n \in 0 .. nextWindow - 1
      /\ PendingIsRecent
  BY OpenedType DEF RecentInv, OrderInv, TimelineInv, TypeOK, Deliver
<1>2. e \in Pending(e.tid) /\ e.tid \in Tids /\ e.at \in Nat
  BY <1>1, HeadOfRing, RingIsPending, PendingType
<1>3. Opened <= e.at + Interval /\ Opened = watermark /\ Opened \in Nat /\ Interval \in Nat /\ advanced
  BY <1>1, <1>2, OpenedType DEF PendingIsRecent, OrderInv, TimelineInv, Timeline
<1>4. n + 1 <= nextWindow /\ n + 1 \in Nat /\ n \in Nat
  BY <1>1
<1>5. WindowEnd(n) = WindowStart(n + 1) /\ WindowEnd(n) \in Nat /\ WindowStart(n + 1) <= Opened
  BY <1>1, <1>4, WindowBounds, WindowStartMonotone DEF Opened
<1>6. Behind(e)
  BY <1>2, <1>3, <1>5 DEF Behind
<1>7. CASE n + 1 < nextWindow
  <2>1. WindowEnd(n + 1) <= Opened
    BY <1>1, <1>4, <1>7, WindowOrder DEF Opened
  <2>2. WindowEnd(n + 1) = WindowStart(n + 1) + Interval
    BY <1>1, <1>4, WindowBounds
  <2> QED  BY <1>2, <1>3, <1>5, <2>1, <2>2
<1> QED  BY <1>1, <1>4, <1>6, <1>7

\* Evidence is not lost.
LEMMA EvidenceStays ==
  ASSUME RecentInv, [RunNext]_<<vars, runVars>>, NEW n \in DOMAIN reports, Evidence(n)
  PROVE  Evidence(n)'
<1>1. /\ OrderInv /\ RunTypeOK /\ TypeOK /\ lost \in Nat /\ nextWindow \in Nat /\ n \in Nat /\ n < nextWindow
      /\ DOMAIN reports = 0 .. nextWindow - 1
  BY DEF RecentInv, OrderInv, TimelineInv, TypeOK, RunTypeOK
<1>2. \/ MissedBy(n + 1)
      \/ nextWindow = n + 1 /\ Late(nextWindow) > 0
      \/ \E tid \in Tids : \E e \in Pending(tid) : e.at < WindowEnd(n)
  BY <1>1, EvidenceForm
<1>3. ASSUME NEW tid \in Tids', NEW e \in Pending(tid)', e.at < WindowEnd(n)'  PROVE Evidence(n)'
  BY <1>3 DEF Evidence, Pending
<1>4. MissedBy(n + 1)' => Evidence(n)'
  BY DEF MissedBy, Evidence
<1>5. ASSUME UNCHANGED <<vars, scenario>>, lost' \in Nat, lost <= lost',
             lost' = lost => \A u \in Tids : Pending(u) \subseteq Pending(u)'
      PROVE  Evidence(n)'
  <2>1. Tids' = Tids /\ WindowEnd(n)' = WindowEnd(n)
    BY <1>5, SameScenario DEF vars, WindowEnd
  <2>2. CASE lost' # lost
    BY <1>1, <1>5, <2>2 DEF Evidence
  <2>3. CASE lost' = lost
    <3>1. MissedBy(n + 1) => Evidence(n)'
      BY <1>4, <1>5, <2>3 DEF MissedBy, vars
    <3>2. nextWindow = n + 1 /\ Late(nextWindow) > 0 => Evidence(n)'
      BY <1>5 DEF Evidence, Late, vars
    <3> QED  BY <1>2, <1>3, <1>5, <2>1, <2>3, <3>1, <3>2
  <2> QED  BY <2>2, <2>3
<1>6. ASSUME NEW tid \in Tids, NEW e \in StreamEvents, NEW t, Fired(tid, e, t)  PROVE Evidence(n)'
  <2>1. \A u \in Tids : Pending(u) \subseteq Pending(u)'
    BY <1>1, <1>6, FiredPending
  <2> QED  BY <1>1, <1>5, <1>6, <2>1 DEF Fired
<1>7. ASSUME NEW tid \in Tids, Submit(tid)  PROVE Evidence(n)'
  <2>1. lost' = lost => \A u \in Tids : Pending(u) \subseteq Pending(u)'
    BY <1>1, <1>7, SubmitKeeps
  <2>2. UNCHANGED <<vars, scenario>> /\ lost' \in Nat /\ lost <= lost'
    BY <1>1, <1>7 DEF Submit
  <2> QED  BY <1>5, <2>1, <2>2
<1>8. CASE Tick \/ StartFlush \/ UNCHANGED <<vars, runVars>>
  <2>1. UNCHANGED <<vars, scenario, lost, ring, inflight>>
    BY <1>8 DEF Tick, StartFlush, runVars
  <2>2. \A u \in Tids : Pending(u) \subseteq Pending(u)'
    BY <2>1 DEF Pending
  <2> QED  BY <1>1, <1>5, <2>1, <2>2
<1>9. CASE Deliver
  <2>1. PICK e : e = Head(ring)
    OBVIOUS
  <2>2. UNCHANGED <<origin, nextWindow, reports, lost, scenario>>
    BY <1>1, <1>9, <2>1, DeliverTrack
  <2>3. Tids' = Tids /\ WindowEnd(n)' = WindowEnd(n)
    BY <2>2, SameScenario DEF WindowEnd
  <2>4. MissedBy(n + 1) => Evidence(n)'
    BY <1>4, <2>2 DEF MissedBy
  <2>5. Late(nextWindow) <= Late(nextWindow)' /\ (Behind(e) => Late(nextWindow)' > 0)
    BY <1>1, <1>9, <2>1, DeliverMisses
  <2>6. Late(nextWindow) \in Nat /\ Late(nextWindow)' \in Nat
    <3>1. TypeOK'
      BY <1>1, OrderStep DEF OrderInv, TimelineInv
    <3>2. PICK k : k = nextWindow
      OBVIOUS
    <3>3. Late(k) \in Nat /\ Late(k)' = Late(k) + (IF Behind(e) /\ k = nextWindow THEN 1 ELSE 0)
      BY <1>1, <1>9, <2>1, LateType, DeliverEffect
    <3>4. Late(nextWindow)' = Late(k)'
      BY <2>2, <3>2 DEF Late
    <3> QED  BY <3>2, <3>3, <3>4
  <2>7. nextWindow = n + 1 /\ Late(nextWindow)' > 0 => Evidence(n)'
    BY <2>2 DEF Evidence, Late
  <2>8. nextWindow = n + 1 /\ Late(nextWindow) > 0 => Evidence(n)'
    BY <2>5, <2>6, <2>7
  <2>9. ASSUME NEW tid \in Tids, NEW f \in Pending(tid), f.at < WindowEnd(n)  PROVE Evidence(n)'
    <3>1. f \in Pending(tid)' \/ f = e
      BY <1>1, <1>9, <2>1, DeliverKeeps
    <3>2. CASE f \in Pending(tid)'
      BY <1>3, <2>3, <2>9, <3>2
    <3>3. CASE f = e
      BY <1>9, <2>1, <2>5, <2>7, <2>9, <3>3, DeliverIsEvidence
    <3> QED  BY <3>1, <3>2, <3>3
  <2> QED  BY <1>2, <2>4, <2>8, <2>9
<1>10. CASE FinishFlush
  <2>1. /\ UNCHANGED <<origin, scenario, ring, inflight, lost>> /\ Advance(lost) /\ nextWindow' = nextWindow + 1
    BY <1>10 DEF FinishFlush, Advance
  <2>2. /\ DOMAIN reports' = DOMAIN reports \cup {nextWindow} /\ nextWindow \notin DOMAIN reports
        /\ \A i \in DOMAIN reports : reports'[i] = reports[i]
        /\ reports'[nextWindow].late = Late(nextWindow)
    BY <1>1, <2>1, AdvanceEffect DEF Late
  <2>3. Tids' = Tids /\ WindowEnd(n)' = WindowEnd(n)
    BY <2>1, SameScenario DEF WindowEnd
  <2>4. MissedBy(n + 1) => Evidence(n)'
    BY <1>4, <2>1, <2>2 DEF MissedBy
  <2>5. nextWindow = n + 1 /\ Late(nextWindow) > 0 => Evidence(n)'
    BY <1>1, <1>4, <2>2 DEF MissedBy
  <2>6. \A u \in Tids : Pending(u)' = Pending(u)
    BY <2>1 DEF Pending
  <2> QED  BY <1>2, <1>3, <2>3, <2>4, <2>5, <2>6
<1> QED  BY <1>1, <1>6, <1>7, <1>8, <1>9, <1>10, RunSteps

\* A report without evidence stays exact.
LEMMA ExactStays ==
  ASSUME RecentInv, TimelineOK, [RunNext]_<<vars, runVars>>, NEW n \in DOMAIN reports,
         \A id \in DOMAIN reports[n].threads : id.tid \in Tids, ReportIsExact(n), ~Evidence(n)
  PROVE  ReportIsExact(n)'
<1>1. /\ OrderInv /\ RunTypeOK /\ TypeOK /\ lost \in Nat /\ nextWindow \in Nat /\ n \in Nat /\ n < nextWindow
      /\ origin \in Nat /\ clock \in Nat /\ Origin = origin
  BY DEF RecentInv, OrderInv, TimelineInv, TypeOK, RunTypeOK
<1>2. WindowStart(n) \in Nat /\ WindowEnd(n) \in Nat /\ WindowEnd(n) <= clock /\ origin <= WindowStart(n)
      /\ WindowStart(n) <= WindowEnd(n)
  <2>1. WindowEnd(n) <= Opened
    BY <1>1, WindowOrder DEF Opened
  <2>2. Opened <= clock /\ Opened \in Nat
    BY <1>1, OpenedType
  <2>3. WindowEnd(n) = WindowStart(n) + Interval /\ Interval \in Nat
    BY <1>1, WindowBounds, IntervalAssumption
  <2> QED  BY <1>1, <2>1, <2>2, <2>3, WindowBounds
<1>3. ASSUME UNCHANGED <<scenario, origin>>, reports'[n] = reports[n],
             \A t \in Nat : origin <= t /\ t < clock => timeline'[t] = timeline[t],
             \A tid \in Tids : Seeded(n, tid)' => Seeded(n, tid)
      PROVE  ReportIsExact(n)'
  <2>1. UNCHANGED <<Tids, FirstStart, WindowStart(n), WindowEnd(n)>>
    BY <1>3, SameScenario DEF WindowStart, WindowEnd
  <2>2. \A t \in WindowStart(n) .. WindowEnd(n) - 1 : timeline'[t] = timeline[t]
    <3>1. \A t \in WindowStart(n) .. WindowEnd(n) - 1 : t \in Nat /\ origin <= t /\ t < clock
      BY <1>1, <1>2
    <3> QED  BY <1>3, <3>1
  <2>3. \A id : \A state : Truth(n, id, state)' = Truth(n, id, state)
    BY <2>1, <2>2 DEF Truth
  <2> QED  BY <1>3, <2>3 DEF ReportIsExact, RowIsExact, KnownStates
<1>4. ASSUME UNCHANGED <<settled, proven, origin>>
      PROVE  \A tid \in Tids : Seeded(n, tid)' => Seeded(n, tid)
  BY <1>4 DEF Seeded, WindowStart
<1>5. CASE UNCHANGED <<vars, scenario, settled, proven, timeline>>
  BY <1>3, <1>4, <1>5 DEF vars
<1>6. CASE Tick
  <2>1. /\ UNCHANGED <<vars, scenario, settled, proven>>
        /\ timeline' = [t \in DOMAIN timeline \cup {clock} |-> IF t = clock THEN thread ELSE timeline[t]]
    BY <1>6 DEF Tick, seedVars
  <2>2. \A t \in Nat : origin <= t /\ t < clock => timeline'[t] = timeline[t]
    <3> SUFFICES ASSUME NEW t \in Nat, origin <= t, t < clock  PROVE timeline'[t] = timeline[t]
      OBVIOUS
    <3>1. t \in Origin .. clock - 1 /\ t # clock
      BY <1>1
    <3> QED  BY <2>1, <3>1 DEF TimelineOK
  <2> QED  BY <1>3, <1>4, <2>1, <2>2 DEF vars
<1>7. CASE Deliver
  <2>1. PICK e : e = Head(ring)
    OBVIOUS
  <2>2. UNCHANGED <<origin, reports, scenario, timeline>> /\ ring # << >>
    BY <1>1, <1>7, <2>1, DeliverTrack DEF Deliver
  <2>3. e = ring[1] /\ 1 \in DOMAIN ring
    BY <1>1, <2>1, <2>2, HeadOfRing
  <2>4. ~(e.at < WindowEnd(n))
    BY <2>3 DEF Evidence
  <2>5. /\ settled'[e.tid] = IF e.at < Origin THEN settled[e.tid] ELSE earlier(settled[e.tid], e.at)
        /\ proven'[e.tid] = IF e.kind = "wakeup" THEN proven[e.tid] ELSE earlier(proven[e.tid], e.at)
        /\ \A u \in Tids \ {e.tid} : settled'[u] = settled[u] /\ proven'[u] = proven[u]
        /\ settled[e.tid] \in Nat /\ proven[e.tid] \in Nat /\ e.at \in Nat
    BY <1>1, <1>7, <2>1, SeedMoves
  <2>6. WindowStart(n) < e.at
    <3>1. WindowEnd(n) = WindowStart(n) + Interval /\ Interval \in Nat \ {0}
      BY <1>1, WindowBounds, IntervalAssumption
    <3> QED  BY <1>2, <2>4, <2>5, <3>1
  <2>7. ASSUME NEW tid \in Tids, Seeded(n, tid)'  PROVE Seeded(n, tid)
    <3>1. settled'[tid] <= WindowStart(n) /\ proven'[tid] <= WindowStart(n)
      BY <2>2, <2>7 DEF Seeded, WindowStart
    <3>2. CASE tid = e.tid
      BY <1>2, <2>5, <2>6, <3>1, <3>2 DEF Seeded, earlier
    <3>3. CASE tid # e.tid
      BY <2>5, <3>1, <3>3 DEF Seeded
    <3> QED  BY <3>2, <3>3
  <2> QED  BY <1>3, <2>2, <2>7
<1>8. CASE FinishFlush
  <2>1. UNCHANGED <<origin, scenario, timeline, settled, proven>> /\ Advance(lost)
    BY <1>8 DEF FinishFlush, Advance, seedVars
  <2>2. reports'[n] = reports[n]
    BY <1>1, <2>1, AdvanceEffect
  <2> QED  BY <1>3, <1>4, <2>1, <2>2
<1>9. ASSUME NEW tid \in Tids, Tracepoint(tid) \/ Submit(tid)
      PROVE  UNCHANGED <<vars, scenario, settled, proven, timeline>>
  BY <1>9 DEF Tracepoint, Wakeup, SwitchIn, Spawn, SwitchOut, Fires, Submit, seedVars
<1>10. StartFlush \/ UNCHANGED <<vars, runVars>> => UNCHANGED <<vars, scenario, settled, proven, timeline>>
  BY DEF StartFlush, runVars, seedVars
<1> QED  BY <1>5, <1>6, <1>7, <1>8, <1>9, <1>10 DEF RunNext, Tracepoint

\* Every report is exact, or there is evidence.
ReportsAreExact ==
  \A n \in DOMAIN reports :
    /\ \A id \in DOMAIN reports[n].threads : id.tid \in Tids
    /\ ReportIsExact(n) \/ Evidence(n)

ExactInv == TruthInv /\ RecentInv /\ ReportsAreExact

\* The report that a flush makes is exact, or an event from before its end was lost, late or
\* is still on its way (flushSchedulerEvents).
LEMMA FlushLeavesEvidence ==
  ASSUME TruthInv, RecentInv, FinishFlush, NEW n, n = nextWindow
  PROVE  /\ \A id \in DOMAIN reports'[n].threads : id.tid \in Tids
         /\ ReportIsExact(n)' \/ Evidence(n)'
<1>1. /\ OrderInv /\ RunTypeOK /\ TypeOK /\ lost \in Nat /\ n \in Nat /\ IdsInv /\ TimelineOK
      /\ DOMAIN reports = 0 .. nextWindow - 1
      /\ Advance(lost) /\ UNCHANGED <<origin, scenario, ring, inflight, lost>>
  BY DEF TruthInv, IdsInv, OrderInv, TimelineInv, TypeOK, RunTypeOK, FinishFlush, Advance
<1>2. /\ DOMAIN reports' = DOMAIN reports \cup {n}
      /\ \A i \in DOMAIN reports : reports'[i] = reports[i]
      /\ reports'[n].late = Late(n)
      /\ DOMAIN reports'[n].threads = IdsOf(windows, n) \cup SegmentIds(tracks, Live, NextBoundary, n)
  BY <1>1, AdvanceEffect DEF Late, IdsOf
<1>3. \A id \in DOMAIN reports'[n].threads : id.tid \in Tids
  <2>1. \A tid \in DOMAIN tracks : tid \in Tids
    BY <1>1 DEF OrderInv, TracksInOrder, TrackInOrder
  <2>2. \A id \in IdsOf(windows, n) : id.tid \in DOMAIN tracks
    BY <1>1 DEF IdsInv, IdsInOrder
  <2>3. \A id \in SegmentIds(tracks, Live, NextBoundary, n) : id.tid \in DOMAIN tracks
    BY DEF SegmentIds, Identity, Live
  <2> QED  BY <1>2, <2>1, <2>2, <2>3
<1>4. WindowEnd(n)' = NextBoundary /\ WindowEnd(n) \in Nat /\ Tids' = Tids
  BY <1>1, SameScenario, WindowBounds DEF NextBoundary, WindowEnd, TypeOK
<1>5. CASE Missed
  <2>1. \A i \in DOMAIN reports' : i <= n + 1
    BY <1>1, <1>2
  <2>2. Late(n) > 0 => \E i \in DOMAIN reports' : reports'[i].late > 0
    BY <1>2
  <2> QED  BY <1>1, <1>2, <1>3, <1>5, <2>1, <2>2 DEF Missed, Evidence
<1>6. CASE \E u \in Tids : \E e \in Pending(u) : e.at < NextBoundary
  <2>1. PICK u \in Tids : \E e \in Pending(u) : e.at < NextBoundary
    BY <1>6
  <2>2. Evidence(n)'
    BY <1>1, <1>4, <2>1 DEF Pending, Evidence
  <2> QED  BY <1>3, <2>2
<1>7. CASE ~Missed /\ ~(\E u \in Tids : \E e \in Pending(u) : e.at < NextBoundary)
  <2>1. \A u \in Tids : \A e \in Pending(u) : e.at \in Nat /\ NextBoundary \in Nat
    BY <1>1, <1>4, OpenedType DEF NextBoundary
  <2>2. \A u \in Tids : \A e \in Pending(u) : NextBoundary <= e.at
    BY <1>7, <2>1
  <2>3. RowsAreTrue /\ TracksAreTrue
    BY <1>7 DEF TruthInv
  <2> QED  BY <1>1, <1>3, <2>2, <2>3, FlushIsExact
<1> QED  BY <1>5, <1>6, <1>7

\* No step takes the evidence of a report away, or makes one inexact.
LEMMA ExactStep ==
  ASSUME SwitchesAreRead, FlightIsShort, ExactInv, [RunNext]_<<vars, runVars>>
  PROVE  ExactInv'
<1>1. TruthInv' /\ RecentInv'
  BY TruthStep, RecentStep DEF ExactInv
<1>2. OrderInv /\ RunTypeOK /\ TypeOK /\ TimelineOK /\ nextWindow \in Nat /\ lost \in Nat
  BY DEF ExactInv, RecentInv, TruthInv, OrderInv, TimelineInv, TypeOK, RunTypeOK
<1>3. UNCHANGED <<scenario, Tids>>
  <2>1. UNCHANGED scenario
    BY DEF RunNext, Wakeup, SwitchIn, Spawn, SwitchOut, Fires, Submit, Tick, Deliver, StartFlush, FinishFlush, runVars
  <2> QED  BY <2>1, SameScenario
<1>4. ASSUME NEW n \in DOMAIN reports  PROVE ReportIsExact(n)' \/ Evidence(n)'
  BY <1>2, EvidenceStays, ExactStays DEF ExactInv, ReportsAreExact
<1>5. CASE reports' = reports
  BY <1>1, <1>3, <1>4, <1>5 DEF ExactInv, ReportsAreExact
<1>6. CASE FinishFlush
  <2>1. Advance(lost)
    BY <1>6 DEF FinishFlush
  <2>2. DOMAIN reports' = DOMAIN reports \cup {nextWindow} /\ \A i \in DOMAIN reports : reports'[i] = reports[i]
    BY <1>2, <2>1, AdvanceEffect
  <2>3. PICK n : n = nextWindow
    OBVIOUS
  <2>4. (\A id \in DOMAIN reports'[n].threads : id.tid \in Tids) /\ (ReportIsExact(n)' \/ Evidence(n)')
    BY <1>6, <2>3, FlushLeavesEvidence DEF ExactInv
  <2>5. \A i \in DOMAIN reports' : i \in DOMAIN reports \/ i = n
    BY <2>2, <2>3
  <2> QED  BY <1>1, <1>3, <1>4, <2>2, <2>4, <2>5 DEF ExactInv, ReportsAreExact
<1>7. reports' = reports \/ FinishFlush
  <2>1. UNCHANGED vars \/ Deliver \/ FinishFlush
    BY <1>2, RunSteps DEF Fired, Submit, Tick, StartFlush
  <2>2. Deliver => reports' = reports
    BY <1>2, DeliverTrack
  <2> QED  BY <2>1, <2>2 DEF vars
<1> QED  BY <1>1, <1>5, <1>6, <1>7 DEF ExactInv

\* A run starts without reports.
LEMMA RunInitExact == RunInit => ExactInv
<1>1. RunInit => reports = << >>
  BY DEF RunInit, InitFrom
<1> QED  BY <1>1, RunInitTruth, RunInitRecent DEF ExactInv, ReportsAreExact

\* Every report is exact, or there is evidence: with what is true of the open windows and of
\* the events on their way, this is kept by every step (Observe, Advance).
THEOREM ExactInvariant ==
  ASSUME SwitchesAreRead, FlightIsShort
  PROVE  RunSpec => []ExactInv
BY RunInitExact, ExactStep, PTL DEF RunSpec

\* A report that credits a thread with more time in a state than the thread spent in it was made
\* from an incomplete stream, and the lost-event counter, the late events of a report up to the
\* next one, or an event still on its way say so (Observe, Advance, flushSchedulerEvents,
\* README.md:34): in every run whose decoder reads the states of the kernel right, or as unknown,
\* and in which no record takes longer than an interval to enter the ring.
THEOREM EvidenceIsLeft ==
  ASSUME SwitchesAreRead, FlightIsShort
  PROVE  RunSpec => []InexactReportsLeaveEvidence
<1>1. ExactInv => InexactReportsLeaveEvidence
  BY DEF ExactInv, ReportsAreExact, InexactReportsLeaveEvidence
<1> QED  BY <1>1, ExactInvariant, PTL
=============================================================================
