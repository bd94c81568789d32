------------------------------ MODULE MCEventRun ------------------------------
(* EventRun with scenarios, each with bounds that let one kind of case       *)
(* happen.  Their start times differ, so that an event tells its scenario.  *)
EXTENDS EventRun

\* What may be in the state of a task when it leaves its CPU, and what it is for the kernel.
Switch(flags, preempted, state) == [flags |-> flags, preempted |-> preempted, state |-> state]

Common == {Switch({"interruptible"}, TRUE, "runnable"), Switch({"interruptible"}, FALSE, "sleeping"),
           Switch({"task_dead"}, FALSE, "dead")}
Rare == {Switch({}, FALSE, "runnable"), Switch({"uninterruptible", "noload"}, FALSE, "idle"),
         Switch({"uninterruptible", "wakekill"}, FALSE, "uninterruptible"),
         Switch({"rtlock_wait"}, FALSE, "uninterruptible"),
         Switch({"stopped", "wakekill"}, FALSE, "stopped"), Switch({"traced"}, FALSE, "tracing_stop"),
         Switch({"task_dead"}, FALSE, "dead")}

Scenario(tids, start, offset, conversion, scanned, maxFlight, maxClock, maxEvents,
         switches) ==
  [tids |-> tids, initial |-> {1}, start |-> start, offset |-> offset,
   conversion |-> conversion, origin |-> scanned, maxFlight |-> maxFlight,
   maxClock |-> maxClock, maxEvents |-> maxEvents, switches |-> switches]

\* A TID that is reused, slow records, a namespace that began after the machine.
Reuse == Scenario({1}, 5, -3, TRUE, 2, 2, 6, 3, Common)

\* Two threads, without start times in ticks.
TwoThreads == Scenario({1, 2}, 10, 0, FALSE, 1, 1, 4, 3, Common)

\* A long initial scan, with events before, between and after the samples.
LongScan == Scenario({1}, 20, 0, FALSE, 5, 2, 9, 2, Common)

\* Start times that a word cannot hold, less the namespace's offset, and the rarer states.
Overflow == Scenario({1}, 30, -31, TRUE, 2, 1, 4, 3, Rare)

MCScenarios == {Reuse, TwoThreads, LongScan, Overflow}

SeedScenarios == {Scenario({1}, 2, 0, TRUE, 2, 1, 4, 1, Common)}

\* Every run is one that the theorem about the states in a report speaks of.
ASSUME ScenariosAreOfTheTheorem == SwitchesAreRead /\ FlightIsShort
=============================================================================
