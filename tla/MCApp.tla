-------------------------------- MODULE MCApp --------------------------------
(* App with command lines that are accepted or refused in each of the ways, *)
(* and a target of one thread.  A second is two units of time, durations    *)
(* wrap at four, so that five seconds are an interval of two units.         *)
EXTENDS App

MCThreads == {[tid |-> 1, ticks |-> 5]}
MCCommOf == [id \in MCThreads |-> "worker"]

Default ==
  [command |-> "run", wellFormed |-> TRUE, positionals |-> <<Seconds(1)>>, pid |-> 1,
   interval |-> NotGiven, sample |-> NotGiven, count |-> NoCount, tid |-> 0,
   comm |-> {"worker"}, showIdle |-> FALSE, sort |-> "tid", backend |-> "proc",
   output |-> "table"]

\* Runs over snapshots
Sampled ==
  {Default,
   [Default EXCEPT !.count = Given(1), !.showIdle = TRUE],
   [Default EXCEPT !.tid = 2, !.sample = Unit(1)],
   [Default EXCEPT !.comm = {}, !.backend = "taskstats", !.count = Given(1)],
   [Default EXCEPT !.sort = "size"],
   [Default EXCEPT !.positionals = <<Seconds(5)>>, !.backend = "auto", !.count = Given(2)]}

\* Runs over events; the sampling period may be longer than the interval.
Traced ==
  {[Default EXCEPT !.backend = "ebpf", !.count = Given(2), !.positionals = << >>,
                   !.interval = interval, !.sample = Unit(3)] : interval \in {Unit(1), Seconds(1)}}
  \cup {[Default EXCEPT !.backend = "auto"], [Default EXCEPT !.backend = "ebpf", !.sort = "size"]}

Wrong ==
  {[Default EXCEPT !.command = command] : command \in {"doctor", "help", "version"}}
  \cup {[Default EXCEPT !.backend = "ebpf", !.positionals = <<raw>>] :
          raw \in {Seconds(0), Seconds(2), Seconds(3), Seconds(4), Malformed}}
  \cup {[Default EXCEPT !.wellFormed = FALSE], [Default EXCEPT !.positionals = << >>],
        [Default EXCEPT !.interval = Unit(2)], [Default EXCEPT !.pid = 0],
        [Default EXCEPT !.sample = Unit(2)], [Default EXCEPT !.count = Given(0)],
        [Default EXCEPT !.tid = -1], [Default EXCEPT !.backend = "perf"],
        [Default EXCEPT !.output = "csv"]}

MCArguments == Sampled \cup Traced \cup Wrong

MCEventRows ==
  {<< >>} \cup
  {[id \in MCThreads |-> [NoRow EXCEPT !.observed = 2, !.time["idle"] = idle, !.time["sleeping"] = 2 - idle]] :
     idle \in {1, 2}}
=============================================================================
