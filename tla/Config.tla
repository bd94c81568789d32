-------------------------------- MODULE Config --------------------------------
(***************************************************************************)
(* The command line: parseConfig (app/config.go), and what it decides of a *)
(* run: the backend (backend/registry.go) and the renderer                 *)
(* (output/renderer.go).                                                   *)
(*                                                                         *)
(* A duration is an integer that wraps round, as time.Duration does.  A    *)
(* text is modelled by how it is parsed: a number of seconds, a duration   *)
(* with a unit, or neither; a flag that is not given is NotGiven.          *)
(***************************************************************************)
EXTENDS Integers, Sequences

CONSTANTS
  Second,     \* time.Second
  HalfRange   \* durations are -HalfRange .. HalfRange - 1

ASSUME RangeAssumption ==
  /\ Second \in Nat \ {0} /\ HalfRange \in Nat \ {0} /\ Second < HalfRange

Durations == -HalfRange .. HalfRange - 1

\* A product of two int64.
Wrapped(n) == ((n + HalfRange) % (2 * HalfRange)) - HalfRange

----------------------------------------------------------------------------
(* Flags *)

NotGiven == [kind |-> "none", n |-> 0]
Seconds(n) == [kind |-> "seconds", n |-> n]
Unit(n) == [kind |-> "unit", n |-> n]
Malformed == [kind |-> "malformed", n |-> 0]

\* parseInterval
Parses(raw) == raw.kind \in {"seconds", "unit"} /\ raw.n > 0
Parsed(raw) == IF raw.kind = "seconds" THEN Wrapped(raw.n * Second) ELSE raw.n

\* durationFlag
Duration(raw, default) == IF raw = NotGiven THEN default ELSE Parsed(raw)

\* countFlag
Given(n) == [value |-> n, set |-> TRUE]
NoCount == [value |-> 0, set |-> FALSE]

\* fs.Parse: the texts of the flags are parsed when they are met.
FlagsParse(args) ==
  /\ args.wellFormed
  /\ \A raw \in {args.interval, args.sample} \ {NotGiven} : Parses(raw)

\* The interval is a flag or the only positional argument.
RawInterval(args) == IF args.positionals = << >> THEN args.interval ELSE args.positionals[1]
IntervalOf(args) == Duration(RawInterval(args), 0)

DefaultSample == 1
SampleOf(args) == Duration(args.sample, DefaultSample)

PositionalsAccepted(args) ==
  \/ args.positionals = << >>
  \/ Len(args.positionals) = 1 /\ args.interval = NotGiven /\ Parses(args.positionals[1])

AcceptedBug(args) == \* the interval not looked at again: parseInterval has done so
  /\ PositionalsAccepted(args)
  /\ args.pid > 0
  /\ RawInterval(args) # NotGiven
  /\ SampleOf(args) > 0
  /\ args.backend # "ebpf" => SampleOf(args) < IntervalOf(args)
  /\ args.count.set => args.count.value > 0
  /\ args.tid >= 0
Accepted(args) ==
  /\ PositionalsAccepted(args)
  /\ args.pid > 0
  /\ RawInterval(args) # NotGiven /\ IntervalOf(args) > 0
  /\ SampleOf(args) > 0
  /\ args.backend # "ebpf" => SampleOf(args) < IntervalOf(args)
  /\ args.count.set => args.count.value > 0
  /\ args.tid >= 0

\* The Config of arguments that are accepted.  The pattern of --comm is the set of the
\* names it matches.
ConfigOf(args) ==
  [interval |-> IntervalOf(args), sample |-> SampleOf(args), count |-> args.count.value,
   backend |-> args.backend, output |-> args.output, tid |-> args.tid, comm |-> args.comm,
   showIdle |-> args.showIdle, sort |-> args.sort]

----------------------------------------------------------------------------
(* The parts a run is made of *)

\* backend.New: on Linux each of these is made without an error.
BackendNames == {"", "auto", "hybrid", "proc", "taskstats", "ebpf"}

\* Which loop Collector.Run takes for a backend.
LoopOf(backend) ==
  CASE backend \in {"", "auto", "hybrid"} -> "hybrid"
    [] backend = "ebpf" -> "events"
    [] OTHER -> "snapshots"

\* NewRenderer: the format csv is known but not implemented.
OutputFormats == {"", "table", "json"}

\* The fields FilterAndSort can sort by.
SortFields ==
  {"", "tid", "comm", "running", "sleeping", "uninterruptible", "on_cpu", "runnable",
   "wakeup_latency", "cpu_delay", "block_io_delay", "swap_delay", "reclaim_delay",
   "thrashing_delay", "compaction_delay", "wpcopy_delay", "irq_delay", "total"}

Commands == {"run", "doctor", "help", "version"}

\* How Run goes on with the arguments: "doctor", "help" and "version" print something
\* and end.
Verdict(args) ==
  CASE args.command \in {"doctor", "help"} -> "done"
    [] args.command \in {"version", "run"} /\ ~FlagsParse(args) -> "refused"
    [] args.command = "version" /\ FlagsParse(args) -> "done"
    [] args.command = "run" /\ FlagsParse(args) ->
         IF Accepted(args) /\ args.backend \in BackendNames /\ args.output \in OutputFormats
         THEN "run" ELSE "refused"
=============================================================================
