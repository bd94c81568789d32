------------------------------ MODULE StartTime ------------------------------
(***************************************************************************)
(* The start time of a thread, as an event has it and as procfs shows it:  *)
(* ebpf/identity.go.                                                       *)
(*                                                                         *)
(* An event carries the nanoseconds since the boot of the machine.  /proc  *)
(* shows clock ticks since the boot of the reader's time namespace, which  *)
(* is some offset earlier or later.  The hybrid backend tells threads      *)
(* apart by the ticks, so that the two must agree.                         *)
(*                                                                         *)
(* Go's integers have a width: MaxInt is the largest int64, and the words  *)
(* of the kernel go to 2 * MaxInt + 1.                                     *)
(***************************************************************************)
EXTENDS Integers

CONSTANTS
  MaxInt,                \* math.MaxInt64
  nanosecondsPerSecond

ASSUME WidthAssumption ==
  /\ MaxInt \in Nat \ {0} /\ nanosecondsPerSecond \in Nat \ {0}
  /\ nanosecondsPerSecond <= MaxInt

MinInt == -MaxInt - 1
MaxUint == 2 * MaxInt + 1

Int64 == MinInt .. MaxInt
Uint64 == 0 .. MaxUint

\* What Go's integer arithmetic makes of a result that may not fit.
Wrapped(value) ==
  IF value \in Int64 THEN value ELSE ((value - MinInt) % (MaxUint + 1)) + MinInt

NotOk == [ok |-> FALSE, value |-> 0]
Ok(value) == [ok |-> TRUE, value |-> value]

----------------------------------------------------------------------------

\* parseBoottimeOffset, of the two numbers in the line "boottime".  Go's division
\* rounds towards zero.
parseBoottimeOffset(seconds, nanoseconds) ==
  LET largest == MaxInt \div nanosecondsPerSecond
      smallest == -((-MinInt) \div nanosecondsPerSecond)
      offset == Wrapped(seconds * nanosecondsPerSecond)
  IN IF nanoseconds < 0 \/ nanoseconds >= nanosecondsPerSecond THEN NotOk
     ELSE IF seconds > largest \/ seconds < smallest THEN NotOk
     ELSE IF nanoseconds > 0 /\ offset > MaxInt - nanoseconds THEN NotOk
     ELSE Ok(Wrapped(offset + nanoseconds))

\* loadIdentityConversion and procStartTimeTicks accept the tick rates that divide a
\* second.
Divides(ticksPerSecond) ==
  ticksPerSecond # 0 /\ nanosecondsPerSecond % ticksPerSecond = 0

\* procStartTimeTicks.  The most negative offset has no positive counterpart of its
\* own type.
procStartTimeTicksBug(startBoottimeNS, boottimeOffsetNS, ticksPerSecond) == \* negative offset ignored
  IF ~Divides(ticksPerSecond) THEN NotOk
  ELSE LET delta == IF boottimeOffsetNS < 0 THEN 0 ELSE boottimeOffsetNS IN
       IF startBoottimeNS > MaxUint - delta THEN NotOk
       ELSE Ok((startBoottimeNS + delta) \div (nanosecondsPerSecond \div ticksPerSecond))
procStartTimeTicks(startBoottimeNS, boottimeOffsetNS, ticksPerSecond) ==
  LET tick == nanosecondsPerSecond \div ticksPerSecond
      behind == Wrapped(-(boottimeOffsetNS + 1)) + 1
      ahead == boottimeOffsetNS
  IN CASE ~Divides(ticksPerSecond) -> NotOk
       [] Divides(ticksPerSecond) /\ boottimeOffsetNS < 0 ->
            IF startBoottimeNS < behind THEN NotOk
            ELSE Ok((startBoottimeNS - behind) \div tick)
       [] Divides(ticksPerSecond) /\ boottimeOffsetNS >= 0 ->
            IF startBoottimeNS > MaxUint - ahead THEN NotOk
            ELSE Ok((startBoottimeNS + ahead) \div tick)

----------------------------------------------------------------------------

\* What the kernel shows in /proc/<pid>/stat: the sum has the width of a word.
ProcTicks(startBoottimeNS, boottimeOffsetNS, ticksPerSecond) ==
  ((startBoottimeNS + boottimeOffsetNS) % (MaxUint + 1))
     \div (nanosecondsPerSecond \div ticksPerSecond)
=============================================================================
