------------------------------ MODULE EventPipe ------------------------------
(***************************************************************************)
(* What the collector may expect of a scheduler-event stream, whatever its *)
(* buffers and goroutines (the interface SchedulerEventStream): a queue    *)
(* from the kernel to the accumulator, and a flush that is over when all   *)
(* that was in the queue when it was asked for has been observed.          *)
(***************************************************************************)
EXTENDS Integers, Sequences

CONSTANT Records  \* the records the kernel may write

VARIABLES
  queue,     \* the records that are written and not observed yet
  observed,  \* the last record given to the accumulator
  owed,      \* NoFlush, or how many records the pending flush waits for
  broken,    \* the stream has failed: nothing is written to it any more
  stopped    \* the collector has left its loop

vars == <<queue, observed, owed, broken, stopped>>

NoFlush == -1
NoRecord == "none"

Init ==
  /\ queue = << >> /\ observed = NoRecord /\ owed = NoFlush
  /\ broken = FALSE /\ stopped = FALSE

\* A record that finds no room is dropped: a stuttering step.
Write(record) ==
  /\ ~broken /\ ~stopped
  /\ queue' = Append(queue, record)
  /\ UNCHANGED <<observed, owed, broken, stopped>>

Observe ==
  /\ ~stopped /\ queue # << >>
  /\ observed' = Head(queue)
  /\ queue' = Tail(queue)
  /\ owed' = IF owed > 0 THEN owed - 1 ELSE owed
  /\ UNCHANGED <<broken, stopped>>

Flush ==
  /\ ~stopped /\ owed = NoFlush
  /\ owed' = Len(queue)
  /\ UNCHANGED <<queue, observed, broken, stopped>>

\* The boundary may be reported.
Flushed ==
  /\ ~stopped /\ owed = 0
  /\ owed' = NoFlush
  /\ UNCHANGED <<queue, observed, broken, stopped>>

\* A failure of the stream loses its last records, and never one in between.
Break ==
  /\ ~broken
  /\ broken' = TRUE
  /\ \E n \in 0 .. Len(queue) : queue' = SubSeq(queue, 1, n)
  /\ UNCHANGED <<observed, owed, stopped>>

Stop ==
  /\ ~stopped
  /\ stopped' = TRUE
  /\ queue' = << >> /\ owed' = NoFlush
  /\ UNCHANGED <<observed, broken>>

Next ==
  \/ \E record \in Records : Write(record)
  \/ Observe \/ Flush \/ Flushed \/ Break \/ Stop

Spec == Init /\ [][Next]_vars
=============================================================================
