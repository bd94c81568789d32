------------------------ MODULE MCSnapshotAccumulator ------------------------
(* SnapshotAccumulator on a few scans that may find a thread or not, and    *)
(* a second thread with the same TID, or a third beside the first.         *)
EXTENDS SnapshotAccumulator

MCCounters == {"cpu"}

NoCounter == << >>
CounterOf(value) == [c \in {"cpu"} |-> value]
DelaysOf(value) == [k \in {"cpu"} |-> [count |-> 1, total |-> value]]

First == [tid |-> 1, ticks |-> 5]
Second == [tid |-> 1, ticks |-> 6]
Other == [tid |-> 2, ticks |-> 5]

\* The samples of a scan: of the first thread, of the second, of the first and another, or none.
SamplesOf(started, ended) ==
  LET Sample(state, at, value) ==
        [state |-> state, at |-> at, schedstat |-> CounterOf(value), delays |-> DelaysOf(value)]
      Unread(state, at) ==
        [state |-> state, at |-> at, schedstat |-> NoCounter, delays |-> NoCounter]
      firsts == {Sample(state, at, value) :
                   state \in {"running", "sleeping"}, at \in {started, ended}, value \in {1, 4}}
                \cup {Unread("sleeping", ended)}
      seconds == {Sample("sleeping", ended, 3)}
  IN {<< >>} \cup [{First} -> firsts] \cup [{Second} -> seconds]
     \cup {[id \in {First, Other} |-> IF id = First THEN first ELSE second] :
             first \in {Sample("running", started, 4), Sample("sleeping", ended, 1)},
             second \in seconds}

\* Scans of different lengths, within a window and across a boundary.
Scans == {<<1, 2>>, <<2, 4>>, <<5, 6>>, <<7, 9>>}

MCSnapshots ==
  UNION {[started : {scan[1]}, finished : {scan[2]}, samples : SamplesOf(scan[1], scan[2])] :
           scan \in Scans}
=============================================================================
