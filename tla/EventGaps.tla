------------------------------ MODULE EventGaps ------------------------------
(***************************************************************************)
(* How far the gaps in the stream of events reach.  An event that is lost   *)
(* or late is gone with its transition (Observe, emit_task_event), and its  *)
(* thread's track goes on in a state that the thread has left.  This module *)
(* adds to a run what was missed of each thread and what was heard of it,   *)
(* for a property on single rows.                                           *)
(***************************************************************************)
EXTENDS EventRun

VARIABLES
  missed,  \* per TID, when the events were that were lost or late
  heard    \* per TID, when the switches were that have been applied

gapVars == <<missed, heard>>

GapInit ==
  /\ RunInit
  /\ missed = [tid \in Tids |-> {}] /\ heard = [tid \in Tids |-> {}]

Misses(e) == missed' = [missed EXCEPT ![e.tid] = @ \cup {e.at}]

SubmitOrLose(tid) ==
  /\ Submit(tid)
  /\ IF lost' = lost THEN UNCHANGED missed ELSE Misses(inflight[tid])
  /\ UNCHANGED heard

\* A wakeup does not tell the state of a thread that may be on a CPU.
DeliverOrReject ==
  /\ Deliver
  /\ LET e == Head(ring) IN
     /\ IF Behind(e) THEN Misses(e) ELSE UNCHANGED missed
     /\ heard' = IF Behind(e) \/ e.kind = "wakeup" THEN heard
                 ELSE [heard EXCEPT ![e.tid] = @ \cup {e.at}]

GapNext ==
  \/ /\ \/ \E tid \in Tids :
             \/ Wakeup(tid) \/ SwitchIn(tid) \/ Spawn(tid)
             \/ \E switch \in Switches : SwitchOut(tid, switch)
        \/ Tick \/ StartFlush \/ FinishFlush
     /\ UNCHANGED gapVars
  \/ \E tid \in Tids : SubmitOrLose(tid)
  \/ DeliverOrReject

GapSpec == GapInit /\ [][GapNext]_<<vars, runVars, gapVars>>

----------------------------------------------------------------------------
(* Properties *)

\* When the events of a TID are that are still on their way.
UnderWay(tid) ==
  {ring[i].at : i \in {j \in DOMAIN ring : ring[j].tid = tid}}
    \cup (IF inflight[tid] = NoEvent THEN {} ELSE {inflight[tid].at})

\* A gap reaches into a window if no later switch was heard before the window began.
Reaches(index, tid, at) ==
  /\ at < WindowEnd(index)
  /\ \A switch \in heard[tid] : ~(at < switch /\ switch <= WindowStart(index))

\* A row is wrong about its thread only because of a gap in the events of that same
\* thread, and only until its next switch is applied: what is lost or late of
\* a thread spoils no other thread's rows, and the first switch after it mends the track,
\* whatever state it was left in (Observe, applyTransition, emit_task_event; ebpf.go:56).
GapsEndWithTheNextSwitch ==
  \A index \in DOMAIN reports : \A id \in DOMAIN reports[index].threads :
    \/ ~Seeded(index, id.tid) \/ RowIsExact(index, id)
    \/ \E at \in missed[id.tid] \cup UnderWay(id.tid) : Reaches(index, id.tid, at)
=============================================================================
