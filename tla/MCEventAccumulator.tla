-------------------------- MODULE MCEventAccumulator --------------------------
(* EventAccumulator on a small set of events, in any order of arrival.     *)
EXTENDS EventAccumulator

CONSTANTS
  MaxEvents,   \* how many events are delivered
  MaxWindows,  \* how many windows are reported
  MaxLost      \* how many events the kernel reports as lost

VARIABLE delivered  \* how many events have been delivered

MCInterval == 2

\* TID 1 is in the initial scan, and may be reused by a second thread.  TID 2
\* appears later.
MCEvents ==
  LET Of(tid, ticks, ns, kinds) ==
        [tid : {tid}, ticks : {ticks}, ns : {ns}, kind : {kinds[1]},
         state : {kinds[2]}, at : {2, 3, 4, 5, 7}]
      wakeup == <<"wakeup", "runnable">>
      switchIn == <<"switch_in", "on_cpu">>
      sleep == <<"switch_out", "sleeping">>
      exit == <<"switch_out", "dead">>
  IN UNION {Of(1, 5, 50, k) : k \in {wakeup, switchIn, sleep, exit}}
       \cup UNION {Of(1, 6, 60, k) : k \in {wakeup, switchIn}}
       \cup Of(2, 6, 61, switchIn)

\* One scan that ends at 3 and sees TID 1 at 2 or 3.
MCSnapshots ==
  {[finished |-> 3, samples |-> [tid \in {1} |-> [ticks |-> 5, state |-> state, at |-> at]]] :
     state \in {"running", "sleeping", "zombie"}, at \in {0, 2, 3}}

LostSoFar == IF nextWindow = 0 THEN 0 ELSE reports[nextWindow - 1].lost

MCInit == Init /\ delivered = 0

MCNext ==
  \/ /\ delivered < MaxEvents
     /\ \E e \in Events : Observe(e)
     /\ delivered' = delivered + 1
  \/ /\ nextWindow < MaxWindows
     /\ \E lost \in LostSoFar .. MaxLost : Advance(lost)
     /\ UNCHANGED delivered

MCSpec == MCInit /\ [][MCNext]_<<vars, delivered>>
=============================================================================
