------------------------------ MODULE MCHybridRun ------------------------------
(* HybridRun with two threads that have the same TID one after the other.   *)
EXTENDS HybridRun

MCThreads ==
  {[tid |-> 1, ticks |-> 5, ns |-> 50], [tid |-> 1, ticks |-> 6, ns |-> 60]}
=============================================================================
