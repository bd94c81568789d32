------------------------------ MODULE MCTaskScan ------------------------------
(* TaskScan with each of the backends that read procfs or taskstats.         *)
EXTENDS TaskScan

MCSubjects == {Family} \cup Tids
MCContents == 0 .. MaxThreads

Current == [version |-> 16, length |-> 432]
Changed == [version |-> 15, length |-> 432]

Target(backend, payload, schedstat) ==
  [backend |-> backend, payload |-> payload, schedstat |-> schedstat]

MCTargets == {Target("proc", Current, TRUE), Target("proc", Current, FALSE),
              Target("taskstats", Current, TRUE), Target("taskstats", Changed, TRUE),
              Target("hybrid", Current, TRUE)}
=============================================================================
