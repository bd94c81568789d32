------------------------------- MODULE TaskScan -------------------------------
(***************************************************************************)
(* A scan of the threads of the target: proc/proc.go, taskstats.go and     *)
(* Snapshot of hybrid.go, over the Netlink client.                         *)
(*                                                                         *)
(* A thread is read in three steps: its stat file, its counters, and its   *)
(* stat file again.  Threads begin and end meanwhile, and a TID may pass   *)
(* from one to another: the sample counts only if both stat files show the *)
(* same start time.  A file is opened and then read, and the thread may    *)
(* end in between: then the kernel has no file (ENOENT) or no process      *)
(* (ESRCH) for it.                                                         *)
(*                                                                         *)
(* The threads of a TID are numbered, and the number stands for the start  *)
(* time and for the counters of the thread.  Two threads of a TID do not   *)
(* start in the same clock tick.                                           *)
(***************************************************************************)
EXTENDS Netlink, FiniteSets

CONSTANTS
  Tids,        \* the TIDs of the target
  Leader,      \* the TID of its first thread, its PID
  MaxThreads,  \* bound: how many threads a TID has one after the other
  Targets      \* what the run may find: records [backend, payload, schedstat]

Family == 0      \* the subject of the request of resolveFamily
NoThread == 0    \* no start time, no counters, no open file

ASSUME ScanAssumption ==
  /\ Tids \subseteq Nat \ {Family} /\ MaxThreads \in Nat \ {0}
  /\ Leader \in Tids /\ Tids \cup {Family} \subseteq Subjects /\ 0 .. MaxThreads \subseteq Contents
  /\ IsFiniteSet(Tids)

ASSUME TargetsAssumption == \A t \in Targets : t.backend \in {"proc", "taskstats", "hybrid"}

VARIABLES
  target,    \* the backend, the kernel's struct taskstats, whether there is schedstat
  latest,    \* per TID, the number of its latest thread
  alive,     \* the TIDs that have a thread now
  steady,    \* the threads that have lived since Snapshot was called
  client,    \* b.client # nil
  disabled,  \* b.taskstatsDisabled
  source,    \* the backend whose Snapshot runs
  at,        \* where it is
  todo,      \* the entries of the directory that have not been read
  read,      \* the thread that is being read: [tid, attempt, file, before, counters]
  stats,     \* the samples of taskstats
  found,     \* the samples of proc
  result,    \* what the last Snapshot has returned
  vanished   \* whether a read has failed as its thread had ended, and not the process

threadVars == <<latest, alive, steady>>
backendVars == <<target, client, disabled>>
readVars == <<at, todo, read>>
sampleVars == <<stats, found>>
scanVars == <<source, readVars, sampleVars, result, vanished>>
vars == <<netlinkVars, threadVars, backendVars, scanVars>>

Sources == {"taskstats", "proc"}
Steps == {"idle", "opening", "listing", "picking", "before", "counters", "after"}
Results == {"none", "ok", "gone", "canceled", "failed"}

\* The thread a file opened now belongs to, or none.
ThreadOf(tid) == IF tid \in alive THEN latest[tid] ELSE NoThread

Thread(tid, number) == [tid |-> tid, ticks |-> number]
Lives(tid, number) == tid \in alive /\ latest[tid] = number

----------------------------------------------------------------------------
(* The target *)

\* The threads of a process are begun by one another.
Begin(tid) ==
  /\ Leader \in alive /\ tid \notin alive /\ latest[tid] < MaxThreads
  /\ latest' = [latest EXCEPT ![tid] = @ + 1]
  /\ alive' = alive \cup {tid}
  /\ UNCHANGED <<netlinkVars, steady, backendVars, scanVars>>

Ends(tids) ==
  /\ alive' = alive \ tids
  /\ steady' = {t \in steady : t.tid \notin tids}
  /\ UNCHANGED <<netlinkVars, latest, backendVars, scanVars>>

\* A thread ends, or the process with all of them: its first thread is there until then.
End(tid) == tid \in alive \ {Leader} /\ Ends({tid})
Exit == alive # {} /\ Ends(Tids)

\* The kernel looks a thread up when it answers.
KernelAnswers ==
  /\ \E ask \in asked :
       \/ Drop(ask)
       \/ \E kind \in {"malformed", "acknowledgment", "error"} : Answer(ask, kind, NoThread)
       \/ ask.subject = Family /\ Answer(ask, "data", NoThread)
       \/ ask.subject \in alive /\ Answer(ask, "data", latest[ask.subject])
       \/ ask.subject \in Tids \ alive /\ Answer(ask, "ESRCH", NoThread)
  /\ UNCHANGED <<threadVars, backendVars, scanVars>>

TimePasses == (Delay \/ Cancel) /\ UNCHANGED <<threadVars, backendVars, scanVars>>

----------------------------------------------------------------------------
(* The ends of a scan *)

NoRead == [tid |-> Family, attempt |-> 1, file |-> NoThread, before |-> NoThread,
           counters |-> NoThread]

\* Snapshot of the hybrid backend: taskstats is closed and left for good, unless the target
\* is gone or the run has been canceled, and proc is asked in its place.
FailsWithBug(reason, gone) == \* taskstats not marked as disabled
  /\ read' = NoRead /\ todo' = {}
  /\ vanished' = gone
  /\ IF target.backend = "hybrid" /\ source = "taskstats" /\ reason = "failed"
     THEN /\ source' = "proc" /\ at' = "listing" /\ disabled' = FALSE /\ client' = FALSE
          /\ stats' = {} /\ found' = found /\ result' = result
     ELSE /\ at' = "idle" /\ result' = reason
          /\ UNCHANGED <<source, disabled, client, sampleVars>>
  /\ UNCHANGED <<threadVars, target>>
FailsWith(reason, gone) ==
  /\ read' = NoRead /\ todo' = {}
  /\ vanished' = gone
  /\ IF target.backend = "hybrid" /\ source = "taskstats" /\ reason = "failed"
     THEN /\ source' = "proc" /\ at' = "listing" /\ disabled' = TRUE /\ client' = FALSE
          /\ stats' = {} /\ found' = found /\ result' = result
     ELSE /\ at' = "idle" /\ result' = reason
          /\ UNCHANGED <<source, disabled, client, sampleVars>>
  /\ UNCHANGED <<threadVars, target>>

\* The scan has read all the entries: proc follows taskstats in the hybrid backend.
EndScan ==
  /\ at = "picking" /\ todo = {}
  /\ IF target.backend = "hybrid" /\ source = "taskstats"
     THEN source' = "proc" /\ at' = "listing" /\ result' = result
     ELSE source' = source /\ at' = "idle" /\ result' = "ok"
  /\ UNCHANGED <<netlinkVars, threadVars, backendVars, todo, read, sampleVars, vanished>>

----------------------------------------------------------------------------
(* The start of a scan *)

\* The bounds on the requests of a scan: a client is opened, and each TID is asked for twice.
ScanRequests == 1 + 2 * Cardinality(Tids)
MayScan ==
  /\ requests + ScanRequests <= MaxRequests
  /\ \A ask \in asked : requests + ScanRequests - ask.request < Modulus
  /\ \A i \in DOMAIN inbox : requests + ScanRequests - inbox[i].request < Modulus

\* Snapshot of each backend.  The collector ends the run when it fails; its interface allows
\* another.
Snapshot ==
  /\ at = "idle" /\ ~canceled /\ MayScan
  /\ steady' = {Thread(tid, latest[tid]) : tid \in alive}
  /\ stats' = {} /\ found' = {} /\ result' = "none" /\ vanished' = FALSE
  /\ source' = IF target.backend = "proc" \/ disabled THEN "proc" ELSE "taskstats"
  /\ at' = IF source' = "taskstats" /\ ~client THEN "opening" ELSE "listing"
  /\ UNCHANGED <<netlinkVars, latest, alive, backendVars, todo, read>>

\* ensureClient and newNetlinkClient: a socket, and the request for the family.
OpenFails ==
  /\ at = "opening" /\ phase = "idle"
  /\ FailsWith("failed", FALSE)
  /\ UNCHANGED netlinkVars

Open ==
  /\ at = "opening" /\ phase = "idle"
  /\ sequence' = 1 % Modulus /\ requests' = 1 /\ inbox' = << >>
  /\ asked' = {Asks(sequence', requests', Family)}
  /\ subject' = Family /\ phase' = "looping" /\ waited' = 0
  /\ UNCHANGED <<answer, canceled, threadVars, backendVars, scanVars>>

\* What the caller of exchange does with an answer that is none.
CallFails ==
  IF answer.outcome = "canceled" THEN FailsWith("canceled", FALSE) ELSE FailsWith("failed", FALSE)

HasData == answer.outcome = "received" /\ answer.message.kind = "data"

\* resolveFamily: the client is kept only when it knows the family.
Opened ==
  /\ at = "opening" /\ Take
  /\ \/ /\ HasData /\ answer.message.subject = Family
        /\ client' = TRUE /\ at' = "listing"
        /\ UNCHANGED <<threadVars, target, disabled, source, todo, read, sampleVars, result, vanished>>
     \/ ~HasData /\ CallFails

\* ReadDir: the threads that live meanwhile are listed, and those that begin or end then may
\* be.  Without a thread there is no directory.
List ==
  /\ at = "listing" /\ alive # {}
  /\ \E entries \in SUBSET Tids :
       {t.tid : t \in steady} \subseteq entries /\ todo' = entries
  /\ at' = "picking"
  /\ UNCHANGED <<netlinkVars, threadVars, backendVars, source, read, sampleVars, result, vanished>>

ListFails ==
  /\ at = "listing"
  /\ \/ alive = {} /\ FailsWith("gone", FALSE)
     \/ alive # {} /\ FailsWith("failed", FALSE)
  /\ UNCHANGED netlinkVars

Pick(tid) ==
  /\ at = "picking" /\ ~canceled /\ tid \in todo
  /\ todo' = todo \ {tid} /\ at' = "before"
  /\ read' = [NoRead EXCEPT !.tid = tid]
  /\ UNCHANGED <<netlinkVars, threadVars, backendVars, source, sampleVars, result, vanished>>

PickCanceled ==
  /\ at = "picking" /\ canceled /\ todo # {}
  /\ FailsWith("canceled", FALSE)
  /\ UNCHANGED netlinkVars

----------------------------------------------------------------------------
(* readStableTask and readStableThreadSample *)

ReadFrame == UNCHANGED <<netlinkVars, threadVars, backendVars, source, todo, sampleVars, result, vanished>>

\* The next attempt, if there is one: the sample is left out otherwise.
GiveUp == at' = "picking" /\ read' = NoRead
Retry ==
  IF read.attempt = 1
  THEN at' = "before" /\ read' = [NoRead EXCEPT !.tid = read.tid, !.attempt = 2]
  ELSE GiveUp

\* A file of the thread is opened: stat before or after, or schedstat.
OpenFile ==
  /\ at \in {"before", "after"} \/ (at = "counters" /\ source = "proc" /\ target.schedstat)
  /\ read.file = NoThread /\ ThreadOf(read.tid) # NoThread
  /\ read' = [read EXCEPT !.file = ThreadOf(read.tid)]
  /\ at' = at /\ ReadFrame

\* There is no such file: taskstats gives a thread up that is gone at once, proc tries again.
NoFileBefore ==
  /\ at = "before" /\ read.file = NoThread /\ ThreadOf(read.tid) = NoThread
  /\ IF source = "taskstats" THEN GiveUp ELSE Retry
  /\ ReadFrame

NoFileAfter ==
  /\ at = "after" /\ read.file = NoThread /\ ThreadOf(read.tid) = NoThread
  /\ Retry
  /\ ReadFrame

\* The file has been opened and its thread has ended: os.ReadFile fails with ESRCH, which is not
\* os.ErrNotExist.
ReadVanished ==
  /\ read.file # NoThread /\ ~Lives(read.tid, read.file)
  /\ FailsWith("failed", Leader \in alive)
  /\ UNCHANGED netlinkVars

CanRead == read.file # NoThread /\ Lives(read.tid, read.file)

\* Any other error of a file, or of its text.
ReadFails ==
  /\ CanRead
  /\ FailsWith("failed", FALSE)
  /\ UNCHANGED netlinkVars

ReadBefore ==
  /\ at = "before" /\ CanRead
  /\ at' = "counters"
  /\ read' = [read EXCEPT !.before = read.file, !.file = NoThread]
  /\ ReadFrame

\* readSchedstat: no file, or no permission, is no counter.
ReadSchedstat ==
  /\ at = "counters" /\ source = "proc"
  /\ \/ CanRead
     \/ read.file = NoThread /\ (ThreadOf(read.tid) = NoThread \/ ~target.schedstat)
  /\ at' = "after"
  /\ read' = [read EXCEPT !.counters = read.file, !.file = NoThread]
  /\ ReadFrame

\* Stats of the client.
AskTaskstats ==
  /\ at = "counters" /\ source = "taskstats"
  /\ Send(read.tid) \/ SendFails(read.tid)
  /\ UNCHANGED <<threadVars, backendVars, scanVars>>

\* decodeDelayCounters fails for a struct taskstats too short for any version, and for the
\* versions whose fields are elsewhere.
minimumTaskstatsPayload == 64
Decodable(payload) ==
  payload.length >= minimumTaskstatsPayload /\ payload.version \notin {0, 15}

\* decodeTaskstatsResponse: the answer must be about the TID, and its payload decodable.
Counts == HasData /\ answer.message.subject = read.tid /\ Decodable(target.payload)

Missing == answer.outcome = "received" /\ answer.message.kind = "ESRCH"

TaskstatsReturns ==
  /\ at = "counters" /\ source = "taskstats" /\ Take
  /\ \/ /\ Counts
        /\ at' = "after" /\ read' = [read EXCEPT !.counters = answer.message.content]
        /\ UNCHANGED <<threadVars, backendVars, source, todo, sampleVars, result, vanished>>
     \/ /\ Missing /\ Retry
        /\ UNCHANGED <<threadVars, backendVars, source, todo, sampleVars, result, vanished>>
     \/ ~Counts /\ ~Missing /\ CallFails

\* stat again: the sample counts if both show the same thread.
Stable == read.before = read.file

Sample == [tid |-> read.tid, ticks |-> read.file, counters |-> read.counters]

ReadAfterBug == \* the identity not compared
  /\ at = "after" /\ CanRead
  /\ at' = "picking" /\ read' = NoRead
  /\ stats' = IF source = "taskstats" THEN stats \cup {Sample} ELSE stats
  /\ found' = IF source = "proc" THEN found \cup {Sample} ELSE found
  /\ UNCHANGED <<netlinkVars, threadVars, backendVars, source, todo, result, vanished>>
ReadAfter ==
  /\ at = "after" /\ CanRead
  /\ IF Stable THEN at' = "picking" /\ read' = NoRead ELSE Retry
  /\ stats' = IF Stable /\ source = "taskstats" THEN stats \cup {Sample} ELSE stats
  /\ found' = IF Stable /\ source = "proc" THEN found \cup {Sample} ELSE found
  /\ UNCHANGED <<netlinkVars, threadVars, backendVars, source, todo, result, vanished>>

\* mergeSnapshots: the samples of proc, with the delays of taskstats for the same identity,
\* and the samples of taskstats that proc has not found.
MergedSamples ==
  {[thread |-> t,
    delays |-> {s.counters : s \in {u \in stats : Thread(u.tid, u.ticks) = t}},
    schedstat |-> {s.counters : s \in {u \in found : Thread(u.tid, u.ticks) = t}} \ {NoThread}] :
     t \in {Thread(s.tid, s.ticks) : s \in stats \cup found}}

----------------------------------------------------------------------------

\* The loop of exchange, on behalf of the scan.
Wait == Exchange /\ UNCHANGED <<threadVars, backendVars, scanVars>>

Scanner ==
  \/ OpenFails \/ Open \/ Opened
  \/ List \/ ListFails \/ (\E tid \in Tids : Pick(tid)) \/ PickCanceled \/ EndScan
  \/ OpenFile \/ NoFileBefore \/ NoFileAfter \/ ReadVanished \/ ReadFails
  \/ ReadBefore \/ ReadSchedstat \/ AskTaskstats \/ TaskstatsReturns \/ ReadAfter
  \/ Wait

Init ==
  /\ NetlinkInit /\ subject = Family
  /\ target \in Targets
  /\ alive \in SUBSET Tids /\ Leader \in alive
  /\ latest = [tid \in Tids |-> IF tid \in alive THEN 1 ELSE 0]
  /\ steady = {} /\ client = FALSE /\ disabled = FALSE
  /\ source = "proc" /\ at = "idle" /\ todo = {} /\ read = NoRead
  /\ stats = {} /\ found = {} /\ result = "none" /\ vanished = FALSE

Next ==
  \/ \E tid \in Tids : Begin(tid) \/ End(tid)
  \/ Exit
  \/ KernelAnswers \/ TimePasses
  \/ Snapshot \/ Scanner

Spec == Init /\ [][Next]_vars

\* The process runs, and time passes.
Fairness == WF_vars(Scanner) /\ WF_vars(Delay /\ UNCHANGED <<threadVars, backendVars, scanVars>>)

FairSpec == Spec /\ Fairness

----------------------------------------------------------------------------
(* Properties *)

\* The counters of a sample are those of the thread that the sample names, although each is read
\* in between two other reads, by name, while TIDs are reused and answers come late
\* (README.md:435; readStableTask, readStableThreadSample, mergeSnapshots).
CountersAreOfTheirThread ==
  \A s \in MergedSamples : s.delays \cup s.schedstat \subseteq {s.thread.ticks}

\* A scan that succeeds has every thread that has lived since it began, whatever the others did,
\* with its delays when taskstats is in use (Snapshot, readStableTask, mergeSnapshots).
SteadyThreadsAreFound ==
  result = "ok" =>
    \A t \in steady : \E s \in MergedSamples :
      /\ s.thread = t
      /\ (target.backend # "proc" /\ ~disabled) => s.delays # {}
      /\ (target.backend # "taskstats" /\ target.schedstat) => s.schedstat # {}

\* A scan ends, also when the kernel does not answer, signals interrupt every poll and threads
\* come and go (exchange, readStableTask, readStableThreadSample).
SnapshotsEnd == (at # "idle") ~> (at = "idle")

----------------------------------------------------------------------------
(* What the documentation promises, and the code does not do *)

\* README.md:415: a thread that disappears is estimated and reported, so it does not end the run,
\* or the use of taskstats.
ExitsAreSurvived == vanished => result # "failed" /\ ~disabled
=============================================================================
