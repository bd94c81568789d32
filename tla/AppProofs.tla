------------------------------- MODULE AppProofs -------------------------------
(***************************************************************************)
(* Proofs about a run of the command, for all options, threads and bounds: *)
(* which reports it writes, what its exit status says, that it has an      *)
(* interval and a sampling period, and that no work it has seen is hidden. *)
(*                                                                         *)
(* The invariant relates three counts that the code keeps apart: the       *)
(* reports written, the next window of the accumulator, and --count.       *)
(***************************************************************************)
EXTENDS App, SnapshotProofs, SequenceTheorems

TypeInv ==
  /\ phase \in Phases
  /\ clock \in Nat /\ started \in Nat
  /\ origin \in Nat /\ nextWindow \in Nat
  /\ cfg.count \in Int

\* What has been written is a sequence that starts with the first window.
InOrder ==
  /\ \E S : written \in Seq(S)
  /\ \A i \in 1 .. Len(written) : written[i].index = i - 1

CountInv ==
  /\ InOrder
  /\ phase \in {"start", "opening", "first"} => Len(written) = 0 /\ nextWindow = 0
  /\ phase \in {"baseline", "waiting", "scanning"} => Len(written) = nextWindow
  /\ cfg.count > 0 => Len(written) <= cfg.count
  /\ Running /\ cfg.count > 0 => Len(written) < cfg.count

StatusInv ==
  /\ phase # "exited" => status = NoStatus /\ trouble = FALSE
  /\ phase = "start" => cfg = NoConfig
  /\ StatusTellsOutcome

AppInv == TypeInv /\ CountInv /\ StatusInv /\ TickersArePositive

----------------------------------------------------------------------------
(* Windows *)

\* The threads of a scan are sampled while it is under way, so that all that has been
\* observed has been by now.
LEMMA WatermarkIsTime ==
  ASSUME TypeInv, NEW snapshot \in Scanned
  PROVE  Watermark(snapshot) \in Nat
<1> USE DEF TypeInv
<1>1. snapshot.finished = clock /\ snapshot.started = started
  BY DEF Scanned
<1>2. \A id \in DOMAIN snapshot.samples : snapshot.samples[id].at \in started .. clock
  <2> DEFINE Some == {Sample(state, at) : state \in {"running", "idle"}, at \in started .. clock}
  <2>1. PICK found \in SUBSET Threads : snapshot.samples \in [found -> Some]
    BY DEF Scanned
  <2>2. \A s \in Some : s.at \in started .. clock
    BY DEF Sample
  <2> HIDE DEF Some
  <2> QED  BY <2>1, <2>2
<1>3. Ends(snapshot) \in SUBSET Nat
  BY <1>1, <1>2 DEF Ends, GapEnd
<1>4. Ends(snapshot) # {}
  BY DEF Ends
<1> QED  BY <1>3, <1>4, MinIsLeast DEF Watermark

\* No window is taken back.
LEMMA WindowsFollow ==
  ASSUME TypeInv, NEW snapshot \in Scanned, Observe(snapshot)
  PROVE  /\ origin' \in Nat /\ nextWindow' \in Nat
         /\ nextWindow' - nextWindow \in Nat
<1> USE DEF TypeInv
<1>1. CASE ObserveFirst(snapshot)
  <2>1. snapshot.finished = clock
    BY DEF Scanned
  <2> QED  BY <1>1, <2>1 DEF ObserveFirst
<1>2. CASE ObserveNext(snapshot)
  <2> DEFINE watermark == Watermark(snapshot)
  <2>1. watermark \in Nat
    BY WatermarkIsTime
  <2> HIDE DEF watermark
  <2>2. WindowsThrough(watermark) \in Nat /\ WindowsThrough(watermark) >= nextWindow
    BY <2>1, ReportedIsOver
  <2>3. nextWindow' = WindowsThrough(watermark) /\ origin' = origin
    BY <1>2 DEF ObserveNext, watermark
  <2> QED  BY <2>2, <2>3
<1> QED  BY <1>1, <1>2 DEF Observe

----------------------------------------------------------------------------
(* Reports *)

\* Reports with consecutive indices go behind those that have been written.
LEMMA WriteKeepsOrder ==
  ASSUME InOrder, NEW k \in Nat, NEW windowOf,
         written' = written \o [i \in 1 .. k |->
                      Entry(Len(written) + i - 1, windowOf[Len(written) + i - 1])]
  PROVE  InOrder' /\ Len(written') = Len(written) + k
<1> DEFINE more == [i \in 1 .. k |-> Entry(Len(written) + i - 1, windowOf[Len(written) + i - 1])]
<1>1. PICK S : written \in Seq(S)
  BY DEF InOrder
<1>2. Len(written) \in Nat
  BY <1>1
<1>3. \A i \in 1 .. k : more[i] = Entry(Len(written) + i - 1, windowOf[Len(written) + i - 1])
  OBVIOUS
<1>4. \A i \in 1 .. k : more[i].index = Len(written) + i - 1
  BY <1>3 DEF Entry
<1> DEFINE All == S \cup {more[i] : i \in 1 .. k}
<1>5. written \in Seq(All)
  BY <1>1
<1>6. more \in Seq(All) /\ Len(more) = k
  <2>1. more \in [1 .. k -> All]
    OBVIOUS
  <2> HIDE DEF more, All
  <2> QED  BY <2>1
<1> HIDE DEF more, All
<1>7. /\ written' \in Seq(All) /\ Len(written') = Len(written) + k
      /\ \A i \in 1 .. Len(written') : written'[i] =
           IF i <= Len(written) THEN written[i] ELSE more[i - Len(written)]
  BY <1>5, <1>6, ConcatProperties DEF more
<1>8. ASSUME NEW i \in 1 .. Len(written')  PROVE  written'[i].index = i - 1
  <2>1. CASE i <= Len(written)
    BY <2>1, <1>2, <1>7 DEF InOrder
  <2>2. CASE ~(i <= Len(written))
    <3>1. i - Len(written) \in 1 .. k
      BY <2>2, <1>2, <1>7
    <3>2. more[i - Len(written)].index = Len(written) + (i - Len(written)) - 1
      BY <3>1, <1>4
    <3>3. written'[i] = more[i - Len(written)]
      BY <1>7, <2>2
    <3> QED  BY <3>2, <3>3, <1>2
  <2> QED  BY <2>1, <2>2
<1> QED  BY <1>7, <1>8 DEF InOrder

\* What Emit may come to.
Failed == phase' = "exited" /\ status' = 1 /\ trouble' = TRUE
Complete ==
  /\ phase' = "exited" /\ status' = 0 /\ UNCHANGED trouble
  /\ cfg.count > 0 /\ Len(written') = cfg.count
GoesOn(n, next) ==
  /\ phase' = next /\ UNCHANGED <<status, trouble>>
  /\ Len(written') = Len(written) + n
  /\ cfg.count > 0 => Len(written') < cfg.count

\* All the reports are written, or as many as are wanted, or an error ends the run.
LEMMA EmitKeepsCount ==
  ASSUME InOrder, cfg.count \in Int, cfg.count > 0 => Len(written) < cfg.count,
         NEW first, first = Len(written), NEW n \in Nat, NEW windowOf, NEW next,
         Emit(first, n, windowOf, next)
  PROVE  /\ InOrder' /\ (cfg.count > 0 => Len(written') <= cfg.count)
         /\ Failed \/ Complete \/ GoesOn(n, next)
<1> DEFINE Write(k) == written' = written \o [i \in 1 .. k |->
                         Entry(Len(written) + i - 1, windowOf[Len(written) + i - 1])]
<1>1. Len(written) \in Nat
  BY DEF InOrder
<1>2. /\ WantedOf(n) \in Nat /\ WantedOf(n) <= n
      /\ cfg.count > 0 => Len(written) + WantedOf(n) <= cfg.count
      /\ WantedOf(n) < n => cfg.count > 0 /\ Len(written) + WantedOf(n) = cfg.count
  BY <1>1 DEF WantedOf, earlier
<1>3. ASSUME NEW k \in Nat, Write(k)
      PROVE  InOrder' /\ Len(written') = Len(written) + k
  BY <1>3, WriteKeepsOrder
<1>4. \/ Fail /\ UNCHANGED written
      \/ \E k \in 0 .. WantedOf(n) - 1 : Write(k) /\ Fail
      \/ /\ Write(WantedOf(n)) /\ UNCHANGED trouble
         /\ IF cfg.count > 0 /\ Len(written') >= cfg.count THEN Return("nil")
            ELSE phase' = next /\ UNCHANGED status
  BY DEF Emit
<1>5. ASSUME Fail  PROVE  Failed
  BY <1>5 DEF Fail, Failed, Return, StatusOf
<1>6. CASE Fail /\ UNCHANGED written
  BY <1>1, <1>5, <1>6 DEF InOrder
<1>7. CASE \E k \in 0 .. WantedOf(n) - 1 : Write(k) /\ Fail
  <2>1. PICK k \in 0 .. WantedOf(n) - 1 : Write(k) /\ Fail
    BY <1>7
  <2>2. k \in Nat /\ k < WantedOf(n)
    BY <1>2
  <2>3. InOrder' /\ Len(written') = Len(written) + k
    BY <2>1, <2>2, <1>3
  <2> QED  BY <2>1, <2>2, <2>3, <1>1, <1>2, <1>5
<1>8. CASE /\ Write(WantedOf(n)) /\ UNCHANGED trouble
           /\ IF cfg.count > 0 /\ Len(written') >= cfg.count THEN Return("nil")
              ELSE phase' = next /\ UNCHANGED status
  <2>1. InOrder' /\ Len(written') = Len(written) + WantedOf(n)
    BY <1>2, <1>3, <1>8
  <2>2. CASE cfg.count > 0 /\ Len(written') >= cfg.count
    BY <2>1, <2>2, <1>1, <1>2, <1>8 DEF Return, StatusOf, Complete
  <2>3. CASE ~(cfg.count > 0 /\ Len(written') >= cfg.count)
    <3>1. WantedOf(n) = n /\ Len(written') = Len(written) + n
      BY <2>1, <2>3, <1>1, <1>2
    <3>2. cfg.count > 0 => Len(written') < cfg.count
      BY <2>3, <3>1, <1>1
    <3>3. phase' = next /\ UNCHANGED <<status, trouble>>
      BY <1>8, <2>3
    <3>4. cfg.count > 0 => Len(written') <= cfg.count
      BY <3>1, <3>2, <1>1
    <3> QED  BY <2>1, <3>1, <3>2, <3>3, <3>4 DEF GoesOn
  <2> QED  BY <2>2, <2>3
<1> HIDE DEF Write
<1> QED  BY <1>4, <1>6, <1>7, <1>8

----------------------------------------------------------------------------
(* Steps *)

LEMMA InvInitially == AppInit => AppInv
<1> SUFFICES ASSUME AppInit  PROVE  AppInv
  OBVIOUS
<1> DEFINE S == {}
<1>1. cfg.count = 0
  BY DEF AppInit, NoConfig
<1>2. phase = "start" /\ nextWindow = 0 /\ origin \in Nat /\ clock = 1 /\ started = 0
  BY OriginsAssumption DEF AppInit, Init, NoTime
<1>3. written \in Seq(S) /\ Len(written) = 0
  BY DEF AppInit
<1>4. TypeInv
  BY <1>1, <1>2 DEF TypeInv, Phases
<1> HIDE DEF S
<1>5. CountInv
  BY <1>1, <1>2, <1>3 DEF CountInv, InOrder, Running
<1>6. StatusInv /\ TickersArePositive
  BY DEF AppInit, StatusInv, StatusTellsOutcome, NoStatus, TickersArePositive, Running
<1> QED  BY <1>4, <1>5, <1>6 DEF AppInv

\* A run that ends without writing keeps the invariant when its status fits.
LEMMA ExitKeepsInv ==
  ASSUME AppInv, phase # "exited", phase' = "exited", TypeInv', UNCHANGED <<cfg, written>>,
         \/ Failed
         \/ status' = 1 /\ gone' /\ UNCHANGED trouble
         \/ status' = 0 /\ (canceled' \/ cfg = NoConfig) /\ UNCHANGED trouble
  PROVE  AppInv'
<1>1. CountInv'
  BY DEF AppInv, CountInv, InOrder, Running
<1>2. StatusInv'
  BY DEF AppInv, StatusInv, StatusTellsOutcome, Failed
<1>3. TickersArePositive'
  BY DEF TickersArePositive, Running
<1> QED  BY <1>1, <1>2, <1>3 DEF AppInv

\* So does one that goes on, to a phase with the same count.
LEMMA GoingOnKeepsInv ==
  ASSUME AppInv, Running, Running', TypeInv',
         UNCHANGED <<cfg, written, nextWindow, status, trouble>>,
         phase' \in {"opening", "first"} => phase \in {"opening", "first"},
         phase' \in {"baseline", "waiting", "scanning"} =>
           phase \in {"opening", "first", "baseline", "waiting", "scanning"}
  PROVE  AppInv'
<1>1. CountInv'
  BY DEF AppInv, CountInv, InOrder, Running
<1>2. StatusInv'
  BY DEF AppInv, StatusInv, StatusTellsOutcome, Running, NoStatus
<1>3. TickersArePositive'
  BY DEF AppInv, TickersArePositive, Running
<1> QED  BY <1>1, <1>2, <1>3 DEF AppInv

\* A run starts with the checks of its options passed.
LEMMA StartKeepsInv ==
  ASSUME AppInv, NEW args \in Arguments, Start(args)
  PROVE  AppInv'
<1>1. UNCHANGED <<clock, started, origin, nextWindow, canceled, gone, written>>
  BY DEF Start, vars, worldVars
<1>2. phase = "start" /\ cfg = NoConfig /\ TypeInv /\ CountInv /\ StatusInv
  BY DEF Start, AppInv, StatusInv
<1>3. CASE Verdict(args) = "done"
  BY <1>1, <1>2, <1>3, ExitKeepsInv DEF Start, Return, StatusOf, TypeInv, Phases
<1>4. CASE Verdict(args) = "refused"
  BY <1>1, <1>2, <1>4, ExitKeepsInv
     DEF Start, Fail, Failed, Return, StatusOf, TypeInv, Phases
<1>5. CASE Verdict(args) = "run"
  <2>1. /\ cfg' = ConfigOf(args) /\ UNCHANGED <<status, trouble>>
        /\ phase' \in {"first", "opening"}
    BY <1>5 DEF Start
  <2>2. Accepted(args)
    BY <1>5, AppAssumption DEF Verdict, Commands
  <2>3. cfg'.count = args.count.value /\ args.count.value \in Int
    BY <2>1, AppAssumption DEF ConfigOf
  <2>4. TypeInv'
    BY <1>1, <1>2, <2>1, <2>3 DEF TypeInv, Phases
  <2>5. CountInv'
    BY <1>1, <1>2, <2>1, <2>3 DEF CountInv, InOrder
  <2>6. StatusInv'
    BY <1>2, <2>1 DEF StatusInv, StatusTellsOutcome, NoStatus
  <2>7. TickersArePositive'
    BY <2>1, <2>2 DEF TickersArePositive, ConfigOf, Accepted, LoopOf
  <2> QED  BY <2>4, <2>5, <2>6, <2>7 DEF AppInv
<1> QED  BY <1>3, <1>4, <1>5 DEF Start

\* A step that may write keeps the invariant when it started with a count that fits.
LEMMA EmissionKeepsInv ==
  ASSUME AppInv, Running, TypeInv', UNCHANGED cfg,
         NEW n \in Nat, NEW windowOf, NEW next \in {"waiting", "events"},
         Emit(Len(written), n, windowOf, next),
         next = "waiting" => nextWindow' = Len(written) + n
  PROVE  AppInv'
<1>1. /\ InOrder' /\ (cfg.count > 0 => Len(written') <= cfg.count)
      /\ Failed \/ Complete \/ GoesOn(n, next)
  BY EmitKeepsCount DEF AppInv, TypeInv, CountInv
<1>2. status = NoStatus /\ trouble = FALSE
  BY DEF AppInv, StatusInv, Running
<1>3. CASE Failed
  <2>1. CountInv'
    BY <1>1, <1>3 DEF CountInv, Failed, Running
  <2> QED  BY <1>3, <2>1 DEF AppInv, StatusInv, StatusTellsOutcome, TickersArePositive, Failed, Running
<1>4. CASE Complete
  <2>1. CountInv'
    BY <1>1, <1>4 DEF CountInv, Complete, Running
  <2> QED  BY <1>2, <1>4, <2>1
           DEF AppInv, StatusInv, StatusTellsOutcome, TickersArePositive, Complete, Running
<1>5. CASE GoesOn(n, next)
  <2>1. CountInv'
    BY <1>1, <1>5 DEF CountInv, GoesOn
  <2>2. StatusInv'
    BY <1>2, <1>5 DEF StatusInv, StatusTellsOutcome, GoesOn, NoStatus
  <2>3. TickersArePositive'
    BY <1>5 DEF AppInv, TickersArePositive, GoesOn, Running
  <2> QED  BY <2>1, <2>2, <2>3 DEF AppInv
<1> QED  BY <1>1, <1>3, <1>4, <1>5

\* The loops over events.
LEMMA EventsKeepInv ==
  ASSUME AppInv, OpenFails \/ OpenEvents \/ EventsEnd \/ EventsFail
  PROVE  AppInv'
<1>1. /\ UNCHANGED <<cfg, written, origin, nextWindow, clock, canceled, gone>>
      /\ phase \in {"opening", "events"} /\ started' \in {started, clock}
  BY DEF OpenFails, OpenEvents, EventsEnd, EventsFail, vars, worldVars, tickVars, outputVars
<1>2. phase' \in Phases => TypeInv'
  BY <1>1 DEF AppInv, TypeInv
<1>3. status = NoStatus /\ trouble = FALSE
  BY <1>1 DEF AppInv, StatusInv
<1>4. ASSUME Return("gone"), gone, UNCHANGED trouble  PROVE  AppInv'
  BY <1>1, <1>2, <1>4, ExitKeepsInv DEF Return, StatusOf, Phases
<1>5. ASSUME Return("canceled") \/ Return("nil"), canceled, UNCHANGED trouble  PROVE  AppInv'
  BY <1>1, <1>2, <1>5, ExitKeepsInv DEF Return, StatusOf, Phases
<1>6. ASSUME Fail  PROVE  AppInv'
  BY <1>1, <1>2, <1>6, ExitKeepsInv DEF Fail, Failed, Return, StatusOf, Phases
<1>7. ASSUME phase = "opening", phase' \in {"first", "events"}, UNCHANGED <<status, trouble>>
      PROVE  AppInv'
  <2>1. TypeInv'
    BY <1>2, <1>7 DEF Phases
  <2> QED  BY <1>1, <1>7, <2>1, GoingOnKeepsInv DEF Running
<1>8. CASE OpenFails
  BY <1>4, <1>5, <1>6, <1>7, <1>8 DEF OpenFails, WithoutTarget
<1>9. CASE OpenEvents
  BY <1>7, <1>9 DEF OpenEvents, outputVars
<1>10. CASE EventsEnd
  BY <1>4, <1>5, <1>10 DEF EventsEnd, WithoutTarget
<1>11. CASE EventsFail
  BY <1>6, <1>11 DEF EventsFail
<1> QED  BY <1>8, <1>9, <1>10, <1>11

LEMMA BoundaryKeepsInv ==
  ASSUME AppInv, Boundary
  PROVE  AppInv'
<1>1. /\ UNCHANGED <<cfg, origin, nextWindow, clock, started>>
      /\ phase = "events"
  BY DEF Boundary, vars, worldVars
<1>2. PICK rows \in EventRows :
        Emit(Len(written), 1, [i \in {Len(written)} |-> [stats |-> rows]], "events")
  BY DEF Boundary
<1>3. phase' \in {"exited", "events"}
  BY <1>2 DEF Emit, Fail, Return
<1>4. TypeInv'
  BY <1>1, <1>3 DEF AppInv, TypeInv, Phases
<1> DEFINE windowOf == [i \in {Len(written)} |-> [stats |-> rows]]
<1>5. Emit(Len(written), 1, windowOf, "events")
  BY <1>2
<1> HIDE DEF windowOf
<1> QED  BY <1>1, <1>4, <1>5, EmissionKeepsInv DEF Running

\* A scan begins at the first report or with none behind it.
LEMMA BeginScanKeepsInv ==
  ASSUME AppInv, BeginScan
  PROVE  AppInv'
<1>1. /\ UNCHANGED <<cfg, written, origin, nextWindow, clock, canceled, gone>>
      /\ phase \in {"first", "waiting"} /\ started' = clock
  BY DEF BeginScan, vars, worldVars
<1>2. phase' \in {"baseline", "scanning", "exited"}
  BY DEF BeginScan, WithoutTarget, Return
<1>3. TypeInv'
  BY <1>1, <1>2 DEF AppInv, TypeInv, Phases
<1>4. CASE WithoutTarget
  BY <1>1, <1>3, <1>4, ExitKeepsInv DEF WithoutTarget, Return, StatusOf
<1>5. CASE ~gone /\ canceled /\ Return("canceled") /\ UNCHANGED trouble
  BY <1>1, <1>3, <1>5, ExitKeepsInv DEF Return, StatusOf
<1>6. CASE phase' \in {"baseline", "scanning"} /\ UNCHANGED <<status, trouble>>
  BY <1>1, <1>3, <1>6, GoingOnKeepsInv DEF Running
<1> QED  BY <1>4, <1>5, <1>6 DEF BeginScan

LEMMA EndScanKeepsInv ==
  ASSUME AppInv, EndScan
  PROVE  AppInv'
<1>1. UNCHANGED <<cfg, clock, started>> /\ phase \in {"baseline", "scanning"}
  BY DEF EndScan, worldVars, Sampling
<1>2. TypeInv /\ Len(written) = nextWindow
  BY <1>1 DEF AppInv, CountInv
<1>3. PICK snapshot \in Scanned : Observe(snapshot)
  BY DEF EndScan
<1>4. /\ origin' \in Nat /\ nextWindow' \in Nat
      /\ nextWindow' - nextWindow \in Nat
  BY <1>2, <1>3, WindowsFollow
<1> DEFINE n == nextWindow' - nextWindow
           windowOf == reports'
<1>5. Emit(nextWindow, n, windowOf, "waiting")
  BY DEF EndScan
<1>6. phase' \in {"exited", "waiting"}
  BY <1>5 DEF Emit, Fail, Return
<1>7. TypeInv'
  BY <1>1, <1>2, <1>4, <1>6 DEF TypeInv, Phases
<1>8. n \in Nat /\ nextWindow' = Len(written) + n
  <2>1. \A before, after \in Nat : after = before + (after - before)
    OBVIOUS
  <2>2. nextWindow \in Nat
    BY <1>2 DEF TypeInv
  <2> QED  BY <2>1, <2>2, <1>2, <1>4
<1> HIDE DEF n, windowOf
<1> QED  BY <1>1, <1>2, <1>5, <1>7, <1>8, EmissionKeepsInv DEF Running

LEMMA ScanEndsKeepInv ==
  ASSUME AppInv, ScanFails \/ SeeDone
  PROVE  AppInv'
<1>1. /\ UNCHANGED <<cfg, written, origin, nextWindow, clock, started, canceled, gone>>
      /\ phase # "exited" /\ phase' = "exited"
      /\ Failed \/ (canceled /\ status' = 0 /\ UNCHANGED trouble)
  BY DEF ScanFails, SeeDone, Fail, Failed, Return, StatusOf, Sampling,
         vars, worldVars, tickVars, outputVars
<1>2. TypeInv'
  BY <1>1 DEF AppInv, TypeInv, Phases
<1> QED  BY <1>1, <1>2, ExitKeepsInv

\* Time passes, a signal comes, the target ends.
LEMMA WorldKeepsInv ==
  ASSUME AppInv, Tick \/ Cancel \/ TargetEnds
  PROVE  AppInv'
<1>1. /\ UNCHANGED <<phase, cfg, status, started, written, trouble, origin, nextWindow>>
      /\ Running /\ clock' \in Nat
  BY DEF Tick, Cancel, TargetEnds, vars, outputVars, Running, Sampling, AppInv, TypeInv
<1>2. TypeInv'
  BY <1>1 DEF AppInv, TypeInv
<1> QED  BY <1>1, <1>2, GoingOnKeepsInv DEF Running

LEMMA StutteringKeepsInv ==
  ASSUME AppInv, UNCHANGED <<vars, appVars>>
  PROVE  AppInv'
<1>1. UNCHANGED <<phase, cfg, status, started, clock, canceled, gone, written, trouble,
                  origin, nextWindow>>
  BY DEF vars, appVars, worldVars, outputVars
<1> QED
  BY <1>1 DEF AppInv, TypeInv, CountInv, InOrder, StatusInv, StatusTellsOutcome,
              TickersArePositive, Running

----------------------------------------------------------------------------
(* Theorems *)

LEMMA InvIsInductive == AppInv /\ [AppNext]_<<vars, appVars>> => AppInv'
<1> SUFFICES ASSUME AppInv, [AppNext]_<<vars, appVars>>  PROVE  AppInv'
  OBVIOUS
<1>1. CASE \E args \in Arguments : Start(args)
  BY <1>1, StartKeepsInv
<1>2. CASE OpenFails \/ OpenEvents \/ EventsEnd \/ EventsFail
  BY <1>2, EventsKeepInv
<1>3. CASE Boundary
  BY <1>3, BoundaryKeepsInv
<1>4. CASE BeginScan
  BY <1>4, BeginScanKeepsInv
<1>5. CASE EndScan
  BY <1>5, EndScanKeepsInv
<1>6. CASE ScanFails \/ SeeDone
  BY <1>6, ScanEndsKeepInv
<1>7. CASE Tick \/ Cancel \/ TargetEnds
  BY <1>7, WorldKeepsInv
<1>8. CASE UNCHANGED <<vars, appVars>>
  BY <1>8, StutteringKeepsInv
<1> QED
  BY <1>1, <1>2, <1>3, <1>4, <1>5, <1>6, <1>7, <1>8 DEF AppNext, Collector

THEOREM AppInvariant == AppSpec => []AppInv
BY InvInitially, InvIsInductive, PTL DEF AppSpec

\* The reports are those of the windows from the first on, each once and in order, and
\* never more than --count (collector.go:70, runHybrid).
THEOREM CountKept == AppSpec => []CountIsKept
<1>1. AppInv => CountIsKept
  BY DEF AppInv, CountInv, InOrder, CountIsKept
<1> QED  BY <1>1, AppInvariant, PTL

\* The exit status tells a run that went wrong, or lost its target, from one that was
\* ended by a signal or has written all it was asked for (app.go:98).
THEOREM StatusIsTrue == AppSpec => []StatusTellsOutcome
<1>1. AppInv => StatusTellsOutcome
  BY DEF AppInv, StatusInv
<1> QED  BY <1>1, AppInvariant, PTL

\* No run has an interval or a sampling period that is not positive (config.go:151).
THEOREM TickersStayPositive == AppSpec => []TickersArePositive
<1>1. AppInv => TickersArePositive
  BY DEF AppInv
<1> QED  BY <1>1, AppInvariant, PTL

----------------------------------------------------------------------------
(* Work is shown *)

\* Of a row, the time it was found idle and running is part of its time.
Sound(row) ==
  /\ {"observed", "time"} \subseteq DOMAIN row
  /\ row.observed \in Nat /\ row.time["idle"] \in Nat /\ row.time["running"] \in Nat
  /\ row.time["idle"] + row.time["running"] <= row.observed

RowIn(i, id) == RowOf(WindowOf(i), id)

\* A scan comes after the one before it, and takes its samples while it goes on.
ScanInv ==
  /\ finished <= clock
  /\ phase \in Sampling => finished <= started /\ started <= clock
  /\ phase \in {"start", "opening", "first", "events"} => ~initialized

\* Time between two running samples is in its open window; windows that are reported ended
\* before the last sample of every thread, so that no such time is still to come.
BusyInv ==
  /\ ~initialized => busy = {}
  /\ busy \subseteq Nat \X Threads /\ DOMAIN previous \subseteq Threads
  /\ \A i \in Nat : i >= nextWindow => \A id \in Threads : Sound(RowIn(i, id))
  /\ \A i \in Nat : \A id \in Threads :
       i >= nextWindow /\ <<i, id>> \in busy => RowIn(i, id).time["running"] > 0
  /\ \A i \in 0 .. nextWindow - 1 : \A id \in DOMAIN previous : WindowEnd(i) <= previous[id].at

WorkInv == AppInv /\ CoverInv /\ ScanInv /\ BusyInv /\ WorkIsShown

\* The samples of a scan are of threads of the target, and taken while it goes on.
LEMMA ScanIsTimed ==
  ASSUME AppInv, ScanInv, phase \in Sampling, NEW snapshot \in Scanned
  PROVE  /\ IsTimed(snapshot) /\ snapshot.started = started /\ snapshot.finished = clock
         /\ finished <= snapshot.started /\ DOMAIN snapshot.samples \subseteq Threads
<1>1. snapshot.finished = clock /\ snapshot.started = started
  BY DEF Scanned
<1> DEFINE Some == {Sample(state, at) : state \in {"running", "idle"}, at \in started .. clock}
<1>2. PICK found \in SUBSET Threads : snapshot.samples \in [found -> Some]
  BY DEF Scanned
<1>3. \A s \in Some : s.at \in started .. clock
  BY DEF Sample
<1>4. clock \in Nat /\ started \in Nat
  BY DEF AppInv, TypeInv
<1>5. Threads \subseteq IdentityType
  BY AppAssumption
<1> HIDE DEF Some
<1>6. \A id \in DOMAIN snapshot.samples :
        /\ snapshot.samples[id].at \in Nat
        /\ started <= snapshot.samples[id].at /\ snapshot.samples[id].at <= clock
  BY <1>2, <1>3, <1>4
<1>7. DOMAIN snapshot.samples \subseteq Threads
  BY <1>2
<1> QED  BY <1>1, <1>4, <1>5, <1>6, <1>7 DEF IsTimed, ScanInv

\* A gap adds its time to the states of its two ends.
LEMMA CreditGapWork ==
  ASSUME origin \in Nat, NEW i \in Nat, NEW row, Sound(row),
         NEW gap, gap.start \in Nat, gap.end \in Nat, gap.start <= gap.end
  PROVE  LET credited == CreditGap(row, gap, i) IN
         /\ Sound(credited) /\ row.time["running"] <= credited.time["running"]
         /\ gap.left = "running" /\ gap.right = "running" =>
              credited.time["running"] = row.time["running"] + Overlap(i, gap.start, gap.end)
<1> DEFINE middle == Midpoint(gap)
           left == Overlap(i, gap.start, middle)
           right == Overlap(i, middle, gap.end)
           credited == CreditGap(row, gap, i)
<1>1. middle \in Nat /\ gap.start <= middle /\ middle <= gap.end
  BY DEF Midpoint
<1>2. /\ credited.observed = row.observed + left + right
      /\ {"observed", "time"} \subseteq DOMAIN credited
      /\ credited.time = [s \in ThreadStates |->
           row.time[s] + (IF s = gap.left THEN left ELSE 0) + (IF s = gap.right THEN right ELSE 0)]
  BY DEF CreditGap
<1>3. /\ credited.time["idle"] =
           row.time["idle"] + (IF "idle" = gap.left THEN left ELSE 0)
             + (IF "idle" = gap.right THEN right ELSE 0)
      /\ credited.time["running"] =
           row.time["running"] + (IF "running" = gap.left THEN left ELSE 0)
             + (IF "running" = gap.right THEN right ELSE 0)
  BY <1>2 DEF ThreadStates
<1> HIDE DEF middle, credited
<1>4. left \in Nat /\ right \in Nat
  BY <1>1, OverlapType
<1>5. Overlap(i, gap.start, gap.end) = left + right
  BY <1>1, OverlapAdds
<1> HIDE DEF left, right
<1>6. Sound(credited) /\ row.time["running"] <= credited.time["running"]
  BY <1>2, <1>3, <1>4 DEF Sound
<1>7. gap.left = "running" /\ gap.right = "running" =>
        credited.time["running"] = row.time["running"] + Overlap(i, gap.start, gap.end)
  BY <1>3, <1>4, <1>5 DEF Sound
<1> QED  BY <1>6, <1>7 DEF credited

\* A snapshot keeps the rows sound, and no time is taken from them; time between two
\* running samples is added.
LEMMA AfterWork ==
  ASSUME CoverInv, BusyInv, NEW snapshot, IsTimed(snapshot), snapshot.started >= finished,
         snapshot.finished = clock, NEW i \in Nat, i >= nextWindow, NEW id \in Threads
  PROVE  LET row == RowOf(After(i, snapshot), id) IN
         /\ Sound(row) /\ RowIn(i, id).time["running"] <= row.time["running"]
         /\ id \in DOMAIN snapshot.samples /\ i \in RunningIn(id, snapshot) =>
              row.time["running"] > 0
<1> DEFINE window == WindowOf(i)
           gapped == {x \in DOMAIN previous : GapTouches(x, snapshot, i)}
           sampled == {x \in DOMAIN snapshot.samples : SampledIn(x, snapshot, i)}
           before == RowOf(window, id)
           Counted == IF id \in sampled THEN [before EXCEPT !.samples = @ + 1] ELSE before
           gap == GapOf(id, snapshot)
           Row == IF id \in gapped THEN CreditGap(Counted, gap, i) ELSE Counted
           busyNow == id \in DOMAIN snapshot.samples /\ i \in RunningIn(id, snapshot)
<1>1. Sound(before)
  BY DEF BusyInv, RowIn
<1>2. Sound(Counted) /\ Counted.time = before.time
  BY <1>1 DEF Sound
<1>3. origin \in Nat /\ TimeInv
  BY DEF CoverInv, TimeInv
<1>4. id \in DOMAIN previous =>
        /\ previous[id].at \in Nat /\ GapEnd(id, snapshot) \in Nat /\ snapshot.finished \in Nat
        /\ previous[id].at <= GapEnd(id, snapshot) /\ GapEnd(id, snapshot) <= snapshot.finished
        /\ gap.start = previous[id].at /\ gap.end = GapEnd(id, snapshot)
  <2>1. id \in DOMAIN previous =>
          gap.start = previous[id].at /\ gap.end = GapEnd(id, snapshot)
    BY DEF GapOf, GapEnd, SampledGap, LastGap
  <2> HIDE DEF gap
  <2> QED  BY <1>3, <2>1, SnapshotType DEF TimeInv
<1>5. ASSUME busyNow
      PROVE  /\ id \in gapped /\ i \in Affected(snapshot)
             /\ gap.left = "running" /\ gap.right = "running"
             /\ Overlap(i, gap.start, gap.end) > 0
  <2>1. /\ id \in DOMAIN previous /\ id \in DOMAIN snapshot.samples
        /\ previous[id].state = "running" /\ snapshot.samples[id].state = "running"
        /\ Overlap(i, previous[id].at, snapshot.samples[id].at) > 0
    BY <1>5 DEF RunningIn
  <2>2. GapEnd(id, snapshot) = snapshot.samples[id].at
    BY <2>1 DEF GapEnd
  <2>3. gap.left = "running" /\ gap.right = "running"
    BY <2>1 DEF GapOf, SampledGap
  <2> HIDE DEF gap
  <2>4. i <= WindowIndex(GapEnd(id, snapshot)) /\ i <= WindowIndex(snapshot.finished)
    BY <1>3, <1>4, <2>1, <2>2, TouchedIsReached
  <2>5. GapTouches(id, snapshot, i)
    BY <2>1, <2>2, <2>4, <1>3 DEF GapTouches, TouchedWindows, TimeInv
  <2>6. i \in Affected(snapshot)
    BY <2>1, <2>4, <2>5, <1>3 DEF Affected, TimeInv
  <2> QED  BY <1>4, <2>1, <2>2, <2>3, <2>5, <2>6
<1> HIDE DEF Counted, gap
<1>6. /\ Sound(Row) /\ before.time["running"] <= Row.time["running"]
      /\ busyNow => Row.time["running"] > 0
  <2>1. CASE id \in gapped
    <3> DEFINE credited == CreditGap(Counted, gap, i)
    <3>1. /\ Sound(credited) /\ Counted.time["running"] <= credited.time["running"]
          /\ gap.left = "running" /\ gap.right = "running" =>
               credited.time["running"] = Counted.time["running"] + Overlap(i, gap.start, gap.end)
      BY <2>1, <1>2, <1>3, <1>4, CreditGapWork
    <3>2. Row = credited
      BY <2>1
    <3>3. busyNow => /\ gap.left = "running" /\ gap.right = "running"
                     /\ Overlap(i, gap.start, gap.end) > 0
      BY <1>5
    <3>4. Overlap(i, gap.start, gap.end) \in Nat
      BY <2>1, <1>3, <1>4, OverlapType
    <3> HIDE DEF credited, Row, busyNow
    <3> QED  BY <3>1, <3>2, <3>3, <3>4, <1>2 DEF Sound
  <2>2. CASE id \notin gapped
    <3>1. Row = Counted /\ ~busyNow
      BY <2>2, <1>5
    <3> HIDE DEF Row, busyNow
    <3> QED  BY <3>1, <1>2 DEF Sound
  <2> QED  BY <2>1, <2>2
<1> HIDE DEF busyNow
<1>7. CASE i \in Affected(snapshot)
  <2>1. After(i, snapshot) = Credited(i, snapshot)
    BY <1>7 DEF After
  <2>2. CASE id \in DOMAIN window.stats \cup gapped \cup sampled
    <3>1. RowOf(Credited(i, snapshot), id) = Row
      BY <2>2 DEF Credited, RowOf, Counted, gap
    <3> QED  BY <2>1, <3>1, <1>6 DEF RowIn, busyNow
  <2>3. CASE id \notin DOMAIN window.stats \cup gapped \cup sampled
    <3>1. RowOf(Credited(i, snapshot), id) = NoRow /\ before = NoRow
      BY <2>3 DEF Credited, RowOf
    <3>2. ~busyNow
      BY <2>3, <1>5
    <3> QED  BY <2>1, <3>1, <3>2, <1>1 DEF RowIn, busyNow, Sound
  <2> QED  BY <2>2, <2>3
<1>8. CASE i \notin Affected(snapshot)
  <2>1. After(i, snapshot) = WindowOf(i) /\ ~busyNow
    BY <1>8, <1>5 DEF After
  <2> QED  BY <2>1, <1>1 DEF RowIn, busyNow, Sound
<1> QED  BY <1>7, <1>8

\* What has been written stays, and reports with consecutive indices are put behind it.
LEMMA EmitWrites ==
  ASSUME InOrder, cfg.count \in Int, cfg.count > 0 => Len(written) < cfg.count,
         NEW first, first = Len(written), NEW n \in Nat, NEW windowOf, NEW next,
         Emit(first, n, windowOf, next)
  PROVE  /\ Len(written') \in Nat /\ Len(written) <= Len(written')
         /\ Len(written') <= Len(written) + n
         /\ \A i \in 1 .. Len(written') :
              written'[i] = IF i <= Len(written) THEN written[i] ELSE Entry(i - 1, windowOf[i - 1])
<1> DEFINE more(k) == [i \in 1 .. k |-> Entry(Len(written) + i - 1, windowOf[Len(written) + i - 1])]
<1>1. PICK S : written \in Seq(S)
  BY DEF InOrder
<1>2. Len(written) \in Nat
  BY <1>1
<1>3. \/ UNCHANGED written
      \/ \E k \in 0 .. WantedOf(n) : written' = written \o more(k)
  <2>1. WantedOf(n) \in Nat
    BY <1>2 DEF WantedOf, earlier
  <2>2. \/ UNCHANGED written
        \/ \E k \in 0 .. WantedOf(n) - 1 : written' = written \o more(k)
        \/ written' = written \o more(WantedOf(n))
    BY DEF Emit
  <2>3. WantedOf(n) \in 0 .. WantedOf(n) /\ 0 .. WantedOf(n) - 1 \subseteq 0 .. WantedOf(n)
    BY <2>1
  <2> HIDE DEF more
  <2> QED  BY <2>2, <2>3, Zenon
<1>4. WantedOf(n) \in Nat /\ WantedOf(n) <= n
  BY <1>2 DEF WantedOf, earlier
<1>5. CASE UNCHANGED written
  BY <1>2, <1>5
<1>6. ASSUME NEW k \in 0 .. WantedOf(n), written' = written \o more(k)
      PROVE  /\ Len(written') = Len(written) + k
             /\ \A i \in 1 .. Len(written') :
                  written'[i] = IF i <= Len(written) THEN written[i] ELSE Entry(i - 1, windowOf[i - 1])
  <2>1. k \in Nat
    BY <1>4
  <2> DEFINE All == S \cup {more(k)[i] : i \in 1 .. k}
  <2>2. written \in Seq(All)
    BY <1>1
  <2>3. more(k) \in Seq(All) /\ Len(more(k)) = k
    <3>1. more(k) \in [1 .. k -> All]
      OBVIOUS
    <3> HIDE DEF more, All
    <3> QED  BY <2>1, <3>1
  <2>4. \A i \in 1 .. k : more(k)[i] = Entry(Len(written) + i - 1, windowOf[Len(written) + i - 1])
    OBVIOUS
  <2> HIDE DEF more, All
  <2>5. /\ Len(written') = Len(written) + k
        /\ \A i \in 1 .. Len(written') : written'[i] =
             IF i <= Len(written) THEN written[i] ELSE more(k)[i - Len(written)]
    BY <1>6, <2>2, <2>3, ConcatProperties
  <2>6. ASSUME NEW i \in 1 .. Len(written'), ~(i <= Len(written))
        PROVE  written'[i] = Entry(i - 1, windowOf[i - 1])
    <3>1. i - Len(written) \in 1 .. k /\ Len(written) + (i - Len(written)) - 1 = i - 1
      BY <1>2, <2>1, <2>5, <2>6
    <3>2. more(k)[i - Len(written)] = Entry(i - 1, windowOf[i - 1])
      BY <3>1, <2>4
    <3> QED  BY <3>2, <2>5, <2>6
  <2> QED  BY <2>5, <2>6
<1> HIDE DEF more
<1>7. CASE \E k \in 0 .. WantedOf(n) : written' = written \o more(k)
  <2>1. PICK k \in 0 .. WantedOf(n) : written' = written \o more(k)
    BY <1>7
  <2>2. k \in Nat /\ k <= n
    BY <1>4
  <2>3. Len(written') = Len(written) + k
    BY <2>1, <1>6
  <2>4. /\ Len(written') \in Nat /\ Len(written) <= Len(written')
        /\ Len(written') <= Len(written) + n
    BY <1>2, <2>2, <2>3
  <2> QED  BY <2>1, <2>4, <1>6
<1> QED  BY <1>3, <1>5, <1>7

\* The indices below a number.
LEMMA Below ==
  ASSUME NEW n \in Nat, NEW i
  PROVE  i \in 0 .. n - 1 <=> i \in Nat /\ i < n
OBVIOUS

\* A thread that was found running is not hidden as idle.
LEMMA WorkIsNotIdle ==
  ASSUME NEW row, Sound(row), row.time["running"] > 0
  PROVE  ~HiddenAsIdle(row)
BY DEF Sound, HiddenAsIdle

\* What a scan adds to the windows and threads that were found running.
Marks(snapshot) ==
  busy' = busy \cup UNION {RunningIn(id, snapshot) \X {id} : id \in DOMAIN snapshot.samples}

\* The baseline adds no time, and comes before any.
LEMMA FirstKeepsBusy ==
  ASSUME WorkInv, phase \in Sampling, NEW snapshot \in Scanned,
         ObserveFirst(snapshot), Remember(snapshot),
         Marks(snapshot)
  PROVE  BusyInv' /\ busy' = {} /\ nextWindow' = nextWindow
<1>1. ~initialized /\ initialized' /\ DOMAIN previous = {} /\ busy = {}
      /\ nextWindow = 0 /\ nextWindow' = nextWindow
  BY DEF WorkInv, CoverInv, TimeInv, BusyInv, ObserveFirst
<1>2. busy' = {}
  BY <1>1 DEF RunningIn, Marks
<1>3. DOMAIN previous' \subseteq Threads
  BY ScanIsTimed DEF WorkInv, Remember
<1>4. Sound(NoRow) /\ Sound([NoRow EXCEPT !.samples = 1])
  BY DEF Sound, NoRow, ThreadStates
<1>5. \A i \in DOMAIN windows' : \A id \in DOMAIN windows'[i].stats :
        windows'[i].stats[id] = [NoRow EXCEPT !.samples = 1]
  BY DEF ObserveFirst
<1>6. \A i \in Nat : \A id \in Threads : Sound(RowIn(i, id))'
  <2> SUFFICES ASSUME NEW i \in Nat, NEW id \in Threads  PROVE  Sound(RowIn(i, id)')
    BY DEF Sound
  <2>1. RowIn(i, id)' \in {NoRow, [NoRow EXCEPT !.samples = 1]}
    BY <1>5 DEF RowIn, RowOf, WindowOf, NoWindow
  <2> QED  BY <2>1, <1>4
<1>7. 0 .. nextWindow' - 1 = {}
  BY <1>1
<1> QED  BY <1>1, <1>2, <1>3, <1>6, <1>7 DEF BusyInv

\* A later snapshot: what it finds running is in windows that were open until then.
LEMMA NextKeepsBusy ==
  ASSUME WorkInv, phase \in Sampling, NEW snapshot \in Scanned,
         ObserveNext(snapshot), Remember(snapshot),
         Marks(snapshot)
  PROVE  /\ BusyInv'
         /\ \A i \in Nat : \A id \in Threads :
              i < nextWindow /\ <<i, id>> \in busy' => <<i, id>> \in busy
         /\ \A i \in Nat : \A id \in Threads :
              nextWindow <= i /\ i < nextWindow' /\ <<i, id>> \in busy' =>
                /\ id \in DOMAIN reports'[i].stats
                /\ ~HiddenAsIdle(reports'[i].stats[id])
<1>1. /\ IsTimed(snapshot) /\ snapshot.started = started /\ snapshot.finished = clock
      /\ finished <= snapshot.started /\ DOMAIN snapshot.samples \subseteq Threads
  BY ScanIsTimed DEF WorkInv
<1>2. TimeInv /\ CoverInv /\ BusyInv /\ finished \in Nat /\ origin \in Nat /\ nextWindow \in Nat
  BY DEF WorkInv, CoverInv, TimeInv
<1>3. snapshot.started >= finished
  BY <1>1, <1>2 DEF IsTimed
<1>4. /\ UNCHANGED <<initialized, origin>> /\ initialized
      /\ nextWindow' \in Nat /\ nextWindow <= nextWindow'
      /\ \A i \in Nat : i >= nextWindow' => WindowOf(i)' = After(i, snapshot)
      /\ DOMAIN reports' = 0 .. nextWindow' - 1
      /\ \A i \in DOMAIN reports' :
           IF i < nextWindow THEN reports'[i] = reports[i]
           ELSE reports'[i] = After(i, snapshot) /\ WindowEnd(i) <= Watermark(snapshot)
  BY <1>1, <1>2, <1>3, NextWindows
<1>0. \A i : i \in DOMAIN reports' <=> i \in Nat /\ i < nextWindow'
  BY <1>4, Below
<1>5. /\ DOMAIN previous' = DOMAIN snapshot.samples
      /\ \A id \in DOMAIN previous' :
           /\ previous'[id].at = snapshot.samples[id].at
           /\ previous'[id].at \in Nat /\ finished <= previous'[id].at
  BY <1>1, <1>2, <1>3, RememberTimes
<1>6. /\ Watermark(snapshot) \in Nat
      /\ \A id \in DOMAIN snapshot.samples : Watermark(snapshot) <= snapshot.samples[id].at
  BY <1>1, <1>2, <1>3, WatermarkBounds
<1>7. \A i \in Nat : \A id \in Threads :
        <<i, id>> \in busy' <=>
          <<i, id>> \in busy \/ (id \in DOMAIN snapshot.samples /\ i \in RunningIn(id, snapshot))
  BY DEF Marks
<1>8. ASSUME NEW i \in Nat, NEW id \in Threads, id \in DOMAIN snapshot.samples,
             i \in RunningIn(id, snapshot)
      PROVE  i >= nextWindow
  <2>1. /\ id \in DOMAIN previous /\ previous[id].at \in Nat /\ snapshot.samples[id].at \in Nat
        /\ Overlap(i, previous[id].at, snapshot.samples[id].at) > 0
    BY <1>1, <1>2, <1>8 DEF RunningIn, TimeInv, IsTimed
  <2>2. WindowStart(i) \in Nat /\ WindowEnd(i) \in Nat
    BY <1>2, WindowBounds
  <2>3. previous[id].at < WindowEnd(i)
    BY <2>1, <2>2 DEF Overlap, later, earlier
  <2>4. i \in 0 .. nextWindow - 1 => WindowEnd(i) <= previous[id].at
    BY <1>2, <2>1 DEF BusyInv
  <2> QED  BY <1>2, <2>1, <2>2, <2>3, <2>4
<1>9. ASSUME NEW i \in Nat, NEW id \in Threads, i >= nextWindow
      PROVE  /\ Sound(RowOf(After(i, snapshot), id))
             /\ <<i, id>> \in busy' => RowOf(After(i, snapshot), id).time["running"] > 0
  <2> DEFINE row == RowOf(After(i, snapshot), id)
  <2>1. /\ Sound(row) /\ RowIn(i, id).time["running"] <= row.time["running"]
        /\ id \in DOMAIN snapshot.samples /\ i \in RunningIn(id, snapshot) =>
             row.time["running"] > 0
    BY <1>1, <1>2, <1>3, <1>9, AfterWork
  <2>2. Sound(RowIn(i, id)) /\ (<<i, id>> \in busy => RowIn(i, id).time["running"] > 0)
    BY <1>2, <1>9 DEF BusyInv
  <2> HIDE DEF row
  <2>3. <<i, id>> \in busy => row.time["running"] > 0
    BY <2>1, <2>2 DEF Sound
  <2> QED  BY <1>7, <2>1, <2>3 DEF row
<1>10. ASSUME NEW i \in Nat, NEW id \in Threads, nextWindow <= i, i < nextWindow', <<i, id>> \in busy'
       PROVE  /\ id \in DOMAIN reports'[i].stats
              /\ ~HiddenAsIdle(reports'[i].stats[id])
  <2>1. reports'[i] = After(i, snapshot)
    <3>1. i \in DOMAIN reports' /\ ~(i < nextWindow)
      BY <1>0, <1>2, <1>10
    <3> QED  BY <3>1, <1>4
  <2>2. Sound(RowOf(reports'[i], id)) /\ RowOf(reports'[i], id).time["running"] > 0
    BY <1>9, <1>10, <2>1
  <2>3. ~(NoRow.time["running"] > 0)
    BY DEF NoRow, ThreadStates
  <2>4. id \in DOMAIN reports'[i].stats
    BY <2>2, <2>3 DEF RowOf
  <2> QED  BY <2>2, <2>4, WorkIsNotIdle DEF RowOf
<1>11. ASSUME NEW i \in Nat, i < nextWindow', NEW id \in DOMAIN previous'
       PROVE  WindowEnd(i) <= previous'[id].at
  <2>1. WindowEnd(i) \in Nat /\ i \in DOMAIN reports'
    BY <1>0, <1>2, <1>11, WindowBounds
  <2>2. CASE i < nextWindow
    <3>1. WindowEnd(i) <= finished
      BY <1>2, <2>2 DEF TimeInv
    <3> QED  BY <3>1, <2>1, <1>2, <1>5
  <2>3. CASE ~(i < nextWindow)
    <3>1. WindowEnd(i) <= Watermark(snapshot)
      BY <2>1, <2>3, <1>4
    <3>2. Watermark(snapshot) <= previous'[id].at /\ previous'[id].at \in Nat
      BY <1>5, <1>6
    <3>3. Watermark(snapshot) \in Nat
      BY <1>6
    <3> QED  BY <3>1, <3>2, <3>3, <2>1
  <2> QED  BY <2>2, <2>3
<1>12. BusyInv'
  <2>1. busy' \subseteq Nat \X Threads /\ DOMAIN previous' \subseteq Threads
    <3>1. \A id \in DOMAIN snapshot.samples : RunningIn(id, snapshot) \subseteq Nat
      BY DEF RunningIn
    <3> QED  BY <3>1, <1>1, <1>2, <1>5 DEF BusyInv, Marks
  <2>2. ASSUME NEW i \in Nat, i >= nextWindow', NEW id \in Threads
        PROVE  /\ Sound(RowIn(i, id)')
               /\ <<i, id>> \in busy' => RowIn(i, id)'.time["running"] > 0
    <3>1. RowIn(i, id)' = RowOf(After(i, snapshot), id)
      BY <1>4, <2>2 DEF RowIn, RowOf
    <3>2. i >= nextWindow
      BY <1>2, <1>4, <2>2
    <3> QED  BY <3>1, <3>2, <1>9
  <2>3. \A i \in 0 .. nextWindow' - 1 : \A id \in DOMAIN previous' :
          WindowEnd(i)' <= previous'[id].at
    <3>1. \A i \in 0 .. nextWindow' - 1 : i \in Nat /\ i < nextWindow'
      BY <1>4, Below
    <3> QED  BY <1>4, <1>11, <3>1 DEF WindowEnd
  <2>4. /\ \A i \in Nat : i >= nextWindow' => \A id \in Threads : Sound(RowIn(i, id))'
        /\ \A i \in Nat : \A id \in Threads :
             i >= nextWindow' /\ <<i, id>> \in busy' => RowIn(i, id)'.time["running"] > 0
    BY <2>2 DEF Sound
  <2> QED  BY <1>4, <2>1, <2>3, <2>4 DEF BusyInv
<1>13. \A i \in Nat : \A id \in Threads :
         i < nextWindow /\ <<i, id>> \in busy' => <<i, id>> \in busy
  BY <1>2, <1>7, <1>8
<1> QED  BY <1>10, <1>12, <1>13

\* The reports of a scan go behind those written, with the rows that it has completed.
LEMMA EndScanKeepsWork ==
  ASSUME WorkInv, EndScan, AppInv'
  PROVE  WorkInv'
<1>1. /\ UNCHANGED <<cfg, clock, started>> /\ phase \in Sampling
      /\ Len(written) = nextWindow /\ Len(written) \in Nat
  BY DEF EndScan, worldVars, Sampling, WorkInv, AppInv, TypeInv, CountInv
<1>2. PICK snapshot \in Scanned : Observe(snapshot) /\ Marks(snapshot)
  BY DEF EndScan, Marks
<1>3. /\ IsTimed(snapshot) /\ snapshot.started = started /\ snapshot.finished = clock
      /\ finished <= snapshot.started
  BY <1>1, ScanIsTimed DEF WorkInv
<1>4. CoverInv'
  <2>1. snapshot.started >= finished
    BY <1>3 DEF IsTimed, WorkInv, CoverInv, TimeInv
  <2> QED  BY <1>2, <1>3, <2>1, ObserveCovers DEF WorkInv
<1>5. initialized' /\ finished' = clock
  BY <1>2, <1>3 DEF Observe, ObserveFirst, ObserveNext, Remember
<1>6. phase' \in {"exited", "waiting"}
  BY DEF EndScan, Emit, Fail, Return
<1>7. ScanInv'
  BY <1>1, <1>5, <1>6 DEF ScanInv, Sampling, WorkInv, AppInv, TypeInv
<1>8. nextWindow \in Nat /\ nextWindow' \in Nat /\ nextWindow' - nextWindow \in Nat
  BY <1>2, WindowsFollow DEF WorkInv, AppInv, TypeInv
<1>9. /\ Len(written') \in Nat /\ Len(written) <= Len(written') /\ Len(written') <= nextWindow'
      /\ \A i \in 1 .. Len(written') :
           written'[i] = IF i <= Len(written) THEN written[i] ELSE Entry(i - 1, reports'[i - 1])
  <2> DEFINE n == nextWindow' - nextWindow
             windowOf == reports'
  <2>1. Emit(nextWindow, n, windowOf, "waiting")
    BY DEF EndScan
  <2>2. /\ InOrder /\ cfg.count \in Int /\ (cfg.count > 0 => Len(written) < cfg.count)
    BY <1>1 DEF WorkInv, AppInv, TypeInv, CountInv, Running, Sampling
  <2>3. n \in Nat /\ Len(written) + n = nextWindow'
    <3>1. \A before, after \in Nat : before + (after - before) = after
      OBVIOUS
    <3> QED  BY <1>1, <1>8, <3>1
  <2> HIDE DEF n, windowOf
  <2>4. /\ Len(written') \in Nat /\ Len(written) <= Len(written')
        /\ Len(written') <= Len(written) + n
        /\ \A i \in 1 .. Len(written') :
             written'[i] = IF i <= Len(written) THEN written[i] ELSE Entry(i - 1, windowOf[i - 1])
    BY <1>1, <2>1, <2>2, <2>3, EmitWrites
  <2> QED  BY <2>3, <2>4 DEF windowOf
<1>10. CASE ObserveFirst(snapshot)
  <2>1. BusyInv' /\ busy' = {}
    BY <1>1, <1>2, <1>10, FirstKeepsBusy DEF Observe
  <2>2. WorkIsShown'
    BY <2>1 DEF WorkIsShown
  <2> QED  BY <1>4, <1>7, <2>1, <2>2 DEF WorkInv
<1>11. CASE ObserveNext(snapshot)
  <2>1. /\ BusyInv'
        /\ \A i \in Nat : \A id \in Threads :
             i < nextWindow /\ <<i, id>> \in busy' => <<i, id>> \in busy
        /\ \A i \in Nat : \A id \in Threads :
             nextWindow <= i /\ i < nextWindow' /\ <<i, id>> \in busy' =>
               /\ id \in DOMAIN reports'[i].stats
               /\ ~HiddenAsIdle(reports'[i].stats[id])
    BY <1>1, <1>2, <1>11, NextKeepsBusy DEF Observe
  <2>2. \A id \in Threads : Matches(id)' = Matches(id)
    BY <1>1 DEF Matches
  <2>3. ASSUME NEW i \in Nat, 1 <= i, i <= Len(written'), NEW id \in Threads,
               <<written'[i].index, id>> \in busy', Matches(id)
        PROVE  id \in written'[i].rows
    <3>1. written'[i].index = i - 1 /\ i - 1 \in Nat
      <4>1. \A k \in 1 .. Len(written') : written'[k].index = k - 1
        BY DEF AppInv, CountInv, InOrder
      <4>2. i \in 1 .. Len(written')
        BY <1>9, <2>3
      <4> QED  BY <4>1, <4>2, <2>3
    <3>2. written'[i] = IF i <= Len(written) THEN written[i] ELSE Entry(i - 1, reports'[i - 1])
      BY <1>9, <2>3
    <3>3. CASE i <= Len(written)
      <4>1. i \in 1 .. Len(written) /\ i - 1 < nextWindow
        BY <1>1, <2>3, <3>3
      <4>2. written'[i] = written[i] /\ <<written[i].index, id>> \in busy
        BY <2>1, <2>3, <3>1, <3>2, <3>3, <4>1
      <4> QED  BY <2>3, <4>1, <4>2 DEF WorkInv, WorkIsShown
    <3>4. CASE ~(i <= Len(written))
      <4>1. nextWindow <= i - 1 /\ i - 1 < nextWindow'
        BY <1>1, <1>8, <1>9, <2>3, <3>4
      <4>2. /\ id \in DOMAIN reports'[i - 1].stats
            /\ ~HiddenAsIdle(reports'[i - 1].stats[id])
        BY <2>1, <2>3, <3>1, <4>1
      <4>3. written'[i].rows = Filtered(reports'[i - 1].stats)
        BY <3>2, <3>4 DEF Entry
      <4> QED  BY <2>3, <4>2, <4>3 DEF Filtered
    <3> QED  BY <3>3, <3>4
  <2>4. WorkIsShown'
    <3>1. \A i \in 1 .. Len(written') : i \in Nat /\ 1 <= i /\ i <= Len(written')
      BY <1>9
    <3> QED  BY <2>2, <2>3, <3>1 DEF WorkIsShown
  <2> QED  BY <1>4, <1>7, <2>1, <2>4 DEF WorkInv
<1> QED  BY <1>2, <1>10, <1>11 DEF Observe

\* The other steps leave the accumulator alone, and what is written while it has seen work.
LEMMA OthersKeepWork ==
  ASSUME WorkInv, AppInv', UNCHANGED <<vars, busy>>, ScanInv',
         \/ UNCHANGED <<written, cfg>>
         \/ phase \in {"start", "opening", "first", "events"}
  PROVE  WorkInv'
<1>1. CoverInv'
  BY StutteringCovers DEF WorkInv
<1>2. BusyInv'
  BY DEF WorkInv, BusyInv, vars, RowIn, RowOf, WindowOf, WindowEnd, Sound
<1>3. WorkIsShown'
  <2>1. CASE UNCHANGED <<written, cfg>>
    BY <2>1 DEF WorkInv, WorkIsShown, Matches
  <2>2. CASE phase \in {"start", "opening", "first", "events"}
    <3>1. busy' = {}
      BY <2>2 DEF WorkInv, ScanInv, BusyInv
    <3> QED  BY <3>1 DEF WorkIsShown
  <2> QED  BY <2>1, <2>2
<1> QED  BY <1>1, <1>2, <1>3 DEF WorkInv

LEMMA WorkInitially == AppInit => WorkInv
<1> SUFFICES ASSUME AppInit  PROVE  WorkInv
  OBVIOUS
<1>1. AppInv /\ CoverInv
  BY InvInitially, InitCovers DEF AppInit
<1>2. /\ busy = {} /\ ~initialized /\ DOMAIN previous = {} /\ DOMAIN windows = {}
      /\ finished = 0 /\ clock = 1 /\ phase = "start" /\ nextWindow = 0
  BY DEF AppInit, Init, NoTime
<1>3. ScanInv
  BY <1>2 DEF ScanInv, Sampling
<1>4. Sound(NoRow)
  BY DEF Sound, NoRow, ThreadStates
<1>5. \A i \in Nat : \A id \in Threads : RowIn(i, id) = NoRow
  BY <1>2 DEF RowIn, RowOf, WindowOf, NoWindow
<1>6. BusyInv
  BY <1>2, <1>4, <1>5 DEF BusyInv
<1>7. WorkIsShown
  BY <1>2 DEF WorkIsShown
<1> QED  BY <1>1, <1>3, <1>6, <1>7 DEF WorkInv

LEMMA WorkIsInductive == WorkInv /\ [AppNext]_<<vars, appVars>> => WorkInv'
<1> SUFFICES ASSUME WorkInv, [AppNext]_<<vars, appVars>>  PROVE  WorkInv'
  OBVIOUS
<1>1. AppInv'
  BY InvIsInductive DEF WorkInv
<1>2. /\ ScanInv /\ clock \in Nat /\ started \in Nat /\ finished \in Nat
  BY DEF WorkInv, AppInv, TypeInv, CoverInv, TimeInv
<1>3. CASE \E args \in Arguments : Start(args)
  <2>1. /\ UNCHANGED <<vars, busy, clock, started>> /\ phase = "start"
        /\ phase' \in {"first", "opening", "exited"}
    BY <1>3 DEF Start, Return, Fail, worldVars
  <2>2. ScanInv'
    BY <1>2, <2>1 DEF ScanInv, Sampling, vars, ghosts
  <2> QED  BY <1>1, <2>1, <2>2, OthersKeepWork
<1>4. CASE OpenFails \/ OpenEvents \/ EventsEnd \/ EventsFail \/ Boundary
  <2>1. /\ UNCHANGED <<vars, busy, clock>> /\ phase \in {"opening", "events"}
        /\ phase' \in {"first", "events", "exited"}
    BY <1>4 DEF OpenFails, OpenEvents, EventsEnd, EventsFail, Boundary, WithoutTarget, Return, Fail,
                Emit, worldVars
  <2>2. ScanInv'
    BY <1>2, <2>1 DEF ScanInv, Sampling, vars, ghosts
  <2> QED  BY <1>1, <2>1, <2>2, OthersKeepWork
<1>5. CASE BeginScan
  <2>1. /\ UNCHANGED <<vars, busy, clock, cfg, written>> /\ started' = clock
        /\ phase' \in {"baseline", "scanning", "exited"}
    BY <1>5 DEF BeginScan, WithoutTarget, Return, worldVars
  <2>2. ScanInv'
    BY <1>2, <2>1 DEF ScanInv, Sampling, vars, ghosts
  <2> QED  BY <1>1, <2>1, <2>2, OthersKeepWork
<1>6. CASE EndScan
  BY <1>1, <1>6, EndScanKeepsWork
<1>7. CASE ScanFails \/ SeeDone
  <2>1. /\ UNCHANGED <<vars, busy, clock, started, cfg, written>> /\ phase' = "exited"
    BY <1>7 DEF ScanFails, SeeDone, Return, Fail, worldVars, outputVars
  <2>2. ScanInv'
    BY <1>2, <2>1 DEF ScanInv, Sampling, vars, ghosts
  <2> QED  BY <1>1, <2>1, <2>2, OthersKeepWork
<1>8. CASE Tick \/ Cancel \/ TargetEnds
  <2>1. /\ UNCHANGED <<vars, busy, phase, started, cfg, written>> /\ clock' \in Nat /\ clock <= clock'
    BY <1>2, <1>8 DEF Tick, Cancel, TargetEnds, outputVars
  <2>2. ScanInv'
    BY <1>2, <2>1 DEF ScanInv, vars, ghosts
  <2> QED  BY <1>1, <2>1, <2>2, OthersKeepWork
<1>9. CASE UNCHANGED <<vars, appVars>>
  <2>1. UNCHANGED <<vars, busy, phase, started, clock, cfg, written>>
    BY <1>9 DEF appVars, worldVars, outputVars
  <2>2. ScanInv'
    BY <1>2, <2>1 DEF ScanInv, vars, ghosts
  <2> QED  BY <1>1, <2>1, <2>2, OthersKeepWork
<1> QED
  BY <1>3, <1>4, <1>5, <1>6, <1>7, <1>8, <1>9 DEF AppNext, Collector

\* The inductive invariant: sound rows, and all the time between running samples in them.
THEOREM WorkInvariant == AppSpec => []WorkInv
BY WorkInitially, WorkIsInductive, PTL DEF AppSpec

\* Time a thread was found running is never lost between the scans and the output: the
\* report of its window has a row for the thread, unless the options exclude it
\* (filter.go:28, finalizeThrough).
THEOREM WorkShown == AppSpec => []WorkIsShown
<1>1. WorkInv => WorkIsShown
  BY DEF WorkInv
<1> QED  BY <1>1, WorkInvariant, PTL
=============================================================================
