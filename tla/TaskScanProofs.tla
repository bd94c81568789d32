---------------------------- MODULE TaskScanProofs ----------------------------
(***************************************************************************)
(* Proofs about a scan of the threads of the target and the Netlink client *)
(* it uses: an exchange returns the answer to its own request, a sample    *)
(* has the counters of the thread it names, and a scan that succeeds has   *)
(* every thread that has lived since it began.                             *)
(*                                                                         *)
(* The argument has three parts.  ExchangeInv: a message in the socket     *)
(* carries the number of its request modulo the count of sequence numbers, *)
(* and is not older than that count, so equal numbers mean equal requests. *)
(* ScanInv: the threads of a TID only follow one another, so the thread    *)
(* the counters are of lies between the threads of the two stat files.     *)
(* SteadyInv: no name of a thread that lives on is given to another, so    *)
(* its reads agree and the kernel never says that it does not exist.       *)
(***************************************************************************)
EXTENDS TaskScan, TLAPS

AskType == [sequence : Nat, request : Nat, subject : Subjects]
MessageType == [sequence : Nat, request : Nat, subject : Subjects, kind : Kinds, content : Nat]

\* A request, or the answer to one, that the socket still knows.
Numbered(m) ==
  /\ m.request \in 1 .. requests /\ requests - m.request < Modulus
  /\ m.sequence = m.request % Modulus
  /\ m.request = requests => m.subject = subject

ExchangeInv ==
  /\ requests \in Nat /\ sequence = requests % Modulus
  /\ phase \in Phases
  /\ asked \in SUBSET AskType /\ inbox \in Seq(MessageType)
  /\ \A ask \in asked : Numbered(ask)
  /\ \A i \in 1 .. Len(inbox) : Numbered(inbox[i])
  /\ answer.outcome = "received" =>
       /\ phase = "returned" /\ answer.message \in MessageType
       /\ answer.message.request = requests /\ answer.message.subject = subject

Reading == {"before", "counters", "after"}

ReadType == [tid : Tids \cup {Family}, attempt : {1, 2}, file : Nat, before : Nat, counters : Nat]

\* What has been read of a thread, in the order of its threads.
ReadInv ==
  /\ latest \in [Tids -> Nat] /\ alive \in SUBSET Tids
  /\ \A tid \in alive : latest[tid] > 0
  /\ at \in Steps /\ source \in Sources /\ todo \in SUBSET Tids
  /\ read \in ReadType
  /\ at \notin Reading => read.file = NoThread
  /\ at \in Reading => read.tid \in Tids /\ read.file <= latest[read.tid]
  /\ phase # "idle" => at = "opening" \/ (at = "counters" /\ source = "taskstats")
  /\ at = "counters" /\ source = "taskstats" => read.file = NoThread
  /\ at \in {"counters", "after"} =>
       /\ read.before \in 1 .. latest[read.tid]
       /\ read.file # NoThread => read.before <= read.file
  /\ at = "after" =>
       /\ read.counters <= latest[read.tid]
       /\ read.counters = NoThread => source = "proc"
       /\ read.counters # NoThread => read.before <= read.counters
       /\ read.file # NoThread => read.counters <= read.file

\* The kernel answers about a thread that lives, or has lived.
Past(m) == m.kind = "data" /\ m.subject \in Tids => m.content <= latest[m.subject]
\* What answers the current request comes after the first stat file was read.
Since(m) == m.kind = "data" /\ m.request = requests => read.before <= m.content

AnswerInv ==
  /\ \A i \in 1 .. Len(inbox) : Past(inbox[i])
  /\ answer.outcome = "received" => Past(answer.message)
  /\ at = "counters" /\ phase # "idle" =>
       /\ subject = read.tid
       /\ \A i \in 1 .. Len(inbox) : Since(inbox[i])
       /\ answer.outcome = "received" => Since(answer.message)

SampleInv ==
  /\ \A s \in stats : s.counters = s.ticks
  /\ \A s \in found : s.counters \in {NoThread, s.ticks}

ScanInv == ReadInv /\ AnswerInv /\ SampleInv

----------------------------------------------------------------------------
(* The exchange *)

\* The remainder of a division is determined.
LEMMA RemainderIsUnique ==
  ASSUME NEW m \in Nat \ {0}, NEW j \in Int, NEW k \in Int, NEW r \in 0 .. m - 1, NEW s \in 0 .. m - 1,
         m * j + r = m * k + s
  PROVE  j = k /\ r = s
<1> DEFINE q == j - k
<1>1. q \in Int /\ m * q = s - r
  <2>1. m * q = m * j - m * k
    OBVIOUS
  <2>2. m * j \in Int /\ m * k \in Int
    OBVIOUS
  <2> QED  BY <2>1, <2>2
<1>2. q = 0
  <2> HIDE DEF q
  <2>1. CASE q >= 1
    <3>1. m * q >= m
      BY <2>1, <1>1
    <3> QED  BY <3>1, <1>1
  <2>2. CASE q <= -1
    <3>1. m * q <= -m
      BY <2>2, <1>1
    <3> QED  BY <3>1, <1>1
  <2> QED  BY <2>1, <2>2, <1>1
<1> QED  BY <1>1, <1>2

LEMMA Division ==
  ASSUME NEW m \in Nat \ {0}, NEW n \in Nat
  PROVE  /\ n \div m \in Int /\ n % m \in 0 .. m - 1 /\ n % m \in Nat
         /\ n = m * (n \div m) + (n % m)
OBVIOUS

\* Two requests less than a round of the sequence numbers apart have different numbers.
LEMMA SameNumberSameRequest ==
  ASSUME NEW m \in Nat \ {0}, NEW a \in Nat, NEW b \in Nat,
         a <= b, b - a < m, a % m = b % m
  PROVE  a = b
<1> DEFINE j == a \div m
           k == b \div m
           r == a % m
           d == b - a
<1>1. a = m * j + r /\ b = m * k + r /\ j \in Int /\ k \in Int /\ r \in 0 .. m - 1 /\ d \in 0 .. m - 1
  BY Division
<1> HIDE DEF j, k, r
<1>2. m * (k - j) = m * k - m * j /\ m * j \in Int /\ m * k \in Int /\ k - j \in Int
  BY <1>1
<1>3. m * (k - j) + 0 = m * 0 + d
  BY <1>1, <1>2
<1>4. d = 0
  BY <1>1, <1>2, <1>3, RemainderIsUnique, 0 \in 0 .. m - 1
<1> QED  BY <1>4

\* The sequence number that is counted up modulo m is the number of the request modulo m.
LEMMA NextRemainder ==
  ASSUME NEW m \in Nat \ {0}, NEW n \in Nat
  PROVE  ((n % m) + 1) % m = (n + 1) % m
<1> DEFINE j == n \div m
           r == n % m
           k == (n + 1) \div m
           s == (n + 1) % m
<1>1. n = m * j + r /\ j \in Int /\ r \in 0 .. m - 1
      /\ n + 1 = m * k + s /\ k \in Int /\ s \in 0 .. m - 1
  BY Division
<1> HIDE DEF j, r, k, s
<1>2. CASE r + 1 < m
  <2>1. m * j + (r + 1) = m * k + s /\ r + 1 \in 0 .. m - 1
    BY <1>1, <1>2
  <2>2. r + 1 = s
    BY <2>1, <1>1, RemainderIsUnique
  <2>3. (r + 1) % m = r + 1
    BY <1>1, <1>2
  <2> QED  BY <2>2, <2>3 DEF r, s
<1>3. CASE r + 1 = m
  <2>1. m * (j + 1) = m * j + m /\ m * j \in Int /\ j + 1 \in Int
    BY <1>1
  <2>2. m * (j + 1) + 0 = m * k + s
    BY <1>1, <1>3, <2>1
  <2>3. s = 0
    BY <2>1, <2>2, <1>1, RemainderIsUnique, 0 \in 0 .. m - 1
  <2>4. m % m = 0
    OBVIOUS
  <2> QED  BY <2>3, <2>4, <1>3 DEF r, s
<1> QED  BY <1>1, <1>2, <1>3

LEMMA ModulusPositive == Modulus \in Nat \ {0} /\ Family \in Subjects /\ Tids \subseteq Subjects
BY NetlinkAssumption, ScanAssumption DEF NetlinkAssumption, ScanAssumption

LEMMA ExchangeInit == NetlinkInit => ExchangeInv
BY ModulusPositive DEF NetlinkInit, ExchangeInv, Phases, Failure

\* A message the socket knows already is not that of a new request.
LEMMA OlderMessage ==
  ASSUME NEW m, requests \in Nat, Numbered(m), requests' = requests + 1,
         requests' - m.request < Modulus
  PROVE  Numbered(m)'
<1>1. m.request \in 1 .. requests /\ m.sequence = m.request % Modulus
  BY DEF Numbered
<1> QED  BY <1>1 DEF Numbered

LEMMA SendExchange ==
  ASSUME ExchangeInv, NEW about \in Subjects, Send(about) \/ SendFails(about)
  PROVE  ExchangeInv'
<1>1. requests' = requests + 1 /\ sequence' = (sequence + 1) % Modulus /\ inbox' = inbox
      /\ subject' = about /\ MaySend
  BY DEF Send, SendFails
<1>2. /\ requests \in Nat /\ requests' \in Nat /\ sequence = requests % Modulus
      /\ DOMAIN inbox = 1 .. Len(inbox) /\ \A ask \in asked : Numbered(ask)
      /\ \A i \in 1 .. Len(inbox) : Numbered(inbox[i])
  BY <1>1 DEF ExchangeInv
<1>7. sequence' = requests' % Modulus
  BY <1>1, <1>2, NextRemainder, ModulusPositive
<1>8. sequence' \in Nat
  <2>1. requests' % Modulus \in Nat
    BY <1>2, Division, ModulusPositive
  <2> QED  BY <2>1, <1>7
<1>3. \A ask \in asked : Numbered(ask)'
  <2> SUFFICES ASSUME NEW ask \in asked PROVE Numbered(ask)'
    OBVIOUS
  <2>1. Numbered(ask) /\ ask.request \in Nat
    BY <1>2 DEF Numbered
  <2>2. requests' - ask.request < Modulus
    BY <1>1, <1>2, <2>1, ModulusPositive DEF MaySend
  <2> QED  BY <2>1, <2>2, OlderMessage, <1>1, <1>2
<1>4. \A i \in 1 .. Len(inbox') : Numbered(inbox[i])'
  <2> SUFFICES ASSUME NEW i \in 1 .. Len(inbox) PROVE Numbered(inbox[i])'
    BY <1>1
  <2>1. Numbered(inbox[i]) /\ inbox[i].request \in Nat /\ inbox'[i] = inbox[i]
    BY <1>1, <1>2 DEF Numbered
  <2>2. requests' - inbox[i].request < Modulus
    BY <1>1, <1>2, <2>1, ModulusPositive DEF MaySend
  <2> QED  BY <2>1, <2>2, <1>1, <1>2 DEF Numbered
<1>5. asked' \in SUBSET AskType /\ \A ask \in asked' : Numbered(ask)'
  <2>1. CASE Send(about)
    <3> DEFINE new == Asks(sequence', requests', about)
    <3>1. asked' = asked \cup {new}
      BY <2>1 DEF Send
    <3>2. new \in AskType
      BY <1>2, <1>8 DEF Asks, AskType
    <3>3. new.request = requests' /\ new.sequence = sequence' /\ new.subject = subject'
      BY <1>1 DEF Asks
    <3> HIDE DEF new
    <3>4. \A ask \in asked' : ask = new => Numbered(ask)'
      BY <1>1, <1>2, <1>7, <3>3, ModulusPositive DEF Numbered
    <3> QED  BY <3>1, <3>2, <3>4, <1>3 DEF ExchangeInv
  <2>2. CASE SendFails(about)
    <3>1. asked' = asked
      BY <2>2 DEF SendFails
    <3> QED  BY <3>1, <1>3 DEF ExchangeInv
  <2> QED  BY <2>1, <2>2
<1>6. phase' \in Phases /\ answer'.outcome # "received"
  BY DEF Send, SendFails, Phases, Return, Failure, ExchangeInv
<1>9. inbox' \in Seq(MessageType)
  BY <1>1 DEF ExchangeInv
<1> QED  BY <1>2, <1>4, <1>5, <1>6, <1>7, <1>9 DEF ExchangeInv

LEMMA LoopExchange ==
  ASSUME ExchangeInv, Exchange
  PROVE  ExchangeInv'
<1> USE DEF ExchangeInv
<1>1. UNCHANGED <<sequence, requests, asked, subject>>
  BY DEF Exchange, SeeCanceled, SeeDeadline, Poll, PollTimeout, Interrupted, ReceiveFails, Receive,
         socketVars
<1>2. CASE Receive
  <2>1. inbox # << >> /\ inbox' = Tail(inbox) /\ phase = "polling"
    BY <1>2 DEF Receive
  <2>2. inbox' \in Seq(MessageType) /\ Len(inbox') = Len(inbox) - 1
        /\ \A i \in 1 .. Len(inbox') : inbox'[i] = inbox[i + 1]
    BY <2>1
  <2>3. \A i \in 1 .. Len(inbox') : Numbered(inbox[i])'
    <3> SUFFICES ASSUME NEW i \in 1 .. Len(inbox') PROVE Numbered(inbox[i])'
      OBVIOUS
    <3>1. inbox'[i] = inbox[i + 1] /\ i + 1 \in 1 .. Len(inbox) /\ Numbered(inbox[i + 1])
      BY <2>1, <2>2
    <3> QED  BY <3>1, <1>1 DEF Numbered
  <2>4. CASE Matches(Head(inbox))
    <3>1. Head(inbox) = inbox[1] /\ inbox[1] \in MessageType /\ Numbered(inbox[1])
      BY <2>1
    <3>2. answer' = Received(Head(inbox)) /\ phase' = "returned"
      BY <1>2, <2>4 DEF Receive, Return
    <3>3. inbox[1].request = requests
      <4> DEFINE r == inbox[1].request
      <4>1. r \in Nat /\ requests \in Nat /\ r <= requests /\ requests - r < Modulus
            /\ inbox[1].sequence = r % Modulus
        BY <3>1 DEF Numbered
      <4>2. r % Modulus = requests % Modulus
        BY <3>1, <2>4, <4>1 DEF Matches
      <4> HIDE DEF r
      <4> QED  BY <4>1, <4>2, ModulusPositive, SameNumberSameRequest DEF r
    <3>4. inbox[1].subject = subject
      BY <3>1, <3>3 DEF Numbered
    <3>5. asked' \in SUBSET AskType /\ \A ask \in asked' : Numbered(ask)'
      BY <1>1 DEF Numbered
    <3> QED  BY <3>1, <3>2, <3>3, <3>4, <3>5, <2>2, <2>3, <1>1 DEF Received, Phases
  <2>5. CASE ~Matches(Head(inbox))
    <3>1. phase' = "looping" /\ answer' = answer
      BY <1>2, <2>5 DEF Receive
    <3> QED  BY <3>1, <2>1, <2>2, <2>3, <1>1 DEF Phases, Numbered
  <2> QED  BY <2>4, <2>5
<1>3. CASE ~Receive
  <2>1. inbox' = inbox /\ phase' \in Phases
        /\ ((answer' = answer /\ phase # "returned") \/ answer'.outcome # "received")
    BY <1>3 DEF Exchange, SeeCanceled, SeeDeadline, Poll, PollTimeout, Interrupted, ReceiveFails,
                socketVars, Phases, Return, Failure
  <2> QED  BY <2>1, <1>1 DEF Numbered
<1> QED  BY <1>2, <1>3

LEMMA TakeExchange ==
  ASSUME ExchangeInv, Take
  PROVE  ExchangeInv'
BY DEF ExchangeInv, Take, Failure, Phases, socketVars, Numbered

LEMMA OpenExchange ==
  ASSUME ExchangeInv, Open
  PROVE  ExchangeInv'
<1> USE ModulusPositive DEF ExchangeInv
<1>1. sequence' = 1 % Modulus /\ requests' = 1 /\ inbox' = << >> /\ subject' = Family
      /\ asked' = {Asks(1 % Modulus, 1, Family)} /\ phase' = "looping" /\ answer' = answer /\ phase = "idle"
  BY DEF Open
<1>2. Asks(1 % Modulus, 1, Family) \in AskType /\ Numbered(Asks(1 % Modulus, 1, Family))'
  BY <1>1 DEF Asks, AskType, Numbered
<1> QED  BY <1>1, <1>2 DEF Phases

LEMMA KernelExchange ==
  ASSUME ExchangeInv, ReadInv, KernelAnswers
  PROVE  ExchangeInv'
<1>1. PICK ask \in asked :
        Drop(ask) \/ \E kind \in Kinds, content \in Nat : Answer(ask, kind, content)
  BY DEF KernelAnswers, Kinds, ReadInv, NoThread
<1>2. UNCHANGED <<sequence, requests, exchangeVars>> /\ asked' = asked \ {ask}
  BY <1>1 DEF Drop, Answer
<1>3. \A other \in asked : Numbered(other)'
  BY <1>2 DEF ExchangeInv, Numbered, exchangeVars
<1>4. \A i \in 1 .. Len(inbox) : inbox[i] \in MessageType /\ Numbered(inbox[i])
  BY DEF ExchangeInv
<1>5. inbox' \in Seq(MessageType) /\ \A i \in 1 .. Len(inbox') : Numbered(inbox[i])'
  <2>1. CASE Drop(ask)
    <3>1. inbox' = inbox
      BY <2>1 DEF Drop
    <3> QED  BY <3>1, <1>2, <1>4 DEF ExchangeInv, Numbered, exchangeVars
  <2>2. ASSUME NEW kind \in Kinds, NEW content \in Nat, Answer(ask, kind, content)
        PROVE  inbox' \in Seq(MessageType) /\ \A i \in 1 .. Len(inbox') : Numbered(inbox[i])'
    <3> DEFINE new == Answers(ask, kind, content)
    <3>1. inbox' = Append(inbox, new)
      BY <2>2 DEF Answer
    <3>2. ask \in AskType /\ Numbered(ask)
      BY DEF ExchangeInv
    <3>3. new \in MessageType /\ new.request = ask.request /\ new.sequence = ask.sequence
          /\ new.subject = ask.subject
      BY <3>2 DEF Answers, MessageType, AskType
    <3>4. inbox \in Seq(MessageType)
      BY DEF ExchangeInv
    <3> HIDE DEF new
    <3>5. inbox' \in Seq(MessageType) /\ Len(inbox') = Len(inbox) + 1
          /\ \A i \in 1 .. Len(inbox') : inbox'[i] = IF i <= Len(inbox) THEN inbox[i] ELSE new
      BY <3>1, <3>3, <3>4
    <3>6. ASSUME NEW i \in 1 .. Len(inbox') PROVE Numbered(inbox[i])'
      <4>1. CASE i <= Len(inbox)
        BY <4>1, <3>4, <3>5, <1>2, <1>4 DEF Numbered, exchangeVars
      <4>2. CASE ~(i <= Len(inbox))
        BY <4>2, <3>2, <3>3, <3>5, <1>2 DEF Numbered, exchangeVars
      <4> QED  BY <4>1, <4>2
    <3> QED  BY <3>5, <3>6
  <2> QED  BY <1>1, <2>1, <2>2
<1> QED  BY <1>2, <1>3, <1>5 DEF ExchangeInv, exchangeVars

LEMMA QuietExchange ==
  ASSUME ExchangeInv, UNCHANGED <<socketVars, subject, phase, answer>>
  PROVE  ExchangeInv'
BY DEF ExchangeInv, Numbered, socketVars

\* What a step does to the state of the exchange.
LEMMA StepExchange ==
  ASSUME ExchangeInv, ReadInv, [Next]_vars
  PROVE  ExchangeInv'
<1>1. CASE KernelAnswers
  BY <1>1, KernelExchange
<1>2. CASE TimePasses
  BY <1>2, QuietExchange DEF TimePasses, Delay, Cancel, exchangeVars
<1>3. CASE Open
  BY <1>3, OpenExchange
<1>4. CASE Opened \/ TaskstatsReturns
  BY <1>4, TakeExchange DEF Opened, TaskstatsReturns
<1>5. CASE AskTaskstats
  <2>1. read.tid \in Subjects
    BY <1>5, ModulusPositive DEF AskTaskstats, ReadInv, Reading
  <2> QED  BY <1>5, <2>1, SendExchange DEF AskTaskstats
<1>6. CASE Wait
  BY <1>6, LoopExchange DEF Wait
<1>7. CASE UNCHANGED netlinkVars
  BY <1>7, QuietExchange DEF netlinkVars, exchangeVars
<1> QED
  <2>1. CASE UNCHANGED vars
    BY <2>1, <1>7 DEF vars
  <2>2. CASE Scanner
    BY <2>2, <1>3, <1>4, <1>5, <1>6, <1>7
       DEF Scanner, OpenFails, List, ListFails, Pick, PickCanceled, EndScan, OpenFile, NoFileBefore,
           NoFileAfter, ReadVanished, ReadFails, ReadBefore, ReadSchedstat, ReadAfter, ReadFrame
  <2>3. CASE Snapshot \/ Exit \/ \E tid \in Tids : Begin(tid) \/ End(tid)
    BY <2>3, <1>7 DEF Snapshot, Exit, Begin, End, Ends
  <2> QED  BY <1>1, <1>2, <2>1, <2>2, <2>3 DEF Next

----------------------------------------------------------------------------
(* The scan *)

LEMMA FamilyIsNoTid == Family \notin Tids /\ Tids \subseteq Nat
BY ScanAssumption DEF ScanAssumption

\* A step after which no exchange runs keeps what is known of the answers.
LEMMA IdleAnswers ==
  ASSUME AnswerInv, UNCHANGED <<latest, inbox>>, phase' = "idle",
         answer' = answer \/ answer'.outcome # "received"
  PROVE  AnswerInv'
BY DEF AnswerInv, Past

\* A scan that fails, and the one of proc that takes its place, begin without anything read.
LEMMA FailScan ==
  ASSUME ScanInv, NEW reason, NEW gone, FailsWith(reason, gone), UNCHANGED inbox,
         phase' = "idle", answer' = answer \/ answer'.outcome # "received"
  PROVE  ScanInv'
<1> USE DEF ScanInv
<1>1. UNCHANGED <<latest, alive>> /\ read' = NoRead /\ todo' = {}
      /\ at' \in {"listing", "idle"} /\ source' \in Sources
  BY DEF FailsWith, threadVars, ReadInv, Sources
<1>2. ReadInv'
  BY <1>1 DEF ReadInv, NoRead, ReadType, Reading, Steps, NoThread
<1>3. AnswerInv'
  BY <1>1, IdleAnswers
<1>4. SampleInv'
  BY DEF FailsWith, SampleInv, sampleVars
<1> QED  BY <1>2, <1>3, <1>4

\* A step of a scan that does not use the socket.
LEMMA QuietAnswers ==
  ASSUME ScanInv, UNCHANGED <<netlinkVars, latest>>, phase = "idle"
  PROVE  AnswerInv'
BY IdleAnswers DEF ScanInv, netlinkVars, socketVars, exchangeVars

LEMMA MessagesTyped ==
  ASSUME ExchangeInv
  PROVE  \A i \in 1 .. Len(inbox) : inbox[i] \in MessageType /\ inbox[i].content \in Nat
<1>1. inbox \in Seq(MessageType)
  BY DEF ExchangeInv
<1>2. \A i \in 1 .. Len(inbox) : inbox[i] \in MessageType
  BY <1>1
<1> QED  BY <1>2 DEF MessageType

LEMMA ThreadsStep ==
  ASSUME ExchangeInv, ScanInv, Exit \/ \E tid \in Tids : Begin(tid) \/ End(tid)
  PROVE  ScanInv'
<1>1. UNCHANGED <<netlinkVars, source, readVars, sampleVars>>
  BY DEF Exit, Begin, End, Ends, scanVars
<1>2. latest' \in [Tids -> Nat] /\ alive' \in SUBSET Tids /\ (\A tid \in alive' : latest'[tid] > 0)
      /\ \A tid \in Tids : latest[tid] <= latest'[tid] /\ latest[tid] \in Nat
  <2>1. CASE Exit \/ \E tid \in Tids : End(tid)
    BY <2>1 DEF Exit, End, Ends, ScanInv, ReadInv
  <2>2. ASSUME NEW tid \in Tids, Begin(tid)
        PROVE  /\ latest' \in [Tids -> Nat] /\ alive' \in SUBSET Tids
               /\ \A t \in alive' : latest'[t] > 0
               /\ \A t \in Tids : latest[t] <= latest'[t] /\ latest[t] \in Nat
    BY <2>2 DEF Begin, ScanInv, ReadInv
  <2> QED  BY <2>1, <2>2
<1>3. ReadInv'
  <2>1. at \in Reading => read.tid \in Tids /\ read.file <= latest'[read.tid]
    BY <1>2 DEF ScanInv, ReadInv, ReadType
  <2>2. at \in {"counters", "after"} => read.before \in 1 .. latest'[read.tid]
    BY <1>2 DEF ScanInv, ReadInv, ReadType, Reading
  <2>3. at = "after" => read.counters <= latest'[read.tid]
    BY <1>2 DEF ScanInv, ReadInv, ReadType, Reading
  <2> QED  BY <1>1, <1>2, <2>1, <2>2, <2>3
           DEF ScanInv, ReadInv, readVars, netlinkVars, exchangeVars
<1>4. AnswerInv'
  <2>2. UNCHANGED <<inbox, answer, requests, subject, phase>>
    BY <1>1 DEF netlinkVars, socketVars, exchangeVars
  <2>3. ASSUME NEW i \in 1 .. Len(inbox) PROVE Past(inbox[i])'
    <3>1. inbox[i].content \in Nat /\ Past(inbox[i])
      BY MessagesTyped DEF ScanInv, AnswerInv
    <3> QED  BY <3>1, <2>2, <1>2 DEF Past
  <2>4. answer.outcome = "received" => Past(answer.message)'
    <3> SUFFICES ASSUME answer.outcome = "received" PROVE Past(answer.message)'
      OBVIOUS
    <3>1. answer.message.content \in Nat /\ Past(answer.message)
      BY DEF ExchangeInv, MessageType, ScanInv, AnswerInv
    <3> QED  BY <3>1, <2>2, <1>2 DEF Past
  <2> QED  BY <2>2, <2>3, <2>4, <1>1 DEF ScanInv, AnswerInv, Since, readVars
<1>5. SampleInv'
  BY <1>1 DEF ScanInv, SampleInv, sampleVars
<1> QED  BY <1>3, <1>4, <1>5 DEF ScanInv

LEMMA KernelStep ==
  ASSUME ExchangeInv, ScanInv, KernelAnswers
  PROVE  ScanInv'
<1>1. UNCHANGED <<threadVars, scanVars, requests, exchangeVars>>
  BY DEF KernelAnswers, Drop, Answer
<1>2. ReadInv' /\ SampleInv'
  BY <1>1 DEF ScanInv, ReadInv, SampleInv, threadVars, scanVars, readVars, sampleVars, exchangeVars
<1>3. CASE UNCHANGED inbox
  BY <1>1, <1>2, <1>3 DEF ScanInv, AnswerInv, Past, Since, threadVars, scanVars, readVars, exchangeVars
<1>4. ASSUME NEW ask \in asked, NEW kind \in Kinds, NEW content \in Nat,
             Answer(ask, kind, content),
             kind = "data" => ask.subject = Family \/ (ask.subject \in alive /\ content = latest[ask.subject])
      PROVE  AnswerInv'
  <2> DEFINE new == Answers(ask, kind, content)
  <2>1. inbox' = Append(inbox, new)
    BY <1>4 DEF Answer
  <2>2. ask \in AskType /\ Numbered(ask) /\ inbox \in Seq(MessageType)
    BY DEF ExchangeInv
  <2>3. new \in MessageType /\ new.request = ask.request /\ new.subject = ask.subject
        /\ new.kind = kind /\ new.content = content
    BY <2>2 DEF Answers, MessageType, AskType
  <2>4. Past(new)
    BY <2>3, <1>4, FamilyIsNoTid DEF Past, ScanInv, ReadInv
  <2>5. at = "counters" /\ phase # "idle" => Since(new)
    <3> SUFFICES ASSUME at = "counters", phase # "idle", new.kind = "data", new.request = requests
                 PROVE  read.before <= new.content
      BY DEF Since
    <3>1. ask.subject = read.tid /\ read.tid \in Tids
      BY <2>2, <2>3 DEF Numbered, ScanInv, AnswerInv, ReadInv, Reading
    <3>2. new.content = latest[read.tid]
      BY <3>1, <2>3, <1>4, FamilyIsNoTid
    <3> QED  BY <3>2 DEF ScanInv, ReadInv
  <2> HIDE DEF new
  <2>6. Len(inbox') = Len(inbox) + 1
        /\ \A i \in 1 .. Len(inbox') : inbox'[i] = IF i <= Len(inbox) THEN inbox[i] ELSE new
    BY <2>1, <2>2, <2>3
  <2>7. \A i \in 1 .. Len(inbox') : inbox'[i] = new \/ \E j \in 1 .. Len(inbox) : inbox'[i] = inbox[j]
    BY <2>2, <2>6
  <2>8. \A i \in 1 .. Len(inbox') : Past(inbox[i])'
    BY <2>4, <2>7, <1>1 DEF ScanInv, AnswerInv, Past, threadVars
  <2>9. at = "counters" /\ phase # "idle" => \A i \in 1 .. Len(inbox') : Since(inbox[i])'
    BY <2>5, <2>7, <1>1 DEF ScanInv, AnswerInv, Since, scanVars, readVars
  <2> QED  BY <2>8, <2>9, <1>1
           DEF ScanInv, AnswerInv, Past, Since, threadVars, scanVars, readVars, exchangeVars
<1>5. UNCHANGED inbox \/ \E ask \in asked, kind \in Kinds, content \in Nat :
        /\ Answer(ask, kind, content)
        /\ kind = "data" => ask.subject = Family \/ (ask.subject \in alive /\ content = latest[ask.subject])
  BY DEF KernelAnswers, Drop, Kinds, NoThread, ScanInv, ReadInv
<1> QED  BY <1>2, <1>3, <1>4, <1>5 DEF ScanInv

\* The loop of exchange, on behalf of the scan.
LEMMA WaitStep ==
  ASSUME ExchangeInv, ScanInv, Wait
  PROVE  ScanInv'
<1>1. UNCHANGED <<threadVars, backendVars, scanVars, requests, subject>> /\ phase \in {"looping", "polling"}
  BY DEF Wait, Exchange, SeeCanceled, SeeDeadline, Poll, PollTimeout, Interrupted, ReceiveFails,
         Receive, socketVars
<1>2. ReadInv' /\ SampleInv'
  BY <1>1 DEF ScanInv, ReadInv, SampleInv, threadVars, scanVars, readVars, sampleVars
<1>3. CASE Receive
  <2>1. inbox # << >> /\ inbox' = Tail(inbox) /\ inbox \in Seq(MessageType)
    BY <1>3 DEF Receive, ExchangeInv
  <2>2. Len(inbox') = Len(inbox) - 1
        /\ \A i \in 1 .. Len(inbox') : inbox'[i] = inbox[i + 1] /\ i + 1 \in 1 .. Len(inbox)
    BY <2>1
  <2>3. (answer' = answer \/ answer' = Received(inbox[1])) /\ 1 \in 1 .. Len(inbox)
    BY <1>3, <2>1 DEF Receive, Return
  <2>4. \A i \in 1 .. Len(inbox') : Past(inbox[i])'
    BY <2>2, <1>1 DEF ScanInv, AnswerInv, Past, threadVars
  <2>5. at = "counters" => \A i \in 1 .. Len(inbox') : Since(inbox[i])'
    BY <2>2, <1>1 DEF ScanInv, AnswerInv, Since, scanVars, readVars
  <2>6. answer'.outcome = "received" => Past(answer.message)'
    BY <2>3, <1>1 DEF ScanInv, AnswerInv, Past, threadVars, Received
  <2>7. at = "counters" /\ answer'.outcome = "received" => Since(answer.message)'
    BY <2>3, <1>1 DEF ScanInv, AnswerInv, Since, scanVars, readVars, Received
  <2> QED  BY <2>4, <2>5, <2>6, <2>7, <1>1, <1>2 DEF ScanInv, AnswerInv, scanVars, readVars
<1>4. CASE ~Receive
  <2>1. inbox' = inbox /\ (answer' = answer \/ answer'.outcome # "received")
    BY <1>4 DEF Wait, Exchange, SeeCanceled, SeeDeadline, Poll, PollTimeout, Interrupted, ReceiveFails,
                socketVars, Return, Failure
  <2> QED  BY <2>1, <1>1, <1>2 DEF ScanInv, AnswerInv, Past, Since, threadVars, scanVars, readVars
<1> QED  BY <1>3, <1>4

\* The steps at the start of a scan.
LEMMA StartStep ==
  ASSUME ExchangeInv, ScanInv, Snapshot \/ Open \/ Opened \/ OpenFails \/ List \/ ListFails
  PROVE  ScanInv'
<1> USE DEF ScanInv
<1>1. CASE Snapshot
  <2>1. phase = "idle" /\ UNCHANGED <<netlinkVars, latest>>
    BY <1>1 DEF Snapshot, ReadInv
  <2>2. AnswerInv'
    BY <2>1, QuietAnswers
  <2>3. ReadInv' /\ SampleInv'
    BY <1>1, <2>1 DEF Snapshot, ReadInv, SampleInv, Steps, Sources, Reading, netlinkVars, exchangeVars
  <2> QED  BY <2>2, <2>3
<1>2. CASE Open
  <2>1. UNCHANGED <<threadVars, scanVars, answer>> /\ at = "opening" /\ inbox' = << >> /\ phase = "idle"
    BY <1>2 DEF Open
  <2>2. ReadInv' /\ SampleInv'
    BY <2>1 DEF ReadInv, SampleInv, threadVars, scanVars, readVars, sampleVars
  <2>3. AnswerInv'
    BY <2>1 DEF AnswerInv, ExchangeInv, scanVars, readVars
  <2> QED  BY <2>2, <2>3
<1>3. CASE Opened
  <2>1. Take /\ at = "opening" /\ phase' = "idle" /\ answer'.outcome # "received" /\ UNCHANGED inbox
    BY <1>3 DEF Opened, Take, Failure, socketVars
  <2>2. CASE HasData
    <3>1. at' = "listing" /\ UNCHANGED <<threadVars, source, todo, read, sampleVars>>
      BY <1>3, <2>2 DEF Opened
    <3>2. AnswerInv'
      BY <2>1, <3>1, IdleAnswers DEF threadVars
    <3>3. ReadInv' /\ SampleInv'
      BY <2>1, <3>1 DEF ReadInv, SampleInv, threadVars, sampleVars, Steps, Reading
    <3> QED  BY <3>2, <3>3
  <2>3. CASE ~HasData
    BY <1>3, <2>1, <2>3, FailScan DEF Opened, CallFails
  <2> QED  BY <2>2, <2>3
<1>4. CASE OpenFails \/ ListFails
  BY <1>4, FailScan DEF OpenFails, ListFails, ReadInv, netlinkVars, socketVars, exchangeVars
<1>5. CASE List
  <2>1. phase = "idle" /\ UNCHANGED <<netlinkVars, threadVars, source, read, sampleVars>>
        /\ at = "listing" /\ at' = "picking" /\ todo' \in SUBSET Tids
    BY <1>5 DEF List, ReadInv
  <2>2. AnswerInv'
    BY <2>1, QuietAnswers DEF threadVars
  <2>3. ReadInv' /\ SampleInv'
    BY <2>1 DEF ReadInv, SampleInv, threadVars, sampleVars, Steps, Reading, netlinkVars, exchangeVars
  <2> QED  BY <2>2, <2>3
<1> QED  BY <1>1, <1>2, <1>3, <1>4, <1>5

\* A read that is begun again, or given up.
LEMMA AgainStep ==
  ASSUME ScanInv, read.tid \in Tids, Retry \/ GiveUp, phase' = "idle",
         UNCHANGED <<threadVars, source, todo, sampleVars, inbox>>,
         answer' = answer \/ answer'.outcome # "received"
  PROVE  ScanInv'
<1>1. ReadInv'
  <2>1. at' \in {"picking", "before"} /\ read' \in ReadType /\ read'.file = NoThread
        /\ (at' = "before" => read'.tid = read.tid)
    <3>1. CASE GiveUp
      BY <3>1 DEF GiveUp, NoRead, ReadType, NoThread
    <3>2. CASE Retry /\ ~GiveUp
      <4>1. at' = "before" /\ read' = [NoRead EXCEPT !.tid = read.tid, !.attempt = 2]
        BY <3>2 DEF Retry
      <4>2. read' = [tid |-> read.tid, attempt |-> 2, file |-> NoThread, before |-> NoThread,
                     counters |-> NoThread]
        BY <4>1 DEF NoRead
      <4>3. read' \in ReadType /\ read'.file = NoThread /\ read'.tid = read.tid
        BY <4>2 DEF ReadType, NoThread
      <4> QED  BY <4>1, <4>3
    <3> QED  BY <3>1, <3>2
  <2> QED  BY <2>1 DEF ScanInv, ReadInv, threadVars, Steps, Reading, NoThread
<1>2. AnswerInv'
  BY IdleAnswers DEF ScanInv, threadVars
<1>3. SampleInv'
  BY DEF ScanInv, SampleInv, sampleVars
<1> QED  BY <1>1, <1>2, <1>3 DEF ScanInv

\* The steps that read files.
LEMMA FileStep ==
  ASSUME ScanInv, OpenFile \/ NoFileBefore \/ NoFileAfter \/ ReadVanished \/ ReadFails \/ ReadBefore
  PROVE  ScanInv'
<1> USE DEF ScanInv
<1>1. phase = "idle" /\ UNCHANGED <<netlinkVars, threadVars>>
  <2>1. CASE ReadVanished \/ ReadFails
    <3>1. read.file # NoThread /\ UNCHANGED <<netlinkVars, threadVars>>
      BY <2>1 DEF ReadVanished, ReadFails, CanRead, FailsWith
    <3> QED  BY <3>1 DEF ReadInv, Reading
  <2>2. CASE OpenFile \/ ReadBefore
    BY <2>2 DEF OpenFile, ReadBefore, ReadFrame, ReadInv
  <2>3. CASE NoFileBefore \/ NoFileAfter
    BY <2>3 DEF NoFileBefore, NoFileAfter, ReadFrame, ReadInv
  <2> QED  BY <2>1, <2>2, <2>3
<1>2. UNCHANGED <<inbox, answer, latest>> /\ phase' = "idle"
  BY <1>1 DEF netlinkVars, socketVars, exchangeVars, threadVars
<1>3. CASE ReadVanished \/ ReadFails
  BY <1>2, <1>3, FailScan DEF ReadVanished, ReadFails
<1>4. CASE NoFileBefore \/ NoFileAfter
  <2>1. read.tid \in Tids
    BY <1>4 DEF NoFileBefore, NoFileAfter, ReadInv, Reading
  <2>2. UNCHANGED <<threadVars, source, todo, sampleVars>> /\ (Retry \/ GiveUp)
    BY <1>4 DEF NoFileBefore, NoFileAfter, ReadFrame
  <2> QED  BY <2>1, <2>2, <1>2, AgainStep
<1>5. CASE OpenFile
  <2>1. at \in Reading /\ at' = at /\ UNCHANGED <<source, todo, sampleVars>> /\ read.tid \in alive
        /\ read' = [read EXCEPT !.file = latest[read.tid]] /\ latest[read.tid] # NoThread
        /\ (at = "counters" => source = "proc")
    BY <1>5 DEF OpenFile, ReadFrame, Reading, ThreadOf
  <2>2. read' \in ReadType /\ read'.file = latest[read.tid] /\ read'.tid = read.tid
        /\ read'.before = read.before /\ read'.counters = read.counters
    BY <2>1 DEF ReadInv, ReadType
  <2>3. ReadInv'
    BY <2>1, <2>2, <1>1 DEF ReadInv, ReadType, Reading, threadVars, netlinkVars, exchangeVars
  <2>4. AnswerInv' /\ SampleInv'
    BY <2>1, <1>1, QuietAnswers DEF SampleInv, sampleVars, threadVars
  <2> QED  BY <2>3, <2>4
<1>6. CASE ReadBefore
  <2>1. at = "before" /\ at' = "counters" /\ UNCHANGED <<source, todo, sampleVars>>
        /\ read' = [read EXCEPT !.before = read.file, !.file = NoThread] /\ read.file # NoThread
    BY <1>6 DEF ReadBefore, CanRead, ReadFrame
  <2>2. read' \in ReadType /\ read'.file = NoThread /\ read'.tid = read.tid /\ read'.before = read.file
    BY <2>1 DEF ReadInv, ReadType, NoThread
  <2>3. read.tid \in Tids /\ read.file \in 1 .. latest[read.tid]
    BY <2>1 DEF ReadInv, ReadType, Reading, NoThread
  <2>4. ReadInv'
    BY <2>1, <2>2, <2>3, <1>1, <1>2 DEF ReadInv, Reading, Steps, threadVars, NoThread
  <2>5. AnswerInv' /\ SampleInv'
    BY <2>1, <1>1, QuietAnswers DEF SampleInv, sampleVars, threadVars
  <2> QED  BY <2>4, <2>5
<1> QED  BY <1>3, <1>4, <1>5, <1>6

\* The steps that read counters.
LEMMA CountersStep ==
  ASSUME ExchangeInv, ScanInv, ReadSchedstat \/ AskTaskstats \/ TaskstatsReturns
  PROVE  ScanInv'
<1> USE DEF ScanInv
<1>0. at = "counters" /\ read.tid \in Tids /\ read \in ReadType
      /\ read.before \in 1 .. latest[read.tid] /\ latest[read.tid] \in Nat
  BY DEF ReadSchedstat, AskTaskstats, TaskstatsReturns, ReadInv, Reading
<1>1. CASE ReadSchedstat
  <2>1. phase = "idle" /\ UNCHANGED <<netlinkVars, threadVars, source, todo, sampleVars>> /\ source = "proc"
        /\ at' = "after" /\ read' = [read EXCEPT !.counters = read.file, !.file = NoThread]
    BY <1>1 DEF ReadSchedstat, ReadFrame, ReadInv
  <2>2. read' \in ReadType /\ read'.counters = read.file /\ read'.file = NoThread
        /\ read'.tid = read.tid /\ read'.before = read.before
    BY <2>1, <1>0 DEF ReadType, NoThread
  <2>3. read.file <= latest[read.tid] /\ (read.file # NoThread => read.before <= read.file)
    BY <1>0 DEF ReadInv, Reading
  <2>4. ReadInv'
    BY <2>1, <2>2, <2>3, <1>0 DEF ReadInv, threadVars, Steps, Reading, NoThread, netlinkVars, exchangeVars
  <2>5. AnswerInv' /\ SampleInv'
    BY <2>1, QuietAnswers DEF SampleInv, sampleVars, threadVars
  <2> QED  BY <2>4, <2>5
<1>2. CASE AskTaskstats
  <2>1. UNCHANGED <<threadVars, scanVars, inbox>> /\ source = "taskstats" /\ requests' = requests + 1
        /\ subject' = read.tid /\ phase = "idle" /\ (answer' = answer \/ answer'.outcome # "received")
    BY <1>2 DEF AskTaskstats, Send, SendFails, Return, Failure
  <2>2. ReadInv' /\ SampleInv'
    BY <2>1, <1>0 DEF ReadInv, SampleInv, threadVars, scanVars, readVars, sampleVars
  <2>3. answer'.outcome # "received"
    BY <2>1 DEF ExchangeInv
  <2>4. \A i \in 1 .. Len(inbox) : Since(inbox[i])'
    <3> SUFFICES ASSUME NEW i \in 1 .. Len(inbox) PROVE inbox[i].request # requests'
      BY <2>1 DEF Since
    <3>1. inbox[i].request \in 1 .. requests /\ requests \in Nat
      BY DEF ExchangeInv, Numbered
    <3> QED  BY <3>1, <2>1
  <2> QED  BY <2>1, <2>2, <2>3, <2>4 DEF AnswerInv, Past, threadVars, scanVars, readVars
<1>3. CASE TaskstatsReturns
  <2>1. Take /\ phase = "returned" /\ phase' = "idle" /\ answer'.outcome # "received" /\ UNCHANGED inbox
        /\ source = "taskstats"
    BY <1>3 DEF TaskstatsReturns, Take, Failure, socketVars
  <2>2. CASE Counts
    <3> DEFINE content == answer.message.content
    <3>1. at' = "after" /\ read' = [read EXCEPT !.counters = content]
          /\ UNCHANGED <<threadVars, source, todo, sampleVars>>
      BY <1>3, <2>2 DEF TaskstatsReturns, Missing, Counts, HasData
    <3>2. content \in Nat
      BY <2>2 DEF Counts, HasData, ExchangeInv, MessageType
    <3>3. read.before <= content /\ content <= latest[read.tid]
      BY <1>0, <2>1, <2>2 DEF Counts, HasData, AnswerInv, Past, Since, ExchangeInv
    <3> HIDE DEF content
    <3>4. read' \in ReadType /\ read'.counters = content /\ read'.tid = read.tid
          /\ read'.before = read.before /\ read'.file = read.file
      BY <3>1, <3>2, <1>0 DEF ReadType
    <3>5. read.file = NoThread
      BY <1>0, <2>1 DEF ReadInv
    <3>6. ReadInv'
      BY <3>1, <3>2, <3>3, <3>4, <3>5, <2>1, <1>0 DEF ReadInv, threadVars, Steps, Reading, NoThread
    <3>7. AnswerInv' /\ SampleInv'
      BY <3>1, <2>1, IdleAnswers DEF SampleInv, sampleVars, threadVars
    <3> QED  BY <3>6, <3>7
  <2>3. CASE Missing
    BY <1>0, <1>3, <2>1, <2>3, AgainStep DEF TaskstatsReturns, Missing, Counts, HasData
  <2>4. CASE ~Counts /\ ~Missing
    BY <1>3, <2>1, <2>4, FailScan DEF TaskstatsReturns, CallFails
  <2> QED  BY <2>2, <2>3, <2>4
<1> QED  BY <1>1, <1>2, <1>3

\* The step that takes a sample: between two reads of the same thread there is no other.
LEMMA SampleStep ==
  ASSUME ScanInv, ReadAfter
  PROVE  ScanInv'
<1> USE DEF ScanInv
<1>0. at = "after" /\ read.tid \in Tids /\ phase = "idle" /\ read \in ReadType
      /\ UNCHANGED <<netlinkVars, threadVars, source, todo>> /\ read.file # NoThread
  BY DEF ReadAfter, CanRead, ReadInv, Reading
<1>1. CASE Stable
  <2>1. at' = "picking" /\ read' = NoRead
    BY <1>1 DEF ReadAfter
  <2>2. read.counters \in {NoThread, read.file} /\ (source = "taskstats" => read.counters = read.file)
    BY <1>0, <1>1 DEF Stable, ReadInv, ReadType, NoThread
  <2>3. SampleInv'
    BY <2>2, <1>1 DEF ReadAfter, SampleInv, Sample
  <2>4. ReadInv'
    BY <2>1, <1>0 DEF ReadInv, NoRead, ReadType, threadVars, Reading, Steps, NoThread, netlinkVars,
                      exchangeVars
  <2>5. AnswerInv'
    BY <1>0, QuietAnswers DEF threadVars
  <2> QED  BY <2>3, <2>4, <2>5
<1>2. CASE ~Stable
  BY <1>0, <1>2, AgainStep DEF ReadAfter, sampleVars, netlinkVars, socketVars, exchangeVars
<1> QED  BY <1>1, <1>2

LEMMA PickStep ==
  ASSUME ScanInv, PickCanceled \/ EndScan \/ \E tid \in Tids : Pick(tid)
  PROVE  ScanInv'
<1> USE DEF ScanInv
<1>0. at = "picking" /\ phase = "idle" /\ UNCHANGED <<netlinkVars, threadVars>>
  BY DEF PickCanceled, EndScan, Pick, FailsWith, ReadInv
<1>1. CASE PickCanceled
  BY <1>0, <1>1, FailScan DEF PickCanceled, netlinkVars, socketVars, exchangeVars
<1>2. CASE EndScan
  <2>1. UNCHANGED <<todo, read, sampleVars>> /\ at' \in {"listing", "idle"} /\ source' \in Sources
    BY <1>2 DEF EndScan, ReadInv, Sources
  <2>2. ReadInv' /\ SampleInv'
    BY <2>1, <1>0 DEF ReadInv, SampleInv, sampleVars, threadVars, Reading, Steps, netlinkVars, exchangeVars
  <2> QED  BY <2>2, <1>0, QuietAnswers DEF threadVars
<1>3. ASSUME NEW tid \in Tids, Pick(tid) PROVE ScanInv'
  <2>1. UNCHANGED <<source, sampleVars>> /\ todo' = todo \ {tid} /\ at' = "before"
        /\ read' = [NoRead EXCEPT !.tid = tid]
    BY <1>3 DEF Pick
  <2>2. read' \in ReadType /\ read'.file = NoThread /\ read'.tid = tid
    BY <2>1 DEF NoRead, ReadType, NoThread
  <2>3. ReadInv' /\ SampleInv'
    BY <2>1, <2>2, <1>0 DEF ReadInv, SampleInv, sampleVars, threadVars, Reading, Steps, NoThread,
                            netlinkVars, exchangeVars
  <2> QED  BY <2>3, <1>0, QuietAnswers DEF threadVars
<1> QED  BY <1>1, <1>2, <1>3

LEMMA StepScan ==
  ASSUME ExchangeInv, ScanInv, [Next]_vars
  PROVE  ScanInv'
<1>1. CASE UNCHANGED vars \/ TimePasses
  <2>1. UNCHANGED <<threadVars, scanVars, inbox, requests, subject, phase, answer>>
    BY <1>1 DEF vars, TimePasses, Delay, Cancel, netlinkVars, socketVars, exchangeVars
  <2> QED  BY <2>1 DEF ScanInv, ReadInv, AnswerInv, SampleInv, Past, Since, threadVars, scanVars,
                       readVars, sampleVars
<1>2. CASE Scanner
  BY <1>2, StartStep, FileStep, CountersStep, SampleStep, PickStep, WaitStep DEF Scanner
<1>3. CASE Snapshot \/ KernelAnswers \/ Exit \/ \E tid \in Tids : Begin(tid) \/ End(tid)
  BY <1>3, StartStep, KernelStep, ThreadsStep
<1> QED  BY <1>1, <1>2, <1>3 DEF Next

----------------------------------------------------------------------------
(* The theorems *)

\* The two inductive invariants of a scan and of the exchange it waits for.
THEOREM ScanInvariant == Spec => [](ExchangeInv /\ ScanInv)
<1>1. Init => ExchangeInv /\ ScanInv
  <2> SUFFICES ASSUME Init PROVE ExchangeInv /\ ScanInv
    OBVIOUS
  <2>1. ExchangeInv
    BY ExchangeInit DEF Init
  <2>2. ReadInv
    BY DEF Init, ReadInv, ReadType, NoRead, Steps, Sources, Reading, NoThread, NetlinkInit
  <2>3. AnswerInv /\ SampleInv
    BY DEF Init, AnswerInv, SampleInv, NetlinkInit, Failure
  <2> QED  BY <2>1, <2>2, <2>3 DEF ScanInv
<1>2. ExchangeInv /\ ScanInv /\ [Next]_vars => (ExchangeInv /\ ScanInv)'
  BY StepExchange, StepScan DEF ScanInv
<1> QED  BY <1>1, <1>2, PTL DEF Spec

\* An exchange returns the kernel's answer to its own request, for every count of sequence
\* numbers, any number of requests that are given up and any order of their answers
\* (parseNetlinkResponse, exchange).
THEOREM AnswersOwn == Spec => []AnswersAreOwn
<1>1. ExchangeInv => AnswersAreOwn
  BY DEF ExchangeInv, AnswersAreOwn
<1> QED  BY <1>1, ScanInvariant, PTL

\* The counters of a sample are those of the thread that the sample names, however often its
\* TID is reused (readStableTask, readStableThreadSample, mergeSnapshots).
THEOREM CountersOfTheirThread == Spec => []CountersAreOfTheirThread
<1>1. ScanInv => CountersAreOfTheirThread
  BY DEF ScanInv, SampleInv, CountersAreOfTheirThread, MergedSamples, Thread, NoThread
<1> QED  BY <1>1, ScanInvariant, PTL

----------------------------------------------------------------------------
(* The threads that live as long as the scan *)

\* An answer to the current request that the thread exists.
IsThere(m) == m.request = requests => m.kind # "ESRCH"

\* A thread that has lived since the scan began keeps its TID.
LifeInv == \A t \in steady : t.tid \in alive /\ t = Thread(t.tid, latest[t.tid])

\* Which backend scans, and which is left.
SourceInv ==
  /\ target.backend \in {"proc", "taskstats", "hybrid"}
  /\ disabled \in BOOLEAN /\ disabled => target.backend = "hybrid"
  /\ at # "idle" => /\ result = "none"
                    /\ target.backend = "proc" \/ disabled => source = "proc"
                    /\ target.backend = "taskstats" => source = "taskstats"

IsSteady(tid) == \E t \in steady : t.tid = tid

\* What has been read of a steady thread is its own, and the kernel has not said that it does
\* not exist.
HoldInv ==
  /\ at \in Reading /\ IsSteady(read.tid) =>
       /\ read.file \in {NoThread, latest[read.tid]}
       /\ at # "before" => read.before = latest[read.tid]
       /\ at = "after" /\ source = "proc" /\ target.schedstat => read.counters # NoThread
  /\ at = "counters" /\ phase # "idle" /\ IsSteady(read.tid) =>
       /\ \A i \in 1 .. Len(inbox) : IsThere(inbox[i])
       /\ answer.outcome = "received" => IsThere(answer.message)

HasStats(t) == \E s \in stats : Thread(s.tid, s.ticks) = t
IsFound(t) ==
  \E s \in found : Thread(s.tid, s.ticks) = t /\ (target.schedstat => s.counters # NoThread)
Seen(t) == IF source = "taskstats" THEN HasStats(t) ELSE IsFound(t)

\* A steady thread is still to be read, being read, or seen.
SeenInv ==
  /\ at \in {"picking"} \cup Reading =>
       \A t \in steady : t.tid \in todo \/ Seen(t) \/ (at \in Reading /\ t.tid = read.tid)
  /\ at # "idle" /\ source = "proc" /\ target.backend = "hybrid" /\ ~disabled =>
       \A t \in steady : HasStats(t)
  /\ result = "ok" =>
       \A t \in steady : /\ target.backend # "proc" /\ ~disabled => HasStats(t)
                         /\ target.backend # "taskstats" => IsFound(t)

SteadyInv == LifeInv /\ SourceInv /\ HoldInv /\ SeenInv

LEMMA SteadyLives ==
  ASSUME ReadInv, LifeInv, NEW tid, IsSteady(tid)
  PROVE  /\ tid \in alive /\ tid \in Tids /\ ThreadOf(tid) = latest[tid]
         /\ latest[tid] # NoThread /\ latest[tid] \in Nat
<1>1. tid \in alive
  BY DEF LifeInv, IsSteady
<1> QED  BY <1>1 DEF ReadInv, ThreadOf, NoThread

\* Threads begin and end.
LEMMA ThreadsSteady ==
  ASSUME ReadInv, SteadyInv, Exit \/ \E tid \in Tids : Begin(tid) \/ End(tid)
  PROVE  SteadyInv'
<1>1. UNCHANGED <<netlinkVars, backendVars, scanVars>>
  BY DEF Exit, Begin, End, Ends
<1>2. steady' \subseteq steady /\ \A t \in steady' : t.tid \in alive' /\ latest'[t.tid] = latest[t.tid]
  <2>1. CASE Exit \/ \E tid \in Tids : End(tid)
    BY <2>1 DEF Exit, End, Ends, SteadyInv, LifeInv
  <2>2. CASE \E tid \in Tids : Begin(tid)
    BY <2>2 DEF Begin, SteadyInv, LifeInv, ReadInv
  <2> QED  BY <2>1, <2>2
<1>3. LifeInv'
  BY <1>2 DEF SteadyInv, LifeInv
<1>4. \A tid : IsSteady(tid)' => IsSteady(tid) /\ latest'[tid] = latest[tid]
  BY <1>2 DEF IsSteady
<1>5. UNCHANGED <<source, at, todo, read, stats, found, result, target, disabled, requests, phase, inbox, answer>>
  BY <1>1 DEF netlinkVars, socketVars, exchangeVars, backendVars, scanVars, readVars, sampleVars
<1>6. SourceInv'
  BY <1>5 DEF SteadyInv, SourceInv
<1>7. HoldInv'
  BY <1>4, <1>5 DEF SteadyInv, HoldInv, IsThere
<1>8. SeenInv'
  BY <1>2, <1>5 DEF SteadyInv, SeenInv, Seen, HasStats, IsFound
<1> QED  BY <1>3, <1>6, <1>7, <1>8 DEF SteadyInv

\* A scan that fails does not say that it has found the threads.
LEMMA FailSteady ==
  ASSUME SteadyInv, NEW reason, reason # "ok", NEW gone, FailsWith(reason, gone), at # "idle"
  PROVE  SteadyInv'
<1>1. UNCHANGED threadVars /\ UNCHANGED target
  BY DEF FailsWith
<1>2. \/ at' = "listing" /\ source' = "proc" /\ disabled' = TRUE /\ result' = result
         /\ target.backend = "hybrid"
      \/ at' = "idle" /\ result' = reason /\ disabled' = disabled
  BY DEF FailsWith
<1>3. LifeInv'
  BY <1>1 DEF SteadyInv, LifeInv, threadVars
<1>4. SourceInv'
  BY <1>1, <1>2 DEF SteadyInv, SourceInv
<1>5. HoldInv'
  BY <1>2 DEF HoldInv, Reading
<1>6. SeenInv'
  BY <1>2 DEF SteadyInv, SeenInv, SourceInv, Reading
<1> QED  BY <1>3, <1>4, <1>5, <1>6 DEF SteadyInv

\* A step of the exchange, or of the kernel: what counts is what the messages say.
LEMMA MessagesSteady ==
  ASSUME SteadyInv, UNCHANGED <<threadVars, backendVars, scanVars>>,
         at = "counters" /\ phase' # "idle" /\ IsSteady(read.tid) =>
           /\ \A i \in 1 .. Len(inbox') : IsThere(inbox[i])'
           /\ answer'.outcome = "received" => IsThere(answer.message)'
  PROVE  SteadyInv'
<1>1. UNCHANGED <<source, at, todo, read, stats, found, result, target, disabled, steady, alive, latest>>
  BY DEF backendVars, scanVars, readVars, sampleVars, threadVars
<1>2. LifeInv' /\ SourceInv' /\ SeenInv'
  BY <1>1 DEF SteadyInv, LifeInv, SourceInv, SeenInv, Seen, HasStats, IsFound
<1>3. HoldInv'
  BY <1>1 DEF SteadyInv, HoldInv, IsSteady, IsThere
<1> QED  BY <1>2, <1>3 DEF SteadyInv

\* A thread that is read again, or given up, is not a steady one.
LEMMA AgainSteady ==
  ASSUME SteadyInv, at \in Reading, ~IsSteady(read.tid), Retry \/ GiveUp,
         UNCHANGED <<threadVars, backendVars, source, todo, sampleVars, result>>
  PROVE  SteadyInv'
<1>1. UNCHANGED <<source, todo, stats, found, result, target, disabled, steady, alive, latest>>
  BY DEF backendVars, sampleVars, threadVars
<1>2. at' = "picking" \/ (at' = "before" /\ read'.tid = read.tid)
  BY DEF Retry, GiveUp, NoRead
<1>3. LifeInv'
  BY <1>1 DEF SteadyInv, LifeInv
<1>4. SourceInv'
  BY <1>1, <1>2 DEF SteadyInv, SourceInv, Reading
<1>5. HoldInv'
  BY <1>1, <1>2 DEF HoldInv, IsSteady, Reading
<1>6. SeenInv'
  <2>1. \A t \in steady : t.tid \in todo \/ Seen(t)
    BY DEF SteadyInv, SeenInv, IsSteady
  <2>2. \A t : Seen(t)' = Seen(t) /\ HasStats(t)' = HasStats(t) /\ IsFound(t)' = IsFound(t)
    BY <1>1 DEF Seen, HasStats, IsFound
  <2>3. at # "idle"
    BY DEF Reading
  <2> QED  BY <1>1, <2>1, <2>2, <2>3 DEF SteadyInv, SeenInv
<1> QED  BY <1>3, <1>4, <1>5, <1>6 DEF SteadyInv


\* The kernel says that a thread does not exist only when it does not.
LEMMA KernelSteady ==
  ASSUME ExchangeInv, ScanInv, SteadyInv, KernelAnswers
  PROVE  SteadyInv'
<1>1. UNCHANGED <<threadVars, backendVars, scanVars, requests, phase, answer>>
  BY DEF KernelAnswers, Drop, Answer, exchangeVars
<1>2. PICK ask \in asked, kind \in Kinds, content \in Nat :
        /\ Drop(ask) \/ Answer(ask, kind, content)
        /\ kind = "ESRCH" => ask.subject \in Tids \ alive
  BY DEF KernelAnswers, Kinds, NoThread, ScanInv, ReadInv
<1>3. ASSUME at = "counters", phase # "idle", IsSteady(read.tid), NEW i \in 1 .. Len(inbox')
      PROVE  IsThere(inbox[i])'
  <2>1. ask \in AskType /\ Numbered(ask) /\ inbox \in Seq(MessageType)
    BY DEF ExchangeInv
  <2>2. subject = read.tid /\ read.tid \in alive
    BY <1>3, SteadyLives DEF ScanInv, AnswerInv, SteadyInv
  <2>3. requests' = requests
    BY <1>1
  <2>4. CASE Drop(ask)
    BY <1>3, <2>3, <2>4 DEF Drop, SteadyInv, HoldInv, IsThere
  <2>5. CASE Answer(ask, kind, content)
    <3> DEFINE new == Answers(ask, kind, content)
    <3>1. inbox' = Append(inbox, new)
      BY <2>5 DEF Answer
    <3>2. new \in MessageType /\ new.request = ask.request /\ new.kind = kind
      BY <2>1 DEF Answers, MessageType, AskType
    <3>3. ask.request = requests => kind # "ESRCH"
      BY <1>2, <2>1, <2>2 DEF Numbered
    <3> HIDE DEF new
    <3>4. inbox'[i] = new \/ (i \in 1 .. Len(inbox) /\ inbox'[i] = inbox[i])
      BY <1>3, <2>1, <3>1, <3>2
    <3> QED  BY <1>3, <2>3, <3>2, <3>3, <3>4 DEF SteadyInv, HoldInv, IsThere
  <2> QED  BY <1>2, <2>4, <2>5
<1>4. at = "counters" /\ phase' # "idle" /\ IsSteady(read.tid) /\ answer'.outcome = "received"
        => IsThere(answer.message)'
  BY <1>1 DEF SteadyInv, HoldInv, IsThere
<1> QED  BY <1>1, <1>3, <1>4, MessagesSteady

LEMMA WaitSteady ==
  ASSUME ExchangeInv, SteadyInv, Wait
  PROVE  SteadyInv'
<1>1. UNCHANGED <<threadVars, backendVars, scanVars, requests>> /\ phase \in {"looping", "polling"}
  BY DEF Wait, Exchange, SeeCanceled, SeeDeadline, Poll, PollTimeout, Interrupted, ReceiveFails,
         Receive, socketVars
<1>2. CASE Receive
  <2>1. inbox # << >> /\ inbox' = Tail(inbox) /\ inbox \in Seq(MessageType)
    BY <1>2 DEF Receive, ExchangeInv
  <2>2. Len(inbox') = Len(inbox) - 1
        /\ \A i \in 1 .. Len(inbox') : inbox'[i] = inbox[i + 1] /\ i + 1 \in 1 .. Len(inbox)
    BY <2>1
  <2>3. (answer' = answer \/ answer' = Received(inbox[1])) /\ 1 \in 1 .. Len(inbox)
    BY <1>2, <2>1 DEF Receive, Return
  <2>4. at = "counters" /\ IsSteady(read.tid) => \A i \in 1 .. Len(inbox') : IsThere(inbox[i])'
    BY <1>1, <2>2 DEF SteadyInv, HoldInv, IsThere
  <2>5. at = "counters" /\ IsSteady(read.tid) /\ answer'.outcome = "received" => IsThere(answer.message)'
    BY <1>1, <2>3 DEF SteadyInv, HoldInv, IsThere, Received
  <2> QED  BY <1>1, <2>4, <2>5, MessagesSteady
<1>3. CASE ~Receive
  <2>1. inbox' = inbox /\ (answer' = answer \/ answer'.outcome # "received")
    BY <1>3 DEF Wait, Exchange, SeeCanceled, SeeDeadline, Poll, PollTimeout, Interrupted, ReceiveFails,
                socketVars, Return, Failure
  <2>2. at = "counters" /\ IsSteady(read.tid) =>
          /\ \A i \in 1 .. Len(inbox') : IsThere(inbox[i])'
          /\ answer'.outcome = "received" => IsThere(answer.message)'
    BY <1>1, <2>1 DEF SteadyInv, HoldInv, IsThere
  <2> QED  BY <1>1, <2>2, MessagesSteady
<1> QED  BY <1>2, <1>3

\* The messages that are in the socket when a request is sent answer others.
LEMMA AskSteady ==
  ASSUME ExchangeInv, SteadyInv, AskTaskstats
  PROVE  SteadyInv'
<1>1. UNCHANGED <<threadVars, backendVars, scanVars>> /\ inbox' = inbox /\ requests' = requests + 1
      /\ phase = "idle" /\ (answer' = answer \/ answer'.outcome # "received")
  BY DEF AskTaskstats, Send, SendFails, Return, Failure
<1>2. answer'.outcome # "received"
  BY <1>1 DEF ExchangeInv
<1>3. ASSUME NEW i \in 1 .. Len(inbox)  PROVE  IsThere(inbox[i])'
  <2>1. inbox[i].request \in 1 .. requests /\ requests \in Nat
    BY DEF ExchangeInv, Numbered
  <2> QED  BY <1>1, <2>1 DEF IsThere
<1> QED  BY <1>1, <1>2, <1>3, MessagesSteady

\* The steps at the start of a scan.
LEMMA StartSteady ==
  ASSUME ScanInv, SteadyInv, Snapshot \/ Open \/ Opened \/ OpenFails \/ List \/ ListFails
  PROVE  SteadyInv'
<1>1. CASE Snapshot
  <2>1. /\ steady' = {Thread(tid, latest[tid]) : tid \in alive} /\ UNCHANGED <<latest, alive, target, disabled>>
        /\ result' = "none" /\ at' \in {"opening", "listing"}
        /\ source' = IF target.backend = "proc" \/ disabled THEN "proc" ELSE "taskstats"
    BY <1>1 DEF Snapshot, backendVars
  <2>2. LifeInv'
    BY <2>1 DEF LifeInv, Thread
  <2>3. SourceInv'
    BY <2>1 DEF SteadyInv, SourceInv
  <2>4. HoldInv' /\ SeenInv'
    BY <2>1 DEF HoldInv, SeenInv, Reading, SteadyInv, SourceInv
  <2> QED  BY <2>2, <2>3, <2>4 DEF SteadyInv
<1>2. CASE Open
  <2>1. UNCHANGED <<threadVars, backendVars, scanVars>> /\ at = "opening"
    BY <1>2 DEF Open
  <2> QED  BY <2>1, MessagesSteady
<1>3. CASE Opened
  <2>1. at = "opening"
    BY <1>3 DEF Opened
  <2>2. CASE HasData
    <3>1. at' = "listing" /\ UNCHANGED <<threadVars, target, disabled, source, todo, read, sampleVars, result>>
      BY <1>3, <2>2 DEF Opened
    <3>2. LifeInv' /\ SourceInv' /\ HoldInv'
      BY <2>1, <3>1 DEF SteadyInv, LifeInv, SourceInv, HoldInv, Reading, threadVars
    <3>3. SeenInv'
      BY <2>1, <3>1 DEF SteadyInv, SeenInv, SourceInv, HasStats, Reading, threadVars, sampleVars
    <3> QED  BY <3>2, <3>3 DEF SteadyInv
  <2>3. CASE ~HasData
    BY <1>3, <2>1, <2>3, FailSteady DEF Opened, CallFails
  <2> QED  BY <2>2, <2>3
<1>4. CASE OpenFails \/ ListFails
  BY <1>4, FailSteady DEF OpenFails, ListFails
<1>5. CASE List
  <2>1. at = "listing" /\ at' = "picking" /\ {t.tid : t \in steady} \subseteq todo'
        /\ UNCHANGED <<threadVars, backendVars, source, read, sampleVars, result>>
    BY <1>5 DEF List
  <2>2. LifeInv' /\ SourceInv' /\ HoldInv'
    BY <2>1 DEF SteadyInv, LifeInv, SourceInv, HoldInv, Reading, threadVars, backendVars
  <2>3. SeenInv'
    BY <2>1 DEF SteadyInv, SeenInv, SourceInv, HasStats, Reading, threadVars, backendVars, sampleVars
  <2> QED  BY <2>2, <2>3 DEF SteadyInv
<1> QED  BY <1>1, <1>2, <1>3, <1>4, <1>5

\* The entries of the directory are read one after the other.
LEMMA PickSteady ==
  ASSUME ScanInv, SteadyInv, PickCanceled \/ EndScan \/ \E tid \in Tids : Pick(tid)
  PROVE  SteadyInv'
<1>1. CASE PickCanceled
  BY <1>1, FailSteady DEF PickCanceled
<1>2. CASE EndScan
  <2>1. /\ at = "picking" /\ todo = {} /\ UNCHANGED <<threadVars, backendVars, todo, read, sampleVars>>
        /\ IF target.backend = "hybrid" /\ source = "taskstats"
           THEN source' = "proc" /\ at' = "listing" /\ result' = result
           ELSE source' = source /\ at' = "idle" /\ result' = "ok"
    BY <1>2 DEF EndScan
  <2>2. UNCHANGED <<steady, latest, alive, target, disabled, stats, found>>
    BY <2>1 DEF threadVars, backendVars, sampleVars
  <2>3. LifeInv' /\ SourceInv'
    BY <2>1, <2>2 DEF SteadyInv, LifeInv, SourceInv
  <2>4. HoldInv'
    BY <2>1 DEF HoldInv, Reading
  <2>5. \A t \in steady : Seen(t)
    BY <2>1 DEF SteadyInv, SeenInv, Reading
  <2>6. \A t : HasStats(t)' = HasStats(t) /\ IsFound(t)' = IsFound(t)
    BY <2>2 DEF HasStats, IsFound
  <2>7. SeenInv'
    <3>1. CASE target.backend = "hybrid" /\ source = "taskstats"
      BY <2>1, <2>2, <2>5, <2>6, <3>1 DEF SteadyInv, SeenInv, SourceInv, Seen, Reading
    <3>2. CASE ~(target.backend = "hybrid" /\ source = "taskstats")
      <4>1. at' = "idle" /\ result' = "ok" /\ source' = source
        BY <2>1, <3>2
      <4>2. \A t \in steady : /\ target.backend # "proc" /\ ~disabled => HasStats(t)
                              /\ target.backend # "taskstats" => IsFound(t)
        <5>1. CASE source = "taskstats"
          <6>1. target.backend = "taskstats"
            BY <2>1, <3>2, <5>1 DEF SteadyInv, SourceInv
          <6> QED  BY <2>5, <5>1, <6>1 DEF Seen
        <5>2. CASE source = "proc"
          <6>1. target.backend \in {"proc", "hybrid"}
            BY <2>1, <5>2 DEF SteadyInv, SourceInv
          <6>2. target.backend = "hybrid" /\ ~disabled => \A t \in steady : HasStats(t)
            BY <2>1, <5>2 DEF SteadyInv, SeenInv
          <6> QED  BY <2>5, <5>2, <6>1, <6>2 DEF Seen
        <5> QED  BY <5>1, <5>2 DEF ScanInv, ReadInv, Sources
      <4> QED  BY <2>2, <2>6, <4>1, <4>2 DEF SeenInv, Reading
    <3> QED  BY <3>1, <3>2
  <2> QED  BY <2>3, <2>4, <2>7 DEF SteadyInv
<1>3. ASSUME NEW tid \in Tids, Pick(tid)  PROVE  SteadyInv'
  <2>1. /\ at = "picking" /\ at' = "before" /\ todo' = todo \ {tid}
        /\ read'.tid = tid /\ read'.file = NoThread
        /\ UNCHANGED <<threadVars, backendVars, source, sampleVars, result>>
    BY <1>3 DEF Pick, NoRead
  <2>2. UNCHANGED <<steady, latest, alive, target, disabled, stats, found>>
    BY <2>1 DEF threadVars, backendVars, sampleVars
  <2>3. LifeInv' /\ SourceInv' /\ HoldInv'
    BY <2>1, <2>2 DEF SteadyInv, LifeInv, SourceInv, HoldInv, Reading
  <2>4. \A t : Seen(t)' = Seen(t) /\ HasStats(t)' = HasStats(t)
    BY <2>1, <2>2 DEF HasStats, IsFound, Seen
  <2>5. SeenInv'
    BY <2>1, <2>2, <2>4 DEF SteadyInv, SeenInv, SourceInv, Reading
  <2> QED  BY <2>3, <2>5 DEF SteadyInv
<1> QED  BY <1>1, <1>2, <1>3


\* The steps that read the files of a thread: those of a steady thread are there and its own.
LEMMA FileSteady ==
  ASSUME ScanInv, SteadyInv, OpenFile \/ NoFileBefore \/ NoFileAfter \/ ReadVanished \/ ReadFails \/ ReadBefore
  PROVE  SteadyInv'
<1>1. CASE OpenFile
  <2>1. /\ at' = at /\ at \in Reading /\ read' = [read EXCEPT !.file = ThreadOf(read.tid)]
        /\ UNCHANGED <<threadVars, backendVars, source, todo, sampleVars, result>>
        /\ (at = "counters" => source = "proc") /\ read \in ReadType
    BY <1>1 DEF OpenFile, ReadFrame, Reading, ScanInv, ReadInv
  <2>2. /\ read'.file = ThreadOf(read.tid) /\ read'.tid = read.tid /\ read'.before = read.before
        /\ read'.counters = read.counters
    BY <2>1 DEF ReadType
  <2>3. UNCHANGED <<steady, latest, alive, target, disabled, stats, found>>
    BY <2>1 DEF threadVars, backendVars, sampleVars
  <2>4. LifeInv' /\ SourceInv'
    BY <2>1, <2>3 DEF SteadyInv, LifeInv, SourceInv
  <2>5. at = "counters" => phase' = "idle"
    BY <1>1, <2>1 DEF OpenFile, ReadFrame, ScanInv, ReadInv, netlinkVars, exchangeVars
  <2>6. IsSteady(read.tid) => ThreadOf(read.tid) = latest[read.tid]
    BY SteadyLives DEF SteadyInv, ScanInv
  <2>7. HoldInv'
    BY <2>1, <2>2, <2>3, <2>5, <2>6 DEF SteadyInv, HoldInv, IsSteady
  <2>8. SeenInv'
    BY <2>1, <2>2, <2>3 DEF SteadyInv, SeenInv, Seen, HasStats, IsFound
  <2> QED  BY <2>4, <2>7, <2>8 DEF SteadyInv
<1>2. CASE NoFileBefore \/ NoFileAfter
  <2>1. /\ at \in Reading /\ ThreadOf(read.tid) = NoThread /\ (Retry \/ GiveUp)
        /\ UNCHANGED <<threadVars, backendVars, source, todo, sampleVars, result>>
    BY <1>2 DEF NoFileBefore, NoFileAfter, ReadFrame, Reading
  <2>2. ~IsSteady(read.tid)
    BY <2>1, SteadyLives DEF SteadyInv, ScanInv
  <2> QED  BY <2>1, <2>2, AgainSteady
<1>3. CASE ReadVanished \/ ReadFails
  <2>1. read.file # NoThread
    BY <1>3 DEF ReadVanished, ReadFails, CanRead
  <2>2. at # "idle"
    BY <2>1 DEF ScanInv, ReadInv, Reading
  <2> QED  BY <1>3, <2>2, FailSteady DEF ReadVanished, ReadFails
<1>4. CASE ReadBefore
  <2>1. /\ at = "before" /\ at' = "counters" /\ read.file # NoThread /\ phase' = "idle"
        /\ read' = [read EXCEPT !.before = read.file, !.file = NoThread]
        /\ UNCHANGED <<threadVars, backendVars, source, todo, sampleVars, result>>
        /\ read \in ReadType
    BY <1>4 DEF ReadBefore, CanRead, ReadFrame, ScanInv, ReadInv, netlinkVars, exchangeVars
  <2>2. read'.before = read.file /\ read'.file = NoThread /\ read'.tid = read.tid
    BY <2>1 DEF ReadType
  <2>3. UNCHANGED <<steady, latest, alive, target, disabled, stats, found>>
    BY <2>1 DEF threadVars, backendVars, sampleVars
  <2>4. LifeInv' /\ SourceInv'
    BY <2>1, <2>3 DEF SteadyInv, LifeInv, SourceInv
  <2>5. HoldInv'
    BY <2>1, <2>2, <2>3 DEF SteadyInv, HoldInv, IsSteady, Reading
  <2>6. SeenInv'
    BY <2>1, <2>2, <2>3 DEF SteadyInv, SeenInv, Seen, HasStats, IsFound, Reading
  <2> QED  BY <2>4, <2>5, <2>6 DEF SteadyInv
<1> QED  BY <1>1, <1>2, <1>3, <1>4

\* The steps that read counters.
LEMMA CountersSteady ==
  ASSUME ExchangeInv, ScanInv, SteadyInv, ReadSchedstat \/ TaskstatsReturns
  PROVE  SteadyInv'
<1>1. CASE ReadSchedstat
  <2>1. /\ at = "counters" /\ at' = "after" /\ source = "proc"
        /\ read' = [read EXCEPT !.counters = read.file, !.file = NoThread]
        /\ UNCHANGED <<threadVars, backendVars, source, todo, sampleVars, result>>
        /\ read \in ReadType
        /\ read.file # NoThread \/ ThreadOf(read.tid) = NoThread \/ ~target.schedstat
    BY <1>1 DEF ReadSchedstat, CanRead, ReadFrame, ScanInv, ReadInv
  <2>2. /\ read'.counters = read.file /\ read'.file = NoThread /\ read'.tid = read.tid
        /\ read'.before = read.before
    BY <2>1 DEF ReadType
  <2>3. UNCHANGED <<steady, latest, alive, target, disabled, stats, found>>
    BY <2>1 DEF threadVars, backendVars, sampleVars
  <2>4. LifeInv' /\ SourceInv'
    BY <2>1, <2>3 DEF SteadyInv, LifeInv, SourceInv
  <2>5. IsSteady(read.tid) => ThreadOf(read.tid) # NoThread
    BY SteadyLives DEF SteadyInv, ScanInv
  <2>6. HoldInv'
    BY <2>1, <2>2, <2>3, <2>5 DEF SteadyInv, HoldInv, IsSteady, Reading
  <2>7. SeenInv'
    BY <2>1, <2>2, <2>3 DEF SteadyInv, SeenInv, Seen, HasStats, IsFound, Reading
  <2> QED  BY <2>4, <2>6, <2>7 DEF SteadyInv
<1>2. CASE TaskstatsReturns
  <2>1. at = "counters" /\ source = "taskstats" /\ phase = "returned" /\ read \in ReadType /\ read.file = NoThread
    BY <1>2 DEF TaskstatsReturns, Take, ScanInv, ReadInv
  <2>2. CASE Counts
    <3>1. /\ at' = "after" /\ read' = [read EXCEPT !.counters = answer.message.content]
          /\ UNCHANGED <<threadVars, backendVars, source, todo, sampleVars, result>>
      BY <1>2, <2>2 DEF TaskstatsReturns, Missing, Counts, HasData
    <3>2. read'.file = read.file /\ read'.tid = read.tid /\ read'.before = read.before
      BY <2>1, <3>1 DEF ReadType
    <3>3. UNCHANGED <<steady, latest, alive, target, disabled, stats, found>>
      BY <3>1 DEF threadVars, backendVars, sampleVars
    <3>4. LifeInv' /\ SourceInv'
      BY <2>1, <3>1, <3>3 DEF SteadyInv, LifeInv, SourceInv
    <3>5. HoldInv'
      BY <2>1, <3>1, <3>2, <3>3 DEF SteadyInv, HoldInv, IsSteady, Reading
    <3>6. SeenInv'
      BY <2>1, <3>1, <3>2, <3>3 DEF SteadyInv, SeenInv, Seen, HasStats, IsFound, Reading
    <3> QED  BY <3>4, <3>5, <3>6 DEF SteadyInv
  <2>3. CASE Missing
    <3>1. Retry /\ UNCHANGED <<threadVars, backendVars, source, todo, sampleVars, result>>
      BY <1>2, <2>3 DEF TaskstatsReturns, Missing, Counts, HasData
    <3>2. answer.message.request = requests /\ answer.message.kind = "ESRCH"
      BY <2>3 DEF Missing, ExchangeInv
    <3>3. ~IsSteady(read.tid)
      BY <2>1, <2>3, <3>2 DEF SteadyInv, HoldInv, IsThere, Missing
    <3> QED  BY <2>1, <3>1, <3>3, AgainSteady DEF Reading
  <2>4. CASE ~Counts /\ ~Missing
    BY <1>2, <2>1, <2>4, FailSteady DEF TaskstatsReturns, CallFails
  <2> QED  BY <2>2, <2>3, <2>4
<1> QED  BY <1>1, <1>2

\* Both stat files of a steady thread show the same thread: it is in the samples.
LEMMA SampleSteady ==
  ASSUME ScanInv, SteadyInv, ReadAfter
  PROVE  SteadyInv'
<1>1. /\ at = "after" /\ read.file # NoThread /\ read \in ReadType
      /\ UNCHANGED <<threadVars, backendVars, source, todo, result>>
  BY DEF ReadAfter, CanRead, ScanInv, ReadInv
<1>2. UNCHANGED <<steady, latest, alive, target, disabled>>
  BY <1>1 DEF threadVars, backendVars
<1>3. IsSteady(read.tid) => Stable /\ read.file = latest[read.tid]
  BY <1>1 DEF SteadyInv, HoldInv, Reading, Stable
<1>4. CASE Stable
  <2>1. /\ at' = "picking"
        /\ stats' = IF source = "taskstats" THEN stats \cup {Sample} ELSE stats
        /\ found' = IF source = "proc" THEN found \cup {Sample} ELSE found
    BY <1>4 DEF ReadAfter
  <2>2. LifeInv' /\ SourceInv'
    BY <1>1, <1>2, <2>1 DEF SteadyInv, LifeInv, SourceInv
  <2>3. HoldInv'
    BY <2>1 DEF HoldInv, Reading
  <2>4. \A t : (HasStats(t) => HasStats(t)') /\ (IsFound(t) => IsFound(t)')
    BY <1>2, <2>1 DEF HasStats, IsFound
  <2>5. ASSUME NEW t \in steady, t.tid = read.tid  PROVE  Seen(t)'
    <3>1. t = Thread(read.tid, latest[read.tid]) /\ IsSteady(read.tid)
      BY <2>5 DEF SteadyInv, LifeInv, IsSteady
    <3>2. Thread(Sample.tid, Sample.ticks) = t /\ Sample.counters = read.counters
      BY <1>3, <3>1 DEF Sample
    <3>3. CASE source = "taskstats"
      BY <1>1, <2>1, <3>2, <3>3 DEF Seen, HasStats
    <3>4. CASE source = "proc"
      <4>1. target.schedstat => Sample.counters # NoThread
        BY <1>1, <3>1, <3>2, <3>4 DEF SteadyInv, HoldInv, Reading
      <4> QED  BY <1>1, <1>2, <2>1, <3>2, <3>4, <4>1 DEF Seen, IsFound
    <3> QED  BY <3>3, <3>4 DEF ScanInv, ReadInv, Sources
  <2>6. \A t \in steady : t.tid \in todo \/ Seen(t)'
    <3>1. \A t \in steady : Seen(t) => Seen(t)'
      BY <1>1, <2>4 DEF Seen
    <3>2. \A t \in steady : t.tid \in todo \/ Seen(t) \/ t.tid = read.tid
      BY <1>1 DEF SteadyInv, SeenInv, Reading
    <3> QED  BY <2>5, <3>1, <3>2
  <2>7. SeenInv'
    BY <1>1, <1>2, <2>1, <2>4, <2>6 DEF SteadyInv, SeenInv, SourceInv
  <2> QED  BY <2>2, <2>3, <2>7 DEF SteadyInv
<1>5. CASE ~Stable
  <2>1. Retry /\ UNCHANGED sampleVars
    BY <1>5 DEF ReadAfter, sampleVars
  <2> QED  BY <1>1, <1>3, <1>5, <2>1, AgainSteady DEF Reading
<1> QED  BY <1>4, <1>5

LEMMA StepSteady ==
  ASSUME ExchangeInv, ScanInv, SteadyInv, [Next]_vars
  PROVE  SteadyInv'
<1>1. CASE UNCHANGED vars \/ TimePasses
  <2>1. UNCHANGED <<threadVars, backendVars, scanVars, inbox, requests, answer>> /\ (phase' = "idle" <=> phase = "idle")
    BY <1>1 DEF vars, TimePasses, Delay, Cancel, netlinkVars, socketVars, exchangeVars
  <2>2. at = "counters" /\ phase' # "idle" /\ IsSteady(read.tid) =>
          /\ \A i \in 1 .. Len(inbox') : IsThere(inbox[i])'
          /\ answer'.outcome = "received" => IsThere(answer.message)'
    BY <2>1 DEF SteadyInv, HoldInv, IsThere
  <2> QED  BY <2>1, <2>2, MessagesSteady
<1>2. CASE Scanner
  BY <1>2, StartSteady, FileSteady, AskSteady, CountersSteady, SampleSteady, PickSteady, WaitSteady DEF Scanner
<1>3. CASE Snapshot \/ KernelAnswers \/ Exit \/ \E tid \in Tids : Begin(tid) \/ End(tid)
  BY <1>3, StartSteady, KernelSteady, ThreadsSteady DEF ScanInv
<1> QED  BY <1>1, <1>2, <1>3 DEF Next

\* The inductive invariant on the threads that live as long as the scan: what was read of one is
\* its own, the kernel has not said that it does not exist, and it is still in the directory's
\* entries to read, or being read, or in the samples.
THEOREM SteadyInvariant == Spec => []SteadyInv
<1>1. Init => SteadyInv
  BY TargetsAssumption DEF Init, SteadyInv, LifeInv, SourceInv, HoldInv, SeenInv, Reading
<1>2. ExchangeInv /\ ScanInv /\ SteadyInv /\ [Next]_vars => SteadyInv'
  BY StepSteady
<1> QED  BY <1>1, <1>2, ScanInvariant, PTL DEF Spec

\* A scan that succeeds has every thread that has lived since it began, whatever the others did
\* and however late answers come, with its delays when taskstats is in use and its schedstat when
\* the kernel has it (Snapshot, readStableTask, readStableThreadSample, mergeSnapshots).
THEOREM SteadyFound == Spec => []SteadyThreadsAreFound
<1>1. SteadyInv => SteadyThreadsAreFound
  <2> SUFFICES ASSUME SteadyInv, result = "ok", NEW t \in steady
               PROVE  \E s \in MergedSamples :
                        /\ s.thread = t
                        /\ (target.backend # "proc" /\ ~disabled) => s.delays # {}
                        /\ (target.backend # "taskstats" /\ target.schedstat) => s.schedstat # {}
    BY DEF SteadyThreadsAreFound
  <2>1. /\ target.backend # "proc" /\ ~disabled => HasStats(t)
        /\ target.backend # "taskstats" => IsFound(t)
    BY DEF SteadyInv, SeenInv
  <2>2. HasStats(t) \/ IsFound(t)
    BY <2>1 DEF SteadyInv, SourceInv
  <2> DEFINE delays == {s.counters : s \in {u \in stats : Thread(u.tid, u.ticks) = t}}
             schedstat == {s.counters : s \in {u \in found : Thread(u.tid, u.ticks) = t}} \ {NoThread}
             merged == [thread |-> t, delays |-> delays, schedstat |-> schedstat]
  <2>3. HasStats(t) => delays # {}
    BY DEF HasStats
  <2>4. IsFound(t) /\ target.schedstat => schedstat # {}
    BY DEF IsFound
  <2>5. merged \in MergedSamples
    BY <2>2 DEF MergedSamples, HasStats, IsFound
  <2> HIDE DEF delays, schedstat
  <2> QED  BY <2>1, <2>3, <2>4, <2>5
<1> QED  BY <1>1, SteadyInvariant, PTL
=============================================================================
