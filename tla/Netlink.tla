------------------------------- MODULE Netlink -------------------------------
(***************************************************************************)
(* The Generic Netlink client of the taskstats backend:                    *)
(* taskstats/netlink_linux.go.                                             *)
(*                                                                         *)
(* A request carries a sequence number of 32 bits; the client then polls   *)
(* the socket until a message with this number comes, an error, the end of *)
(* the context, or a deadline.  A message with another number is skipped:  *)
(* it is the late answer to an earlier request.                            *)
(*                                                                         *)
(* The kernel is external: it answers a request once, or never, and what   *)
(* it has sent stays in the socket.  The bytes of messages and attributes  *)
(* are abstracted to what parsing makes of them.                           *)
(***************************************************************************)
EXTENDS Integers, Sequences

CONSTANTS
  Subjects,     \* what a request may ask for: a TID, or the family's number
  Contents,     \* what an answer with data may say of a subject
  Modulus,      \* how many sequence numbers there are, 2^32
  Deadline,     \* the two seconds of exchange, in polls of 100 ms
  MaxRequests   \* bound: requests sent over a socket

\* How the kernel may answer: with data, with data that the client cannot decode, with an
\* acknowledgment only, or with an error.
Kinds == {"data", "malformed", "acknowledgment", "ESRCH", "error"}

ASSUME NetlinkAssumption ==
  /\ Modulus \in Nat \ {0} /\ Deadline \in Nat /\ MaxRequests \in Nat

VARIABLES
  sequence,  \* c.sequence
  requests,  \* the number of requests sent on this socket, of any width
  phase,     \* where exchange is
  subject,   \* what the current request asks for
  waited,    \* time since the request was sent
  asked,     \* the requests that the kernel has not answered
  inbox,     \* the messages in the socket
  answer,    \* what the last exchange has returned
  canceled   \* ctx.Err() # nil

socketVars == <<sequence, requests, asked, inbox>>
exchangeVars == <<phase, subject, waited, answer>>
netlinkVars == <<socketVars, exchangeVars, canceled>>

\* The caller's side of exchange: no call, in the loop, waiting in poll, returned.
Phases == {"idle", "looping", "polling", "returned"}

Asks(q, n, about) == [sequence |-> q, request |-> n, subject |-> about]
Answers(ask, kind, content) ==
  [sequence |-> ask.sequence, request |-> ask.request, subject |-> ask.subject,
   kind |-> kind, content |-> content]

\* What exchange returns without a message of the kernel, or with one.
Failure(reason) == [outcome |-> reason]
Received(message) == [outcome |-> "received", message |-> message]

----------------------------------------------------------------------------
(* The client *)

\* newNetlinkClient: a socket of its own, on which nothing has been asked.
NewSocket ==
  /\ sequence' = 0 /\ requests' = 0 /\ asked' = {} /\ inbox' = << >>

Return(result) == phase' = "returned" /\ answer' = result

\* The bound on a socket's requests, and an assumption on the kernel: it does not answer
\* a request after all the other sequence numbers have been used.
MaySend ==
  /\ requests < MaxRequests
  /\ \A ask \in asked : requests + 1 - ask.request < Modulus
  /\ \A i \in DOMAIN inbox : requests + 1 - inbox[i].request < Modulus

\* exchange, up to the loop.
SendBug(about) == \* the sequence number of the socket not advanced
  /\ phase = "idle" /\ MaySend
  /\ requests' = requests + 1
  /\ sequence' = sequence
  /\ subject' = about
  /\ asked' = asked \cup {Asks(sequence', requests', about)}
  /\ phase' = "looping" /\ waited' = 0
  /\ UNCHANGED <<inbox, answer, canceled>>
Send(about) ==
  /\ phase = "idle" /\ MaySend
  /\ requests' = requests + 1
  /\ sequence' = (sequence + 1) % Modulus
  /\ subject' = about
  /\ asked' = asked \cup {Asks(sequence', requests', about)}
  /\ phase' = "looping" /\ waited' = 0
  /\ UNCHANGED <<inbox, answer, canceled>>

\* sendto fails: the sequence number has been used.
SendFails(about) ==
  /\ phase = "idle" /\ MaySend
  /\ requests' = requests + 1
  /\ sequence' = (sequence + 1) % Modulus
  /\ subject' = about /\ waited' = 0
  /\ Return(Failure("send"))
  /\ UNCHANGED <<asked, inbox, canceled>>

\* The head of the loop: the context, the deadline, and the poll.
SeeCanceled ==
  /\ phase = "looping" /\ canceled
  /\ Return(Failure("canceled"))
  /\ UNCHANGED <<socketVars, subject, waited, canceled>>

SeeDeadline ==
  /\ phase = "looping" /\ ~canceled /\ waited > Deadline
  /\ Return(Failure("timeout"))
  /\ UNCHANGED <<socketVars, subject, waited, canceled>>

Poll ==
  /\ phase = "looping" /\ ~canceled /\ waited <= Deadline
  /\ phase' = "polling"
  /\ UNCHANGED <<socketVars, subject, waited, answer, canceled>>

Later(time) == IF time > Deadline THEN time ELSE time + 1

\* Nothing came for 100 ms.
PollTimeout ==
  /\ phase = "polling" /\ inbox = << >>
  /\ phase' = "looping" /\ waited' = Later(waited)
  /\ UNCHANGED <<socketVars, subject, answer, canceled>>

\* EINTR of poll or recvfrom, or EAGAIN: the loop starts again at its head.
InterruptedBug == \* the deadline starts anew
  /\ phase = "polling" /\ phase' = "looping" /\ waited' = 0
  /\ UNCHANGED <<socketVars, subject, answer, canceled>>
Interrupted ==
  /\ phase = "polling" /\ phase' = "looping"
  /\ UNCHANGED <<socketVars, subject, waited, answer, canceled>>

\* Any other error of poll or recvfrom, ENOBUFS included.
ReceiveFails ==
  /\ phase = "polling"
  /\ Return(Failure("receive"))
  /\ UNCHANGED <<socketVars, subject, waited, canceled>>

\* parseNetlinkResponse: of a message with the number of the request, unless it is an
\* acknowledgment.
Matches(message) == message.sequence = sequence /\ message.kind # "acknowledgment"

\* recvfrom: the first message of the socket.
Receive ==
  /\ phase = "polling" /\ inbox # << >>
  /\ inbox' = Tail(inbox)
  /\ IF Matches(Head(inbox)) THEN Return(Received(Head(inbox)))
     ELSE phase' = "looping" /\ answer' = answer
  /\ UNCHANGED <<sequence, requests, asked, subject, waited, canceled>>

----------------------------------------------------------------------------
(* The kernel, the clock and the user *)

Answer(ask, kind, content) ==
  /\ ask \in asked
  /\ asked' = asked \ {ask}
  /\ inbox' = Append(inbox, Answers(ask, kind, content))
  /\ UNCHANGED <<sequence, requests, exchangeVars, canceled>>

\* The kernel has no memory for an answer.
Drop(ask) ==
  /\ ask \in asked
  /\ asked' = asked \ {ask}
  /\ UNCHANGED <<sequence, requests, inbox, exchangeVars, canceled>>

Delay ==
  /\ phase \in {"looping", "polling"} /\ waited <= Deadline
  /\ waited' = waited + 1
  /\ UNCHANGED <<socketVars, phase, subject, answer, canceled>>

Cancel ==
  /\ ~canceled /\ canceled' = TRUE
  /\ UNCHANGED <<socketVars, exchangeVars>>

----------------------------------------------------------------------------

\* A step of exchange, after the request was sent.
Exchange ==
  \/ SeeCanceled \/ SeeDeadline \/ Poll
  \/ PollTimeout \/ Interrupted \/ ReceiveFails \/ Receive

\* The caller takes the result and may call again.
Take ==
  /\ phase = "returned" /\ phase' = "idle"
  /\ answer' = Failure("none") /\ waited' = 0
  /\ UNCHANGED <<socketVars, subject, canceled>>

NetlinkInit ==
  /\ sequence = 0 /\ requests = 0 /\ asked = {} /\ inbox = << >>
  /\ phase = "idle" /\ subject \in Subjects /\ waited = 0
  /\ answer = Failure("none") /\ canceled = FALSE

----------------------------------------------------------------------------
(* Properties *)

\* What an exchange returns is the kernel's answer to its own request, also when the answers
\* to requests that were given up come later, and the sequence numbers wrap round
\* (parseNetlinkResponse, exchange).
AnswersAreOwn ==
  phase = "returned" /\ answer.outcome = "received" =>
    answer.message.request = requests /\ answer.message.subject = subject

=============================================================================
