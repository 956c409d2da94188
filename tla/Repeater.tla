------------------------------ MODULE Repeater ------------------------------
(***************************************************************************)
(* The repeater of one node (repeater.go) and what it sends to one peer    *)
(* for one transaction.  Each request has a goroutine that sends it again  *)
(* and again, numRetries times or without limit, until the table of        *)
(* unacknowledged requests says that it was answered.  The table has one   *)
(* entry for each type of answer, which requests of that type share.  The  *)
(* links lose messages, and the node fails and recovers.                   *)
(***************************************************************************)
EXTENDS Naturals, Sequences

CONSTANTS
  Requests,      \* what the node asks of the peer, in the order of its calls of Send
  NumRetries,    \* numRetries
  MaxDropped,    \* bound: messages lost
  MaxFailures    \* bound: failures of the node

Types == {"NodeLockRequest", "NodeLockRequestNoTimeout", "NodeUnlockRequest",
          "NodeGetRequest", "NodePutRequest", "NodeTimestampRequest"}

ASSUME RepeaterAssumption ==
  /\ Requests \in Seq([type : Types, unlimited : BOOLEAN])
  /\ NumRetries \in Nat \ {0}
  /\ MaxDropped \in Nat /\ MaxFailures \in Nat

VARIABLES
  unacked,       \* unackedReqs[peer][transaction]
  goroutine,     \* of each request: "none", "looping" or "ended"
  tries,         \* i, the counter of the loop of each
  link,          \* requests and answers on their way
  received,      \* history: requests that have reached the peer
  down,          \* disabled
  dropped,       \* messages lost
  failures       \* failures so far

repeaterVars == <<unacked, goroutine, tries, link, received, down, dropped, failures>>

Request == DOMAIN Requests
Unlimited(i) == Requests[i].unlimited

\* The answer that acknowledges a request: the switch of Send.
AnswerByName(type) ==     \* a mutant: all that concerns locks shares an entry
  CASE type \in {"NodeLockRequest", "NodeLockRequestNoTimeout", "NodeUnlockRequest"} -> "NodeLockResponse"
    [] type = "NodePutRequest" -> "NodePutResponse"
    [] type \in {"NodeGetRequest", "NodeTimestampRequest"} -> "NodeGetResponse"
DemuxKey(type) ==
  CASE type \in {"NodeLockRequest", "NodeLockRequestNoTimeout"} -> "NodeLockResponse"
    [] type = "NodeUnlockRequest" -> "NodeUnlockAck"
    [] type = "NodePutRequest" -> "NodePutResponse"
    [] type \in {"NodeGetRequest", "NodeTimestampRequest"} -> "NodeGetResponse"
Expected(i) == DemuxKey(Requests[i].type)

\* What the peer answers: handleLockReq and the other handlers of dbnode.go.
PeerAnswer(type) ==
  CASE type \in {"NodeLockRequest", "NodeLockRequestNoTimeout"} -> "NodeLockResponse"
    [] type = "NodeUnlockRequest" -> "NodeUnlockAck"
    [] type = "NodePutRequest" -> "NodePutResponse"
    [] type \in {"NodeGetRequest", "NodeTimestampRequest"} -> "NodeGetResponse"

Asked(i)       == [kind |-> "request", request |-> i]
Answered(type) == [kind |-> "answer", type |-> type]
AnswerTypes    == {PeerAnswer(type) : type \in Types}

\* No goroutine sends a limited request more than numRetries times.
RepeaterTypeOK ==
  /\ unacked \subseteq AnswerTypes
  /\ goroutine \in [Request -> {"none", "looping", "ended"}]
  /\ \A i \in Request : tries[i] \in 0..NumRetries /\ (Unlimited(i) => tries[i] = 0)
  /\ link \subseteq {Asked(i) : i \in Request} \cup {Answered(type) : type \in AnswerTypes}
  /\ received \subseteq Request
  /\ down \in BOOLEAN
  /\ dropped \in 0..MaxDropped
  /\ failures \in 0..MaxFailures
-----------------------------------------------------------------------------
\* A handler of the node asks the peer.
Send(i) ==
  /\ ~down
  /\ goroutine[i] = "none" /\ \A j \in Request : j < i => goroutine[j] # "none"
  /\ unacked' = unacked \cup {Expected(i)}
  /\ goroutine' = [goroutine EXCEPT ![i] = "looping"]
  /\ UNCHANGED <<tries, link, received, down, dropped, failures>>

\* One round of the loop of send, with the lock.  A node that is down sends
\* nothing, but a limited request uses its rounds up.
End(i) ==
  /\ goroutine' = [goroutine EXCEPT ![i] = "ended"]
  /\ UNCHANGED <<tries, link>>

CountRound(i) == IF Unlimited(i) THEN tries ELSE [tries EXCEPT ![i] = @ + 1]

Answerless(i) == ~down /\ Expected(i) \notin unacked

RoundDeaf(i) ==     \* a mutant: an unlimited request does not look at the table
  /\ goroutine[i] = "looping"
  /\ IF tries[i] = NumRetries \/ (Answerless(i) /\ ~Unlimited(i))
     THEN End(i)
     ELSE /\ link' = IF down THEN link ELSE link \cup {Asked(i)}
          /\ tries' = CountRound(i)
          /\ UNCHANGED goroutine
  /\ UNCHANGED <<unacked, received, down, dropped, failures>>
RoundMore(i) ==     \* a mutant: one round too many
  /\ goroutine[i] = "looping"
  /\ IF tries[i] > NumRetries \/ Answerless(i)
     THEN End(i)
     ELSE /\ link' = IF down THEN link ELSE link \cup {Asked(i)}
          /\ tries' = CountRound(i)
          /\ UNCHANGED goroutine
  /\ UNCHANGED <<unacked, received, down, dropped, failures>>
Round(i) ==
  /\ goroutine[i] = "looping"
  /\ IF tries[i] = NumRetries \/ Answerless(i)
     THEN End(i)
     ELSE /\ link' = IF down THEN link ELSE link \cup {Asked(i)}
          /\ tries' = CountRound(i)
          /\ UNCHANGED goroutine
  /\ UNCHANGED <<unacked, received, down, dropped, failures>>

\* The peer receives a request and answers it.  It may never answer a request
\* for its lock, which waits in a queue.
Deliver(i) ==
  /\ Asked(i) \in link
  /\ received' = received \cup {i}
  /\ \E answers \in {{Answered(PeerAnswer(Requests[i].type))}, {}} :
       /\ answers = {} => ~Unlimited(i)
       /\ link' = (link \ {Asked(i)}) \cup answers
  /\ UNCHANGED <<unacked, goroutine, tries, down, dropped, failures>>

\* The handler of an answer calls Ack, unless the node is down.
Ack(type) ==
  /\ Answered(type) \in link /\ ~down
  /\ link' = link \ {Answered(type)}
  /\ unacked' = unacked \ {type}
  /\ UNCHANGED <<goroutine, tries, received, down, dropped, failures>>

Drop(m) ==
  /\ dropped < MaxDropped
  /\ dropped' = dropped + 1
  /\ link' = link \ {m}
  /\ UNCHANGED <<unacked, goroutine, tries, received, down, failures>>

RepeaterFail ==
  /\ ~down /\ failures < MaxFailures
  /\ down' = TRUE
  /\ failures' = failures + 1
  /\ UNCHANGED <<unacked, goroutine, tries, link, received, dropped>>

RepeaterRecover ==
  /\ down
  /\ down' = FALSE
  /\ UNCHANGED <<unacked, goroutine, tries, link, received, dropped, failures>>
-----------------------------------------------------------------------------
RepeaterInit ==
  /\ unacked = {}
  /\ goroutine = [i \in Request |-> "none"]
  /\ tries = [i \in Request |-> 0]
  /\ link = {}
  /\ received = {}
  /\ down = FALSE
  /\ dropped = 0 /\ failures = 0

RepeaterNext ==
  \/ \E i \in Request : Send(i) \/ Round(i) \/ Deliver(i)
  \/ \E type \in AnswerTypes : Ack(type)
  \/ \E m \in link : Drop(m)
  \/ RepeaterFail \/ RepeaterRecover

\* Some goroutine goes on, some message arrives, unless all are lost; failures
\* are temporary.
RepeaterFairness ==
  /\ WF_repeaterVars(\E i \in Request : Round(i))
  /\ WF_repeaterVars(\E i \in Request : Deliver(i))
  /\ WF_repeaterVars(\E type \in AnswerTypes : Ack(type))
  /\ WF_repeaterVars(RepeaterRecover)

RepeaterSpec == RepeaterInit /\ [][RepeaterNext]_repeaterVars
FairRepeaterSpec == RepeaterSpec /\ RepeaterFairness
-----------------------------------------------------------------------------
(* Properties.                                                              *)

\* A request without limit is not given up before the peer has received it, or
\* another that is answered alike: late answers of another phase, losses and a
\* failure of the node do not end it (repeater.go:84-100, 112-119).  Members are
\* told to stage and to unlock in this way.
NoneGivenUp == \A i \in Request :
  Unlimited(i) /\ goroutine[i] = "ended" =>
    \E j \in received : PeerAnswer(Requests[j].type) = PeerAnswer(Requests[i].type)

\* No goroutine repeats its request for ever: not after a second request of the
\* same type has made its entry anew, and not after the answer came while the
\* node was down (repeater.go:78, 87-91; dbnode.go:150-165).
RepeatingEnds ==
  (\E i \in Request : goroutine[i] = "looping") ~> (\A i \in Request : goroutine[i] # "looping")
=============================================================================
