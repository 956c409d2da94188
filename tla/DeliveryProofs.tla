---------------------------- MODULE DeliveryProofs ----------------------------
(***************************************************************************)
(* Proofs about the two ends of a request.  Of Repeater, for every list of *)
(* requests, number of retries, losses and failures: a limited request is  *)
(* sent numRetries times at most, and an unlimited one is not given up     *)
(* before the peer has received it or another that is answered alike.  Of  *)
(* Client, for every number of calls, attempts and answers: what a call    *)
(* returns was true of its last attempt, and the router waits only over a  *)
(* second answer.                                                          *)
(***************************************************************************)
EXTENDS Repeater, Client, SequenceTheorems, TLAPS

-----------------------------------------------------------------------------
(* The repeater *)

\* The peer has received a request that it answers with this type.
Reached(type) == \E j \in received : PeerAnswer(Requests[j].type) = type

\* An answer follows a request.
AnswersFollow == \A type \in AnswerTypes : Answered(type) \in link => Reached(type)

\* An entry leaves the table when an answer has come.
GoneIfReached == \A i \in Request :
  goroutine[i] # "none" /\ Expected(i) \notin unacked => Reached(PeerAnswer(Requests[i].type))

\* The inductive invariant: an entry that left the table, and an answer that can
\* make one leave it, come from a request that arrived.
RepeaterInv ==
  /\ RepeaterTypeOK
  /\ AnswersFollow
  /\ GoneIfReached
  /\ NoneGivenUp

\* The table expects what the peer answers (repeater.go:58-74).
LEMMA ExpectedIsAnswer ==
  ASSUME NEW i \in Request
  PROVE  Expected(i) = PeerAnswer(Requests[i].type) /\ Expected(i) \in AnswerTypes
<1>1. Requests[i].type \in Types
  <2>. DEFINE S == [type : Types, unlimited : BOOLEAN]
  <2>1. Requests \in Seq(S)
    BY RepeaterAssumption DEF RepeaterAssumption
  <2>. HIDE DEF S
  <2>2. DOMAIN Requests = 1..Len(Requests)
    BY <2>1
  <2>3. Requests[i] \in S
    BY <2>1, <2>2, ElementOfSeq DEF Request
  <2>. QED  BY <2>3 DEF S
<1>2. DemuxKey(Requests[i].type) = PeerAnswer(Requests[i].type)
  BY <1>1 DEF Types, DemuxKey, PeerAnswer
<1>. QED  BY <1>1, <1>2 DEF Expected, AnswerTypes

\* Requests and answers are told apart.
LEMMA Apart ==
  /\ \A i, type : Asked(i) # Answered(type)
  /\ \A a, b : Answered(a) = Answered(b) => a = b
  BY DEF Asked, Answered

\* What has arrived stays arrived.
LEMMA ReachedStays ==
  ASSUME received \subseteq received', NEW type, Reached(type)
  PROVE  Reached(type)'
  BY DEF Reached

-----------------------------------------------------------------------------
(* Each action keeps the invariant.                                         *)

\* A request enters the table (repeater.go:52-81).
LEMMA SendKeeps ==
  ASSUME RepeaterInv, NEW i \in Request, Send(i)
  PROVE  RepeaterInv'
<1>1. RepeaterTypeOK'
  BY ExpectedIsAnswer DEF RepeaterInv, RepeaterTypeOK, Send
<1>2. AnswersFollow'
  BY DEF RepeaterInv, AnswersFollow, Send, Reached
<1>3. GoneIfReached'
  <2>. SUFFICES ASSUME NEW j \in Request, goroutine'[j] # "none", Expected(j) \notin unacked'
       PROVE  Reached(PeerAnswer(Requests[j].type))'
    BY DEF GoneIfReached, Expected
  <2>1. j # i
    BY DEF Send
  <2>2. goroutine[j] # "none" /\ Expected(j) \notin unacked
    BY <2>1 DEF Send, RepeaterInv, RepeaterTypeOK
  <2>. QED  BY <2>2 DEF RepeaterInv, GoneIfReached, Send, Reached
<1>4. NoneGivenUp'
  BY DEF RepeaterInv, RepeaterTypeOK, NoneGivenUp, Send
<1>. QED  BY <1>1, <1>2, <1>3, <1>4 DEF RepeaterInv

\* A goroutine sends, lets a round pass, or ends (repeater.go:83-106).
LEMMA RoundKeeps ==
  ASSUME RepeaterInv, NEW i \in Request, Round(i)
  PROVE  RepeaterInv'
<1>1. UNCHANGED <<unacked, received, down, dropped, failures>> /\ goroutine[i] = "looping"
  BY DEF Round
<1>2. tries[i] \in 0..NumRetries /\ NumRetries \in Nat \ {0} /\ (Unlimited(i) => tries[i] = 0)
  BY RepeaterAssumption DEF RepeaterAssumption, RepeaterInv, RepeaterTypeOK
<1>3. CASE tries[i] = NumRetries \/ Answerless(i)
  <2>1. goroutine' = [goroutine EXCEPT ![i] = "ended"] /\ UNCHANGED <<tries, link>>
    BY <1>3 DEF Round, End
  <2>2. RepeaterTypeOK'
    BY <1>1, <2>1 DEF RepeaterInv, RepeaterTypeOK
  <2>3. AnswersFollow'
    BY <1>1, <2>1 DEF RepeaterInv, AnswersFollow, Reached
  <2>4. \A j \in Request : goroutine'[j] # "none" => goroutine[j] # "none"
    BY <1>1, <2>1 DEF RepeaterInv, RepeaterTypeOK
  <2>5. GoneIfReached'
    BY <1>1, <2>4 DEF RepeaterInv, GoneIfReached, Reached, Expected
  <2>6. Unlimited(i) => Reached(PeerAnswer(Requests[i].type))
    <3>. SUFFICES ASSUME Unlimited(i)
         PROVE  Expected(i) \notin unacked
      BY <1>1 DEF RepeaterInv, GoneIfReached
    <3>. QED  BY <1>2, <1>3 DEF Answerless
  <2>7. NoneGivenUp'
    BY <1>1, <2>1, <2>6 DEF RepeaterInv, RepeaterTypeOK, NoneGivenUp, Reached
  <2>. QED  BY <2>2, <2>3, <2>5, <2>7 DEF RepeaterInv
<1>4. CASE ~(tries[i] = NumRetries \/ Answerless(i))
  <2>1. UNCHANGED goroutine /\ tries' = CountRound(i) /\ link' \in {link, link \cup {Asked(i)}}
    BY <1>4 DEF Round
  <2>2. \A j \in Request : tries'[j] \in 0..NumRetries /\ (Unlimited(j) => tries'[j] = 0)
    <3>. TAKE j \in Request
    <3>1. tries[j] \in 0..NumRetries /\ (Unlimited(j) => tries[j] = 0)
      BY DEF RepeaterInv, RepeaterTypeOK
    <3>2. CASE Unlimited(i) \/ j # i
      BY <2>1, <3>1, <3>2 DEF CountRound
    <3>3. CASE ~Unlimited(i) /\ j = i
      <4>1. tries[i] + 1 \in 0..NumRetries
        BY <1>2, <1>4
      <4>2. tries'[i] = tries[i] + 1 \/ tries'[i] = tries[i]
        BY <2>1, <3>3 DEF CountRound
      <4>. QED  BY <3>1, <3>3, <4>1, <4>2
    <3>. QED  BY <3>2, <3>3
  <2>3. RepeaterTypeOK'
    BY <1>1, <2>1, <2>2 DEF RepeaterInv, RepeaterTypeOK
  <2>4. AnswersFollow'
    BY <1>1, <2>1, Apart DEF RepeaterInv, AnswersFollow, Reached
  <2>5. GoneIfReached' /\ NoneGivenUp'
    BY <1>1, <2>1 DEF RepeaterInv, GoneIfReached, NoneGivenUp, Reached, Expected
  <2>. QED  BY <2>3, <2>4, <2>5 DEF RepeaterInv
<1>. QED  BY <1>3, <1>4

\* The peer receives a request (dbnode.go:467-611).
LEMMA DeliverKeeps ==
  ASSUME RepeaterInv, NEW i \in Request, Deliver(i)
  PROVE  RepeaterInv'
<1>. DEFINE mine == PeerAnswer(Requests[i].type)
<1>1. received' = received \cup {i} /\ UNCHANGED <<unacked, goroutine, tries, down, dropped, failures>>
  BY DEF Deliver
<1>2. link' \subseteq link \cup {Answered(mine)} /\ mine \in AnswerTypes
  BY ExpectedIsAnswer DEF Deliver
<1>3. Reached(mine)'
  BY <1>1 DEF Reached
<1>4. RepeaterTypeOK'
  BY <1>1, <1>2 DEF RepeaterInv, RepeaterTypeOK
<1>. HIDE DEF mine
<1>5. AnswersFollow'
  <2>. SUFFICES ASSUME NEW type \in AnswerTypes, Answered(type) \in link'
       PROVE  Reached(type)'
    BY DEF AnswersFollow
  <2>1. type = mine \/ Answered(type) \in link
    BY <1>2, Apart
  <2>. QED  BY <1>1, <1>3, <2>1, ReachedStays DEF RepeaterInv, AnswersFollow
<1>6. GoneIfReached' /\ NoneGivenUp'
  BY <1>1, ReachedStays DEF RepeaterInv, GoneIfReached, NoneGivenUp, Reached, Expected
<1>. QED  BY <1>4, <1>5, <1>6 DEF RepeaterInv

\* An answer removes the entry of its type (repeater.go:112-119).
LEMMA AckKeeps ==
  ASSUME RepeaterInv, NEW type \in AnswerTypes, Ack(type)
  PROVE  RepeaterInv'
<1>1. /\ unacked' = unacked \ {type} /\ link' \subseteq link
      /\ UNCHANGED <<goroutine, tries, received, down, dropped, failures>>
  BY DEF Ack
<1>2. Reached(type)
  BY DEF Ack, RepeaterInv, AnswersFollow
<1>3. RepeaterTypeOK' /\ AnswersFollow' /\ NoneGivenUp'
  BY <1>1 DEF RepeaterInv, RepeaterTypeOK, AnswersFollow, NoneGivenUp, Reached
<1>4. GoneIfReached'
  <2>. SUFFICES ASSUME NEW j \in Request, goroutine[j] # "none", Expected(j) \notin unacked'
       PROVE  Reached(PeerAnswer(Requests[j].type))
    BY <1>1 DEF GoneIfReached, Expected, Reached
  <2>1. CASE Expected(j) = type
    BY <2>1, <1>2, ExpectedIsAnswer
  <2>2. CASE Expected(j) # type
    BY <2>2, <1>1 DEF RepeaterInv, GoneIfReached
  <2>. QED  BY <2>1, <2>2
<1>. QED  BY <1>3, <1>4 DEF RepeaterInv

\* Losses, failures and recoveries change neither the table nor the goroutines
\* (repeater.go:123-136).
LEMMA OthersKeep ==
  ASSUME RepeaterInv,
         (\E m \in link : Drop(m)) \/ RepeaterFail \/ RepeaterRecover \/ UNCHANGED repeaterVars
  PROVE  RepeaterInv'
<1>1. link' \subseteq link /\ UNCHANGED <<unacked, goroutine, tries, received>>
  BY DEF Drop, RepeaterFail, RepeaterRecover, repeaterVars
<1>2. down' \in BOOLEAN /\ dropped' \in 0..MaxDropped /\ failures' \in 0..MaxFailures
  <2>1. /\ down \in BOOLEAN /\ dropped \in 0..MaxDropped /\ failures \in 0..MaxFailures
        /\ MaxDropped \in Nat /\ MaxFailures \in Nat
    BY RepeaterAssumption DEF RepeaterAssumption, RepeaterInv, RepeaterTypeOK
  <2>2. CASE \E m \in link : Drop(m)
    <3>1. UNCHANGED <<down, failures>> /\ dropped < MaxDropped /\ dropped' = dropped + 1
      BY <2>2 DEF Drop
    <3>2. dropped' \in 0..MaxDropped
      BY <2>1, <3>1
    <3>. QED  BY <2>1, <3>1, <3>2
  <2>3. CASE RepeaterFail
    <3>1. UNCHANGED dropped /\ failures < MaxFailures /\ failures' = failures + 1 /\ down' = TRUE
      BY <2>3 DEF RepeaterFail
    <3>2. failures' \in 0..MaxFailures
      BY <2>1, <3>1
    <3>. QED  BY <2>1, <3>1, <3>2
  <2>4. CASE RepeaterRecover \/ UNCHANGED repeaterVars
    <3>1. UNCHANGED <<dropped, failures>> /\ (down' = FALSE \/ down' = down)
      BY <2>4 DEF RepeaterRecover, repeaterVars
    <3>. QED  BY <2>1, <3>1
  <2>. QED  BY <2>2, <2>3, <2>4
<1>3. RepeaterTypeOK'
  BY <1>1, <1>2 DEF RepeaterInv, RepeaterTypeOK
<1>. QED  BY <1>1, <1>3 DEF RepeaterInv, AnswersFollow, GoneIfReached, NoneGivenUp, Reached, Expected

-----------------------------------------------------------------------------
\* The invariant holds at the start and is kept by every action of the repeater,
\* its peer and the links.
THEOREM RepeaterInvariant == RepeaterSpec => []RepeaterInv
<1>1. RepeaterInit => RepeaterInv
  <2>. SUFFICES ASSUME RepeaterInit PROVE RepeaterInv
    OBVIOUS
  <2>1. 0 \in 0..NumRetries /\ 0 \in 0..MaxDropped /\ 0 \in 0..MaxFailures
    BY RepeaterAssumption DEF RepeaterAssumption
  <2>2. RepeaterTypeOK
    BY <2>1 DEF RepeaterInit, RepeaterTypeOK
  <2>3. \A i \in Request : goroutine[i] = "none"
    BY DEF RepeaterInit
  <2>4. link = {}
    BY DEF RepeaterInit
  <2>. QED  BY <2>2, <2>3, <2>4 DEF RepeaterInv, AnswersFollow, GoneIfReached, NoneGivenUp
<1>2. RepeaterInv /\ [RepeaterNext]_repeaterVars => RepeaterInv'
  BY SendKeeps, RoundKeeps, DeliverKeeps, AckKeeps, OthersKeep DEF RepeaterNext
<1>. QED  BY <1>1, <1>2, PTL DEF RepeaterSpec

\* An unlimited request is not given up before one of its kind has arrived: what
\* a coordinator tells its members after they have voted reaches them
\* (repeater.go:49-51).
THEOREM ArrivesBeforeItEnds == RepeaterSpec => []NoneGivenUp
<1>1. RepeaterInv => NoneGivenUp
  BY DEF RepeaterInv
<1>. QED  BY <1>1, RepeaterInvariant, PTL

\* A limited request is sent numRetries times at most, whatever fails meanwhile
\* (repeater.go:84, 98-103).
THEOREM RetriesBounded == RepeaterSpec => []RepeaterTypeOK
<1>1. RepeaterInv => RepeaterTypeOK
  BY DEF RepeaterInv
<1>. QED  BY <1>1, RepeaterInvariant, PTL

-----------------------------------------------------------------------------
(* The client *)

\* What the types say of one attempt.
LEMMA AttemptFields ==
  ASSUME ClientTypeOK
  PROVE  /\ Attempt \subseteq Nat \ {0} /\ Len(attempts) \in Nat
         /\ DOMAIN fate = Attempt /\ DOMAIN buffer = Attempt
         /\ \A i \in Attempt :
              /\ attempts[i] \in Caller
              /\ fate[i] \subseteq Fates
              /\ buffer[i] \in {Listening} \cup Answer
BY DEF ClientTypeOK, Attempt

\* A call that nothing happens to stays honest, whatever the database decides.
LEMMA CallStays ==
  ASSUME NEW c \in Caller, CallHonest(c),
         current'[c] = current[c], outcome'[c] = outcome[c], c \in expired => c \in expired',
         OwnAttempts(c)' = OwnAttempts(c),
         \A i \in OwnAttempts(c) : fate[i] \subseteq fate'[i]
  PROVE  CallHonest(c)'
<1>1. \A i : IsLatest(c, i)' <=> IsLatest(c, i)
  BY DEF IsLatest
<1>2. \A i : IsLatest(c, i) => i \in OwnAttempts(c) /\ i \in Attempt'
  BY DEF IsLatest, OwnAttempts
<1>. QED  BY <1>1, <1>2 DEF CallHonest

\* An attempt is made, with an id that no answer has (client.go:113-118).
LEMMA NewAttemptKeeps ==
  ASSUME ClientInv, NEW c \in Caller, NewAttempt(c)
  PROVE  ClientInv'
<1>0. PICK n : n = Len(attempts) + 1
  OBVIOUS
<1>1. /\ attempts' = Append(attempts, c) /\ fate' = Append(fate, {})
      /\ buffer' = Append(buffer, Listening)
      /\ registered' = registered \cup {n} /\ current' = [current EXCEPT ![c] = n]
      /\ tried' = [tried EXCEPT ![c] = @ + 1]
      /\ UNCHANGED <<expired, outcome, incoming, doubled, router>>
      /\ current[c] = 0 /\ outcome[c] # "success" /\ tried[c] # ClientAttempts
  BY <1>0 DEF NewAttempt, Draw, Returned
<1>2. /\ attempts \in Seq(Caller) /\ fate \in Seq(SUBSET Fates)
      /\ buffer \in Seq({Listening} \cup Answer)
      /\ Len(fate) = Len(attempts) /\ Len(buffer) = Len(attempts) /\ Len(attempts) \in Nat
      /\ ClientTypeOK
  BY DEF ClientInv, ClientTypeOK
<1>3. /\ attempts' \in Seq(Caller) /\ Len(attempts') = n /\ attempts'[n] = c
      /\ \A i \in 1..Len(attempts) : attempts'[i] = attempts[i]
  BY <1>0, <1>1, <1>2, AppendProperties
<1>4. /\ fate' \in Seq(SUBSET Fates) /\ Len(fate') = n
      /\ fate'[n] = {} /\ \A i \in 1..Len(attempts) : fate'[i] = fate[i]
  BY <1>0, <1>1, <1>2, AppendProperties
<1>5. /\ buffer' \in Seq({Listening} \cup Answer) /\ Len(buffer') = n
      /\ buffer'[n] = Listening /\ \A i \in 1..Len(attempts) : buffer'[i] = buffer[i]
  BY <1>0, <1>1, <1>2, AppendProperties
<1>6. Attempt' = Attempt \cup {n} /\ n \notin Attempt /\ n \in Nat \ {0} /\ \A i \in Attempt : i < n
  BY <1>0, <1>2, <1>3 DEF Attempt
<1>7. ClientTypeOK'
  <2>1. tried[c] + 1 \in 0..ClientAttempts /\ tried \in [Caller -> 0..ClientAttempts]
    BY <1>1, <1>2, ClientAssumption DEF ClientTypeOK, ClientAssumption
  <2>2. /\ tried' \in [Caller -> 0..ClientAttempts]
        /\ current' \in [Caller -> Attempt' \cup {0}]
    BY <1>1, <1>2, <1>6, <2>1 DEF ClientTypeOK
  <2>3. registered' \subseteq Attempt'
    BY <1>1, <1>2, <1>6 DEF ClientTypeOK
  <2>. QED  BY <1>1, <1>2, <1>3, <1>4, <1>5, <2>1, <2>2, <2>3 DEF ClientTypeOK
<1>8. \A a : Truthful(a) => Truthful(a)'
  BY <1>4, <1>6 DEF Truthful, Attempt
<1>9. AnswersTruthful' /\ AnswersApart'
  <2>1. AnswersTruthful'
    BY <1>1, <1>5, <1>6, <1>8 DEF ClientInv, AnswersTruthful, Attempt
  <2>2. \A a \in incoming : a[1] \in Attempt
    BY DEF ClientInv, AnswersTruthful, Truthful
  <2>3. router # Listening => router[1] \in Attempt
    BY DEF ClientInv, AnswersTruthful, Truthful
  <2>4. AnswersApart'
    BY <1>1, <1>5, <1>6, <2>2, <2>3 DEF ClientInv, AnswersApart, IsFirst, Attempt
  <2>. QED  BY <2>1, <2>4
<1>10. ASSUME NEW d \in Caller
       PROVE  CallHonest(d)'
  <2>1. \A i \in Attempt : i \in OwnAttempts(d)' <=> i \in OwnAttempts(d)
    BY <1>3, <1>6 DEF OwnAttempts, Attempt
  <2>2. CASE d # c
    <3>1. OwnAttempts(d)' = OwnAttempts(d)
      BY <1>3, <1>6, <2>1, <2>2 DEF OwnAttempts
    <3>2. \A i \in OwnAttempts(d) : fate[i] \subseteq fate'[i]
      BY <1>4 DEF OwnAttempts, Attempt
    <3>3. current'[d] = current[d] /\ outcome'[d] = outcome[d] /\ CallHonest(d)
      BY <1>1, <2>2 DEF ClientInv
    <3>. QED  BY <1>1, <3>1, <3>2, <3>3, CallStays
  <2>3. CASE d = c
    <3>1. OwnAttempts(c)' = OwnAttempts(c) \cup {n}
      BY <1>3, <1>6, <2>1, <2>3 DEF OwnAttempts
    <3>2. current'[c] = n /\ n # 0 /\ outcome'[c] # "success"
      BY <1>1, <1>2, <1>6 DEF ClientTypeOK
    <3>3. IsLatest(c, n)'
      <4>1. \A j \in OwnAttempts(c) : j < n /\ j \in Nat
        BY <1>2, <1>6, AttemptFields DEF OwnAttempts
      <4>2. \A j \in OwnAttempts(c)' : j <= n
        BY <1>6, <3>1, <4>1
      <4>. QED  BY <3>1, <4>2 DEF IsLatest
    <3>4. ASSUME c \notin expired, NEW i \in OwnAttempts(c)
          PROVE  "refused" \in fate'[i]
      <4>1. i \in Attempt /\ i # current[c] /\ i \in 1..Len(attempts)
        BY <1>1, <1>2, <3>4, AttemptFields DEF OwnAttempts, Attempt
      <4>. QED  BY <1>1, <1>4, <3>4, <4>1 DEF ClientInv, CallHonest
    <3>. QED  BY <1>1, <2>3, <3>1, <3>2, <3>3, <3>4 DEF CallHonest
  <2>. QED  BY <2>2, <2>3
<1>. QED  BY <1>7, <1>9, <1>10 DEF ClientInv

\* A call takes the answer of the attempt it waits for (client.go:128-140).
LEMMA ReceiveKeeps ==
  ASSUME ClientInv, NEW c \in Caller, Receive(c)
  PROVE  ClientInv'
<1>. DEFINE i == current[c]
<1>1. /\ i # 0 /\ buffer[i] # Listening
      /\ buffer' = [buffer EXCEPT ![i] = Listening]
      /\ current' = [current EXCEPT ![c] = 0]
      /\ outcome' = [outcome EXCEPT ![c] = IF buffer[i][2] THEN "success" ELSE "error"]
      /\ registered' \subseteq registered
      /\ UNCHANGED <<attempts, tried, expired, fate, incoming, doubled, router>>
  BY DEF Receive
<1>2. ClientTypeOK /\ i \in Attempt /\ Attempt' = Attempt
  BY <1>1 DEF ClientInv, ClientTypeOK, Attempt
<1>3. buffer[i] \in Answer /\ Truthful(buffer[i]) /\ buffer[i][1] = i
  BY <1>1, <1>2, AttemptFields DEF ClientInv, AnswersTruthful
<1>4. (IF buffer[i][2] THEN "executed" ELSE "refused") \in fate[i]
  BY <1>3 DEF Truthful, Fate
<1>. HIDE DEF i
<1>5. /\ buffer' \in Seq({Listening} \cup Answer) /\ Len(buffer') = Len(buffer)
      /\ buffer'[i] = Listening /\ \A j \in Attempt : j # i => buffer'[j] = buffer[j]
  BY <1>1, <1>2, ExceptSeq, AttemptFields DEF ClientTypeOK
<1>6. ClientTypeOK'
  <2>1. current' \in [Caller -> Attempt' \cup {0}] /\ tried' \in [Caller -> 0..ClientAttempts]
    BY <1>1, <1>2 DEF ClientTypeOK
  <2>2. outcome' \in [Caller -> {"none", "error", "unknown", "success"}]
    BY <1>1, <1>2 DEF ClientTypeOK
  <2>. QED  BY <1>1, <1>2, <1>5, <2>1, <2>2 DEF ClientTypeOK
<1>7. \A a : Truthful(a)' <=> Truthful(a)
  BY <1>1, <1>2 DEF Truthful
<1>8. AnswersTruthful' /\ AnswersApart'
  <2>1. AnswersTruthful'
    BY <1>1, <1>2, <1>5, <1>7 DEF ClientInv, AnswersTruthful
  <2>2. \A a : Truthful(a) => a[1] \in Attempt
    BY DEF Truthful
  <2>3. AnswersApart'
    BY <1>1, <1>2, <1>5, <2>2 DEF ClientInv, AnswersApart, AnswersTruthful, IsFirst
  <2>. QED  BY <2>1, <2>3
<1>9. ASSUME NEW d \in Caller
      PROVE  CallHonest(d)'
  <2>1. OwnAttempts(d)' = OwnAttempts(d) /\ \A j : IsLatest(d, j)' <=> IsLatest(d, j)
    BY <1>1, <1>2 DEF OwnAttempts, IsLatest
  <2>2. CASE d # c
    <3>1. current'[d] = current[d] /\ outcome'[d] = outcome[d] /\ CallHonest(d)
      BY <1>1, <2>2 DEF ClientInv
    <3>. QED  BY <1>1, <2>1, <3>1, CallStays
  <2>3. CASE d = c
    <3>1. /\ current'[c] = 0
          /\ \/ outcome'[c] = "success" /\ "executed" \in fate[i]
             \/ outcome'[c] = "error" /\ "refused" \in fate[i]
      BY <1>1, <1>4 DEF ClientInv, ClientTypeOK
    <3>2. IsLatest(c, i) /\ outcome[c] # "success"
      BY <1>1 DEF ClientInv, CallHonest, i
    <3>3. c \notin expired => \A j \in OwnAttempts(c) : j = i \/ "refused" \in fate[j]
      BY <3>2 DEF ClientInv, CallHonest, i
    <3>. QED  BY <1>1, <1>2, <1>4, <2>1, <2>3, <3>1, <3>2, <3>3 DEF CallHonest
  <2>. QED  BY <2>2, <2>3
<1>. QED  BY <1>6, <1>8, <1>9 DEF ClientInv

\* The timer of an attempt fires first (client.go:141-143).
LEMMA TimerFiresKeeps ==
  ASSUME ClientInv, NEW c \in Caller, TimerFires(c)
  PROVE  ClientInv'
<1>1. /\ current' = [current EXCEPT ![c] = 0] /\ outcome' = [outcome EXCEPT ![c] = "unknown"]
      /\ expired' = expired \cup {c}
      /\ UNCHANGED <<attempts, tried, fate, incoming, doubled, registered, buffer, router>>
      /\ Attempt' = Attempt
  BY DEF TimerFires, Attempt
<1>2. ClientTypeOK'
  BY <1>1 DEF ClientInv, ClientTypeOK
<1>3. AnswersTruthful' /\ AnswersApart'
  BY <1>1 DEF ClientInv, AnswersTruthful, AnswersApart, Truthful, IsFirst
<1>4. ASSUME NEW d \in Caller
      PROVE  CallHonest(d)'
  <2>1. OwnAttempts(d)' = OwnAttempts(d)
    BY <1>1 DEF OwnAttempts
  <2>2. CASE d # c
    <3>1. current'[d] = current[d] /\ outcome'[d] = outcome[d] /\ CallHonest(d)
      BY <1>1, <2>2 DEF ClientInv
    <3>. QED  BY <1>1, <2>1, <3>1, CallStays
  <2>3. CASE d = c
    <3>1. current'[c] = 0 /\ outcome'[c] = "unknown" /\ c \in expired'
      BY <1>1 DEF ClientInv, ClientTypeOK
    <3>. QED  BY <2>3, <3>1 DEF CallHonest
  <2>. QED  BY <2>2, <2>3
<1>. QED  BY <1>2, <1>3, <1>4 DEF ClientInv

\* The database executes an attempt or refuses it, for the first time or again: an
\* answer joins the others, and what it says is true.
LEMMA AnswerKeeps ==
  ASSUME ClientInv, NEW i \in Attempt, NEW ok \in BOOLEAN, NEW k \in Nat,
         fate' = [fate EXCEPT ![i] = @ \cup {Fate(ok)}],
         incoming' = incoming \cup {<<i, ok, k>>},
         doubled' \in 0..MaxDoubled,
         k = 0 => fate[i] = {},
         UNCHANGED <<attempts, current, tried, expired, outcome, registered, buffer, router>>
  PROVE  ClientInv'
<1>1. ClientTypeOK /\ DOMAIN fate = Attempt /\ i \in Nat /\ Attempt' = Attempt
  BY AttemptFields DEF ClientInv, Attempt
<1>2. Fate(ok) \in Fates /\ fate[i] \subseteq Fates
  BY <1>1, AttemptFields DEF Fate, Fates
<1>3. /\ fate' \in Seq(SUBSET Fates) /\ Len(fate') = Len(fate)
      /\ fate'[i] = fate[i] \cup {Fate(ok)}
      /\ \A j \in Attempt : fate[j] \subseteq fate'[j]
  <2>1. fate[i] \cup {Fate(ok)} \in SUBSET Fates /\ fate \in Seq(SUBSET Fates)
    BY <1>1, <1>2 DEF ClientTypeOK
  <2>2. /\ fate' \in Seq(SUBSET Fates) /\ Len(fate') = Len(fate)
        /\ fate'[i] = fate[i] \cup {Fate(ok)}
        /\ \A j \in DOMAIN fate : j # i => fate'[j] = fate[j]
    BY <1>1, <2>1, ExceptSeq
  <2>. QED  BY <1>1, <2>2
<1>. DEFINE x == <<i, ok, k>>
<1>4. x \in Answer /\ x[1] = i /\ x[2] = ok /\ x[3] = k /\ x # Listening
  BY <1>1 DEF Answer, Listening
<1>5. incoming' = incoming \cup {x}
  OBVIOUS
<1>. HIDE DEF x
<1>6. ClientTypeOK'
  BY <1>1, <1>3, <1>4, <1>5 DEF ClientTypeOK
<1>7. (\A a : Truthful(a) => Truthful(a)') /\ Truthful(x)'
  BY <1>1, <1>3, <1>4 DEF Truthful
<1>8. AnswersTruthful'
  BY <1>1, <1>5, <1>7 DEF ClientInv, AnswersTruthful
<1>9. AnswersApart'
  <2>1. IsFirst(x, i) => /\ \A a \in incoming : a[1] # i
                         /\ ~IsFirst(buffer[i], i) /\ ~IsFirst(router, i)
    <3>1. IsFirst(x, i) => fate[i] = {}
      BY <1>4 DEF IsFirst
    <3>2. fate[i] = {} => \A a : Truthful(a) => a[1] # i
      BY DEF Truthful
    <3>. QED  BY <3>1, <3>2 DEF ClientInv, AnswersTruthful, IsFirst
  <2>2. x[1] = i /\ UNCHANGED <<buffer, router>>
    BY <1>4
  <2>3. ASSUME NEW a \in incoming', NEW b \in incoming', IsFirst(a, a[1]), IsFirst(b, b[1]), a[1] = b[1]
        PROVE  a = b
    BY <2>1, <2>2, <2>3, <1>5 DEF ClientInv, AnswersApart
  <2>. QED  BY <1>1, <1>5, <2>1, <2>2 DEF ClientInv, AnswersApart, IsFirst
<1>10. ASSUME NEW d \in Caller
       PROVE  CallHonest(d)'
  <2>1. OwnAttempts(d)' = OwnAttempts(d)
    BY <1>1 DEF OwnAttempts
  <2>2. \A j \in OwnAttempts(d) : fate[j] \subseteq fate'[j]
    BY <1>3 DEF OwnAttempts
  <2>. QED  BY <2>1, <2>2, CallStays DEF ClientInv
<1>. QED  BY <1>6, <1>8, <1>9, <1>10 DEF ClientInv

\* The first answer to an attempt.
LEMMA DecidesKeeps ==
  ASSUME ClientInv, NEW i \in Attempt, Decides(i)
  PROVE  ClientInv'
<1>1. PICK ok \in BOOLEAN :
        /\ fate' = [fate EXCEPT ![i] = {Fate(ok)}]
        /\ incoming' = incoming \cup {<<i, ok, 0>>}
  BY DEF Decides
<1>2. /\ fate[i] = {} /\ doubled' \in 0..MaxDoubled
      /\ UNCHANGED <<attempts, current, tried, expired, outcome, registered, buffer, router>>
  BY DEF Decides, ClientInv, ClientTypeOK
<1>3. fate' = [fate EXCEPT ![i] = @ \cup {Fate(ok)}]
  BY <1>1, <1>2
<1>. QED  BY <1>1, <1>2, <1>3, AnswerKeeps

\* The same attempt processed again, with the same answer or the other one.
LEMMA AnswersAgainKeeps ==
  ASSUME ClientInv, NEW i \in Attempt, AnswersAgain(i)
  PROVE  ClientInv'
<1>1. PICK ok \in BOOLEAN :
        /\ fate' = [fate EXCEPT ![i] = @ \cup {Fate(ok)}]
        /\ incoming' = incoming \cup {<<i, ok, doubled + 1>>}
  BY DEF AnswersAgain
<1>2. /\ doubled < MaxDoubled /\ doubled' = doubled + 1
      /\ UNCHANGED <<attempts, current, tried, expired, outcome, registered, buffer, router>>
  BY DEF AnswersAgain
<1>3. doubled' \in 0..MaxDoubled /\ doubled + 1 \in Nat /\ doubled + 1 # 0
  BY <1>2, ClientAssumption DEF ClientInv, ClientTypeOK, ClientAssumption
<1>. QED  BY <1>1, <1>2, <1>3, AnswerKeeps

\* routeResponses takes an answer from the inbox, and drops it or puts it into its
\* channel (client.go:83-97).
LEMMA RoutingKeeps ==
  ASSUME ClientInv, (\E a \in incoming : Route(a)) \/ Put
  PROVE  ClientInv'
<1>1. /\ UNCHANGED <<attempts, current, tried, expired, outcome, fate, doubled, registered>>
      /\ Attempt' = Attempt /\ ClientTypeOK
  BY DEF Route, Put, Attempt, ClientInv
<1>2. \A a : Truthful(a)' <=> Truthful(a)
  BY <1>1 DEF Truthful
<1>3. ASSUME NEW d \in Caller
      PROVE  CallHonest(d)'
  <2>1. OwnAttempts(d)' = OwnAttempts(d)
    BY <1>1 DEF OwnAttempts
  <2>. QED  BY <1>1, <2>1, CallStays DEF ClientInv
<1>4. ASSUME NEW a \in incoming, Route(a)
      PROVE  ClientTypeOK' /\ AnswersTruthful' /\ AnswersApart'
  <2>1. /\ router = Listening /\ incoming' = incoming \ {a} /\ buffer' = buffer
        /\ router' = a \/ router' = Listening
    BY <1>4 DEF Route
  <2>2. ClientTypeOK'
    BY <1>1, <1>4, <2>1 DEF ClientTypeOK
  <2>3. AnswersTruthful'
    BY <1>1, <1>2, <1>4, <2>1 DEF ClientInv, AnswersTruthful
  <2>4. AnswersApart'
    BY <1>1, <1>4, <2>1 DEF ClientInv, AnswersApart, IsFirst
  <2>. QED  BY <2>2, <2>3, <2>4
<1>5. ASSUME Put
      PROVE  ClientTypeOK' /\ AnswersTruthful' /\ AnswersApart'
  <2>1. /\ router # Listening /\ buffer[router[1]] = Listening
        /\ buffer' = [buffer EXCEPT ![router[1]] = router]
        /\ router' = Listening /\ incoming' = incoming
    BY <1>5 DEF Put
  <2>2. router[1] \in Attempt /\ Truthful(router) /\ router \in Answer
    BY <1>1, <2>1 DEF ClientInv, AnswersTruthful, Truthful, ClientTypeOK
  <2>3. /\ buffer' \in Seq({Listening} \cup Answer) /\ Len(buffer') = Len(buffer)
        /\ buffer'[router[1]] = router
        /\ \A j \in Attempt : j # router[1] => buffer'[j] = buffer[j]
    BY <1>1, <2>1, <2>2, ExceptSeq, AttemptFields DEF ClientTypeOK
  <2>4. ClientTypeOK'
    BY <1>1, <2>1, <2>3 DEF ClientTypeOK
  <2>5. AnswersTruthful'
    BY <1>1, <1>2, <2>1, <2>2, <2>3 DEF ClientInv, AnswersTruthful
  <2>6. \A b \in incoming : b[1] \in Attempt
    BY DEF ClientInv, AnswersTruthful, Truthful
  <2>7. AnswersApart'
    BY <1>1, <2>1, <2>2, <2>3, <2>6 DEF ClientInv, AnswersApart, IsFirst
  <2>. QED  BY <2>4, <2>5, <2>7
<1>. QED  BY <1>1, <1>3, <1>4, <1>5 DEF ClientInv

\* The client begins with no attempt.
LEMMA ClientBegins == ClientInit => ClientInv
<1>. SUFFICES ASSUME ClientInit
     PROVE  ClientInv
  OBVIOUS
<1>1. Attempt = {} /\ \A c : OwnAttempts(c) = {}
  BY DEF ClientInit, Attempt, OwnAttempts
<1>2. ClientTypeOK
  BY <1>1, ClientAssumption DEF ClientInit, ClientTypeOK, ClientAssumption
<1>3. AnswersTruthful /\ AnswersApart
  BY <1>1 DEF ClientInit, AnswersTruthful, AnswersApart
<1>4. \A c \in Caller : CallHonest(c)
  BY <1>1 DEF ClientInit, CallHonest
<1>. QED  BY <1>2, <1>3, <1>4 DEF ClientInv

\* Answers name the attempt they answer and say what became of it, each is in one
\* place, and a call waits for its last attempt (client.go:83-97, 104-137).
THEOREM ClientInvariant == ClientSpec => []ClientInv
<1>1. ClientInv /\ [ClientNext]_clientVars => ClientInv'
  <2>. SUFFICES ASSUME ClientInv, [ClientNext]_clientVars
       PROVE  ClientInv'
    OBVIOUS
  <2>1. CASE UNCHANGED clientVars
    <3>1. Attempt' = Attempt /\ ClientTypeOK'
      BY <2>1 DEF clientVars, ClientInv, ClientTypeOK, Attempt
    <3>2. AnswersTruthful' /\ AnswersApart'
      BY <2>1, <3>1 DEF clientVars, ClientInv, AnswersTruthful, AnswersApart, Truthful, IsFirst
    <3>3. \A d \in Caller : OwnAttempts(d)' = OwnAttempts(d)
      BY <2>1, <3>1 DEF clientVars, OwnAttempts
    <3>4. \A d \in Caller : CallHonest(d)'
      BY <2>1, <3>3, CallStays DEF clientVars, ClientInv
    <3>. QED  BY <2>1, <3>1, <3>2, <3>4 DEF clientVars, ClientInv
  <2>2. ASSUME NEW c \in Caller, Call(c)
        PROVE  ClientInv'
    BY <2>2, NewAttemptKeeps, ReceiveKeeps, TimerFiresKeeps DEF Call
  <2>3. ASSUME NEW i \in Attempt, Decides(i) \/ AnswersAgain(i)
        PROVE  ClientInv'
    BY <2>3, DecidesKeeps, AnswersAgainKeeps
  <2>. QED  BY <2>1, <2>2, <2>3, RoutingKeeps DEF ClientNext
<1>. QED  BY <1>1, ClientBegins, PTL DEF ClientSpec

\* What a call returns was true of its last attempt, and a call that returns an error
\* and never timed out has seen all of its attempts refused (client.go:183-200).
THEOREM ResultsHonest == ClientSpec => []ResultHonest
<1>1. ClientInv => ResultHonest
  <2>. SUFFICES ASSUME ClientInv, NEW c \in Caller, Returned(c)
       PROVE  /\ outcome[c] = "success" => "executed" \in fate[Latest(c)]
              /\ outcome[c] = "error" => "refused" \in fate[Latest(c)]
              /\ outcome[c] = "error" /\ c \notin expired =>
                   \A i \in OwnAttempts(c) : "refused" \in fate[i]
    BY DEF ResultHonest
  <2>1. CallHonest(c) /\ current[c] = 0 /\ Attempt \subseteq Nat \ {0}
    BY AttemptFields DEF ClientInv, Returned
  <2>2. ASSUME NEW i, IsLatest(c, i)
        PROVE  Latest(c) = i
    <3>1. \A j : IsLatest(c, j) => j = i
      BY <2>1, <2>2 DEF IsLatest, OwnAttempts
    <3>. QED  BY <2>2, <3>1 DEF Latest, IsLatest
  <2>3. outcome[c] = "success" => "executed" \in fate[Latest(c)]
    BY <2>1, <2>2 DEF CallHonest
  <2>4. outcome[c] = "error" => "refused" \in fate[Latest(c)]
    BY <2>1, <2>2 DEF CallHonest
  <2>5. outcome[c] = "error" /\ c \notin expired =>
          \A i \in OwnAttempts(c) : "refused" \in fate[i]
    BY <2>1 DEF CallHonest, OwnAttempts
  <2>. QED  BY <2>3, <2>4, <2>5
<1>. QED  BY <1>1, ClientInvariant, PTL

\* routeResponses waits only over a second answer to the same attempt
\* (client.go:83-97).
THEOREM RouterNeverWaits == ClientSpec => []RouterFlows
<1>1. ASSUME ClientInv, router # Listening
      PROVE  router[3] \in Nat
  BY <1>1 DEF ClientInv, ClientTypeOK, Answer
<1>2. ASSUME ClientInv, router # Listening, buffer[router[1]] # Listening, router[3] = 0
      PROVE  buffer[router[1]][3] > 0
  <2>1. router[1] \in Attempt /\ IsFirst(router, router[1])
    BY <1>2 DEF ClientInv, AnswersTruthful, Truthful, IsFirst
  <2>2. ~IsFirst(buffer[router[1]], router[1]) /\ buffer[router[1]][1] = router[1]
    BY <1>2, <2>1 DEF ClientInv, AnswersApart, AnswersTruthful
  <2>3. buffer[router[1]][3] # 0
    BY <1>2, <2>2 DEF IsFirst
  <2>4. buffer[router[1]][3] \in Nat
    BY <1>2, <2>1, AttemptFields DEF ClientInv, Answer
  <2>. QED  BY <2>3, <2>4
<1>3. ClientInv => RouterFlows
  BY <1>1, <1>2 DEF RouterFlows
<1>. QED  BY <1>3, ClientInvariant, PTL
=============================================================================
