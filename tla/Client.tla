------------------------------- MODULE Client -------------------------------
(***************************************************************************)
(* The client (net/client.go): calls of Get, Put and StrongPut, which      *)
(* application goroutines make at the same time.  Each attempt of a call   *)
(* has an id of its own and a response channel with room for one message;  *)
(* one goroutine, routeResponses, takes the answers of the database from   *)
(* the client's inbox and puts them into these channels.                   *)
(***************************************************************************)
EXTENDS Naturals, Sequences

CONSTANTS
  Caller,          \* calls, each made by a goroutine of its own
  ClientAttempts,  \* numAttempts
  MaxIds,          \* bound: attempts of all calls together
  MaxDoubled       \* bound: answers beyond the first for one attempt

ASSUME ClientAssumption ==
  ClientAttempts \in Nat \ {0} /\ MaxIds \in Nat /\ MaxDoubled \in Nat

VARIABLES
  attempts,     \* the call that made each attempt; idStream has given Len(attempts) ids
  current,      \* the attempt that a call is waiting for, or 0
  tried,        \* attempts of each call
  expired,      \* history: calls one of whose attempts timed out
  outcome,      \* resType and ok: what a call has returned or would return
  fate,         \* what the database did with each attempt, {} while it is pending
  incoming,     \* answers in the client's inbox or on their way, <<attempt, ok, copy>>
  doubled,      \* answers beyond the first
  registered,   \* the attempts in responseChans
  buffer,       \* what is in the response channel of each attempt
  router        \* the answer that routeResponses is about to put, or Listening

clientVars == <<attempts, current, tried, expired, outcome, fate, incoming,
                doubled, registered, buffer, router>>

Attempt == 1..Len(attempts)
Listening == <<>>
Answer == Nat \X BOOLEAN \X Nat
Fates == {"executed", "refused"}
Fate(ok) == IF ok THEN "executed" ELSE "refused"

\* No call makes more than numAttempts attempts.
ClientTypeOK ==
  /\ attempts \in Seq(Caller)
  /\ current \in [Caller -> Attempt \cup {0}] /\ tried \in [Caller -> 0..ClientAttempts]
  /\ expired \subseteq Caller
  /\ outcome \in [Caller -> {"none", "error", "unknown", "success"}]
  /\ fate \in Seq(SUBSET Fates) /\ Len(fate) = Len(attempts)
  /\ incoming \subseteq Answer
  /\ doubled \in 0..MaxDoubled
  /\ registered \subseteq Attempt
  /\ buffer \in Seq({Listening} \cup Answer) /\ Len(buffer) = Len(attempts)
  /\ router \in {Listening} \cup Answer
-----------------------------------------------------------------------------
(* A call: Get, Put and StrongPut have the same control.                    *)

\* idStream <- i: an attempt registers its channel and sends its request.
DrawOnce(c) ==     \* a mutant: one id for all attempts of a call
  LET own == {i \in Attempt : attempts[i] = c}
      id  == IF own = {} THEN Len(attempts) + 1 ELSE CHOOSE i \in own : TRUE IN
  /\ attempts' = IF own = {} THEN Append(attempts, c) ELSE attempts
  /\ fate' = [i \in DOMAIN attempts' |-> IF i = id THEN {} ELSE fate[i]]
  /\ buffer' = [i \in DOMAIN attempts' |-> IF i = id THEN Listening ELSE buffer[i]]
  /\ registered' = registered \cup {id}
  /\ current' = [current EXCEPT ![c] = id]
Draw(c) ==
  /\ attempts' = Append(attempts, c)
  /\ fate' = Append(fate, {})
  /\ buffer' = Append(buffer, Listening)
  /\ registered' = registered \cup {Len(attempts) + 1}
  /\ current' = [current EXCEPT ![c] = Len(attempts) + 1]

Returned(c) == current[c] = 0 /\ (outcome[c] = "success" \/ tried[c] = ClientAttempts)

AttemptMore(c) ==     \* a mutant: i <= numAttempts
  /\ current[c] = 0 /\ outcome[c] # "success" /\ tried[c] <= ClientAttempts
  /\ Len(attempts) < MaxIds
  /\ Draw(c)
  /\ tried' = [tried EXCEPT ![c] = @ + 1]
  /\ UNCHANGED <<expired, outcome, incoming, doubled, router>>
NewAttempt(c) ==
  /\ current[c] = 0 /\ ~Returned(c) /\ Len(attempts) < MaxIds
  /\ Draw(c)
  /\ tried' = [tried EXCEPT ![c] = @ + 1]
  /\ UNCHANGED <<expired, outcome, incoming, doubled, router>>

\* case msg := <-resChan: only after a refusal is the channel deleted.
Receive(c) ==
  LET i == current[c] IN
  /\ i # 0 /\ buffer[i] # Listening
  /\ buffer' = [buffer EXCEPT ![i] = Listening]
  /\ current' = [current EXCEPT ![c] = 0]
  /\ outcome' = [outcome EXCEPT ![c] = IF buffer[i][2] THEN "success" ELSE "error"]
  /\ registered' = IF buffer[i][2] THEN registered ELSE registered \ {i}
  /\ UNCHANGED <<attempts, tried, expired, fate, incoming, doubled, router>>

\* case <-timer.C, which select may take although an answer is there.
TimerFires(c) ==
  /\ current[c] # 0
  /\ current' = [current EXCEPT ![c] = 0]
  /\ outcome' = [outcome EXCEPT ![c] = "unknown"]
  /\ expired' = expired \cup {c}
  /\ UNCHANGED <<attempts, tried, fate, incoming, doubled, registered, buffer, router>>
-----------------------------------------------------------------------------
(* The database, and routeResponses.                                        *)

\* A pending attempt is executed or refused, at any time or never.  An answer
\* that is never routed is lost.
Decides(i) ==
  /\ fate[i] = {}
  /\ \E ok \in BOOLEAN :
       /\ fate' = [fate EXCEPT ![i] = {Fate(ok)}]
       /\ incoming' = incoming \cup {<<i, ok, 0>>}
  /\ UNCHANGED <<attempts, current, tried, expired, outcome, doubled, registered, buffer, router>>

\* A request that overwrote another's entry of the queue (dbnode.go:221, 269) is
\* processed again, whatever became of it the first time.
AnswersAgain(i) ==
  /\ fate[i] # {} /\ doubled < MaxDoubled
  /\ doubled' = doubled + 1
  /\ \E ok \in BOOLEAN :
       /\ fate' = [fate EXCEPT ![i] = @ \cup {Fate(ok)}]
       /\ incoming' = incoming \cup {<<i, ok, doubled + 1>>}
  /\ UNCHANGED <<attempts, current, tried, expired, outcome, registered, buffer, router>>

\* for msg := range Incoming: an answer without a channel is dropped.
Route(a) ==
  /\ router = Listening
  /\ incoming' = incoming \ {a}
  /\ router' = IF a[1] \in registered THEN a ELSE Listening
  /\ UNCHANGED <<attempts, current, tried, expired, outcome, fate, doubled, registered, buffer>>

\* responseChan <- msg
Put ==
  /\ router # Listening /\ buffer[router[1]] = Listening
  /\ buffer' = [buffer EXCEPT ![router[1]] = router]
  /\ router' = Listening
  /\ UNCHANGED <<attempts, current, tried, expired, outcome, fate, incoming, doubled, registered>>
-----------------------------------------------------------------------------
ClientInit ==
  /\ attempts = <<>> /\ fate = <<>> /\ buffer = <<>>
  /\ current = [c \in Caller |-> 0] /\ tried = [c \in Caller |-> 0]
  /\ outcome = [c \in Caller |-> "none"] /\ expired = {}
  /\ incoming = {} /\ doubled = 0
  /\ registered = {} /\ router = Listening

Call(c) == NewAttempt(c) \/ Receive(c) \/ TimerFires(c)

ClientNext ==
  \/ \E c \in Caller : Call(c)
  \/ \E i \in Attempt : Decides(i) \/ AnswersAgain(i)
  \/ \E a \in incoming : Route(a)
  \/ Put

ClientSpec == ClientInit /\ [][ClientNext]_clientVars
-----------------------------------------------------------------------------
(* Properties.                                                              *)

OwnAttempts(c) == {i \in Attempt : attempts[i] = c}
Latest(c) == CHOOSE i \in OwnAttempts(c) : \A j \in OwnAttempts(c) : j <= i

\* What a call returns was true of its last attempt, however late and in whatever
\* order the answers to its attempts and to those of other calls come.  A call that
\* returns an error and never timed out has seen every one of its attempts refused;
\* one that was executed all the same was processed twice.  So an error does not mean
\* that the transaction failed, as client.go:16 has it: an attempt that timed out, or
\* that was processed twice, may have been executed (client.go:154-201).
ResultHonest == \A c \in Caller : Returned(c) =>
  /\ outcome[c] = "success" => "executed" \in fate[Latest(c)]
  /\ outcome[c] = "error" => "refused" \in fate[Latest(c)]
  /\ outcome[c] = "error" /\ c \notin expired =>
       \A i \in OwnAttempts(c) : "refused" \in fate[i]

\* routeResponses, which serves all calls, waits only over a second answer to the
\* same attempt: however many channels of attempts that timed out stay registered,
\* with room for one answer that nobody takes, the first answer to an attempt finds
\* that room unless a second one came before it (client.go:83-97, 129-133).
RouterFlows == router # Listening /\ buffer[router[1]] # Listening =>
  router[3] > 0 \/ buffer[router[1]][3] > 0

\* An answer names an attempt and tells what the database did with it.
Truthful(a) == a[1] \in Attempt /\ Fate(a[2]) \in fate[a[1]]

\* So does every answer on its way, with the router, or in a response channel,
\* which is that of the attempt it answers.
AnswersTruthful ==
  /\ \A a \in incoming : Truthful(a)
  /\ router # Listening => Truthful(router)
  /\ \A i \in Attempt : buffer[i] # Listening => buffer[i][1] = i /\ Truthful(buffer[i])

\* The first answer to an attempt is in one place only.
IsFirst(a, i) == a # Listening /\ a[1] = i /\ a[3] = 0
AnswersApart ==
  /\ \A a, b \in incoming : IsFirst(a, a[1]) /\ IsFirst(b, a[1]) => a = b
  /\ \A a \in incoming : IsFirst(a, a[1]) =>
       ~IsFirst(buffer[a[1]], a[1]) /\ ~IsFirst(router, a[1])
  /\ \A i \in Attempt : ~(IsFirst(router, i) /\ IsFirst(buffer[i], i))

IsLatest(c, i) == i \in OwnAttempts(c) /\ \A j \in OwnAttempts(c) : j <= i

\* A call waits for its last attempt, or has returned what became of it; earlier
\* attempts whose answers it received were refused.
CallHonest(c) ==
  /\ current[c] # 0 => IsLatest(c, current[c]) /\ outcome[c] # "success"
  /\ current[c] = 0 /\ outcome[c] = "success" =>
       \E i \in Attempt : IsLatest(c, i) /\ "executed" \in fate[i]
  /\ current[c] = 0 /\ outcome[c] = "error" =>
       \E i \in Attempt : IsLatest(c, i) /\ "refused" \in fate[i]
  /\ c \notin expired => \A i \in OwnAttempts(c) :
       i = current[c] \/ "refused" \in fate[i] \/ outcome[c] = "success"

\* The inductive invariant: answers are matched to attempts by their ids, so that
\* late ones and those of other calls are told apart (client.go:83-97, 154-201).
ClientInv ==
  /\ ClientTypeOK
  /\ AnswersTruthful
  /\ AnswersApart
  /\ \A c \in Caller : CallHonest(c)
=============================================================================
