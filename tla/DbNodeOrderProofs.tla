-------------------------- MODULE DbNodeOrderProofs --------------------------
(***************************************************************************)
(* Proof that a request is answered once, and that a coordinator and each  *)
(* member of its quorum have one message between them at a time.  First, a *)
(* step is brought to one form: a handler leaves node n with work w, queue *)
(* q and the network net, and the end of the main loop follows.            *)
(***************************************************************************)
EXTENDS DbNodeOrder, DbNodeExclusion

\* A state, disturbed or not, in which every transaction was started once.
Orderly == /\ HandledOK /\ RestOK /\ issued \in SUBSET Txn
           /\ Typed(work, queue, network, issued)
           /\ StartedOnce(work, queue, network, issued)

AnswerKinds == {"NodeLockResponse", "NodeGetResponse", "NodePutResponse"}

\* Node n has received m, and the network is left as net: without m, unless the
\* repeater has sent a duplicate.
Taken(n, m, net) ==
  /\ m \in network /\ m.dest = n
  /\ net \in {network, network \ {m}}
  /\ m.type = "NodeLockResponse" \/ resends' = 0 => net = network \ {m}

TakenAnswer(n, net) == \E m : Taken(n, m, net) /\ m.type \in AnswerKinds

NothingWritten == UNCHANGED <<store, staged, replies, issued, floor>>

\* A message without an effect.
PassEffect(n, w, q, net) ==
  /\ w = work[n] /\ q = queue[n] /\ NothingWritten
  /\ net = network \/ TakenAnswer(n, net)

IssueEffect(n, w, q, net) ==
  \E t \in Txn :
    /\ Issue(t) /\ (Kind[t] = "ClientReadRequest" => ReadQuorumSize > 1)
    /\ w = work[n] /\ q = Append(queue[n], Entry(Request(t, n))) /\ net = network
    /\ UNCHANGED <<store, staged, replies>>

LocalReadEffect(n, w, q, net) ==
  \E t \in Txn :
    /\ Issue(t) /\ Kind[t] = "ClientReadRequest" /\ ReadQuorumSize = 1
    /\ staged[n] = NoVersion
    /\ replies' = replies \cup {Reply("ClientReadResponse", t, store[n], TRUE)}
    /\ w = work[n] /\ q = queue[n] /\ net = network
    /\ UNCHANGED <<store, staged>>

LockEffect(n, w, q, net) ==
  \E m : /\ Taken(n, m, net) /\ m.type = "NodeLockRequestNoTimeout"
         /\ w = work[n] /\ q = Append(queue[n], Entry(m)) /\ NothingWritten

GetEffect(n, w, q, net) ==
  \E m, left :
    /\ Taken(n, m, left) /\ m.type = "NodeGetRequest"
    /\ net = left \cup {Mail("NodeGetResponse", m.id, n, m.src,
                             IF staged[n] = NoVersion THEN store[n] ELSE NoVersion,
                             staged[n] = NoVersion)}
    /\ w = work[n] /\ q = queue[n] /\ NothingWritten

Serves(n, t) == work[n].mode = "processingWrite" /\ work[n].req.id = t

TimestampEffect(n, w, q, net) ==
  \E m, left :
    /\ Taken(n, m, left) /\ m.type = "NodeTimestampRequest"
    /\ net = left \cup {Mail("NodeGetResponse", m.id, n, m.src,
                             [ts |-> IF Serves(n, m.id) THEN store[n].ts ELSE 0, val |-> 0],
                             TRUE)}
    /\ w = work[n] /\ q = queue[n] /\ NothingWritten

PutEffect(n, w, q, net) ==
  \E m, left :
    /\ Taken(n, m, left) /\ m.type = "NodePutRequest"
    /\ net = left \cup {Mail("NodePutResponse", m.id, n, m.src,
                             [ts |-> m.ts, val |-> m.val], Serves(n, m.id))}
    /\ staged' = IF Serves(n, m.id) THEN [staged EXCEPT ![n] = [ts |-> m.ts, val |-> m.val]]
                                    ELSE staged
    /\ w = work[n] /\ q = queue[n] /\ UNCHANGED <<store, replies, issued, floor>>

UnlockEffect(n, w, q, net) ==
  \E m :
    /\ Taken(n, m, net) /\ m.type = "NodeUnlockRequest"
    /\ \/ /\ work[n].req.id = m.id /\ staged[n] # NoVersion /\ m.ok
          /\ store' = [store EXCEPT ![n] = staged[n]]
          /\ staged' = [staged EXCEPT ![n] = NoVersion]
       \/ /\ ~(work[n].req.id = m.id /\ staged[n] # NoVersion /\ m.ok)
          /\ UNCHANGED <<store, staged>>
    /\ w = (IF work[n].req.id = m.id THEN Idle ELSE work[n])
    /\ q = queue[n] /\ UNCHANGED <<replies, issued, floor>>

\* A lock that nobody waits for is given back.
GiveBackEffect(n, w, q, net) ==
  \E m, left :
    /\ Taken(n, m, left) /\ m.type = "NodeLockResponse" /\ m.ok
    /\ ~(work[n].req.id = m.id /\ work[n].mode = "assemblingQuorum")
    /\ net = left \cup {Mail("NodeUnlockRequest", m.id, n, m.src, NoVersion, FALSE)}
    /\ w = work[n] /\ q = queue[n] /\ NothingWritten

\* The coordinator n has received an answer that counts; c is its record with
\* the last answer counted.
Answering(n, m, net) ==
  /\ Taken(n, m, net) /\ m.ok /\ m.id = work[n].req.id
  /\ work[n].members[m.src].type # m.type
  /\ \/ m.type = "NodeLockResponse" /\ work[n].mode = "assemblingQuorum"
     \/ m.type = "NodeGetResponse" /\ work[n].mode \in {"coordinatingWrite", "coordinatingFastRead"}
     \/ m.type = "NodePutResponse" /\ work[n].mode = "coordinatingWrite"
LastAnswer(n, m, net, c) ==
  Answering(n, m, net) /\ c = Counted(work[n], m) /\ c.waiting = 0

CountEffect(n, w, q, net) ==
  \E m : /\ Answering(n, m, net) /\ w = Counted(work[n], m) /\ w.waiting # 0
         /\ q = queue[n] /\ NothingWritten

FinishReadEffect(n, w, q, net) ==
  \E m, c :
    /\ LastAnswer(n, m, net, c) /\ c.mode = "coordinatingFastRead"
    /\ LET known == {store[n]} \cup
                      {[ts |-> c.members[p].ts, val |-> c.members[p].val] : p \in Members(c)}
       IN \E v \in known :
            /\ IsNewest(v, known) /\ (v.ts = store[n].ts => v = store[n])
            /\ replies' = replies \cup {Reply("ClientReadResponse", c.req.id, v, TRUE)}
    /\ w = Idle /\ q = queue[n] /\ UNCHANGED <<store, staged, issued, floor>>

AskEffect(n, w, q, net) ==
  \E m, c, left :
    /\ LastAnswer(n, m, left, c) /\ c.mode = "assemblingQuorum"
    /\ w = Awaiting(c, "NodePutRequest", 0)
    /\ net = left \cup ToMembers("NodeTimestampRequest", n, c, NoVersion, TRUE)
    /\ q = queue[n] /\ NothingWritten

\* The newest timestamp that coordinator n knows, its own or of an answer in c.
Latest(n, c, k) ==
  /\ k \in {store[n].ts} \cup {c.members[p].ts : p \in Members(c)}
  /\ store[n].ts <= k
  /\ \A p \in Members(c) : c.members[p].ts <= k

AllDated(n, m, left, c, k) ==
  /\ LastAnswer(n, m, left, c) /\ Latest(n, c, k)
  /\ c.mode = "coordinatingWrite" /\ c.step = "NodePutRequest"

StageEffect(n, w, q, net) ==
  \E m, c, left, k :
    /\ AllDated(n, m, left, c, k)
    /\ c.req.type = "ClientStrongWriteRequest" => c.req.ts = k + 1
    /\ staged' = [staged EXCEPT ![n] = [ts |-> k + 1, val |-> c.req.id]]
    /\ w = Awaiting(c, "NodeUnlockRequest", k + 1)
    /\ net = left \cup ToMembers("NodePutRequest", n, c, [ts |-> k + 1, val |-> c.req.id], TRUE)
    /\ q = queue[n] /\ UNCHANGED <<store, replies, issued, floor>>

CommitEffect(n, w, q, net) ==
  \E m, c, left :
    /\ LastAnswer(n, m, left, c)
    /\ c.mode = "coordinatingWrite" /\ c.step = "NodeUnlockRequest"
    /\ store' = [store EXCEPT ![n] = staged[n]]
    /\ staged' = [staged EXCEPT ![n] = NoVersion]
    /\ replies' = replies \cup {Reply("ClientWriteResponse", c.req.id,
                                      [ts |-> c.ts, val |-> c.req.val], TRUE)}
    /\ net = left \cup Unlocks(n, c, TRUE)
    /\ w = Idle /\ q = queue[n] /\ UNCHANGED <<issued, floor>>

\* A coordinator gives up: a timer, an error, or a strong write that is too late;
\* c is its record as it was, or with the last answer counted.
QuitEffect(n, w, q, net) ==
  /\ work[n].mode \in Coordinating
  /\ \E left, c :
       /\ left = network \/ TakenAnswer(n, left)
       /\ c.req = work[n].req /\ net = left \cup Unlocks(n, c, FALSE)
       /\ \E ts \in Nat :
            /\ GiveUp(n, work[n], ts)
            /\ \/ ts = work[n].req.ts
               \/ \E m, k : AllDated(n, m, left, c, k) /\ ts = k + 1
  /\ w = Idle /\ q = queue[n] /\ UNCHANGED <<issued, floor>>

ExpireEffect(n, w, q, net) ==
  \E i \in 1..Len(queue[n]) :
    /\ q = Without(queue[n], i) /\ w = work[n]
    /\ \/ /\ FromClient(queue[n][i].msg) /\ net = network
          /\ replies' = replies \cup {Refusal(queue[n][i].msg, 0)}
       \/ /\ ~FromClient(queue[n][i].msg) /\ replies' = replies
          /\ net = network \cup {Mail("NodeLockResponse", queue[n][i].msg.id, n,
                                      queue[n][i].msg.src, NoVersion, FALSE)}
    /\ UNCHANGED <<store, staged, issued, floor>>

Effect(n, w, q, net) ==
  \/ PassEffect(n, w, q, net) \/ IssueEffect(n, w, q, net) \/ LocalReadEffect(n, w, q, net)
  \/ LockEffect(n, w, q, net) \/ GetEffect(n, w, q, net) \/ TimestampEffect(n, w, q, net)
  \/ PutEffect(n, w, q, net) \/ UnlockEffect(n, w, q, net) \/ GiveBackEffect(n, w, q, net)
  \/ CountEffect(n, w, q, net) \/ FinishReadEffect(n, w, q, net) \/ AskEffect(n, w, q, net)
  \/ StageEffect(n, w, q, net) \/ CommitEffect(n, w, q, net) \/ QuitEffect(n, w, q, net)
  \/ ExpireEffect(n, w, q, net)

\* How the iteration ends: as the handler left it, or with EndLoop.
Ends(n, w, q, net) ==
  \/ work' = [work EXCEPT ![n] = w] /\ queue' = [queue EXCEPT ![n] = q] /\ network' = net
  \/ \E done : EndLoop(n, w, q, done, net)

StepOf(n) == \E w, q, net : Effect(n, w, q, net) /\ Ends(n, w, q, net)

-----------------------------------------------------------------------------
(* Every step has this form *)

LEMMA CountedMembers ==
  ASSUME NEW w \in Work, w.mode \in Coordinating, NEW m \in NodeMessage,
         m.src \in Members(w)
  PROVE  Members(Counted(w, m)) = Members(w)
<1> DEFINE one == [type |-> m.type, ts |-> m.ts, val |-> m.val]
<1>1. one # NoAnswer
  BY DEF NoAnswer, NodeMessage, NodeKinds
<1> HIDE DEF one
<1>2. Counted(w, m).members = [w.members EXCEPT ![m.src] = one]
  BY DEF Counted, one
<1>3. w.members \in [Node -> Answer]
  BY DEF Work
<1>4. QED
  BY <1>1, <1>2, <1>3 DEF Members

LEMMA AbortForm ==
  ASSUME Orderly, NEW n \in Node, work[n].mode \in Coordinating, NEW left, NEW ts \in Nat,
         left = network \/ TakenAnswer(n, left), UNCHANGED <<issued, floor>>,
         NEW w, w.mode = work[n].mode, w.req = work[n].req,
         \/ ts = work[n].req.ts
         \/ \E m, k : AllDated(n, m, left, w, k) /\ ts = k + 1,
         Abort(n, w, ts, left)
  PROVE  StepOf(n)
<1> DEFINE net == left \cup Unlocks(n, w, FALSE)
<1>2. GiveUp(n, work[n], ts)
  BY DEF Abort, GiveUp
<1>3. QuitEffect(n, Idle, queue[n], net)
  BY <1>2 DEF QuitEffect
<1>4. Ends(n, Idle, queue[n], net)
  BY DEF Abort, Proceed, Ends
<1>5. QED
  BY <1>3, <1>4 DEF StepOf, Effect

LEMMA CollectForm ==
  ASSUME Orderly, NEW n \in Node, NEW m, NEW left, Taken(n, m, left), m.id = work[n].req.id,
         \/ m.type = "NodeLockResponse" /\ work[n].mode = "assemblingQuorum"
         \/ /\ m.type = "NodeGetResponse"
            /\ work[n].mode \in {"coordinatingWrite", "coordinatingFastRead"}
         \/ m.type = "NodePutResponse" /\ work[n].mode = "coordinatingWrite",
         Collect(n, m, left), UNCHANGED <<issued, floor>>
  PROVE  StepOf(n)
<1> DEFINE c == Counted(work[n], m)
<1>1. HandledOK /\ m \in NodeMessage /\ m \in network /\ work[n] \in Work
  BY DEF Orderly, HandledOK, Taken
<1>2. work[n].mode \in Coordinating /\ m.type \in AnswerKinds
  BY DEF Coordinating, WritePhases, AnswerKinds
<1>3. c.mode = work[n].mode /\ c.req = work[n].req /\ c.step = work[n].step
  BY DEF Counted
<1>4. TakenAnswer(n, left)
  BY <1>2 DEF TakenAnswer
<1>5. CASE ~m.ok /\ Abort(n, work[n], work[n].req.ts, left)
  <2>1. work[n].req.ts \in Nat
    BY <1>1, <1>2 DEF Work, ClientMessage
  <2>2. QED
    BY <1>2, <1>4, <1>5, <2>1, AbortForm
<1>6. CASE Proceed(n, work[n], left) /\ UNCHANGED <<store, staged, replies>>
  <2>1. PassEffect(n, work[n], queue[n], left) /\ Ends(n, work[n], queue[n], left)
    BY <1>4, <1>6 DEF PassEffect, NothingWritten, Ends, Proceed
  <2>2. QED
    BY <2>1 DEF StepOf, Effect
<1> HIDE DEF c
<1>7. CASE /\ m.ok /\ work[n].members[m.src].type # m.type /\ c.waiting # 0
           /\ Proceed(n, c, left) /\ UNCHANGED <<store, staged, replies>>
  <2>1. CountEffect(n, c, queue[n], left) /\ Ends(n, c, queue[n], left)
    BY <1>7 DEF CountEffect, Answering, NothingWritten, Ends, Proceed, c
  <2>2. QED
    BY <2>1 DEF StepOf, Effect
<1>8. CASE /\ m.ok /\ work[n].members[m.src].type # m.type /\ c.waiting = 0
           /\ ContinueProcessing(n, c, left)
  <2>1. LastAnswer(n, m, left, c)
    BY <1>8 DEF LastAnswer, Answering, c
  <2>2. CASE FinishRead(n, c, left)
    <3>1. FinishReadEffect(n, Idle, queue[n], left) /\ Ends(n, Idle, queue[n], left)
      BY <2>1, <2>2 DEF FinishRead, FinishReadEffect, Ends, Proceed
    <3>2. QED
      BY <3>1 DEF StepOf, Effect
  <2>3. CASE AskTimestamps(n, c, left)
    <3> DEFINE w == Awaiting(c, "NodePutRequest", 0)
               net == left \cup ToMembers("NodeTimestampRequest", n, c, NoVersion, TRUE)
    <3>1. AskEffect(n, w, queue[n], net) /\ Ends(n, w, queue[n], net)
      BY <2>1, <2>3 DEF AskTimestamps, AskEffect, NothingWritten, Ends, Proceed
    <3>2. QED
      BY <3>1 DEF StepOf, Effect
  <2>4. CASE Stage(n, c, left)
    <3>1. PICK k \in {store[n].ts} \cup {c.members[p].ts : p \in Members(c)} :
            /\ store[n].ts <= k /\ \A p \in Members(c) : c.members[p].ts <= k
            /\ \/ Abort(n, c, k + 1, left)
               \/ /\ c.req.type = "ClientStrongWriteRequest" => c.req.ts = k + 1
                  /\ staged' = [staged EXCEPT ![n] = [ts |-> k + 1, val |-> c.req.id]]
                  /\ Proceed(n, Awaiting(c, "NodeUnlockRequest", k + 1),
                             left \cup ToMembers("NodePutRequest", n, c,
                                                 [ts |-> k + 1, val |-> c.req.id], TRUE))
                  /\ UNCHANGED <<store, replies>>
      BY <2>4 DEF Stage
    <3>2. AllDated(n, m, left, c, k)
      BY <2>1, <2>4, <3>1 DEF AllDated, Latest, Stage
    <3>3. CASE Abort(n, c, k + 1, left)
      <4>4. k + 1 \in Nat
        <5>1. c.members \in [Node -> Answer]
          BY <1>1, <1>2, CountedType DEF c
        <5>2. QED
          BY <1>1, <5>1, <3>1 DEF HandledOK, Version, Answer, Members
      <4>5. QED
        BY <1>2, <1>3, <1>4, <3>2, <3>3, <4>4, AbortForm
    <3>4. CASE /\ c.req.type = "ClientStrongWriteRequest" => c.req.ts = k + 1
               /\ staged' = [staged EXCEPT ![n] = [ts |-> k + 1, val |-> c.req.id]]
               /\ Proceed(n, Awaiting(c, "NodeUnlockRequest", k + 1),
                          left \cup ToMembers("NodePutRequest", n, c,
                                              [ts |-> k + 1, val |-> c.req.id], TRUE))
               /\ UNCHANGED <<store, replies>>
      <4> DEFINE w == Awaiting(c, "NodeUnlockRequest", k + 1)
                 net == left \cup ToMembers("NodePutRequest", n, c,
                                            [ts |-> k + 1, val |-> c.req.id], TRUE)
      <4>1. StageEffect(n, w, queue[n], net) /\ Ends(n, w, queue[n], net)
        BY <3>2, <3>4 DEF StageEffect, Ends, Proceed
      <4>2. QED
        BY <4>1 DEF StepOf, Effect
    <3>5. QED
      BY <3>1, <3>3, <3>4
  <2>5. CASE Commit(n, c, left)
    <3> DEFINE net == left \cup Unlocks(n, c, TRUE)
    <3>1. CommitEffect(n, Idle, queue[n], net) /\ Ends(n, Idle, queue[n], net)
      BY <2>1, <2>5 DEF Commit, CommitEffect, Ends, Proceed
    <3>2. QED
      BY <3>1 DEF StepOf, Effect
  <2>6. QED
    BY <1>8, <2>2, <2>3, <2>4, <2>5 DEF ContinueProcessing
<1>9. QED
  BY <1>5, <1>6, <1>7, <1>8 DEF Collect, c

LEMMA DeliverForm ==
  ASSUME Orderly, overwrites' = 0, NEW m \in network, NEW left \in {network, network \ {m}},
         Deliver(m, left)
  PROVE  StepOf(m.dest)
<1> DEFINE n == m.dest
<1>1. HandledOK /\ m \in NodeMessage /\ n \in Node /\ overwrites \in Nat /\ resends \in Nat
  BY DEF Orderly, HandledOK, RestOK, NodeMessage
<1>2. UNCHANGED <<issued, floor>>
  BY DEF Deliver
<1>3. Taken(n, m, left)
  BY <1>1 DEF Deliver, Receive, Taken
<1> HIDE DEF n
<1>4. CASE LockRequest(n, m, left)
  <2> DEFINE q == Append(queue[n], Entry(m))
             held == IF work[n].mode = "idle" /\ queue[n] # <<>> THEN Head(queue[n]).msg ELSE m
  <2>1. /\ EndLoop(n, work[n], Append(queue[n], Entry(held)), unlocked[n], left)
        /\ held = m \/ overwrites' = overwrites + 1
    BY <1>4 DEF LockRequest, Enqueue
  <2> HIDE DEF held
  <2>2. held = m
    BY <1>1, <2>1
  <2>3. Ends(n, work[n], q, left)
    BY <2>1, <2>2 DEF Ends
  <2>4. LockEffect(n, work[n], q, left)
    BY <1>2, <1>3, <1>4 DEF LockEffect, LockRequest, NothingWritten
  <2>5. QED
    BY <2>3, <2>4 DEF StepOf, Effect, n
<1>5. CASE LockResponse(n, m, left)
  <2>1. CASE work[n].req.id = m.id /\ work[n].mode = "assemblingQuorum" /\ Collect(n, m, left)
    BY <1>1, <1>2, <1>3, <1>5, <2>1, CollectForm DEF LockResponse, n
  <2>2. CASE /\ work[n].req.id # m.id \/ work[n].mode # "assemblingQuorum"
             /\ Proceed(n, work[n], left \cup Unlock(m, n))
             /\ UNCHANGED <<store, staged, replies>>
    <3>1. CASE m.ok
      <4> DEFINE net == left \cup {Mail("NodeUnlockRequest", m.id, n, m.src, NoVersion, FALSE)}
      <4>1. Ends(n, work[n], queue[n], net)
        BY <2>2, <3>1 DEF Ends, Proceed, Unlock
      <4>2. GiveBackEffect(n, work[n], queue[n], net)
        BY <1>2, <1>3, <1>5, <2>2, <3>1 DEF GiveBackEffect, LockResponse, NothingWritten
      <4>3. QED
        BY <4>1, <4>2 DEF StepOf, Effect, n
    <3>2. CASE ~m.ok
      <4>1. left \cup Unlock(m, n) = left
        BY <3>2 DEF Unlock
      <4>2. Ends(n, work[n], queue[n], left)
        BY <2>2, <4>1 DEF Ends, Proceed
      <4>3. PassEffect(n, work[n], queue[n], left)
        BY <1>2, <1>3, <1>5, <2>2
           DEF PassEffect, NothingWritten, TakenAnswer, AnswerKinds, LockResponse
      <4>4. QED
        BY <4>2, <4>3 DEF StepOf, Effect, n
    <3>3. QED
      BY <3>1, <3>2
  <2>3. QED
    BY <1>5, <2>1, <2>2 DEF LockResponse
<1>6. CASE UnlockRequest(n, m, left)
  <2> DEFINE w == IF work[n].req.id = m.id THEN Idle ELSE work[n]
  <2>1. Ends(n, w, queue[n], left)
    BY <1>6 DEF Ends, UnlockRequest
  <2>2. UnlockEffect(n, w, queue[n], left)
    BY <1>2, <1>3, <1>6 DEF UnlockEffect, UnlockRequest
  <2>3. QED
    BY <2>1, <2>2 DEF StepOf, Effect, n
<1>7. CASE GetRequest(n, m, left)
  <2> DEFINE net == left \cup {Mail("NodeGetResponse", m.id, n, m.src,
                                    IF staged[n] = NoVersion THEN store[n] ELSE NoVersion,
                                    staged[n] = NoVersion)}
  <2>1. Ends(n, work[n], queue[n], net)
    BY <1>7 DEF Ends, GetRequest, Proceed
  <2>2. GetEffect(n, work[n], queue[n], net)
    BY <1>2, <1>3, <1>7 DEF GetEffect, GetRequest, NothingWritten
  <2>3. QED
    BY <2>1, <2>2 DEF StepOf, Effect, n
<1>8. CASE TimestampRequest(n, m, left)
  <2> DEFINE net == left \cup {Mail("NodeGetResponse", m.id, n, m.src,
                                    [ts |-> IF Serves(n, m.id) THEN store[n].ts ELSE 0,
                                     val |-> 0], TRUE)}
  <2>1. Ends(n, work[n], queue[n], net)
    BY <1>8 DEF Ends, TimestampRequest, Proceed, Serves
  <2>2. TimestampEffect(n, work[n], queue[n], net)
    BY <1>2, <1>3, <1>8 DEF TimestampEffect, TimestampRequest, NothingWritten
  <2>3. QED
    BY <2>1, <2>2 DEF StepOf, Effect, n
<1>9. CASE PutRequest(n, m, left)
  <2> DEFINE net == left \cup {Mail("NodePutResponse", m.id, n, m.src,
                                    [ts |-> m.ts, val |-> m.val], Serves(n, m.id))}
  <2>1. Ends(n, work[n], queue[n], net)
    BY <1>9 DEF Ends, PutRequest, Proceed, Serves
  <2>2. PutEffect(n, work[n], queue[n], net)
    BY <1>2, <1>3, <1>9 DEF PutEffect, PutRequest, Serves
  <2>3. QED
    BY <2>1, <2>2 DEF StepOf, Effect, n
<1>10. CASE GetResponse(n, m, left) \/ PutResponse(n, m, left)
  <2>1. CASE /\ work[n].req.id = m.id /\ Collect(n, m, left)
             /\ \/ /\ m.type = "NodeGetResponse"
                   /\ work[n].mode \in {"coordinatingWrite", "coordinatingFastRead"}
                \/ m.type = "NodePutResponse" /\ work[n].mode = "coordinatingWrite"
    BY <1>1, <1>2, <1>3, <2>1, CollectForm DEF n
  <2>2. CASE Proceed(n, work[n], left) /\ UNCHANGED <<store, staged, replies>>
    <3>1. PassEffect(n, work[n], queue[n], left)
      BY <1>2, <1>3, <1>10, <2>2
         DEF PassEffect, NothingWritten, TakenAnswer, AnswerKinds, GetResponse, PutResponse
    <3>2. Ends(n, work[n], queue[n], left)
      BY <2>2 DEF Ends, Proceed
    <3>3. QED
      BY <3>1, <3>2 DEF StepOf, Effect, n
  <2>3. QED
    BY <1>10, <2>1, <2>2 DEF GetResponse, PutResponse
<1>11. QED
  BY <1>4, <1>5, <1>6, <1>7, <1>8, <1>9, <1>10 DEF Deliver, n

LEMMA ClientForm ==
  ASSUME Orderly, overwrites' = 0, NEW n \in Node, NEW t \in Txn,
         ClientRequest(n, t) \/ LocalRead(n, t)
  PROVE  StepOf(n)
<1>1. CASE LocalRead(n, t)
  <2>1. LocalReadEffect(n, work[n], queue[n], network) /\ Ends(n, work[n], queue[n], network)
    BY <1>1 DEF LocalRead, LocalReadEffect, Ends, Proceed
  <2>2. QED
    BY <2>1 DEF StepOf, Effect
<1>2. CASE ClientRequest(n, t)
  <2> DEFINE m == Request(t, n)
             q == Append(queue[n], Entry(m))
             held == IF work[n].mode = "idle" /\ queue[n] # <<>> THEN Head(queue[n]).msg ELSE m
  <2>1. /\ EndLoop(n, work[n], Append(queue[n], Entry(held)), unlocked[n], network)
        /\ held = m \/ overwrites' = overwrites + 1
    BY <1>2 DEF ClientRequest, Enqueue
  <2> HIDE DEF held
  <2>2. held = m
    BY <2>1 DEF Orderly, RestOK
  <2>3. Ends(n, work[n], q, network)
    BY <2>1, <2>2 DEF Ends
  <2>4. IssueEffect(n, work[n], q, network)
    BY <1>2 DEF IssueEffect, ClientRequest
  <2>5. QED
    BY <2>3, <2>4 DEF StepOf, Effect
<1>3. QED
  BY <1>1, <1>2

LEMMA TimerForm ==
  ASSUME Orderly, NEW n \in Node, InternalTimer(n) \/ RequestTimeout(n)
  PROVE  StepOf(n)
<1>1. work[n] \in Work /\ work[n].mode \in Coordinating
  BY DEF Orderly, HandledOK, InternalTimer, RequestTimeout, Coordinating
<1>2. work[n].req.ts \in Nat
  BY <1>1 DEF Work, ClientMessage
<1>3. CASE InternalTimer(n)
  <2>1. Abort(n, work[n], work[n].req.ts, network) /\ UNCHANGED <<issued, floor>>
    BY <1>3 DEF InternalTimer
  <2>2. QED
    BY <1>1, <1>2, <2>1, AbortForm
<1>4. CASE RequestTimeout(n)
  <2> DEFINE net == network \cup Unlocks(n, work[n], FALSE)
  <2>1. QuitEffect(n, Idle, queue[n], net)
    BY <1>1, <1>2, <1>4 DEF RequestTimeout, QuitEffect
  <2>2. Ends(n, Idle, queue[n], net)
    BY <1>4 DEF RequestTimeout, Ends, Orderly, HandledOK
  <2>3. QED
    BY <2>1, <2>2 DEF StepOf, Effect
<1>5. QED
  BY <1>3, <1>4

LEMMA LoopForm ==
  ASSUME Orderly, NEW n \in Node, Loop(n) \/ Elect(n)
  PROVE  StepOf(n)
<1>1. Ends(n, work[n], queue[n], network)
  BY DEF Loop, Elect, Proceed, Ends
<1>2. PassEffect(n, work[n], queue[n], network)
  BY DEF Loop, Elect, PassEffect, NothingWritten, others
<1>3. QED
  BY <1>1, <1>2 DEF StepOf, Effect

LEMMA QueueTimeoutForm ==
  ASSUME Orderly, NEW n \in Node, NEW i \in DOMAIN queue[n], QueueTimeout(n, i)
  PROVE  StepOf(n)
<1>1. i \in 1..Len(queue[n]) /\ HandledOK
  BY DEF Orderly, HandledOK
<1>2. /\ queue' = [queue EXCEPT ![n] = Without(queue[n], i)]
      /\ work' = work
      /\ UNCHANGED <<store, staged, issued, floor>>
  BY <1>1 DEF QueueTimeout, Without, HandledOK, others
<1>3. Ends(n, work[n], Without(queue[n], i), network')
  BY <1>1, <1>2 DEF Ends, HandledOK
<1>4. ExpireEffect(n, work[n], Without(queue[n], i), network')
  BY <1>1, <1>2 DEF QueueTimeout, ExpireEffect, FromClient
<1>5. QED
  BY <1>3, <1>4 DEF StepOf, Effect

LEMMA CalmIsOrderly ==
  ASSUME IInv, Undisturbed
  PROVE  Calm /\ Orderly
<1>1. Calm
  BY CalmHolds
<1>2. QED
  BY <1>1 DEF Calm, Orderly, Consistent, StartedOnce

\* In an undisturbed step one node handles something, and its iteration ends.
LEMMA StepForm ==
  ASSUME IInv, Next, Undisturbed'
  PROVE  Calm /\ Orderly /\ \E n \in Node : StepOf(n)
<1>1. Undisturbed /\ overwrites' = 0 /\ crashes' = 0 /\ Calm /\ Orderly
  BY StaysDisturbed, CalmIsOrderly DEF IInv
<1>2. ASSUME NEW n \in Node PROVE ~SignalLost(n) /\ ~Recover(n) /\ ~Fail(n)
  BY <1>1 DEF Calm, RestOK, Undisturbed, SignalLost, Recover, Fail
<1>3. ASSUME NEW m \in network PROVE m.dest \in Node
  BY <1>1, <1>3 DEF Orderly, HandledOK, NodeMessage
<1>4. QED
  BY <1>1, <1>2, <1>3, ClientForm, DeliverForm, TimerForm, LoopForm, QueueTimeoutForm DEF Next

-----------------------------------------------------------------------------
(* What every effect keeps *)

LEMMA LastAnswerType ==
  ASSUME Orderly, NEW n \in Node, NEW m, NEW left, Answering(n, m, left)
  PROVE  /\ m \in NodeMessage /\ m \in network /\ left \in SUBSET network
         /\ m.type \in AnswerKinds /\ m.dest = n /\ m.id = work[n].req.id
         /\ work[n] \in Work /\ work[n].mode \in Coordinating
         /\ Counted(work[n], m) \in Complete
         /\ Counted(work[n], m).waiting # 0 => Counted(work[n], m) \in Work
         /\ Counted(work[n], m).req = work[n].req /\ Counted(work[n], m).mode = work[n].mode
         /\ Counted(work[n], m).step = work[n].step
<1>1. m \in NodeMessage /\ m \in network /\ left \in SUBSET network /\ m.dest = n
      /\ m.id = work[n].req.id /\ work[n] \in Work
  BY DEF Orderly, HandledOK, Answering, Taken
<1>2. work[n].mode \in Coordinating /\ m.type \in AnswerKinds
  BY DEF Answering, Coordinating, WritePhases, AnswerKinds
<1>3. QED
  BY <1>1, <1>2, CountedType DEF Complete, Counted

\* A handler goes on with its request or forgets it.
LEMMA EffectWork ==
  ASSUME Orderly, NEW n \in Node, NEW w, NEW q, NEW net, Effect(n, w, q, net)
  PROVE  /\ w \in Work
         /\ w = Idle \/ w.req = work[n].req
<1>1. work[n] \in Work
  BY DEF Orderly, HandledOK
<1>2. CASE \/ PassEffect(n, w, q, net) \/ IssueEffect(n, w, q, net)
           \/ LocalReadEffect(n, w, q, net) \/ LockEffect(n, w, q, net)
           \/ GetEffect(n, w, q, net) \/ TimestampEffect(n, w, q, net)
           \/ PutEffect(n, w, q, net) \/ GiveBackEffect(n, w, q, net)
           \/ ExpireEffect(n, w, q, net)
  <2>1. w = work[n]
    BY <1>2 DEF PassEffect, IssueEffect, LocalReadEffect, LockEffect, GetEffect,
                TimestampEffect, PutEffect, GiveBackEffect, ExpireEffect
  <2>2. QED
    BY <1>1, <2>1
<1>3. CASE UnlockEffect(n, w, q, net)
  BY <1>1, <1>3, IdleType DEF UnlockEffect
<1>4. CASE CountEffect(n, w, q, net)
  BY <1>4, LastAnswerType DEF CountEffect
<1>5. CASE \/ FinishReadEffect(n, w, q, net) \/ CommitEffect(n, w, q, net)
           \/ QuitEffect(n, w, q, net)
  BY <1>5, IdleType DEF FinishReadEffect, CommitEffect, QuitEffect
<1>6. CASE AskEffect(n, w, q, net)
  <2>1. PICK m, c, left : LastAnswer(n, m, left, c) /\ w = Awaiting(c, "NodePutRequest", 0)
    BY <1>6 DEF AskEffect
  <2>2. c \in Complete /\ c.req = work[n].req
    BY <2>1, LastAnswerType DEF LastAnswer
  <2>3. w \in Work
    BY <2>1, <2>2, AwaitingType DEF Complete, Steps
  <2>4. QED
    BY <2>1, <2>2, <2>3 DEF Awaiting
<1>7. CASE StageEffect(n, w, q, net)
  <2>1. PICK m, c, left, k : /\ AllDated(n, m, left, c, k)
                             /\ w = Awaiting(c, "NodeUnlockRequest", k + 1)
    BY <1>7 DEF StageEffect
  <2>2. c \in Complete /\ c.req = work[n].req
    BY <2>1, LastAnswerType DEF AllDated, LastAnswer
  <2>3. k + 1 \in Nat
    BY <2>1, <2>2 DEF AllDated, Latest, Orderly, HandledOK, Complete, Answer, Version, Members
  <2>4. w \in Work
    BY <2>1, <2>2, <2>3, AwaitingType DEF Complete, Steps
  <2>5. QED
    BY <2>1, <2>2, <2>4 DEF Awaiting
<1>8. QED
  BY <1>2, <1>3, <1>4, <1>5, <1>6, <1>7 DEF Effect

LEMMA ToMembersShape ==
  ASSUME NEW type, NEW n, NEW w, NEW v, NEW ok, NEW u \in ToMembers(type, n, w, v, ok)
  PROVE  /\ u.type = type /\ u.id = w.req.id /\ u.src = n /\ u.dest \in Members(w)
         /\ u.ts = v.ts /\ u.val = v.val /\ u.ok = ok
BY DEF ToMembers, Mail

\* A handler sends messages only of transactions that are under way.
LEMMA EffectNetwork ==
  ASSUME Orderly, NEW n \in Node, NEW w, NEW q, NEW net, Effect(n, w, q, net), NEW u \in net,
         u \notin network
  PROVE  u \in NodeMessage /\ Started(queue, issued, u.id)
<1>1. /\ work[n] \in Work /\ HandledOK /\ Typed(work, queue, network, issued)
      /\ StartedOnce(work, queue, network, issued)
  BY DEF Orderly, HandledOK
<1>2. ASSUME NEW m, NEW left, Taken(n, m, left)
      PROVE  m \in NodeMessage /\ left \subseteq network /\ Started(queue, issued, m.id)
  BY <1>1, <1>2, MessageStarted DEF Taken, HandledOK, StartedOnce
<1>3. ASSUME work[n].mode \in Coordinating
      PROVE  work[n].req.id \in Txn /\ Started(queue, issued, work[n].req.id)
  BY <1>1, <1>3, WorkStarted DEF Work, ClientMessage, StartedOnce
<1>4. ASSUME NEW m, NEW left, NEW c, LastAnswer(n, m, left, c)
      PROVE  /\ left \subseteq network /\ c.req.id = work[n].req.id /\ c.req.id \in Txn
             /\ Started(queue, issued, c.req.id) /\ c.members \in [Node -> Answer]
  BY <1>3, <1>4, LastAnswerType DEF LastAnswer, Complete
<1>5. CASE \/ PassEffect(n, w, q, net) \/ IssueEffect(n, w, q, net)
           \/ LocalReadEffect(n, w, q, net) \/ LockEffect(n, w, q, net)
           \/ UnlockEffect(n, w, q, net)
  BY <1>2, <1>5 DEF PassEffect, IssueEffect, LocalReadEffect, LockEffect, UnlockEffect,
                    TakenAnswer
<1>6. ASSUME NEW m, NEW left, Taken(n, m, left), NEW type \in NodeKinds, NEW v \in Version,
             NEW ok \in BOOLEAN, net = left \cup {Mail(type, m.id, n, m.src, v, ok)}
      PROVE  u \in NodeMessage /\ Started(queue, issued, u.id)
  <2>1. m \in NodeMessage /\ left \subseteq network /\ Started(queue, issued, m.id)
    BY <1>2, <1>6
  <2>2. u = Mail(type, m.id, n, m.src, v, ok)
    BY <1>6, <2>1
  <2>3. u \in NodeMessage /\ u.id = m.id
    BY <2>1, <2>2 DEF Mail, NodeMessage, Version
  <2>4. QED
    BY <2>1, <2>3
<1>13. CASE GetEffect(n, w, q, net)
  <2> DEFINE v == IF staged[n] = NoVersion THEN store[n] ELSE NoVersion
             ok == staged[n] = NoVersion
  <2>1. v \in Version /\ ok \in BOOLEAN /\ "NodeGetResponse" \in NodeKinds
    BY <1>1, NoVersionType DEF HandledOK, NodeKinds
  <2>2. PICK m, left : /\ Taken(n, m, left)
                       /\ net = left \cup {Mail("NodeGetResponse", m.id, n, m.src, v, ok)}
    BY <1>13 DEF GetEffect
  <2> HIDE DEF v, ok
  <2>3. QED
    BY <1>6, <2>1, <2>2
<1>14. CASE TimestampEffect(n, w, q, net)
  <2> DEFINE v(m) == [ts |-> IF Serves(n, m.id) THEN store[n].ts ELSE 0, val |-> 0]
  <2>1. ASSUME NEW m PROVE v(m) \in Version
    BY <1>1 DEF HandledOK, Version
  <2>2. PICK m, left : /\ Taken(n, m, left)
                       /\ net = left \cup {Mail("NodeGetResponse", m.id, n, m.src, v(m), TRUE)}
    BY <1>14 DEF TimestampEffect
  <2>3. v(m) \in Version /\ "NodeGetResponse" \in NodeKinds /\ TRUE \in BOOLEAN
    BY <2>1 DEF NodeKinds
  <2> HIDE DEF v
  <2>4. QED
    BY <1>6, <2>2, <2>3
<1>15. CASE PutEffect(n, w, q, net)
  <2>1. PICK m, left : /\ Taken(n, m, left)
                       /\ net = left \cup {Mail("NodePutResponse", m.id, n, m.src,
                                             [ts |-> m.ts, val |-> m.val], Serves(n, m.id))}
    BY <1>15 DEF PutEffect
  <2>2. [ts |-> m.ts, val |-> m.val] \in Version /\ "NodePutResponse" \in NodeKinds
    BY <1>2, <2>1 DEF NodeMessage, Version, NodeKinds
  <2>3. Serves(n, m.id) \in BOOLEAN
    BY DEF Serves
  <2>4. QED
    BY <1>6, <2>1, <2>2, <2>3
<1>16. CASE GiveBackEffect(n, w, q, net)
  <2>1. PICK m, left : /\ Taken(n, m, left)
                       /\ net = left \cup {Mail("NodeUnlockRequest", m.id, n, m.src,
                                             NoVersion, FALSE)}
    BY <1>16 DEF GiveBackEffect
  <2>2. NoVersion \in Version /\ "NodeUnlockRequest" \in NodeKinds /\ FALSE \in BOOLEAN
    BY NoVersionType DEF NodeKinds
  <2>3. QED
    BY <1>6, <2>1, <2>2
<1>7. CASE CountEffect(n, w, q, net)
  BY <1>2, <1>7 DEF CountEffect, Answering
<1>8. CASE FinishReadEffect(n, w, q, net)
  BY <1>4, <1>8 DEF FinishReadEffect
<1>9. ASSUME NEW m, NEW c, NEW left, LastAnswer(n, m, left, c), NEW type \in NodeKinds,
             NEW v \in Version, net = left \cup ToMembers(type, n, c, v, TRUE)
      PROVE  u \in NodeMessage /\ Started(queue, issued, u.id)
  <2>1. left \subseteq network /\ c.req.id \in Txn /\ Started(queue, issued, c.req.id)
    BY <1>4, <1>9
  <2>2. u \in ToMembers(type, n, c, v, TRUE)
    BY <1>9, <2>1
  <2>3. ToMembers(type, n, c, v, TRUE) \subseteq NodeMessage
    BY <1>9, <2>1, ToMembersType
  <2>4. u.id = c.req.id
    BY <2>2 DEF ToMembers, Mail
  <2>5. QED
    BY <2>1, <2>2, <2>3, <2>4
<1>17. CASE AskEffect(n, w, q, net)
  <2>1. PICK m, c, left :
          /\ LastAnswer(n, m, left, c)
          /\ net = left \cup ToMembers("NodeTimestampRequest", n, c, NoVersion, TRUE)
    BY <1>17 DEF AskEffect
  <2>2. NoVersion \in Version /\ "NodeTimestampRequest" \in NodeKinds
    BY NoVersionType DEF NodeKinds
  <2>3. QED
    BY <1>9, <2>1, <2>2
<1>18. CASE StageEffect(n, w, q, net)
  <2>1. PICK m, c, left, k :
          /\ AllDated(n, m, left, c, k)
          /\ net = left \cup ToMembers("NodePutRequest", n, c,
                                       [ts |-> k + 1, val |-> c.req.id], TRUE)
    BY <1>18, ZenonT(40) DEF StageEffect
  <2>2. LastAnswer(n, m, left, c) /\ Latest(n, c, k)
    BY <2>1 DEF AllDated
  <2>3. c.req.id \in Txn /\ c.members \in [Node -> Answer]
    BY <1>4, <2>2
  <2>4. k + 1 \in Nat
    BY <1>1, <2>2, <2>3 DEF Latest, HandledOK, Answer, Version, Members
  <2>5. [ts |-> k + 1, val |-> c.req.id] \in Version /\ "NodePutRequest" \in NodeKinds
    BY <2>3, <2>4 DEF Version, NodeKinds
  <2>6. QED
    BY <1>9, <2>1, <2>2, <2>5
<1>19. CASE CommitEffect(n, w, q, net)
  <2>1. PICK m, c, left :
          /\ LastAnswer(n, m, left, c)
          /\ net = left \cup ToMembers("NodeUnlockRequest", n, c, NoVersion, TRUE)
    BY <1>19 DEF CommitEffect, Unlocks
  <2>2. NoVersion \in Version /\ "NodeUnlockRequest" \in NodeKinds
    BY NoVersionType DEF NodeKinds
  <2>3. QED
    BY <1>9, <2>1, <2>2
<1>10. CASE QuitEffect(n, w, q, net)
  <2>1. PICK left, c : /\ left = network \/ TakenAnswer(n, left)
                       /\ c.req = work[n].req /\ net = left \cup Unlocks(n, c, FALSE)
    BY <1>10 DEF QuitEffect
  <2>2. u \in Unlocks(n, c, FALSE)
    BY <1>2, <2>1 DEF TakenAnswer
  <2>3. work[n].req.id \in Txn /\ Started(queue, issued, work[n].req.id)
    BY <1>3, <1>10 DEF QuitEffect
  <2>4. u.id = work[n].req.id
    BY <2>1, <2>2 DEF Unlocks, ToMembers, Mail
  <2>5. Unlocks(n, c, FALSE) \subseteq NodeMessage
    BY <2>1, <2>3, UnlocksType
  <2>6. QED
    BY <2>2, <2>3, <2>4, <2>5
<1>11. CASE ExpireEffect(n, w, q, net)
  <2>1. PICK i \in 1..Len(queue[n]) :
          /\ ~FromClient(queue[n][i].msg)
          /\ u = Mail("NodeLockResponse", queue[n][i].msg.id, n, queue[n][i].msg.src,
                      NoVersion, FALSE)
    BY <1>11 DEF ExpireEffect
  <2> DEFINE e == queue[n][i].msg
  <2>2. queue[n][i] \in Queued
    BY <1>1, <2>1 DEF HandledOK
  <2>3. e \in NodeMessage
    BY <2>1, <2>2 DEF Queued, ClientMessage, FromClient
  <2>4. u \in NodeMessage /\ u.id = e.id
    BY <2>1, <2>3 DEF Mail, NodeMessage, NodeKinds, NoVersion
  <2>5. e.id \in issued
    BY <1>1, <2>1, <2>3 DEF StartedOnce, UnissuedAbsent, NeverQueued, NodeMessage
  <2>6. ASSUME NEW p \in Node, NEW j \in 1..Len(queue[p]), FromClient(queue[p][j].msg)
        PROVE  queue[p][j].msg.id # e.id
    BY <1>1, <2>1, <2>6 DEF StartedOnce, QueuedOnce
  <2>7. QED
    BY <2>4, <2>5, <2>6 DEF Started
<1>12. QED
  BY <1>5, <1>7, <1>8, <1>10, <1>11, <1>13, <1>14, <1>15, <1>16, <1>17, <1>18, <1>19
     DEF Effect

\* What becomes of the queue: a request is appended or taken out.
LEMMA EffectQueue ==
  ASSUME Orderly, NEW n \in Node, NEW w, NEW q, NEW net, Effect(n, w, q, net)
  PROVE  \/ q = queue[n]
         \/ \E e \in Queued : /\ q = Append(queue[n], e) /\ ~FromClient(e.msg)
                              /\ Started(queue, issued, e.msg.id)
         \/ \E e \in Queued : /\ q = Append(queue[n], e) /\ FromClient(e.msg)
                              /\ e.msg.id \in Txn \ issued
         \/ \E i \in 1..Len(queue[n]) : q = Without(queue[n], i)
<1>1. CASE LockEffect(n, w, q, net)
  <2>1. PICK m : /\ Taken(n, m, net) /\ m.type = "NodeLockRequestNoTimeout"
                 /\ q = Append(queue[n], Entry(m))
    BY <1>1 DEF LockEffect
  <2>2. m \in network /\ m \in NodeMessage
    BY <2>1 DEF Taken, Orderly, HandledOK
  <2>3. Started(queue, issued, m.id)
    BY <2>2, MessageStarted DEF Orderly, StartedOnce
  <2>4. Entry(m) \in Queued /\ Entry(m).msg = m /\ ~FromClient(m)
    BY <2>1, <2>2 DEF Entry, Queued, FromClient, ClientKinds, WriteKinds
  <2>5. QED
    BY <2>1, <2>3, <2>4
<1>2. CASE IssueEffect(n, w, q, net)
  <2>1. PICK t \in Txn : /\ t \notin issued
                         /\ Kind[t] = "ClientReadRequest" => ReadQuorumSize > 1
                         /\ q = Append(queue[n], Entry(Request(t, n)))
    BY <1>2 DEF IssueEffect, Issue
  <2>2. Entry(Request(t, n)) \in Queued
    BY <2>1, RequestType
  <2>3. /\ Entry(Request(t, n)).msg.id = t /\ FromClient(Entry(Request(t, n)).msg)
    BY TxnAssumption DEF Entry, Request, Mail, FromClient
  <2>4. QED
    BY <2>1, <2>2, <2>3
<1>3. CASE ExpireEffect(n, w, q, net)
  BY <1>3 DEF ExpireEffect
<1>4. CASE ~LockEffect(n, w, q, net) /\ ~IssueEffect(n, w, q, net) /\ ~ExpireEffect(n, w, q, net)
  BY <1>4 DEF Effect, PassEffect, LocalReadEffect, GetEffect, TimestampEffect, PutEffect,
     UnlockEffect, GiveBackEffect, CountEffect, FinishReadEffect, AskEffect, StageEffect,
     CommitEffect, QuitEffect
<1>5. QED
  BY <1>1, <1>2, <1>3, <1>4

\* So a client's request that waits still waits in one place.
LEMMA EffectQueuedOnce ==
  ASSUME Orderly, NEW n \in Node, NEW w, NEW q, NEW net, Effect(n, w, q, net)
  PROVE  /\ q \in Seq(Queued) /\ net \in SUBSET NodeMessage
         /\ QueuedOnce([work EXCEPT ![n] = w], [queue EXCEPT ![n] = q], net)
<1> DEFINE wk == [work EXCEPT ![n] = w]
           qu == [queue EXCEPT ![n] = q]
<1>1. /\ HandledOK /\ Typed(work, queue, network, issued) /\ queue[n] \in Seq(Queued)
      /\ StartedOnce(work, queue, network, issued) /\ QueuedOnce(work, queue, network)
      /\ Len(queue[n]) \in Nat
  BY DEF Orderly, HandledOK, StartedOnce
<1>2. w = Idle \/ w.req = work[n].req
  BY EffectWork
<1>3. \A u \in net : u \in network \/ (u \in NodeMessage /\ Started(queue, issued, u.id))
  BY EffectNetwork
<1>4. net \in SUBSET NodeMessage
  BY <1>1, <1>3 DEF HandledOK
<1>5. /\ wk[n] = w /\ \A p \in Node : p # n => wk[p] = work[p]
      /\ qu[n] = q /\ \A p \in Node : p # n => qu[p] = queue[p]
  BY <1>1 DEF HandledOK
<1> HIDE DEF wk, qu
<1>6. ASSUME NEW t \in Txn, NotStarted(work, network, t),
             \A u \in net : u \in network \/ u.id # t
      PROVE  NotStarted(wk, net, t)
  <2>1. w.req.id # t
    BY <1>2, <1>6, TxnAssumption DEF NotStarted, Idle, NoRequest
  <2>2. QED
    BY <1>5, <1>6, <2>1 DEF NotStarted
<1>7. ASSUME NEW p \in Node, NEW i \in 1..Len(queue[p]), FromClient(queue[p][i].msg)
      PROVE  NotStarted(wk, net, queue[p][i].msg.id)
  <2>1. queue[p] \in Seq(Queued)
    BY <1>1 DEF HandledOK
  <2>2. queue[p][i] \in Queued
    BY <2>1
  <2>3. queue[p][i].msg.id \in Txn
    BY <2>2 DEF Queued, ClientMessage, NodeMessage
  <2>4. \A u \in net : u \in network \/ u.id # queue[p][i].msg.id
    BY <1>3, <1>7 DEF Started
  <2>5. NotStarted(work, network, queue[p][i].msg.id)
    BY <1>1, <1>7 DEF QueuedOnce
  <2>6. QED
    BY <1>6, <2>3, <2>4, <2>5
<1>8. CASE q = queue[n]
  <2>1. qu = queue
    BY <1>1, <1>8 DEF qu, HandledOK
  <2>2. QueuedOnce(wk, queue, net)
    BY <1>1, <1>7 DEF QueuedOnce
  <2>3. QED
    BY <1>1, <1>4, <1>8, <2>1, <2>2 DEF wk, qu
<1>9. ASSUME NEW e \in Queued, q = Append(queue[n], e),
             FromClient(e.msg) => /\ NeverQueued(queue, e.msg.id)
                                  /\ NotStarted(wk, net, e.msg.id),
             ~FromClient(e.msg) => Started(queue, issued, e.msg.id)
      PROVE  q \in Seq(Queued) /\ QueuedOnce(wk, qu, net)
  <2>1. /\ q \in Seq(Queued) /\ Len(q) = Len(queue[n]) + 1
        /\ \A i \in 1..Len(queue[n]) : q[i] = queue[n][i]
        /\ q[Len(queue[n]) + 1] = e
    BY <1>1, <1>9, AppendProperties
  <2>2. ASSUME NEW p \in Node, NEW i \in 1..Len(qu[p])
        PROVE  \/ i \in 1..Len(queue[p]) /\ qu[p][i] = queue[p][i]
               \/ p = n /\ i = Len(queue[n]) + 1 /\ qu[p][i] = e
    BY <1>1, <1>5, <2>1
  <2>3. ASSUME NEW p \in Node, NEW i \in 1..Len(qu[p]), FromClient(qu[p][i].msg)
        PROVE  NotStarted(wk, net, qu[p][i].msg.id)
    BY <1>7, <1>9, <2>2, <2>3
  <2>4. ASSUME NEW p \in Node, NEW i \in 1..Len(qu[p]), FromClient(qu[p][i].msg),
               NEW r \in Node, NEW j \in 1..Len(qu[r]), qu[r][j].msg.id = qu[p][i].msg.id
        PROVE  r = p /\ j = i
    <3>1. CASE i \in 1..Len(queue[p]) /\ qu[p][i] = queue[p][i]
      <4>1. CASE j \in 1..Len(queue[r]) /\ qu[r][j] = queue[r][j]
        BY <1>1, <2>4, <3>1, <4>1 DEF QueuedOnce
      <4>2. CASE qu[r][j] = e
        <5>1. e.msg.id = queue[p][i].msg.id /\ FromClient(queue[p][i].msg)
          BY <2>4, <3>1, <4>2
        <5>2. QED
          BY <1>9, <3>1, <5>1 DEF NeverQueued, Started
      <4>3. QED
        BY <2>2, <4>1, <4>2
    <3>2. CASE p = n /\ i = Len(queue[n]) + 1 /\ qu[p][i] = e
      <4>1. ~(j \in 1..Len(queue[r]) /\ qu[r][j] = queue[r][j])
        BY <1>9, <2>4, <3>2 DEF NeverQueued
      <4>2. QED
        BY <2>2, <3>2, <4>1
    <3>3. QED
      BY <2>2, <3>1, <3>2
  <2>5. QED
    BY <2>1, <2>3, <2>4 DEF QueuedOnce
<1>10. ASSUME NEW i \in 1..Len(queue[n]), q = Without(queue[n], i)
       PROVE  q \in Seq(Queued) /\ QueuedOnce(wk, qu, net)
  <2> DEFINE at(j) == IF j < i THEN j ELSE j + 1
  <2>1. q \in Seq(Queued) /\ Len(q) = Len(queue[n]) - 1
        /\ \A j \in 1..(Len(queue[n]) - 1) : q[j] = queue[n][at(j)]
    BY <1>1, <1>10, WithoutProperties
  <2>2. ASSUME NEW p \in Node, NEW j \in 1..Len(qu[p])
        PROVE  \E k \in 1..Len(queue[p]) : /\ qu[p][j] = queue[p][k]
                                           /\ k = IF p = n THEN at(j) ELSE j
    BY <1>1, <1>5, <2>1
  <2>3. ASSUME NEW p \in Node, NEW j \in 1..Len(qu[p]), FromClient(qu[p][j].msg)
        PROVE  NotStarted(wk, net, qu[p][j].msg.id)
    BY <1>7, <2>2, <2>3
  <2>4. ASSUME NEW p \in Node, NEW j \in 1..Len(qu[p]), FromClient(qu[p][j].msg),
               NEW r \in Node, NEW k \in 1..Len(qu[r]), qu[r][k].msg.id = qu[p][j].msg.id
        PROVE  r = p /\ k = j
    <3>1. PICK j0 \in 1..Len(queue[p]) : /\ qu[p][j] = queue[p][j0]
                                         /\ j0 = IF p = n THEN at(j) ELSE j
      BY <2>2
    <3>2. PICK k0 \in 1..Len(queue[r]) : /\ qu[r][k] = queue[r][k0]
                                         /\ k0 = IF r = n THEN at(k) ELSE k
      BY <2>2
    <3>3. r = p /\ k0 = j0
      <4>1. FromClient(queue[p][j0].msg) /\ queue[r][k0].msg.id = queue[p][j0].msg.id
        BY <2>4, <3>1, <3>2
      <4>2. QED
        BY <1>1, <4>1 DEF QueuedOnce
    <3>4. j \in Int /\ k \in Int
      BY <1>1, <1>5, <2>1, <2>4
    <3>5. QED
      BY <3>1, <3>2, <3>3, <3>4
  <2>5. QED
    BY <2>1, <2>3, <2>4 DEF QueuedOnce
<1>11. CASE \E e \in Queued : /\ q = Append(queue[n], e) /\ ~FromClient(e.msg)
                              /\ Started(queue, issued, e.msg.id)
  BY <1>4, <1>9, <1>11 DEF wk, qu
<1>12. CASE \E e \in Queued : /\ q = Append(queue[n], e) /\ FromClient(e.msg)
                              /\ e.msg.id \in Txn \ issued
  <2>1. PICK e \in Queued : /\ q = Append(queue[n], e) /\ FromClient(e.msg)
                            /\ e.msg.id \in Txn \ issued
    BY <1>12
  <2>2. NeverQueued(queue, e.msg.id) /\ NotStarted(work, network, e.msg.id)
    BY <1>1, <2>1 DEF StartedOnce, UnissuedAbsent
  <2>3. NotStarted(wk, net, e.msg.id)
    BY <1>3, <1>6, <2>1, <2>2 DEF Started
  <2>4. QED
    BY <1>4, <1>9, <2>1, <2>2, <2>3 DEF wk, qu
<1>13. CASE \E i \in 1..Len(queue[n]) : q = Without(queue[n], i)
  BY <1>4, <1>10, <1>13 DEF wk, qu
<1>14. QED
  BY <1>8, <1>11, <1>12, <1>13, EffectQueue

-----------------------------------------------------------------------------
(* The end of the main loop *)

\* What node n works on when it starts to coordinate the queued request e.
Coordinates(n, e, x) ==
  /\ FromClient(e.msg) /\ x.req = e.msg
  /\ x.mode \in {"assemblingQuorum", "coordinatingFastRead"}
  /\ x.mode = "assemblingQuorum" <=> e.msg.type \in WriteKinds
  /\ n \notin Members(x)
  /\ Cardinality(Members(x)) =
       (IF x.mode = "assemblingQuorum" THEN WriteQuorumSize ELSE ReadQuorumSize) - 1
  /\ x.waiting = Cardinality(Members(x))
  /\ \A p \in Members(x) : x.members[p].type = Asks(x) /\ x.members[p].ts = 0

LEMMA WriteBegun ==
  ASSUME NEW n \in Node, NEW e \in Queued, NEW net, BeginWrite(n, e, net)
  PROVE  \E x \in Work : /\ Coordinates(n, e, x) /\ work' = [work EXCEPT ![n] = x]
                          /\ network' = net \cup ToMembers(Asks(x), n, x, NoVersion, TRUE)
<1>1. PICK peers \in Peers(n, WriteQuorumSize) :
        LET x == Assembled("assemblingQuorum", e, peers, "NodeLockRequestNoTimeout",
                           "NodeTimestampRequest") IN
        /\ work' = [work EXCEPT ![n] = x]
        /\ network' = net \cup ToMembers("NodeLockRequestNoTimeout", n, x, NoVersion, TRUE)
  BY DEF BeginWrite
<1> DEFINE x == Assembled("assemblingQuorum", e, peers, "NodeLockRequestNoTimeout",
                          "NodeTimestampRequest")
<1>2. e.msg.type \in WriteKinds /\ FromClient(e.msg) /\ e.msg \in ClientMessage
  BY DEF BeginWrite, FromClient, ClientKinds, Queued, NodeMessage, NodeKinds, WriteKinds
<1>3. x \in Work
  BY <1>2, AssembledType, QuorumSizes DEF Coordinating, WritePhases, NodeKinds, Steps
<1>4. /\ x.req = e.msg /\ x.mode = "assemblingQuorum" /\ x.step = "NodeTimestampRequest"
      /\ x.waiting = Cardinality(peers)
      /\ x.members = [m \in Node |-> IF m \in peers THEN [NoAnswer EXCEPT !.type = "NodeLockRequestNoTimeout"]
                                                    ELSE NoAnswer]
  BY DEF Assembled
<1> HIDE DEF x
<1>5. n \notin peers /\ peers \subseteq Node /\ Cardinality(peers) = WriteQuorumSize - 1
  BY DEF Peers
<1>6. /\ \A p \in peers : x.members[p].type = "NodeLockRequestNoTimeout" /\ x.members[p].ts = 0
      /\ \A p \in Node \ peers : x.members[p].type = "none" /\ x.members[p] = NoAnswer
  BY <1>4, <1>5 DEF NoAnswer
<1>7. Members(x) = peers
  BY <1>5, <1>6 DEF Members, NoAnswer
<1>8. Asks(x) = "NodeLockRequestNoTimeout"
  BY <1>4 DEF Asks
<1>9. Coordinates(n, e, x)
  BY <1>2, <1>4, <1>5, <1>6, <1>7, <1>8 DEF Coordinates
<1>10. QED
  BY <1>1, <1>3, <1>8, <1>9 DEF x

LEMMA ReadBegun ==
  ASSUME NEW n \in Node, NEW e \in Queued, NEW net, BeginRead(n, e, net)
  PROVE  \E x \in Work : /\ Coordinates(n, e, x) /\ work' = [work EXCEPT ![n] = x]
                          /\ network' = net \cup ToMembers(Asks(x), n, x, NoVersion, TRUE)
<1>1. PICK peers \in Peers(n, ReadQuorumSize) :
        LET x == Assembled("coordinatingFastRead", e, peers, "NodeGetRequest",
                           "none") IN
        /\ work' = [work EXCEPT ![n] = x]
        /\ network' = net \cup ToMembers("NodeGetRequest", n, x, NoVersion, TRUE)
  BY DEF BeginRead
<1> DEFINE x == Assembled("coordinatingFastRead", e, peers, "NodeGetRequest",
                          "none")
<1>2. /\ e.msg.type = "ClientReadRequest" /\ FromClient(e.msg) /\ e.msg \in ClientMessage
      /\ ReadQuorumSize > 1 /\ e.msg.type \notin WriteKinds
  BY DEF BeginRead, FromClient, ClientKinds, Queued, NodeMessage, NodeKinds, WriteKinds
<1>3. x \in Work
  BY <1>2, AssembledType, QuorumSizes DEF Coordinating, WritePhases, NodeKinds, Steps
<1>4. /\ x.req = e.msg /\ x.mode = "coordinatingFastRead" /\ x.step = "none"
      /\ x.waiting = Cardinality(peers)
      /\ x.members = [m \in Node |-> IF m \in peers THEN [NoAnswer EXCEPT !.type = "NodeGetRequest"]
                                                    ELSE NoAnswer]
  BY DEF Assembled
<1> HIDE DEF x
<1>5. n \notin peers /\ peers \subseteq Node /\ Cardinality(peers) = ReadQuorumSize - 1
  BY DEF Peers
<1>6. /\ \A p \in peers : x.members[p].type = "NodeGetRequest" /\ x.members[p].ts = 0
      /\ \A p \in Node \ peers : x.members[p].type = "none" /\ x.members[p] = NoAnswer
  BY <1>4, <1>5 DEF NoAnswer
<1>7. Members(x) = peers
  BY <1>5, <1>6 DEF Members, NoAnswer
<1>8. Asks(x) = "NodeGetRequest"
  BY <1>4 DEF Asks
<1>9. Coordinates(n, e, x)
  BY <1>2, <1>4, <1>5, <1>6, <1>7, <1>8 DEF Coordinates
<1>10. QED
  BY <1>1, <1>3, <1>8, <1>9 DEF x

GrantOf(n, e) == Mail("NodeLockResponse", e.msg.id, n, e.msg.src, NoVersion, TRUE)

\* The request at the head of the queue is started, granted or dropped.
Turns(n, e, wk, net) ==
  \/ work' = wk /\ network' = net
  \/ \E x \in Work : /\ Coordinates(n, e, x) /\ work' = [wk EXCEPT ![n] = x]
                     /\ network' = net \cup ToMembers(Asks(x), n, x, NoVersion, TRUE)
  \/ /\ e.msg \in NodeMessage /\ e.msg.type = "NodeLockRequestNoTimeout"
     /\ work' = [wk EXCEPT ![n] = Serving(e)] /\ network' = net \cup {GrantOf(n, e)}

\* What the handler of n makes of the works and the queues.
Leaves(n, w, q, wk, qu) == /\ wk = [work EXCEPT ![n] = w]
                           /\ qu = [queue EXCEPT ![n] = q]

LEMMA LeavesOthers ==
  ASSUME HandledOK, NEW n \in Node, NEW w, NEW q, NEW wk, NEW qu, Leaves(n, w, q, wk, qu)
  PROVE  /\ wk[n] = w /\ \A p \in Node : p # n => wk[p] = work[p]
         /\ qu[n] = q /\ \A p \in Node : p # n => qu[p] = queue[p]
         /\ w = work[n] => wk = work
         /\ q = queue[n] => qu = queue
BY DEF HandledOK, Leaves

\* The request e has been taken from the queue of n, and nothing else.
TookHead(n, e, qu) ==
  /\ 1 \in 1..Len(qu[n]) /\ e = qu[n][1]
  /\ \A p \in Node : \A i \in 1..Len(queue'[p]) :
       \E k \in 1..Len(qu[p]) : /\ queue'[p][i] = qu[p][k]
                               /\ k = IF p = n THEN i + 1 ELSE i

LEMMA EndsForm ==
  ASSUME HandledOK, NEW n \in Node, NEW w \in Work, NEW q \in Seq(Queued),
         NEW net \in SUBSET NodeMessage, Ends(n, w, q, net),
         NEW wk, NEW qu, Leaves(n, w, q, wk, qu)
  PROVE  \/ work' = wk /\ queue' = qu /\ network' = net
         \/ /\ wk[n] = Idle
            /\ \E e \in Queued : TookHead(n, e, qu) /\ Turns(n, e, wk, net)
<1> DEFINE e == Head(q)
<1>1. /\ \A x : [wk EXCEPT ![n] = x] = [work EXCEPT ![n] = x]
      /\ \A x : [qu EXCEPT ![n] = x] = [queue EXCEPT ![n] = x]
      /\ wk[n] = w /\ qu[n] = q
      /\ wk = [work EXCEPT ![n] = w] /\ qu = [queue EXCEPT ![n] = q]
  BY DEF HandledOK, Leaves
<1>2. CASE ~(work' = wk /\ queue' = qu /\ network' = net)
  <2>1. PICK done : EndLoop(n, w, q, done, net)
    BY <1>1, <1>2 DEF Ends
  <2>2. w.mode = "idle" /\ q # <<>>
    BY <1>1, <1>2, <2>1 DEF EndLoop
  <2>3. w = Idle
    BY <2>2 DEF Work
  <2>4. /\ e \in Queued /\ Tail(q) \in Seq(Queued) /\ Len(q) \in Nat
        /\ Len(Tail(q)) = Len(q) - 1 /\ e = q[1] /\ 1 \in 1..Len(q)
        /\ \A i \in 1..(Len(q) - 1) : Tail(q)[i] = q[i + 1]
    BY <2>2, HeadTailProperties
  <2>5. queue' = [qu EXCEPT ![n] = Tail(q)]
    BY <1>1, <2>1, <2>2 DEF EndLoop
  <2>6. Turns(n, e, wk, net)
    <3>1. CASE work' = wk /\ network' = net
      BY <3>1 DEF Turns
    <3>2. CASE BeginWrite(n, e, net)
      <4>1. PICK x \in Work : /\ Coordinates(n, e, x) /\ work' = [work EXCEPT ![n] = x]
                              /\ network' = net \cup ToMembers(Asks(x), n, x, NoVersion, TRUE)
        BY <2>4, <3>2, WriteBegun
      <4>2. QED
        BY <1>1, <4>1 DEF Turns
    <3>3. CASE BeginRead(n, e, net)
      <4>1. PICK x \in Work : /\ Coordinates(n, e, x) /\ work' = [work EXCEPT ![n] = x]
                              /\ network' = net \cup ToMembers(Asks(x), n, x, NoVersion, TRUE)
        BY <2>4, <3>3, ReadBegun
      <4>2. QED
        BY <1>1, <4>1 DEF Turns
    <3>4. CASE BeginLock(n, e, net)
      <4>1. e.msg \in NodeMessage /\ e.msg.type = "NodeLockRequestNoTimeout"
        BY <2>4, <3>4 DEF BeginLock, Queued, ClientMessage, ClientKinds, WriteKinds
      <4>2. QED
        BY <1>1, <3>4, <4>1 DEF BeginLock, Turns, GrantOf
    <3>5. \/ work' = wk /\ network' = net
          \/ BeginWrite(n, e, net) \/ BeginRead(n, e, net) \/ BeginLock(n, e, net)
      BY <1>1, <2>1, <2>2 DEF EndLoop
    <3>6. QED
      BY <3>1, <3>2, <3>3, <3>4, <3>5
  <2>7. TookHead(n, e, qu)
    <3>1. /\ queue'[n] = Tail(q) /\ \A p \in Node : p # n => queue'[p] = qu[p]
      BY <1>1, <2>5 DEF HandledOK
    <3> HIDE DEF e
    <3>2. ASSUME NEW p \in Node, NEW i \in 1..Len(queue'[p])
          PROVE  \E k \in 1..Len(qu[p]) : /\ queue'[p][i] = qu[p][k]
                                         /\ k = IF p = n THEN i + 1 ELSE i
      <4>1. CASE p # n
        BY <3>1, <3>2, <4>1
      <4>2. CASE p = n
        <5>1. Len(queue'[p]) = Len(q) - 1
          BY <2>4, <3>1, <4>2
        <5>2. i \in 1..(Len(q) - 1) /\ i + 1 \in 1..Len(q)
          <6>1. Len(q) \in Nat
            BY <2>4
          <6>2. QED
            BY <3>2, <5>1, <6>1
        <5>3. queue'[p][i] = q[i + 1]
          BY <2>4, <3>1, <4>2, <5>2
        <5>4. QED
          BY <1>1, <3>2, <4>2, <5>2, <5>3, Zenon
      <4>3. QED
        BY <4>1, <4>2
    <3>3. QED
      BY <1>1, <2>4, <3>2 DEF TookHead
  <2>8. QED
    BY <1>1, <2>3, <2>4, <2>6, <2>7
<1>3. QED
  BY <1>2

-----------------------------------------------------------------------------
(* One answer for each request *)

LEMMA EffectCoordinates ==
  ASSUME Orderly, NEW n \in Node, NEW w, NEW q, NEW net, Effect(n, w, q, net)
  PROVE  w.mode \in Coordinating =>
           /\ work[n].mode \in Coordinating /\ w.req = work[n].req
           /\ w.mode \in WritePhases <=> work[n].mode \in WritePhases
<1>1. Idle.mode \notin Coordinating
  BY DEF Idle, Coordinating, WritePhases
<1>2. CASE w = work[n] \/ w = Idle
  BY <1>1, <1>2
<1>3. CASE CountEffect(n, w, q, net)
  BY <1>3 DEF CountEffect, Answering, Counted, Coordinating, WritePhases
<1>4. CASE AskEffect(n, w, q, net)
  <2>1. PICK m, c, left : LastAnswer(n, m, left, c) /\ w = Awaiting(c, "NodePutRequest", 0)
                          /\ c.mode = "assemblingQuorum"
    BY <1>4 DEF AskEffect
  <2>2. QED
    BY <2>1, LastAnswerType DEF LastAnswer, Awaiting, Coordinating, WritePhases
<1>5. CASE StageEffect(n, w, q, net)
  <2>1. PICK m, c, left, k : /\ LastAnswer(n, m, left, c) /\ c.mode = "coordinatingWrite"
                             /\ w = Awaiting(c, "NodeUnlockRequest", k + 1)
    BY <1>5 DEF StageEffect, AllDated
  <2>2. QED
    BY <2>1, LastAnswerType DEF LastAnswer, Awaiting, Coordinating, WritePhases
<1>6. QED
  BY <1>2, <1>3, <1>4, <1>5 DEF Effect, PassEffect, IssueEffect, LocalReadEffect, LockEffect,
     GetEffect, TimestampEffect, PutEffect, UnlockEffect, GiveBackEffect, FinishReadEffect,
     CommitEffect, QuitEffect, ExpireEffect

\* A request in a queue was there before, or has just arrived.
LEMMA EffectEntries ==
  ASSUME Orderly, NEW n \in Node, NEW w, NEW q, NEW net, Effect(n, w, q, net),
         NEW i \in 1..Len(q)
  PROVE  \/ \E k \in 1..Len(queue[n]) : q[i] = queue[n][k]
         \/ /\ FromClient(q[i].msg) /\ q[i].msg = Request(q[i].msg.id, n)
            /\ q[i].msg.id \in Txn \ issued /\ q[i].msg.id \in issued'
         \/ /\ ~FromClient(q[i].msg) /\ q[i].msg \in network /\ q[i].msg.dest = n
            /\ q[i].msg.type = "NodeLockRequestNoTimeout" /\ LockEffect(n, w, q, net)
<1>1. queue[n] \in Seq(Queued) /\ Len(queue[n]) \in Nat
  BY DEF Orderly, HandledOK
<1>2. ASSUME NEW e \in Queued, q = Append(queue[n], e)
      PROVE  q[i] = e \/ \E k \in 1..Len(queue[n]) : q[i] = queue[n][k]
  BY <1>1, <1>2, AppendProperties
<1>3. CASE LockEffect(n, w, q, net)
  <2>1. PICK m : /\ m \in network /\ m \in NodeMessage /\ m.type = "NodeLockRequestNoTimeout"
                 /\ q = Append(queue[n], Entry(m)) /\ m.dest = n
    BY <1>3 DEF LockEffect, Taken, Orderly, HandledOK
  <2>2. Entry(m) \in Queued /\ Entry(m).msg = m /\ ~FromClient(m)
    BY <2>1 DEF Entry, Queued, FromClient, ClientKinds, WriteKinds
  <2>3. QED
    BY <1>2, <1>3, <2>1, <2>2
<1>4. CASE IssueEffect(n, w, q, net)
  <2>1. PICK t \in Txn : /\ t \notin issued /\ t \in issued'
                         /\ Kind[t] = "ClientReadRequest" => ReadQuorumSize > 1
                         /\ q = Append(queue[n], Entry(Request(t, n)))
    BY <1>4 DEF IssueEffect, Issue
  <2>2. Entry(Request(t, n)) \in Queued
    BY <2>1, RequestType
  <2>3. /\ Entry(Request(t, n)).msg = Request(t, n) /\ Request(t, n).id = t
        /\ FromClient(Request(t, n))
    BY TxnAssumption DEF Entry, Request, Mail, FromClient
  <2> DEFINE e == Entry(Request(t, n))
  <2>5. q[i] = e \/ \E k \in 1..Len(queue[n]) : q[i] = queue[n][k]
    BY <1>2, <2>1, <2>2
  <2> HIDE DEF e
  <2>6. e.msg = Request(t, n)
    BY <2>3 DEF e
  <2>7. QED
    BY <2>1, <2>3, <2>5, <2>6
<1>5. CASE ExpireEffect(n, w, q, net)
  <2>1. PICK j \in 1..Len(queue[n]) : q = Without(queue[n], j)
    BY <1>5 DEF ExpireEffect
  <2> DEFINE k == IF i < j THEN i ELSE i + 1
  <2>2. Len(q) = Len(queue[n]) - 1 /\ q[i] = queue[n][k]
    BY <1>1, <2>1, WithoutProperties
  <2>3. k \in 1..Len(queue[n])
    BY <1>1, <2>2
  <2> HIDE DEF k
  <2>4. QED
    BY <2>2, <2>3
<1>6. CASE q = queue[n]
  BY <1>6
<1>7. QED
  BY <1>3, <1>4, <1>5, <1>6 DEF Effect, PassEffect, LocalReadEffect, GetEffect,
     TimestampEffect, PutEffect, UnlockEffect, GiveBackEffect, CountEffect, FinishReadEffect,
     AskEffect, StageEffect, CommitEffect, QuitEffect

\* Who is told something: the client of the request that is coordinated, of one
\* that is taken from the queue, or of one that has just arrived.
AnswerTo(n, t, w, q) ==
  \/ work[n].mode \in Coordinating /\ t = work[n].req.id /\ w = Idle /\ q = queue[n]
  \/ \E i \in 1..Len(queue[n]) : /\ FromClient(queue[n][i].msg) /\ t = queue[n][i].msg.id
                                 /\ q = Without(queue[n], i) /\ w = work[n]
  \/ t \in Txn \ issued /\ t \in issued' /\ w = work[n] /\ q = queue[n]

LEMMA EffectReplies ==
  ASSUME Orderly, NEW n \in Node, NEW w, NEW q, NEW net, Effect(n, w, q, net)
  PROVE  /\ issued \subseteq issued'
         /\ \/ replies' = replies
            \/ \E r : replies' = replies \cup {r} /\ AnswerTo(n, r.id, w, q)
<1>1. CASE \/ PassEffect(n, w, q, net) \/ IssueEffect(n, w, q, net)
           \/ LockEffect(n, w, q, net) \/ GetEffect(n, w, q, net)
           \/ TimestampEffect(n, w, q, net) \/ PutEffect(n, w, q, net)
           \/ UnlockEffect(n, w, q, net) \/ GiveBackEffect(n, w, q, net)
           \/ CountEffect(n, w, q, net) \/ AskEffect(n, w, q, net) \/ StageEffect(n, w, q, net)
  BY <1>1 DEF PassEffect, IssueEffect, Issue, LockEffect, GetEffect, TimestampEffect,
     PutEffect, UnlockEffect, GiveBackEffect, CountEffect, AskEffect, StageEffect,
     NothingWritten
<1>9. \A type, t, v, ok : Reply(type, t, v, ok).id = t
  BY DEF Reply
<1>10. ASSUME NEW type, NEW t, NEW v, NEW ok, replies' = replies \cup {Reply(type, t, v, ok)},
              AnswerTo(n, t, w, q)
       PROVE  \E r : replies' = replies \cup {r} /\ AnswerTo(n, r.id, w, q)
  BY <1>9, <1>10
<1>2. CASE LocalReadEffect(n, w, q, net)
  <2>1. PICK t \in Txn : /\ t \notin issued /\ issued' = issued \cup {t}
                         /\ replies' = replies \cup {Reply("ClientReadResponse", t, store[n], TRUE)}
                         /\ w = work[n] /\ q = queue[n]
    BY <1>2 DEF LocalReadEffect, Issue
  <2>2. AnswerTo(n, t, w, q)
    BY <2>1 DEF AnswerTo
  <2>3. QED
    BY <1>10, <2>1, <2>2
<1>3. ASSUME NEW m, NEW c, NEW left, LastAnswer(n, m, left, c), w = Idle, q = queue[n]
      PROVE  AnswerTo(n, c.req.id, w, q)
  BY <1>3, LastAnswerType DEF LastAnswer, AnswerTo
<1>4. CASE FinishReadEffect(n, w, q, net)
  <2>1. PICK m, c, v : /\ LastAnswer(n, m, net, c)
                       /\ replies' = replies \cup {Reply("ClientReadResponse", c.req.id, v, TRUE)}
    BY <1>4 DEF FinishReadEffect
  <2>2. QED
    BY <1>3, <1>4, <1>10, <2>1 DEF FinishReadEffect
<1>5. CASE CommitEffect(n, w, q, net)
  <2>1. PICK m, c, left :
          /\ LastAnswer(n, m, left, c)
          /\ replies' = replies \cup {Reply("ClientWriteResponse", c.req.id,
                                            [ts |-> c.ts, val |-> c.req.val], TRUE)}
    BY <1>5 DEF CommitEffect
  <2>2. QED
    BY <1>3, <1>5, <1>10, <2>1 DEF CommitEffect
<1>6. CASE QuitEffect(n, w, q, net)
  <2>1. AnswerTo(n, work[n].req.id, w, q)
    BY <1>6 DEF QuitEffect, AnswerTo
  <2>2. QED
    BY <1>6, <1>10, <2>1 DEF QuitEffect, GiveUp, Refusal
<1>7. CASE ExpireEffect(n, w, q, net)
  <2>1. PICK i \in 1..Len(queue[n]) :
          /\ q = Without(queue[n], i) /\ w = work[n]
          /\ \/ FromClient(queue[n][i].msg) /\ replies' = replies \cup {Refusal(queue[n][i].msg, 0)}
             \/ replies' = replies
    BY <1>7 DEF ExpireEffect
  <2>2. CASE replies' = replies
    BY <1>7, <2>2 DEF ExpireEffect
  <2>3. CASE FromClient(queue[n][i].msg) /\ replies' = replies \cup {Refusal(queue[n][i].msg, 0)}
    <3>1. AnswerTo(n, queue[n][i].msg.id, w, q)
      BY <2>1, <2>3 DEF AnswerTo
    <3>2. QED
      BY <1>7, <1>10, <2>3, <3>1 DEF Refusal, ExpireEffect
  <2>4. QED
    BY <2>1, <2>2, <2>3
<1>8. QED
  BY <1>1, <1>2, <1>4, <1>5, <1>6, <1>7
     DEF Effect, FinishReadEffect, CommitEffect, QuitEffect, LocalReadEffect, Issue

LEMMA AnsweredHandled ==
  ASSUME Orderly, Answered(work, queue, replies, issued),
         NEW n \in Node, NEW w, NEW q, NEW net, Effect(n, w, q, net),
         NEW wk, NEW qu, Leaves(n, w, q, wk, qu)
  PROVE  Answered(wk, qu, replies', issued')
<1>1. /\ StartedOnce(work, queue, network, issued)
      /\ QueuedOnce(work, queue, network) /\ OneCoordinator(work)
      /\ UnissuedAbsent(work, queue, network, issued)
      /\ \A p \in Node : work[p] \in Work /\ queue[p] \in Seq(Queued) /\ Len(queue[p]) \in Nat
      /\ wk[n] = w /\ \A p \in Node : p # n => wk[p] = work[p]
      /\ qu[n] = q /\ \A p \in Node : p # n => qu[p] = queue[p]
      /\ Idle.mode \notin Coordinating
  BY LeavesOthers DEF Orderly, HandledOK, StartedOnce, Idle, Coordinating, WritePhases
<1>2. issued \subseteq issued'
  BY EffectReplies
\* The answers there were.
<1>3. ASSUME NEW r \in replies
      PROVE  /\ r.id \in issued'
             /\ \A p \in Node : \A i \in 1..Len(qu[p]) :
                  FromClient(qu[p][i].msg) => qu[p][i].msg.id # r.id
             /\ \A p \in Node : wk[p].mode \in Coordinating => wk[p].req.id # r.id
  <2>1. r.id \in issued
    BY DEF Answered
  <2>2. ASSUME NEW p \in Node, NEW i \in 1..Len(qu[p]), FromClient(qu[p][i].msg)
        PROVE  qu[p][i].msg.id # r.id
    <3>1. CASE \E k \in 1..Len(queue[p]) : qu[p][i] = queue[p][k]
      BY <2>2, <3>1 DEF Answered
    <3>2. CASE p = n /\ qu[p][i].msg.id \in Txn \ issued
      BY <2>1, <3>2
    <3>3. QED
      BY <1>1, <2>2, <3>1, <3>2, EffectEntries
  <2>3. ASSUME NEW p \in Node, wk[p].mode \in Coordinating PROVE wk[p].req.id # r.id
    BY <1>1, <2>3, EffectCoordinates DEF Answered
  <2>4. QED
    BY <1>2, <2>1, <2>2, <2>3
\* The answer that is given.
<1>4. ASSUME NEW r, AnswerTo(n, r.id, w, q)
      PROVE  /\ r.id \in issued' /\ \A s \in replies : s.id # r.id
             /\ \A p \in Node : \A i \in 1..Len(qu[p]) :
                  FromClient(qu[p][i].msg) => qu[p][i].msg.id # r.id
             /\ \A p \in Node : wk[p].mode \in Coordinating => wk[p].req.id # r.id
  <2>1. CASE /\ work[n].mode \in Coordinating /\ r.id = work[n].req.id
             /\ w = Idle /\ q = queue[n]
    <3>1. r.id \in Txn /\ Started(queue, issued, r.id)
      BY <1>1, <2>1, WorkStarted DEF Work, ClientMessage, Orderly
    <3>2. \A s \in replies : s.id # r.id
      BY <2>1 DEF Answered
    <3>3. ASSUME NEW p \in Node, wk[p].mode \in Coordinating PROVE wk[p].req.id # r.id
      BY <1>1, <2>1, <3>3 DEF OneCoordinator
    <3>4. qu[n] = queue[n]
      BY <1>1, <2>1
    <3>5. QED
      BY <1>1, <1>2, <3>1, <3>2, <3>3, <3>4 DEF Started
  <2>2. CASE \E i \in 1..Len(queue[n]) : /\ FromClient(queue[n][i].msg) /\ w = work[n]
                                         /\ r.id = queue[n][i].msg.id /\ q = Without(queue[n], i)
    <3>1. PICK i \in 1..Len(queue[n]) : /\ FromClient(queue[n][i].msg) /\ w = work[n]
                                        /\ r.id = queue[n][i].msg.id /\ q = Without(queue[n], i)
      BY <2>2
    <3>2. NotStarted(work, network, r.id)
          /\ \A p \in Node : \A j \in 1..Len(queue[p]) :
               queue[p][j].msg.id = r.id => p = n /\ j = i
      BY <1>1, <3>1 DEF QueuedOnce
    <3>3. r.id \in issued
      <4>1. queue[n][i] \in Queued
        BY <1>1
      <4>2. r.id \in Txn
        BY <3>1, <4>1 DEF Queued, ClientMessage, NodeMessage
      <4>3. QED
        BY <1>1, <3>1, <4>2 DEF UnissuedAbsent, NeverQueued
    <3>4. \A s \in replies : s.id # r.id
      BY <3>1 DEF Answered
    <3>5. ASSUME NEW p \in Node, NEW j \in 1..Len(qu[p]) PROVE qu[p][j].msg.id # r.id
      <4>1. CASE p # n
        BY <1>1, <3>2, <4>1
      <4>2. CASE p = n
        <5> DEFINE k == IF j < i THEN j ELSE j + 1
        <5>4. queue[n] \in Seq(Queued) /\ j \in 1..Len(q)
          BY <1>1, <4>2
        <5>1. Len(q) = Len(queue[n]) - 1 /\ q[j] = queue[n][k]
          BY <3>1, <5>4, WithoutProperties
        <5>2. k \in 1..Len(queue[n]) /\ k # i
          BY <1>1, <3>1, <4>2, <5>1
        <5> HIDE DEF k
        <5>3. QED
          BY <1>1, <3>2, <4>2, <5>1, <5>2
      <4>3. QED
        BY <4>1, <4>2
    <3>6. wk = work
      BY <3>1, LeavesOthers DEF Orderly
    <3>7. QED
      BY <1>2, <3>2, <3>3, <3>4, <3>5, <3>6 DEF NotStarted
  <2>3. CASE r.id \in Txn \ issued /\ r.id \in issued' /\ w = work[n] /\ q = queue[n]
    <3>1. NotStarted(work, network, r.id) /\ NeverQueued(queue, r.id)
      BY <1>1, <2>3 DEF UnissuedAbsent
    <3>2. wk = work /\ qu = queue
      BY <2>3, LeavesOthers DEF Orderly
    <3>3. \A s \in replies : s.id # r.id
      BY <2>3 DEF Answered
    <3>4. QED
      BY <2>3, <3>1, <3>2, <3>3 DEF NotStarted, NeverQueued
  <2>4. QED
    BY <1>4, <2>1, <2>2, <2>3 DEF AnswerTo
<1>5. \A r, s \in replies : r.id = s.id => r = s
  BY DEF Answered
<1>6. \/ replies' = replies
      \/ \E r : replies' = replies \cup {r} /\ AnswerTo(n, r.id, w, q)
  BY EffectReplies
<1>7. CASE replies' = replies
  BY <1>3, <1>5, <1>7 DEF Answered
<1>8. CASE \E r : replies' = replies \cup {r} /\ AnswerTo(n, r.id, w, q)
  <2>1. PICK r : replies' = replies \cup {r} /\ AnswerTo(n, r.id, w, q)
    BY <1>8
  <2>2. \A x \in replies' : x \in replies \/ x = r
    BY <2>1
  <2>3. \A x, s \in replies' : x.id = s.id => x = s
    BY <1>4, <1>5, <2>1, <2>2
  <2>4. QED
    BY <1>3, <1>4, <2>1, <2>2, <2>3 DEF Answered
<1>9. QED
  BY <1>6, <1>7, <1>8

LEMMA AsRequestedHandled ==
  ASSUME Orderly, AsRequested(work, queue),
         NEW n \in Node, NEW w, NEW q, NEW net, Effect(n, w, q, net),
         NEW wk, NEW qu, Leaves(n, w, q, wk, qu)
  PROVE  AsRequested(wk, qu)
<1>1. /\ wk[n] = w /\ \A p \in Node : p # n => wk[p] = work[p]
      /\ qu[n] = q /\ \A p \in Node : p # n => qu[p] = queue[p]
  BY LeavesOthers DEF Orderly
<1>2. ASSUME NEW p \in Node, wk[p].mode \in Coordinating
      PROVE  /\ wk[p].req = Request(wk[p].req.id, p)
             /\ wk[p].mode \in WritePhases <=> wk[p].req.type \in WriteKinds
  BY <1>1, <1>2, EffectCoordinates DEF AsRequested
<1>3. ASSUME NEW p \in Node, NEW i \in 1..Len(qu[p]), FromClient(qu[p][i].msg)
      PROVE  qu[p][i].msg = Request(qu[p][i].msg.id, p)
  <2>1. CASE \E k \in 1..Len(queue[p]) : qu[p][i] = queue[p][k]
    BY <1>3, <2>1 DEF AsRequested
  <2>2. QED
    BY <1>1, <1>3, <2>1, EffectEntries
<1>4. QED
  BY <1>2, <1>3 DEF AsRequested

LEMMA AnsweredEnds ==
  ASSUME HandledOK, NEW n \in Node, NEW w \in Work, NEW q \in Seq(Queued),
         NEW net \in SUBSET NodeMessage, Ends(n, w, q, net),
         NEW wk, NEW qu, Leaves(n, w, q, wk, qu),
         NEW rp, NEW is, Answered(wk, qu, rp, is), AsRequested(wk, qu)
  PROVE  Answered(work', queue', rp, is) /\ AsRequested(work', queue')
<1>1. CASE work' = wk /\ queue' = qu
  BY <1>1
<1>2. CASE ~(work' = wk /\ queue' = qu)
  <2>1. /\ wk[n] = Idle
        /\ \E e \in Queued : TookHead(n, e, qu) /\ Turns(n, e, wk, net)
    BY <1>2, EndsForm
  <2>2. PICK e \in Queued : TookHead(n, e, qu) /\ Turns(n, e, wk, net)
    BY <2>1
  <2>3. /\ 1 \in 1..Len(qu[n]) /\ e = qu[n][1]
        /\ \A p \in Node : \A i \in 1..Len(queue'[p]) :
             \E k \in 1..Len(qu[p]) : queue'[p][i] = qu[p][k]
    BY <2>2 DEF TookHead
  <2>4. ASSUME NEW p \in Node, work'[p].mode \in Coordinating
        PROVE  \/ work'[p] = wk[p]
               \/ /\ p = n /\ work'[n].req = e.msg /\ FromClient(e.msg)
                  /\ work'[n].mode \in WritePhases <=> e.msg.type \in WriteKinds
    <3>1. CASE work' = wk
      BY <3>1
    <3>2. CASE \E x \in Work : Coordinates(n, e, x) /\ work' = [wk EXCEPT ![n] = x]
      <4>1. PICK x \in Work : Coordinates(n, e, x) /\ work' = [wk EXCEPT ![n] = x]
        BY <3>2
      <4>2. x.mode \in WritePhases <=> e.msg.type \in WriteKinds
        BY <4>1 DEF Coordinates, WritePhases
      <4>3. /\ work'[n] = x
            /\ p # n => work'[p] = wk[p]
        BY <4>1 DEF HandledOK, Leaves
      <4>4. QED
        BY <4>1, <4>2, <4>3 DEF Coordinates
    <3>3. CASE work' = [wk EXCEPT ![n] = Serving(e)]
      <4>1. Serving(e).mode = "processingWrite"
        BY DEF Serving, Idle
      <4>2. work'[n] = Serving(e) /\ (p # n => work'[p] = wk[p])
        BY <3>3 DEF HandledOK, Leaves
      <4>3. QED
        BY <2>4, <4>1, <4>2 DEF Coordinating, WritePhases
    <3>4. QED
      BY <2>2, <3>1, <3>2, <3>3 DEF Turns
  <2>5. Answered(work', queue', rp, is)
    <3>1. ASSUME NEW r \in rp, NEW p \in Node, NEW i \in 1..Len(queue'[p]),
                 FromClient(queue'[p][i].msg)
          PROVE  queue'[p][i].msg.id # r.id
      <4>1. PICK k \in 1..Len(qu[p]) : queue'[p][i] = qu[p][k]
        BY <2>3
      <4>2. QED
        BY <3>1, <4>1 DEF Answered
    <3>2. ASSUME NEW r \in rp, NEW p \in Node, work'[p].mode \in Coordinating
          PROVE  work'[p].req.id # r.id
      BY <2>3, <2>4, <3>2 DEF Answered
    <3>3. QED
      BY <3>1, <3>2 DEF Answered
  <2>6. AsRequested(work', queue')
    <3>1. ASSUME NEW p \in Node, NEW i \in 1..Len(queue'[p]), FromClient(queue'[p][i].msg)
          PROVE  queue'[p][i].msg = Request(queue'[p][i].msg.id, p)
      <4>1. PICK k \in 1..Len(qu[p]) : queue'[p][i] = qu[p][k]
        BY <2>3
      <4>2. QED
        BY <3>1, <4>1 DEF AsRequested
    <3>2. ASSUME NEW p \in Node, work'[p].mode \in Coordinating
          PROVE  /\ work'[p].req = Request(work'[p].req.id, p)
                 /\ work'[p].mode \in WritePhases <=> work'[p].req.type \in WriteKinds
      BY <2>3, <2>4, <3>2 DEF AsRequested
    <3>3. QED
      BY <3>1, <3>2 DEF AsRequested
  <2>7. QED
    BY <2>5, <2>6
<1>3. QED
  BY <1>1, <1>2

\* What a transaction was told, and what it asked for.
AnsweredOnce == Answered(work, queue, replies, issued) /\ AsRequested(work, queue)

LEMMA AnsweredStep ==
  ASSUME Orderly, NEW n \in Node, StepOf(n), AnsweredOnce
  PROVE  AnsweredOnce'
<1>1. PICK w, q, net : Effect(n, w, q, net) /\ Ends(n, w, q, net)
  BY DEF StepOf
<1> DEFINE wk == [work EXCEPT ![n] = w]
           qu == [queue EXCEPT ![n] = q]
<1>2. w \in Work /\ q \in Seq(Queued) /\ net \in SUBSET NodeMessage
  BY <1>1, EffectWork, EffectQueuedOnce
<1>4. HandledOK
  BY DEF Orderly
<1>5. Leaves(n, w, q, wk, qu)
  BY DEF Leaves
<1> HIDE DEF wk, qu
<1>3. Answered(wk, qu, replies', issued') /\ AsRequested(wk, qu)
  BY <1>1, <1>5, AnsweredHandled, AsRequestedHandled DEF AnsweredOnce
<1>6. QED
  BY <1>1, <1>2, <1>3, <1>4, <1>5, AnsweredEnds DEF AnsweredOnce

LEMMA AnsweredInductive ==
  ASSUME IInv, Undisturbed => AnsweredOnce, [Next]_vars, Undisturbed'
  PROVE  AnsweredOnce'
<1>1. CASE Next
  <2>1. Undisturbed
    BY <1>1, StaysDisturbed DEF IInv
  <2>2. QED
    BY <1>1, <2>1, StepForm, AnsweredStep
<1>2. CASE UNCHANGED vars
  BY <1>2 DEF vars, Undisturbed, AnsweredOnce, Answered, AsRequested
<1>3. QED
  BY <1>1, <1>2

-----------------------------------------------------------------------------
(* The conversations of coordinators *)

\* The requests of qu1 about t were in qu0, each in a place of its own.
Moved(qu0, qu1, t) ==
  \E at : \A p \in Node :
    /\ \A i, j \in 1..Len(qu1[p]) : at[p][i] = at[p][j] => i = j
    /\ \A i \in 1..Len(qu1[p]) : qu1[p][i].msg.id = t =>
         at[p][i] \in 1..Len(qu0[p]) /\ qu1[p][i] = qu0[p][at[p][i]]

LEMMA NotMoved ==
  ASSUME NEW qu, NEW t
  PROVE  Moved(qu, qu, t)
<1> DEFINE at == [p \in Node |-> [i \in 1..Len(qu[p]) |-> i]]
<1>1. \A p \in Node : \A i \in 1..Len(qu[p]) : at[p][i] = i
  OBVIOUS
<1> HIDE DEF at
<1>2. QED
  BY <1>1 DEF Moved

LEMMA MovedByAppend ==
  ASSUME HandledOK, NEW n \in Node, NEW e \in Queued, NEW q, q = Append(queue[n], e),
         NEW w, NEW wk, NEW qu, Leaves(n, w, q, wk, qu), NEW t, e.msg.id # t
  PROVE  Moved(queue, qu, t)
<1> DEFINE at == [p \in Node |-> [i \in 1..Len(qu[p]) |-> i]]
<1>1. \A p \in Node : \A i \in 1..Len(qu[p]) : at[p][i] = i
  OBVIOUS
<1> HIDE DEF at
<1>2. /\ qu[n] = q /\ \A p \in Node : p # n => qu[p] = queue[p]
  BY DEF HandledOK, Leaves
<1>3. queue[n] \in Seq(Queued) /\ Len(queue[n]) \in Nat
  BY DEF HandledOK
<1>4. /\ Len(q) = Len(queue[n]) + 1
      /\ \A i \in 1..Len(queue[n]) : q[i] = queue[n][i]
      /\ q[Len(queue[n]) + 1] = e
  BY <1>3, AppendProperties
<1>5. ASSUME NEW p \in Node, NEW i \in 1..Len(qu[p]), qu[p][i].msg.id = t
      PROVE  i \in 1..Len(queue[p]) /\ qu[p][i] = queue[p][i]
  BY <1>2, <1>3, <1>4, <1>5
<1>6. \A p \in Node :
        /\ \A i, j \in 1..Len(qu[p]) : at[p][i] = at[p][j] => i = j
        /\ \A i \in 1..Len(qu[p]) : qu[p][i].msg.id = t =>
             at[p][i] \in 1..Len(queue[p]) /\ qu[p][i] = queue[p][at[p][i]]
  BY <1>1, <1>5
<1>7. QED
  BY <1>6 DEF Moved

LEMMA MovedByWithout ==
  ASSUME HandledOK, NEW n \in Node, NEW k \in 1..Len(queue[n]), NEW q, q = Without(queue[n], k),
         NEW w, NEW wk, NEW qu, Leaves(n, w, q, wk, qu), NEW t
  PROVE  Moved(queue, qu, t)
<1> DEFINE at == [p \in Node |-> [i \in 1..Len(qu[p]) |->
                    IF p = n THEN IF i < k THEN i ELSE i + 1 ELSE i]]
<1>1. \A p \in Node : \A i \in 1..Len(qu[p]) :
        at[p][i] = IF p = n THEN IF i < k THEN i ELSE i + 1 ELSE i
  OBVIOUS
<1> HIDE DEF at
<1>2. /\ qu[n] = q /\ \A p \in Node : p # n => qu[p] = queue[p]
  BY LeavesOthers
<1>3. queue[n] \in Seq(Queued) /\ Len(queue[n]) \in Nat
  BY DEF HandledOK
<1>4. /\ Len(q) = Len(queue[n]) - 1
      /\ \A i \in 1..(Len(queue[n]) - 1) : q[i] = queue[n][IF i < k THEN i ELSE i + 1]
  BY <1>3, WithoutProperties
<1>5. ASSUME NEW p \in Node, NEW i \in 1..Len(qu[p])
      PROVE  at[p][i] \in 1..Len(queue[p]) /\ qu[p][i] = queue[p][at[p][i]]
  <2>1. CASE p # n
    BY <1>1, <1>2, <1>5, <2>1
  <2>2. CASE p = n
    <3> DEFINE j == IF i < k THEN i ELSE i + 1
    <3>1. i \in 1..(Len(queue[n]) - 1) /\ at[n][i] = j
      BY <1>1, <1>2, <1>4, <1>5, <2>2
    <3>2. j \in 1..Len(queue[n]) /\ q[i] = queue[n][j]
      BY <1>3, <1>4, <3>1
    <3> HIDE DEF j
    <3>3. QED
      BY <1>2, <2>2, <3>1, <3>2
  <2>3. QED
    BY <2>1, <2>2
<1>6. ASSUME NEW p \in Node, NEW i \in 1..Len(qu[p]), NEW j \in 1..Len(qu[p]),
             at[p][i] = at[p][j]
      PROVE  i = j
  <2>1. i \in Int /\ j \in Int /\ k \in Int
    BY <1>6
  <2>2. QED
    BY <1>1, <1>6, <2>1
<1>7. \A p \in Node :
        /\ \A i, j \in 1..Len(qu[p]) : at[p][i] = at[p][j] => i = j
        /\ \A i \in 1..Len(qu[p]) : qu[p][i].msg.id = t =>
             at[p][i] \in 1..Len(queue[p]) /\ qu[p][i] = queue[p][at[p][i]]
  BY <1>5, <1>6
<1>8. QED
  BY <1>7 DEF Moved

LEMMA EffectMoved ==
  ASSUME Orderly, NEW n \in Node, NEW w, NEW q, NEW net, Effect(n, w, q, net),
         NEW wk, NEW qu, Leaves(n, w, q, wk, qu), NEW t \in issued,
         \A m : Taken(n, m, net) /\ m.type = "NodeLockRequestNoTimeout" => m.id # t
  PROVE  Moved(queue, qu, t)
<1>1. HandledOK
  BY DEF Orderly
<1>2. CASE q = queue[n]
  BY <1>1, <1>2, LeavesOthers, NotMoved
<1>3. CASE LockEffect(n, w, q, net)
  <2>1. PICK m : /\ Taken(n, m, net) /\ m.type = "NodeLockRequestNoTimeout"
                 /\ q = Append(queue[n], Entry(m))
    BY <1>3 DEF LockEffect
  <2>2. m \in NodeMessage
    BY <1>1, <2>1 DEF Taken, HandledOK
  <2>3. Entry(m) \in Queued /\ Entry(m).msg = m
    BY <2>1, <2>2 DEF Entry, Queued
  <2>4. QED
    BY <1>1, <2>1, <2>3, MovedByAppend
<1>4. CASE IssueEffect(n, w, q, net)
  <2>1. PICK x \in Txn : /\ x \notin issued
                         /\ Kind[x] = "ClientReadRequest" => ReadQuorumSize > 1
                         /\ q = Append(queue[n], Entry(Request(x, n)))
    BY <1>4 DEF IssueEffect, Issue
  <2>2. Entry(Request(x, n)) \in Queued
    BY <2>1, RequestType
  <2>3. Entry(Request(x, n)).msg.id = x
    BY DEF Entry, Request, Mail
  <2> DEFINE e == Entry(Request(x, n))
  <2>4. e \in Queued /\ e.msg.id # t /\ q = Append(queue[n], e)
    BY <2>1, <2>2, <2>3
  <2> HIDE DEF e
  <2>5. QED
    BY <1>1, <2>4, MovedByAppend
<1>5. CASE ExpireEffect(n, w, q, net)
  BY <1>1, <1>5, MovedByWithout DEF ExpireEffect
<1>6. QED
  BY <1>2, <1>3, <1>4, <1>5 DEF Effect, PassEffect, LocalReadEffect, GetEffect,
     TimestampEffect, PutEffect, UnlockEffect, GiveBackEffect, CountEffect, FinishReadEffect,
     AskEffect, StageEffect, CommitEffect, QuitEffect

LEMMA TookHeadMoved ==
  ASSUME NEW n \in Node, NEW e, NEW qu, TookHead(n, e, qu), NEW t
  PROVE  Moved(qu, queue', t)
<1> DEFINE at == [p \in Node |-> [i \in 1..Len(queue'[p]) |-> IF p = n THEN i + 1 ELSE i]]
<1>1. \A p \in Node : \A i \in 1..Len(queue'[p]) : at[p][i] = IF p = n THEN i + 1 ELSE i
  OBVIOUS
<1> HIDE DEF at
<1>2. ASSUME NEW p \in Node, NEW i \in 1..Len(queue'[p])
      PROVE  at[p][i] \in 1..Len(qu[p]) /\ queue'[p][i] = qu[p][at[p][i]]
  BY <1>1, <1>2 DEF TookHead
<1>3. ASSUME NEW p \in Node, NEW i \in 1..Len(queue'[p]), NEW j \in 1..Len(queue'[p]),
             at[p][i] = at[p][j]
      PROVE  i = j
  <2>1. i \in Int /\ j \in Int
    BY <1>3
  <2>2. QED
    BY <1>1, <1>3, <2>1
<1>4. \A p \in Node :
        /\ \A i, j \in 1..Len(queue'[p]) : at[p][i] = at[p][j] => i = j
        /\ \A i \in 1..Len(queue'[p]) : queue'[p][i].msg.id = t =>
             at[p][i] \in 1..Len(qu[p]) /\ queue'[p][i] = qu[p][at[p][i]]
  BY <1>2, <1>3
<1>5. QED
  BY <1>4 DEF Moved

\* A coordinator whose record is kept goes on as before, if nothing is added.
LEMMA ConversingKept ==
  ASSUME NEW wk0, NEW qu0, NEW nt0, NEW wk1, NEW qu1, NEW nt1, NEW c \in Node,
         Conversing(wk0, qu0, nt0, c), wk1[c] = wk0[c],
         \A u \in nt1 : u \in nt0 \/ u.id # wk0[c].req.id,
         Moved(qu0, qu1, wk0[c].req.id)
  PROVE  Conversing(wk1, qu1, nt1, c)
<1> DEFINE w == wk0[c]
           t == wk0[c].req.id
<1>1. \A u \in nt1 : u.id = t => u \in nt0
  OBVIOUS
<1>2. PICK at : \A p \in Node :
        /\ \A i, j \in 1..Len(qu1[p]) : at[p][i] = at[p][j] => i = j
        /\ \A i \in 1..Len(qu1[p]) : qu1[p][i].msg.id = t =>
             at[p][i] \in 1..Len(qu0[p]) /\ qu1[p][i] = qu0[p][at[p][i]]
  BY DEF Moved
<1>3. ASSUME NEW p \in Node, NEW i \in 1..Len(qu1[p]), qu1[p][i].msg.id = t
      PROVE  /\ w.mode = "assemblingQuorum" /\ p \in Silent(w) /\ qu1[p][i].msg.src = c
             /\ \A m \in nt1 : m.id = t => Peer(m) # p
             /\ \A j \in 1..Len(qu1[p]) : qu1[p][j].msg.id = t => i = j
  <2>1. at[p][i] \in 1..Len(qu0[p]) /\ qu1[p][i] = qu0[p][at[p][i]]
    BY <1>2, <1>3
  <2>2. /\ w.mode = "assemblingQuorum" /\ p \in Silent(w) /\ qu1[p][i].msg.src = c
        /\ \A m \in nt0 : m.id = t => Peer(m) # p
        /\ \A j \in 1..Len(qu0[p]) : qu0[p][j].msg.id = t => at[p][i] = j
    BY <1>3, <2>1 DEF Conversing
  <2>3. ASSUME NEW j \in 1..Len(qu1[p]), qu1[p][j].msg.id = t PROVE i = j
    <3>1. at[p][j] \in 1..Len(qu0[p]) /\ qu0[p][at[p][j]].msg.id = t
      BY <1>2, <2>3
    <3>2. at[p][i] = at[p][j]
      BY <2>2, <3>1
    <3>3. QED
      BY <1>2, <3>2
  <2>4. QED
    BY <1>1, <2>2, <2>3
<1>4. /\ \A m \in nt1 : m.id = t => /\ m.type \in {Asks(w), Expects(w)}
                                    /\ Home(m) = c /\ Peer(m) \in Silent(w)
      /\ \A m, x \in nt1 : m.id = t /\ x.id = t /\ Peer(m) = Peer(x) => m = x
  BY <1>1 DEF Conversing
<1>5. QED
  BY <1>3, <1>4 DEF Conversing

\* A member answers: m is replaced by u.
Answers(u, m) == /\ u.id = m.id /\ u.src = m.dest /\ u.dest = m.src
                 /\ u.type \notin RequestKinds

LEMMA ConversingAnswered ==
  ASSUME NEW wk0, NEW qu0, NEW nt0, NEW wk1, NEW c \in Node, Conversing(wk0, qu0, nt0, c),
         wk1[c] = wk0[c], NEW m \in nt0, m.type \in RequestKinds,
         NEW u, Answers(u, m),
         Asks(wk0[c]) = m.type => Expects(wk0[c]) = u.type,
         NEW nt1, \A x \in nt1 : x = u \/ (x \in nt0 /\ x # m)
  PROVE  Conversing(wk1, qu0, nt1, c)
<1> DEFINE w == wk0[c]
           t == wk0[c].req.id
<1>1. CASE m.id # t
  <2>1. \A x \in nt1 : x \in nt0 \/ x.id # t
    BY <1>1 DEF Answers
  <2>2. QED
    BY <2>1, NotMoved, ConversingKept
<1>2. CASE m.id = t
  <2>1. m.type \in {Asks(w), Expects(w)} /\ Home(m) = c /\ Peer(m) \in Silent(w)
    BY <1>2 DEF Conversing
  <2>2. Expects(w) \notin RequestKinds
    BY DEF Expects, RequestKinds
  <2>3. u.type = Expects(w) /\ Home(u) = c /\ Peer(u) = Peer(m)
    BY <2>1, <2>2 DEF Home, Peer, Answers
  <2>4. \A x \in nt1 : x.id = t => /\ x.type \in {Asks(w), Expects(w)}
                                   /\ Home(x) = c /\ Peer(x) \in Silent(w)
    BY <1>2, <2>1, <2>3 DEF Conversing, Answers
  <2>5. \A x \in nt0 : x # m /\ x.id = t => Peer(x) # Peer(u)
    BY <1>2, <2>3 DEF Conversing
  <2>6. \A x, y \in nt1 : x.id = t /\ y.id = t /\ Peer(x) = Peer(y) => x = y
    BY <2>5 DEF Conversing
  <2>7. ASSUME NEW p \in Node, NEW i \in 1..Len(qu0[p]), qu0[p][i].msg.id = t
        PROVE  \A x \in nt1 : x.id = t => Peer(x) # p
    BY <1>2, <2>3, <2>7 DEF Conversing
  <2>8. QED
    BY <2>4, <2>6, <2>7 DEF Conversing
<1>3. QED
  BY <1>1, <1>2

\* A lock request reaches the queue of n.
LEMMA ConversingQueued ==
  ASSUME HandledOK, NEW c \in Node, Conversing(work, queue, network, c),
         NEW n \in Node, NEW m \in network, m.dest = n, m.type = "NodeLockRequestNoTimeout",
         NEW q, q = Append(queue[n], Entry(m)),
         NEW w, NEW wk, NEW qu, Leaves(n, w, q, wk, qu), wk[c] = work[c]
  PROVE  Conversing(wk, qu, network \ {m}, c)
<1> DEFINE t == work[c].req.id
           net == network \ {m}
<1>1. /\ m \in NodeMessage /\ Entry(m) \in Queued /\ Entry(m).msg = m
      /\ queue[n] \in Seq(Queued) /\ Len(queue[n]) \in Nat
  BY DEF HandledOK, Entry, Queued
<1>2. CASE m.id # t
  <2>1. Moved(queue, qu, t)
    BY <1>1, <1>2, MovedByAppend
  <2>2. QED
    BY <2>1, ConversingKept
<1>3. CASE m.id = t
  <2>1. /\ m.type \in {Asks(work[c]), Expects(work[c])} /\ m.src = c /\ n \in Silent(work[c])
        /\ Peer(m) = n
    BY <1>3 DEF Conversing, Home, Peer, RequestKinds
  <2>2. work[c].mode = "assemblingQuorum"
    BY <2>1 DEF Asks, Expects
  <2>3. \A x \in net : x.id = t => Peer(x) # n
    BY <1>3, <2>1 DEF Conversing
  <2>4. \A i \in 1..Len(queue[n]) : queue[n][i].msg.id # t
    BY <1>3, <2>1 DEF Conversing
  <2>5. /\ qu[n] = Append(queue[n], Entry(m)) /\ \A p \in Node : p # n => qu[p] = queue[p]
    BY DEF HandledOK, Leaves
  <2>6. ASSUME NEW i \in 1..Len(qu[n]), qu[n][i].msg.id = t
        PROVE  i = Len(queue[n]) + 1 /\ qu[n][i].msg = m
    <3> DEFINE e == Entry(m)
    <3>1. e \in Queued /\ e.msg = m
      BY <1>1
    <3> HIDE DEF e
    <3>2. qu[n] = Append(queue[n], e)
      BY <2>5 DEF e
    <3>3. /\ Len(qu[n]) = Len(queue[n]) + 1
          /\ \A j \in 1..Len(queue[n]) : qu[n][j] = queue[n][j]
          /\ qu[n][Len(queue[n]) + 1] = e
      BY <1>1, <3>1, <3>2, AppendProperties
    <3>4. QED
      BY <1>1, <2>4, <2>6, <3>1, <3>3, SMTT(30)
  <2>7. ASSUME NEW p \in Node, NEW i \in 1..Len(qu[p]), qu[p][i].msg.id = t
        PROVE  /\ p \in Silent(work[c]) /\ qu[p][i].msg.src = c
               /\ \A x \in net : x.id = t => Peer(x) # p
               /\ \A j \in 1..Len(qu[p]) : qu[p][j].msg.id = t => i = j
    <3>1. CASE p = n
      BY <2>1, <2>3, <2>6, <2>7, <3>1
    <3>2. CASE p # n
      BY <2>5, <2>7, <3>2 DEF Conversing
    <3>3. QED
      BY <3>1, <3>2
  <2>8. /\ \A x \in net : x.id = t => /\ x.type \in {Asks(work[c]), Expects(work[c])}
                                      /\ Home(x) = c /\ Peer(x) \in Silent(work[c])
        /\ \A x, y \in net : x.id = t /\ y.id = t /\ Peer(x) = Peer(y) => x = y
    BY DEF Conversing
  <2>9. QED
    BY <2>2, <2>7, <2>8 DEF Conversing
<1>4. QED
  BY <1>2, <1>3

\* The requests of qu1 were in qu0, but not in the i-th place of n.
Elsewhere(n, i, qu0, qu1) ==
  \A p \in Node : \A j \in 1..Len(qu1[p]) :
    \E k \in 1..Len(qu0[p]) : qu1[p][j] = qu0[p][k] /\ (p = n => k # i)

\* The answer of n to a lock request.
Grants(n, m, u) == /\ u.type = "NodeLockResponse" /\ u.id = m.id
                   /\ u.src = n /\ u.dest = m.src

\* A lock request leaves a queue and is answered.
LEMMA ConversingTurned ==
  ASSUME NEW wk0, NEW qu0, NEW nt0, NEW wk1, NEW qu1, NEW c \in Node,
         Conversing(wk0, qu0, nt0, c), wk1[c] = wk0[c],
         NEW n \in Node, NEW i \in 1..Len(qu0[n]), NEW u, Grants(n, qu0[n][i].msg, u),
         Moved(qu0, qu1, wk0[c].req.id), Elsewhere(n, i, qu0, qu1),
         NEW nt1, \A x \in nt1 : x \in nt0 \/ x = u
  PROVE  Conversing(wk1, qu1, nt1, c)
<1> DEFINE w == wk0[c]
           t == wk0[c].req.id
<1>1. CASE u.id # t
  <2>1. \A x \in nt1 : x \in nt0 \/ x.id # t
    BY <1>1
  <2>2. QED
    BY <2>1, ConversingKept
<1>2. CASE u.id = t
  <2>1. Conversing(wk1, qu1, nt0, c)
    BY ConversingKept
  <2>2. /\ w.mode = "assemblingQuorum" /\ n \in Silent(w) /\ u.dest = c
        /\ \A m \in nt0 : m.id = t => Peer(m) # n
        /\ \A j \in 1..Len(qu0[n]) : qu0[n][j].msg.id = t => i = j
    <3>1. qu0[n][i].msg.id = t /\ u.dest = qu0[n][i].msg.src
      BY <1>2 DEF Grants
    <3>2. \A p \in Node : \A k \in 1..Len(qu0[p]) : qu0[p][k].msg.id = t =>
            /\ w.mode = "assemblingQuorum" /\ p \in Silent(w) /\ qu0[p][k].msg.src = c
            /\ \A m \in nt0 : m.id = t => Peer(m) # p
            /\ \A j \in 1..Len(qu0[p]) : qu0[p][j].msg.id = t => k = j
      BY DEF Conversing
    <3>3. QED
      BY <3>1, <3>2
  <2>3. u.type = Expects(w) /\ Home(u) = c /\ Peer(u) = n
    BY <2>2 DEF Expects, Home, Peer, RequestKinds, Grants
  <2>4. /\ \A m \in nt1 : m.id = t => /\ m.type \in {Asks(w), Expects(w)}
                                      /\ Home(m) = c /\ Peer(m) \in Silent(w)
        /\ \A m, x \in nt1 : m.id = t /\ x.id = t /\ Peer(m) = Peer(x) => m = x
    BY <2>2, <2>3 DEF Conversing
  <2>5. \A j \in 1..Len(qu1[n]) : qu1[n][j].msg.id # t
    BY <2>2 DEF Elsewhere
  <2>6. ASSUME NEW p \in Node, NEW j \in 1..Len(qu1[p]), qu1[p][j].msg.id = t
        PROVE  \A x \in nt1 : x.id = t => Peer(x) # p
    <3>1. p # n
      BY <2>5, <2>6
    <3>2. \A x \in nt0 : x.id = t => Peer(x) # p
      BY <2>1, <2>6 DEF Conversing
    <3>3. QED
      BY <2>3, <3>1, <3>2
  <2>7. QED
    BY <2>1, <2>4, <2>6 DEF Conversing
<1>3. QED
  BY <1>1, <1>2

\* An answer that counts is the one the coordinator waits for from that member.
LEMMA AnswerCounted ==
  ASSUME Orderly, resends' = 0, NEW n \in Node, Conversing(work, queue, network, n),
         NEW m, NEW net, Answering(n, m, net), NEW c, c = Counted(work[n], m)
  PROVE  /\ m \in network /\ net = network \ {m} /\ m.src \in Members(work[n])
         /\ m.type = Expects(work[n]) /\ Expects(c) = Expects(work[n])
         /\ Asks(c) = Asks(work[n])
         /\ Members(c) = Members(work[n]) /\ Silent(c) = Silent(work[n]) \ {m.src}
         /\ c.waiting = Cardinality(Silent(c)) /\ IsFiniteSet(Silent(c))
         /\ \A u \in net : u.id = work[n].req.id => Peer(u) \in Silent(c)
         /\ \A p \in Node : \A i \in 1..Len(queue[p]) :
              queue[p][i].msg.id = work[n].req.id => p \in Silent(c)
<1> DEFINE t == work[n].req.id
<1>1. /\ m \in NodeMessage /\ m \in network /\ m.type \in AnswerKinds /\ m.dest = n
      /\ m.id = t /\ work[n] \in Work /\ work[n].mode \in Coordinating
      /\ c.mode = work[n].mode /\ c.step = work[n].step /\ net = network \ {m}
  BY LastAnswerType DEF Answering, Taken
<1>2. /\ m.type \in {Asks(work[n]), Expects(work[n])} /\ Peer(m) \in Silent(work[n])
      /\ m.type \notin RequestKinds
  BY <1>1 DEF Conversing, AnswerKinds, RequestKinds
<1>3. Asks(work[n]) \in RequestKinds
  BY DEF Asks, RequestKinds
<1>4. m.type = Expects(work[n]) /\ m.src \in Silent(work[n]) /\ Peer(m) = m.src
  BY <1>2, <1>3 DEF Peer
<1>5. m.src \in Members(work[n]) /\ m.src \in Node
  BY <1>4 DEF Silent, Members
<1>6. Members(c) = Members(work[n])
  BY <1>1, <1>5, CountedMembers
<1>7. Expects(c) = Expects(work[n]) /\ Asks(c) = Asks(work[n])
  BY <1>1 DEF Expects, Asks
<1>8. /\ c.members[m.src].type = m.type
      /\ \A p \in Node : p # m.src => c.members[p] = work[n].members[p]
      /\ c.waiting = work[n].waiting - 1
  BY <1>1, <1>5 DEF Counted, Work
<1>9. Silent(c) = Silent(work[n]) \ {m.src}
  BY <1>4, <1>6, <1>7, <1>8 DEF Silent, Members
<1>10. IsFiniteSet(Silent(work[n]))
  BY NodeAssumption, FS_Subset DEF Silent, Members
<1>11. IsFiniteSet(Silent(c)) /\ Cardinality(Silent(c)) = Cardinality(Silent(work[n])) - 1
  BY <1>4, <1>9, <1>10, FS_RemoveElement
<1>12. c.waiting = Cardinality(Silent(c))
  BY <1>8, <1>11 DEF Conversing
<1>13. \A u \in net : u.id = t => Peer(u) \in Silent(c)
  BY <1>1, <1>4, <1>9 DEF Conversing
<1>14. \A p \in Node : \A i \in 1..Len(queue[p]) : queue[p][i].msg.id = t => p \in Silent(c)
  BY <1>1, <1>4, <1>9 DEF Conversing
<1>15. QED
  BY <1>1, <1>4, <1>5, <1>6, <1>7, <1>9, <1>11, <1>12, <1>13, <1>14

LEMMA ConversingCounted ==
  ASSUME Orderly, resends' = 0, NEW n \in Node, Conversing(work, queue, network, n),
         NEW m, NEW net, Answering(n, m, net), NEW c, c = Counted(work[n], m),
         NEW wk, wk[n] = c
  PROVE  Conversing(wk, queue, net, n)
<1>1. c.mode = work[n].mode /\ c.step = work[n].step /\ c.req = work[n].req
  BY DEF Counted
<1>2. /\ net = network \ {m}
      /\ Expects(c) = Expects(work[n]) /\ Asks(c) = Asks(work[n])
      /\ Members(c) = Members(work[n])
      /\ c.waiting = Cardinality(Silent(c))
      /\ \A u \in net : u.id = work[n].req.id => Peer(u) \in Silent(c)
      /\ \A p \in Node : \A i \in 1..Len(queue[p]) :
           queue[p][i].msg.id = work[n].req.id => p \in Silent(c)
  BY AnswerCounted
<1>3. QED
  BY <1>1, <1>2 DEF Conversing

\* Coordinator n asks its members for the next thing.
Sends(type, n, w, v, left, net) == net = left \cup ToMembers(type, n, w, v, TRUE)

\* All have answered, and are asked the next thing.
LEMMA ConversingAsked ==
  ASSUME Orderly, resends' = 0, NEW n \in Node, Conversing(work, queue, network, n),
         NEW m, NEW left, NEW c, LastAnswer(n, m, left, c), c.mode \in WritePhases,
         NEW ts, NEW step, NEW w, w = Awaiting(c, step, ts), NEW wk, wk[n] = w,
         step \in {"NodePutRequest", "NodeUnlockRequest"}, Expects(w) # Expects(c),
         NEW v, NEW net, Sends(Asks(w), n, c, v, left, net)
  PROVE  /\ Conversing(wk, queue, net, n)
         /\ Members(w) = Members(work[n])
         /\ \A u \in net : u.id = w.req.id => u \in ToMembers(Asks(w), n, c, v, TRUE)
<1> DEFINE t == work[n].req.id
<1>1. /\ Answering(n, m, left) /\ c = Counted(work[n], m) /\ c.waiting = 0
      /\ c.mode = work[n].mode /\ c.step = work[n].step /\ c.req = work[n].req
  BY DEF LastAnswer, Counted
<1>2. /\ left = network \ {m} /\ Members(c) = Members(work[n])
      /\ c.waiting = Cardinality(Silent(c)) /\ IsFiniteSet(Silent(c))
      /\ \A u \in left : u.id = t => Peer(u) \in Silent(c)
      /\ \A p \in Node : \A i \in 1..Len(queue[p]) : queue[p][i].msg.id = t => p \in Silent(c)
  BY <1>1, AnswerCounted
<1>3. Silent(c) = {}
  BY <1>1, <1>2, FS_EmptySet
<1>4. /\ \A u \in left : u.id # t
      /\ \A p \in Node : \A i \in 1..Len(queue[p]) : queue[p][i].msg.id # t
  BY <1>2, <1>3
<1>5. /\ w.mode = "coordinatingWrite" /\ w.req.id = t /\ w.step = step
      /\ w.members = c.members /\ w.waiting = WriteQuorumSize - 1
  BY <1>1 DEF Awaiting
<1>6. Members(w) = Members(work[n])
  BY <1>2, <1>5 DEF Members
<1>7. Silent(w) = Members(w)
  BY <1>2, <1>3, <1>5, <1>6 DEF Silent
<1>8. Cardinality(Members(w)) = WriteQuorumSize - 1 /\ n \notin Members(w)
  BY <1>1, <1>6 DEF Conversing
<1>9. \A u \in net : u.id = t => u \in ToMembers(Asks(w), n, c, v, TRUE)
  BY <1>4 DEF Sends
<1>10. Asks(w) \in RequestKinds
  BY DEF Asks, RequestKinds
<1>11. \A u \in ToMembers(Asks(w), n, c, v, TRUE) :
         \E p \in Members(c) : u = Mail(Asks(w), t, n, p, v, TRUE)
  BY <1>1 DEF ToMembers
<1>12. ASSUME NEW u \in net, u.id = t
       PROVE  /\ u.type = Asks(w) /\ Home(u) = n /\ Peer(u) \in Silent(w)
              /\ u = Mail(Asks(w), t, n, Peer(u), v, TRUE)
  <2>1. PICK p \in Members(c) : u = Mail(Asks(w), t, n, p, v, TRUE)
    BY <1>9, <1>11, <1>12
  <2>2. u.type = Asks(w) /\ u.src = n /\ u.dest = p
    BY <2>1 DEF Mail
  <2>3. Home(u) = n /\ Peer(u) = p
    BY <1>10, <2>2 DEF Home, Peer
  <2>4. QED
    BY <1>2, <1>6, <1>7, <2>1, <2>2, <2>3
<1>13. ASSUME NEW u \in net, NEW x \in net, u.id = t, x.id = t, Peer(u) = Peer(x)
       PROVE  u = x
  <2>1. /\ u = Mail(Asks(w), t, n, Peer(u), v, TRUE)
        /\ x = Mail(Asks(w), t, n, Peer(x), v, TRUE)
    BY <1>12, <1>13
  <2>2. QED
    BY <1>13, <2>1
<1>14. w.waiting = Cardinality(Silent(w))
  BY <1>5, <1>7, <1>8
<1> HIDE DEF t
<1>15. Conversing(wk, queue, net, n)
  <2>1. wk[n] = w /\ w.mode \in WritePhases /\ w.mode # "assemblingQuorum"
    BY <1>5 DEF WritePhases
  <2>2. \A u \in net : u.id = t => /\ u.type \in {Asks(w), Expects(w)}
                                   /\ Home(u) = n /\ Peer(u) \in Silent(w)
    BY <1>12
  <2>3. \A u, x \in net : u.id = t /\ x.id = t /\ Peer(u) = Peer(x) => u = x
    BY <1>13
  <2>4. QED
    BY <1>4, <1>5, <1>8, <1>14, <2>1, <2>2, <2>3 DEF Conversing
<1>16. QED
  BY <1>5, <1>6, <1>9, <1>15

LEMMA WithoutElsewhere ==
  ASSUME HandledOK, NEW n \in Node, NEW i \in 1..Len(queue[n]), NEW q, q = Without(queue[n], i),
         NEW w, NEW wk, NEW qu, Leaves(n, w, q, wk, qu)
  PROVE  Elsewhere(n, i, queue, qu)
<1>1. /\ qu[n] = q /\ \A r \in Node : r # n => qu[r] = queue[r]
  BY LeavesOthers
<1>2. queue[n] \in Seq(Queued) /\ Len(queue[n]) \in Nat
  BY DEF HandledOK
<1>3. ASSUME NEW p \in Node, NEW j \in 1..Len(qu[p])
      PROVE  \E k \in 1..Len(queue[p]) : qu[p][j] = queue[p][k] /\ (p = n => k # i)
  <2>1. CASE p # n
    BY <1>1, <1>3, <2>1
  <2>2. CASE p = n
    <3> DEFINE k == IF j < i THEN j ELSE j + 1
    <3>1. queue[n] \in Seq(Queued) /\ j \in 1..Len(q)
      BY <1>1, <1>2, <1>3, <2>2
    <3>2. Len(q) = Len(queue[n]) - 1 /\ q[j] = queue[n][k]
      BY <3>1, WithoutProperties
    <3>3. k \in 1..Len(queue[n]) /\ k # i
      BY <1>1, <1>2, <3>1, <3>2
    <3> HIDE DEF k
    <3>4. QED
      BY <1>1, <2>2, <3>2, <3>3
  <2>3. QED
    BY <2>1, <2>2
<1>4. QED
  BY <1>3 DEF Elsewhere

\* A handler keeps the conversations of all coordinators.
LEMMA EffectConversations ==
  ASSUME Orderly, resends' = 0, Conversations(work, queue, network),
         NEW n \in Node, NEW w, NEW q, NEW net, Effect(n, w, q, net),
         NEW wk, NEW qu, Leaves(n, w, q, wk, qu)
  PROVE  Conversations(wk, qu, net)
<1> SUFFICES ASSUME NEW c \in Node, wk[c].mode \in Coordinating
             PROVE  Conversing(wk, qu, net, c)
  BY DEF Conversations
<1> DEFINE t == work[c].req.id
<1>1. /\ HandledOK /\ Typed(work, queue, network, issued)
      /\ StartedOnce(work, queue, network, issued) /\ OneCoordinator(work)
      /\ work[c] \in Work /\ Idle.mode \notin Coordinating
  BY DEF Orderly, HandledOK, StartedOnce, Idle, Coordinating, WritePhases
<1>2. /\ wk[n] = w /\ \A p \in Node : p # n => wk[p] = work[p]
      /\ qu[n] = q /\ \A p \in Node : p # n => qu[p] = queue[p]
      /\ w = work[n] => wk = work
      /\ q = queue[n] => qu = queue
  BY <1>1, LeavesOthers
<1>3. work[c].mode \in Coordinating /\ wk[c].req = work[c].req
  BY <1>2, EffectCoordinates
<1>4. Conversing(work, queue, network, c) /\ t \in issued
  <2>1. t \in Txn
    BY <1>1, <1>3 DEF Work, ClientMessage
  <2>2. QED
    BY <1>1, <1>3, <2>1, WorkStarted DEF Conversations, Started, StartedOnce
<1>5. w = Idle => c # n
  BY <1>1, <1>2
<1>6. ASSUME NEW p \in Node, work[p].mode \in Coordinating, p # c PROVE work[p].req.id # t
  BY <1>1, <1>3, <1>6 DEF OneCoordinator
<1>7. ASSUME NEW m, NEW left, Taken(n, m, left)
      PROVE  m \in network /\ m.dest = n /\ left = network \ {m} /\ left \subseteq network
  BY <1>7 DEF Taken
<1>8. ASSUME NEW m, NEW k, NEW left, LastAnswer(n, m, left, k)
      PROVE  /\ work[n].mode \in Coordinating /\ k.req = work[n].req /\ k.mode = work[n].mode
             /\ left \subseteq network /\ k.step = work[n].step
  BY <1>8, LastAnswerType DEF LastAnswer
<1>9. ASSUME wk[c] = work[c], q = queue[n], \A u \in net : u \in network \/ u.id # t
      PROVE  Conversing(wk, qu, net, c)
  BY <1>2, <1>4, <1>9, NotMoved, ConversingKept
\* A coordinator that gives up or goes on sends messages of its own transaction.
<1>10. ASSUME NEW left, left \subseteq network, NEW type, NEW k, k.req = work[n].req,
              NEW v, NEW ok, net = left \cup ToMembers(type, n, k, v, ok), c # n,
              work[n].mode \in Coordinating, q = queue[n]
       PROVE  Conversing(wk, qu, net, c)
  <2>1. \A u \in ToMembers(type, n, k, v, ok) : u.id = work[n].req.id
    BY <1>10 DEF ToMembers, Mail
  <2>2. work[n].req.id # t
    BY <1>6, <1>10
  <2>3. \A u \in net : u \in network \/ u.id # t
    BY <1>10, <2>1, <2>2
  <2>4. QED
    BY <1>2, <1>9, <1>10, <2>3
<1>11. CASE PassEffect(n, w, q, net) \/ LocalReadEffect(n, w, q, net)
  BY <1>2, <1>7, <1>9, <1>11 DEF PassEffect, LocalReadEffect, TakenAnswer
<1>12. CASE IssueEffect(n, w, q, net)
  <2>1. net = network /\ w = work[n]
    BY <1>12 DEF IssueEffect
  <2>2. \A m : ~Taken(n, m, net)
    BY <1>7, <2>1
  <2>3. Moved(queue, qu, t)
    BY <1>4, <2>2, EffectMoved
  <2>4. QED
    BY <1>2, <1>4, <2>1, <2>3, ConversingKept
<1>13. CASE LockEffect(n, w, q, net)
  <2>1. PICK m : /\ m \in network /\ m.dest = n /\ m.type = "NodeLockRequestNoTimeout"
                 /\ net = network \ {m} /\ w = work[n] /\ q = Append(queue[n], Entry(m))
    BY <1>7, <1>13 DEF LockEffect
  <2>2. QED
    BY <1>1, <1>2, <1>4, <2>1, ConversingQueued
<1>14. ASSUME NEW m, NEW left, Taken(n, m, left), NEW type, NEW v, NEW ok,
              net = left \cup {Mail(type, m.id, n, m.src, v, ok)}, type \notin RequestKinds,
              \/ m.type = "NodeGetRequest" /\ type = "NodeGetResponse"
              \/ m.type = "NodeTimestampRequest" /\ type = "NodeGetResponse"
              \/ m.type = "NodePutRequest" /\ type = "NodePutResponse",
              w = work[n], q = queue[n]
       PROVE  Conversing(wk, qu, net, c)
  <2> DEFINE u == Mail(type, m.id, n, m.src, v, ok)
  <2>1. u.id = m.id /\ u.src = n /\ u.dest = m.src /\ u.type = type
    BY DEF Mail
  <2> HIDE DEF u
  <2>2. /\ m \in network /\ m.dest = n /\ net = (network \ {m}) \cup {u}
        /\ wk = work /\ qu = queue
    BY <1>2, <1>7, <1>14 DEF u
  <2>3. m.type \in RequestKinds
    BY <1>14 DEF RequestKinds
  <2>4. Asks(work[c]) = m.type => Expects(work[c]) = u.type
    BY <1>3, <1>14, <2>1 DEF Asks, Expects, Coordinating, WritePhases
  <2>8. Answers(u, m)
    BY <1>14, <2>1, <2>2 DEF Answers
  <2>5. \A x \in net : x = u \/ (x \in network /\ x # m)
    BY <2>2
  <2>6. Conversing(work, queue, net, c)
    BY <1>4, <2>2, <2>3, <2>4, <2>5, <2>8, ConversingAnswered
  <2>7. QED
    BY <2>2, <2>6
<1>15. CASE GetEffect(n, w, q, net)
  <2>1. PICK m, left : /\ Taken(n, m, left) /\ m.type = "NodeGetRequest"
                       /\ net = left \cup {Mail("NodeGetResponse", m.id, n, m.src,
                             IF staged[n] = NoVersion THEN store[n] ELSE NoVersion,
                             staged[n] = NoVersion)}
                       /\ w = work[n] /\ q = queue[n]
    BY <1>15 DEF GetEffect
  <2>2. "NodeGetResponse" \notin RequestKinds
    BY DEF RequestKinds
  <2>3. QED
    BY <1>14, <2>1, <2>2
<1>16. CASE TimestampEffect(n, w, q, net)
  <2>1. PICK m, left : /\ Taken(n, m, left) /\ m.type = "NodeTimestampRequest"
                       /\ net = left \cup {Mail("NodeGetResponse", m.id, n, m.src,
                             [ts |-> IF Serves(n, m.id) THEN store[n].ts ELSE 0, val |-> 0],
                             TRUE)}
                       /\ w = work[n] /\ q = queue[n]
    BY <1>16 DEF TimestampEffect
  <2>2. "NodeGetResponse" \notin RequestKinds
    BY DEF RequestKinds
  <2>3. QED
    BY <1>14, <2>1, <2>2
<1>17. CASE PutEffect(n, w, q, net)
  <2>1. PICK m, left : /\ Taken(n, m, left) /\ m.type = "NodePutRequest"
                       /\ net = left \cup {Mail("NodePutResponse", m.id, n, m.src,
                             [ts |-> m.ts, val |-> m.val], Serves(n, m.id))}
                       /\ w = work[n] /\ q = queue[n]
    BY <1>17 DEF PutEffect
  <2>2. "NodePutResponse" \notin RequestKinds
    BY DEF RequestKinds
  <2>3. QED
    BY <1>14, <2>1, <2>2
<1>18. CASE UnlockEffect(n, w, q, net)
  BY <1>2, <1>5, <1>7, <1>9, <1>18 DEF UnlockEffect
<1>19. CASE GiveBackEffect(n, w, q, net)
  <2>1. PICK m, left : /\ Taken(n, m, left) /\ m.type = "NodeLockResponse"
                       /\ ~(work[n].req.id = m.id /\ work[n].mode = "assemblingQuorum")
                       /\ net = left \cup {Mail("NodeUnlockRequest", m.id, n, m.src,
                                                NoVersion, FALSE)}
                       /\ w = work[n] /\ q = queue[n]
    BY <1>19 DEF GiveBackEffect
  <2>2. m.id # t
    <3> SUFFICES ASSUME m.id = t PROVE FALSE
      OBVIOUS
    <3>1. Home(m) = c /\ m.type \in {Asks(work[c]), Expects(work[c])}
      BY <1>4, <1>7, <2>1 DEF Conversing
    <3>2. c = n
      BY <1>7, <2>1, <3>1 DEF Home, RequestKinds
    <3>3. work[c].mode = "assemblingQuorum"
      BY <2>1, <3>1 DEF Asks, Expects
    <3>4. QED
      BY <2>1, <3>2, <3>3
  <2>3. Mail("NodeUnlockRequest", m.id, n, m.src, NoVersion, FALSE).id = m.id
    BY DEF Mail
  <2>4. \A u \in net : u \in network \/ u.id # t
    BY <1>7, <2>1, <2>2, <2>3
  <2>5. QED
    BY <1>2, <1>9, <2>1, <2>4
<1>20. CASE CountEffect(n, w, q, net)
  <2>1. PICK m : Answering(n, m, net) /\ w = Counted(work[n], m) /\ q = queue[n]
    BY <1>20 DEF CountEffect
  <2>2. net \subseteq network
    BY <1>7, <2>1 DEF Answering
  <2>3. CASE c = n
    BY <1>2, <1>4, <2>1, <2>3, ConversingCounted
  <2>4. CASE c # n
    BY <1>2, <1>9, <2>1, <2>2, <2>4
  <2>5. QED
    BY <2>3, <2>4
<1>21. CASE FinishReadEffect(n, w, q, net)
  BY <1>2, <1>5, <1>8, <1>9, <1>21 DEF FinishReadEffect
<1>22. CASE AskEffect(n, w, q, net)
  <2>1. PICK m, k, left :
          /\ LastAnswer(n, m, left, k) /\ k.mode = "assemblingQuorum"
          /\ w = Awaiting(k, "NodePutRequest", 0)
          /\ net = left \cup ToMembers("NodeTimestampRequest", n, k, NoVersion, TRUE)
          /\ q = queue[n]
    BY <1>22 DEF AskEffect
  <2>2. CASE c = n
    <3>1. /\ Asks(w) = "NodeTimestampRequest" /\ Expects(w) = "NodeGetResponse"
          /\ Expects(k) = "NodeLockResponse" /\ k.mode \in WritePhases
      BY <2>1 DEF Awaiting, Asks, Expects, WritePhases
    <3>4. Sends(Asks(w), n, k, NoVersion, left, net) /\ Conversing(work, queue, network, n)
      BY <1>4, <2>1, <2>2, <3>1 DEF Sends
    <3>2. Conversing(wk, queue, net, n)
      BY <1>2, <2>1, <3>1, <3>4, ConversingAsked
    <3>3. QED
      BY <1>2, <2>1, <2>2, <3>2
  <2>3. CASE c # n
    BY <1>8, <1>10, <2>1, <2>3
  <2>4. QED
    BY <2>2, <2>3
<1>23. CASE StageEffect(n, w, q, net)
  <2>1. PICK m, k, left, late :
          /\ LastAnswer(n, m, left, k) /\ k.mode = "coordinatingWrite"
          /\ k.step = "NodePutRequest" /\ w = Awaiting(k, "NodeUnlockRequest", late + 1)
          /\ net = left \cup ToMembers("NodePutRequest", n, k,
                                       [ts |-> late + 1, val |-> k.req.id], TRUE)
          /\ q = queue[n]
    BY <1>23 DEF StageEffect, AllDated
  <2>2. CASE c = n
    <3>1. /\ Asks(w) = "NodePutRequest" /\ Expects(w) = "NodePutResponse"
          /\ Expects(k) = "NodeGetResponse" /\ k.mode \in WritePhases
      BY <2>1 DEF Awaiting, Asks, Expects, WritePhases
    <3>4. /\ Sends(Asks(w), n, k, [ts |-> late + 1, val |-> k.req.id], left, net)
          /\ Conversing(work, queue, network, n)
      BY <1>4, <2>1, <2>2, <3>1 DEF Sends
    <3>2. Conversing(wk, queue, net, n)
      BY <1>2, <2>1, <3>1, <3>4, ConversingAsked
    <3>3. QED
      BY <1>2, <2>1, <2>2, <3>2
  <2>3. CASE c # n
    BY <1>8, <1>10, <2>1, <2>3
  <2>4. QED
    BY <2>2, <2>3
<1>24. CASE CommitEffect(n, w, q, net)
  <2>1. PICK m, k, left : /\ LastAnswer(n, m, left, k)
                          /\ net = left \cup Unlocks(n, k, TRUE) /\ w = Idle /\ q = queue[n]
    BY <1>24 DEF CommitEffect
  <2>2. QED
    BY <1>5, <1>8, <1>10, <2>1 DEF Unlocks
<1>25. CASE QuitEffect(n, w, q, net)
  <2>1. PICK left, k : /\ left = network \/ TakenAnswer(n, left)
                       /\ k.req = work[n].req /\ net = left \cup Unlocks(n, k, FALSE)
    BY <1>25 DEF QuitEffect
  <2>2. left \subseteq network
    BY <1>7, <2>1 DEF TakenAnswer
  <2>3. work[n].mode \in Coordinating /\ w = Idle /\ q = queue[n]
    BY <1>25 DEF QuitEffect
  <2>4. QED
    BY <1>5, <1>10, <2>1, <2>2, <2>3 DEF Unlocks
<1>26. CASE ExpireEffect(n, w, q, net)
  <2>1. PICK i \in 1..Len(queue[n]) :
          /\ q = Without(queue[n], i) /\ w = work[n]
          /\ \/ net = network
             \/ net = network \cup {Mail("NodeLockResponse", queue[n][i].msg.id, n,
                                         queue[n][i].msg.src, NoVersion, FALSE)}
    BY <1>26 DEF ExpireEffect
  <2>2. Moved(queue, qu, t) /\ wk = work
    BY <1>1, <1>2, <2>1, MovedByWithout
  <2>3. CASE net = network
    BY <1>4, <2>2, <2>3, ConversingKept
  <2>4. CASE net = network \cup {Mail("NodeLockResponse", queue[n][i].msg.id, n,
                                      queue[n][i].msg.src, NoVersion, FALSE)}
    <3> DEFINE u == Mail("NodeLockResponse", queue[n][i].msg.id, n,
                         queue[n][i].msg.src, NoVersion, FALSE)
    <3>1. Grants(n, queue[n][i].msg, u)
      BY DEF Mail, Grants
    <3>2. net = network \cup {u}
      BY <2>4
    <3> HIDE DEF u
    <3>3. Elsewhere(n, i, queue, qu)
      BY <1>1, <2>1, WithoutElsewhere
    <3>4. \A x \in net : x \in network \/ x = u
      BY <3>2
    <3>5. QED
      BY <1>4, <2>1, <2>2, <3>1, <3>3, <3>4, ConversingTurned
  <2>5. QED
    BY <2>1, <2>3, <2>4
<1>27. QED
  BY <1>11, <1>12, <1>13, <1>15, <1>16, <1>17, <1>18, <1>19, <1>20, <1>21, <1>22, <1>23,
     <1>24, <1>25, <1>26 DEF Effect

LEMMA TookHeadElsewhere ==
  ASSUME NEW n \in Node, NEW e, NEW qu, TookHead(n, e, qu)
  PROVE  Elsewhere(n, 1, qu, queue')
<1> SUFFICES ASSUME NEW p \in Node, NEW j \in 1..Len(queue'[p])
             PROVE  \E k \in 1..Len(qu[p]) : queue'[p][j] = qu[p][k] /\ (p = n => k # 1)
  BY DEF Elsewhere
<1>1. PICK k \in 1..Len(qu[p]) : queue'[p][j] = qu[p][k] /\ k = IF p = n THEN j + 1 ELSE j
  BY DEF TookHead
<1>2. QED
  BY <1>1

\* A coordinator has just asked its members the first thing.
LEMMA ConversingBegun ==
  ASSUME NEW n \in Node, NEW x, NEW e, Coordinates(n, e, x), NEW wk1, wk1[n] = x,
         NEW qu1, \A p \in Node : \A i \in 1..Len(qu1[p]) : qu1[p][i].msg.id # x.req.id,
         NEW net, \A u \in net : u.id # x.req.id,
         NEW nt1, Sends(Asks(x), n, x, NoVersion, net, nt1)
  PROVE  Conversing(wk1, qu1, nt1, n)
<1> DEFINE t == x.req.id
<1>1. /\ x.mode \in {"assemblingQuorum", "coordinatingFastRead"} /\ n \notin Members(x)
      /\ Cardinality(Members(x)) =
           (IF x.mode = "assemblingQuorum" THEN WriteQuorumSize ELSE ReadQuorumSize) - 1
      /\ x.waiting = Cardinality(Members(x))
      /\ \A p \in Members(x) : x.members[p].type = Asks(x)
  BY DEF Coordinates
<1>2. Asks(x) \in RequestKinds /\ Expects(x) \notin RequestKinds
  BY DEF Asks, Expects, RequestKinds
<1>3. Silent(x) = Members(x)
  BY <1>1, <1>2 DEF Silent
<1>4. ASSUME NEW u \in nt1, u.id = t
      PROVE  /\ u.type = Asks(x) /\ Home(u) = n /\ Peer(u) \in Silent(x)
             /\ u = Mail(Asks(x), t, n, Peer(u), NoVersion, TRUE)
  <2>1. u \in ToMembers(Asks(x), n, x, NoVersion, TRUE)
    BY <1>4 DEF Sends
  <2>2. PICK p \in Members(x) : u = Mail(Asks(x), t, n, p, NoVersion, TRUE)
    BY <2>1 DEF ToMembers
  <2>3. u.type = Asks(x) /\ u.src = n /\ u.dest = p
    BY <2>2 DEF Mail
  <2>4. Home(u) = n /\ Peer(u) = p
    BY <1>2, <2>3 DEF Home, Peer
  <2>5. QED
    BY <1>3, <2>2, <2>3, <2>4
<1>5. ASSUME NEW u \in nt1, NEW y \in nt1, u.id = t, y.id = t, Peer(u) = Peer(y)
      PROVE  u = y
  <2>1. /\ u = Mail(Asks(x), t, n, Peer(u), NoVersion, TRUE)
        /\ y = Mail(Asks(x), t, n, Peer(y), NoVersion, TRUE)
    BY <1>4, <1>5
  <2>2. QED
    BY <1>5, <2>1
<1>6. x.mode \in WritePhases <=> x.mode = "assemblingQuorum"
  BY <1>1 DEF WritePhases
<1> HIDE DEF t
<1>7. /\ \A u \in nt1 : u.id = t => /\ u.type \in {Asks(x), Expects(x)}
                                    /\ Home(u) = n /\ Peer(u) \in Silent(x)
      /\ \A u, y \in nt1 : u.id = t /\ y.id = t /\ Peer(u) = Peer(y) => u = y
      /\ \A p \in Node : \A i \in 1..Len(qu1[p]) : qu1[p][i].msg.id # t
  BY <1>4, <1>5 DEF t
<1>8. QED
  BY <1>1, <1>3, <1>6, <1>7 DEF Conversing, t

LEMMA EndsConversations ==
  ASSUME HandledOK, NEW n \in Node, NEW w \in Work, NEW q \in Seq(Queued),
         NEW net \in SUBSET NodeMessage, Ends(n, w, q, net),
         NEW wk, NEW qu, Leaves(n, w, q, wk, qu),
         Conversations(wk, qu, net), QueuedOnce(wk, qu, net)
  PROVE  Conversations(work', queue', network')
<1>1. CASE work' = wk /\ queue' = qu /\ network' = net
  BY <1>1
<1>2. CASE ~(work' = wk /\ queue' = qu /\ network' = net)
  <2> SUFFICES ASSUME NEW c \in Node, work'[c].mode \in Coordinating
               PROVE  Conversing(work', queue', network', c)
    BY DEF Conversations
  <2>1. /\ wk[n] = Idle
        /\ \E e \in Queued : TookHead(n, e, qu) /\ Turns(n, e, wk, net)
    BY <1>2, EndsForm
  <2>2. PICK e \in Queued : TookHead(n, e, qu) /\ Turns(n, e, wk, net)
    BY <2>1
  <2>3. 1 \in 1..Len(qu[n]) /\ e = qu[n][1] /\ Elsewhere(n, 1, qu, queue')
    BY <2>2, TookHeadElsewhere DEF TookHead
  <2>4. /\ \A x : \A p \in Node : p # n => [wk EXCEPT ![n] = x][p] = wk[p]
        /\ \A x : [wk EXCEPT ![n] = x][n] = x
    BY DEF HandledOK, Leaves
  <2>5. \A t : Moved(qu, queue', t)
    BY <2>2, TookHeadMoved
  <2>6. CASE work' = wk /\ network' = net
    <3>1. Conversing(wk, qu, net, c)
      BY <2>6 DEF Conversations
    <3>2. QED
      BY <2>5, <2>6, <3>1, ConversingKept
  <2>7. CASE \E x \in Work : /\ Coordinates(n, e, x) /\ work' = [wk EXCEPT ![n] = x]
                             /\ network' = net \cup ToMembers(Asks(x), n, x, NoVersion, TRUE)
    <3>1. PICK x \in Work : /\ Coordinates(n, e, x) /\ work' = [wk EXCEPT ![n] = x]
                            /\ network' = net \cup ToMembers(Asks(x), n, x, NoVersion, TRUE)
      BY <2>7
    <3> DEFINE t == e.msg.id
    <3>2. FromClient(e.msg) /\ x.req = e.msg
      BY <3>1 DEF Coordinates
    <3>3. /\ NotStarted(wk, net, t)
          /\ \A p \in Node : \A j \in 1..Len(qu[p]) : qu[p][j].msg.id = t => p = n /\ j = 1
      BY <2>3, <3>2 DEF QueuedOnce
    <3>4. CASE c = n
      <4>1. \A p \in Node : \A i \in 1..Len(queue'[p]) : queue'[p][i].msg.id # t
        BY <2>3, <3>3, SMTT(30) DEF Elsewhere
      <4>2. \A u \in net : u.id # t
        BY <3>3 DEF NotStarted
      <4>3. Sends(Asks(x), n, x, NoVersion, net, network')
        BY <3>1 DEF Sends
      <4>4. work'[n] = x
        BY <2>4, <3>1
      <4>5. QED
        BY <3>1, <3>2, <3>4, <4>1, <4>2, <4>3, <4>4, ConversingBegun
    <3>5. CASE c # n
      <4>1. work'[c] = wk[c] /\ Conversing(wk, qu, net, c) /\ wk[c].req.id # t
        BY <2>4, <3>1, <3>3, <3>5 DEF Conversations, NotStarted
      <4>2. \A u \in ToMembers(Asks(x), n, x, NoVersion, TRUE) : u.id = t
        BY <3>2 DEF ToMembers, Mail
      <4>3. \A u \in network' : u \in net \/ u.id # wk[c].req.id
        BY <3>1, <4>1, <4>2
      <4>4. QED
        BY <2>5, <4>1, <4>3, ConversingKept
    <3>6. QED
      BY <3>4, <3>5
  <2>8. CASE /\ work' = [wk EXCEPT ![n] = Serving(e)] /\ network' = net \cup {GrantOf(n, e)}
    <3>1. Serving(e).mode = "processingWrite"
      BY DEF Serving, Idle
    <3>2. c # n /\ work'[c] = wk[c]
      BY <2>4, <2>8, <3>1 DEF Coordinating, WritePhases
    <3>3. Conversing(wk, qu, net, c)
      BY <3>2 DEF Conversations
    <3> DEFINE u == GrantOf(n, e)
    <3>4. Grants(n, qu[n][1].msg, u)
      BY <2>3 DEF GrantOf, Grants, Mail
    <3> HIDE DEF u
    <3>5. \A x \in network' : x \in net \/ x = u
      BY <2>8 DEF u
    <3>6. Moved(qu, queue', wk[c].req.id)
      BY <2>5
    <3>7. PICK k : k \in 1..Len(qu[n]) /\ Elsewhere(n, k, qu, queue')
                   /\ Grants(n, qu[n][k].msg, u)
      BY <2>3, <3>4
    <3>8. QED
      BY <3>2, <3>3, <3>5, <3>6, <3>7, ConversingTurned
  <2>9. QED
    BY <2>2, <2>6, <2>7, <2>8 DEF Turns
<1>3. QED
  BY <1>1, <1>2

LEMMA ConversationsStep ==
  ASSUME Orderly, resends' = 0, NEW n \in Node, StepOf(n), Conversations(work, queue, network)
  PROVE  Conversations(work', queue', network')
<1>1. PICK w, q, net : Effect(n, w, q, net) /\ Ends(n, w, q, net)
  BY DEF StepOf
<1> DEFINE wk == [work EXCEPT ![n] = w]
           qu == [queue EXCEPT ![n] = q]
<1>2. w \in Work /\ q \in Seq(Queued) /\ net \in SUBSET NodeMessage /\ QueuedOnce(wk, qu, net)
  BY <1>1, EffectWork, EffectQueuedOnce
<1>3. HandledOK /\ Leaves(n, w, q, wk, qu)
  BY DEF Leaves, Orderly
<1> HIDE DEF wk, qu
<1>4. Conversations(wk, qu, net)
  BY <1>1, <1>3, EffectConversations
<1>5. QED
  BY <1>1, <1>2, <1>3, <1>4, EndsConversations

LEMMA StaysUnrepeated ==
  ASSUME TypeOK, Next, Unrepeated'
  PROVE  Unrepeated /\ resends' = 0
<1>1. resends \in Nat /\ resends' = 0 /\ Undisturbed'
  BY DEF TypeOK, Unrepeated
<1>2. resends' = resends \/ resends' = resends + 1
  BY DEF Next, ClientRequest, LocalRead, Deliver, Receive, InternalTimer, Loop, Elect,
         RequestTimeout, SignalLost, Fail, Recover, QueueTimeout, others
<1>3. QED
  BY <1>1, <1>2, StaysDisturbed DEF Unrepeated

LEMMA ConversationsInductive ==
  ASSUME IInv, Unrepeated => Conversations(work, queue, network), [Next]_vars, Unrepeated'
  PROVE  Conversations(work', queue', network')
<1>1. CASE Next
  <2>1. Unrepeated /\ resends' = 0 /\ Undisturbed'
    BY <1>1, StaysUnrepeated DEF IInv, Unrepeated
  <2>2. QED
    BY <1>1, <2>1, StepForm, ConversationsStep
<1>2. CASE UNCHANGED vars
  BY <1>2 DEF vars, Unrepeated, Undisturbed
<1>3. QED
  BY <1>1, <1>2

\* As long as no message was delivered twice, a coordinator and each member of its
\* quorum have one message between them, of the present phase: what the counting
\* of answers in handleLockRes, handleGetRes and handlePutRes relies on.
THEOREM OneMessageAtATime == Spec => [](Unrepeated => Conversations(work, queue, network))
<1> DEFINE Inv == IInv /\ (Unrepeated => Conversations(work, queue, network))
<1>1. Init => (Unrepeated => Conversations(work, queue, network))
  BY DEF Init, Conversations, Idle, Coordinating, WritePhases
<1>2. Inv /\ [Next]_vars /\ IInv' => Inv'
  BY ConversationsInductive
<1>3. QED
  BY <1>1, <1>2, QuorumsStayHeld, PTL DEF Spec

-----------------------------------------------------------------------------
(* However nodes crash and recover *)

\* Node n crashes or recovers, or drops the signal of a timer while it is down.
FaultOf(n) ==
  /\ UNCHANGED <<store, staged, replies, network, issued, floor>>
  /\ \/ UNCHANGED <<work, queue>>
     \/ /\ work[n].mode \notin WritePhases
        /\ work' = [work EXCEPT ![n] = Idle] /\ UNCHANGED queue
     \/ work' = [work EXCEPT ![n].timed = FALSE] /\ UNCHANGED queue
     \/ /\ \E i \in DOMAIN queue[n] : queue' = [queue EXCEPT ![n][i].timed = FALSE]
        /\ UNCHANGED work

\* The counters of duplicates and of overwritten requests never decrease.
LEMMA CountersGrow ==
  ASSUME TypeOK, Next
  PROVE  /\ overwrites' = 0 => overwrites = 0
         /\ resends' = 0 => resends = 0
<1>1. overwrites \in Nat /\ resends \in Nat
  BY DEF TypeOK
<1>2. resends' = resends \/ resends' = resends + 1
  BY DEF Next, ClientRequest, LocalRead, Deliver, Receive, InternalTimer, Loop, Elect,
         RequestTimeout, SignalLost, Fail, Recover, QueueTimeout, others
<1>3. overwrites' = overwrites \/ overwrites' = overwrites + 1
  BY OverwritesGrow
<1>4. QED
  BY <1>1, <1>2, <1>3

LEMMA OrderlyHolds ==
  ASSUME TypeOK, StartedOnce(work, queue, network, issued)
  PROVE  Orderly
<1>1. HandledOK /\ RestOK
  BY TypeParts
<1>2. QED
  BY <1>1 DEF Orderly, Typed, HandledOK, RestOK

\* In a step that overwrites no request one node handles something, or fails.
LEMMA AnyStepForm ==
  ASSUME Orderly, Next, overwrites' = 0
  PROVE  \E n \in Node : StepOf(n) \/ FaultOf(n)
<1>1. ASSUME NEW n \in Node, SignalLost(n) \/ Recover(n) \/ Fail(n) PROVE FaultOf(n)
  <2>1. CASE SignalLost(n)
    BY <2>1 DEF SignalLost, FaultOf, others
  <2>2. CASE Recover(n)
    BY <2>2 DEF Recover, FaultOf
  <2>3. CASE Fail(n)
    BY <2>3 DEF Fail, FaultOf
  <2>4. QED
    BY <1>1, <2>1, <2>2, <2>3
<1>2. ASSUME NEW m \in network PROVE m.dest \in Node
  BY <1>2 DEF Orderly, HandledOK, NodeMessage
<1>3. QED
  BY <1>1, <1>2, ClientForm, DeliverForm, TimerForm, LoopForm, QueueTimeoutForm DEF Next

\* The records w and x differ in their timers only.
Alike(w, x) ==
  /\ x.mode = w.mode /\ x.req = w.req /\ x.step = w.step /\ x.ts = w.ts
  /\ x.members = w.members /\ x.waiting = w.waiting

\* A fault costs a node its request, unless it coordinates a write, or a timer.
LEMMA FaultForm ==
  ASSUME HandledOK, NEW n \in Node, FaultOf(n)
  PROVE  /\ \A p \in Node : \/ work'[p] = Idle /\ work[p].mode \notin WritePhases
                            \/ Alike(work[p], work'[p])
         /\ \A p \in Node : /\ Len(queue'[p]) = Len(queue[p])
                            /\ \A i \in 1..Len(queue[p]) : queue'[p][i].msg = queue[p][i].msg
<1>1. ASSUME NEW p \in Node
      PROVE  \/ work'[p] = Idle /\ work[p].mode \notin WritePhases
             \/ Alike(work[p], work'[p])
  <2>1. work[p] \in Work
    BY DEF HandledOK
  <2>2. CASE work' = work
    BY <2>2 DEF Alike
  <2>3. CASE work[n].mode \notin WritePhases /\ work' = [work EXCEPT ![n] = Idle]
    BY <2>3 DEF HandledOK, Alike
  <2>4. CASE work' = [work EXCEPT ![n].timed = FALSE]
    BY <2>1, <2>4 DEF HandledOK, Alike, Work
  <2>5. QED
    BY <2>2, <2>3, <2>4 DEF FaultOf
<1>2. ASSUME NEW p \in Node
      PROVE  /\ Len(queue'[p]) = Len(queue[p])
             /\ \A i \in 1..Len(queue[p]) : queue'[p][i].msg = queue[p][i].msg
  <2>1. CASE queue' = queue
    BY <2>1
  <2>2. ASSUME NEW i \in DOMAIN queue[n], queue' = [queue EXCEPT ![n][i].timed = FALSE]
        PROVE  /\ Len(queue'[p]) = Len(queue[p])
               /\ \A j \in 1..Len(queue[p]) : queue'[p][j].msg = queue[p][j].msg
    <3>1. queue[n] \in Seq(Queued) /\ queue[n][i] \in Queued
      BY DEF HandledOK
    <3> DEFINE e == [queue[n][i] EXCEPT !.timed = FALSE]
    <3>2. e.msg = queue[n][i].msg
      BY <3>1 DEF Queued
    <3>3. queue' = [queue EXCEPT ![n] = [queue[n] EXCEPT ![i] = e]]
      BY <2>2
    <3> HIDE DEF e
    <3>4. queue'[p] = IF p = n THEN [queue[n] EXCEPT ![i] = e] ELSE queue[p]
      BY <3>3 DEF HandledOK
    <3>5. Len([queue[n] EXCEPT ![i] = e]) = Len(queue[n])
      BY <3>1
    <3>6. \A j \in 1..Len(queue[n]) :
            [queue[n] EXCEPT ![i] = e][j] = IF j = i THEN e ELSE queue[n][j]
      BY <3>1
    <3>7. QED
      BY <3>2, <3>4, <3>5, <3>6
  <2>3. QED
    BY <2>1, <2>2 DEF FaultOf
<1>3. QED
  BY <1>1, <1>2

\* A handler starts nothing: what it sends and works on is under way.
LEMMA EffectStarted ==
  ASSUME Orderly, NEW n \in Node, NEW w, NEW q, NEW net, Effect(n, w, q, net),
         NEW wk, NEW qu, Leaves(n, w, q, wk, qu)
  PROVE  StartedOnce(wk, qu, net, issued')
<1>6. HandledOK /\ StartedOnce(work, queue, network, issued)
  BY DEF Orderly
<1>7. issued \subseteq issued' /\ (w = Idle \/ w.req = work[n].req)
  BY EffectReplies, EffectWork
<1>8. /\ wk[n] = w /\ \A p \in Node : p # n => wk[p] = work[p]
      /\ qu[n] = q /\ \A p \in Node : p # n => qu[p] = queue[p]
  BY <1>6, LeavesOthers
<1>1. /\ HandledOK /\ StartedOnce(work, queue, network, issued) /\ issued \subseteq issued'
      /\ w = Idle \/ w.req = work[n].req
      /\ wk[n] = w /\ \A p \in Node : p # n => wk[p] = work[p]
      /\ qu[n] = q /\ \A p \in Node : p # n => qu[p] = queue[p]
  BY <1>6, <1>7, <1>8
<1>2. QueuedOnce(wk, qu, net)
  <2>1. QueuedOnce([work EXCEPT ![n] = w], [queue EXCEPT ![n] = q], net)
    BY EffectQueuedOnce
  <2>2. QED
    BY <2>1 DEF Leaves
<1>3. OneCoordinator(wk)
  BY <1>1, EffectCoordinates DEF StartedOnce, OneCoordinator
<1>4. ASSUME NEW t \in Txn \ issued'
      PROVE  NotStarted(wk, net, t) /\ NeverQueued(qu, t)
  <2>1. t \notin issued /\ NotStarted(work, network, t) /\ NeverQueued(queue, t)
    BY <1>1 DEF StartedOnce, UnissuedAbsent
  <2>2. \A u \in net : u.id # t
    BY <2>1, EffectNetwork DEF NotStarted, Started
  <2>3. \A p \in Node : wk[p].req.id # t
    BY <1>1, <2>1, TxnAssumption DEF NotStarted, Idle, NoRequest
  <2>4. ASSUME NEW p \in Node, NEW i \in 1..Len(qu[p]) PROVE qu[p][i].msg.id # t
    BY <1>1, <2>1, EffectEntries DEF NeverQueued, NotStarted
  <2>5. QED
    BY <2>2, <2>3, <2>4 DEF NotStarted, NeverQueued
<1>5. QED
  BY <1>2, <1>3, <1>4 DEF StartedOnce, UnissuedAbsent

\* The end of the loop starts the request at the head of a queue, which then
\* waits nowhere.
LEMMA EndsStarted ==
  ASSUME HandledOK, NEW n \in Node, NEW w \in Work, NEW q \in Seq(Queued),
         NEW net \in SUBSET NodeMessage, Ends(n, w, q, net),
         NEW wk, NEW qu, Leaves(n, w, q, wk, qu), NEW is, StartedOnce(wk, qu, net, is)
  PROVE  StartedOnce(work', queue', network', is)
<1>1. CASE work' = wk /\ queue' = qu /\ network' = net
  BY <1>1
<1>2. CASE ~(work' = wk /\ queue' = qu /\ network' = net)
  <2>1. PICK e \in Queued : TookHead(n, e, qu) /\ Turns(n, e, wk, net)
    BY <1>2, EndsForm
  <2> DEFINE t == e.msg.id
  <2>2. /\ 1 \in 1..Len(qu[n]) /\ e = qu[n][1]
        /\ \A p \in Node : \A i \in 1..Len(queue'[p]) :
             \E k \in 1..Len(qu[p]) : /\ queue'[p][i] = qu[p][k]
                                      /\ k = IF p = n THEN i + 1 ELSE i
    BY <2>1 DEF TookHead
  <2>3. /\ \A p \in Node : \A i \in 1..Len(queue'[p]) :
             \E k \in 1..Len(qu[p]) : queue'[p][i] = qu[p][k] /\ (p = n => k # 1)
    BY <2>2
  <2>4. /\ \A u \in network' : u \in net \/ u.id = t
        /\ \A p \in Node : \/ work'[p] = wk[p]
                           \/ /\ p = n /\ work'[p].req.id = t
                              /\ work'[p].mode \in Coordinating => FromClient(e.msg)
    <3>1. CASE work' = wk /\ network' = net
      BY <3>1
    <3>2. ASSUME NEW x \in Work, Coordinates(n, e, x), work' = [wk EXCEPT ![n] = x],
                 network' = net \cup ToMembers(Asks(x), n, x, NoVersion, TRUE)
          PROVE  <2>4!1 /\ <2>4!2
      <4>1. x.req = e.msg /\ FromClient(e.msg)
        BY <3>2 DEF Coordinates
      <4>2. \A u \in ToMembers(Asks(x), n, x, NoVersion, TRUE) : u.id = t
        BY <4>1 DEF ToMembers, Mail
      <4>3. \A p \in Node : work'[p] = IF p = n THEN x ELSE wk[p]
        BY <3>2 DEF HandledOK, Leaves
      <4>4. QED
        BY <3>2, <4>1, <4>2, <4>3
    <3>3. CASE work' = [wk EXCEPT ![n] = Serving(e)] /\ network' = net \cup {GrantOf(n, e)}
      <4>1. Serving(e).req = e.msg /\ Serving(e).mode \notin Coordinating
        BY DEF Serving, Idle, Coordinating, WritePhases
      <4>2. GrantOf(n, e).id = t
        BY DEF GrantOf, Mail
      <4>3. \A p \in Node : work'[p] = IF p = n THEN Serving(e) ELSE wk[p]
        BY <3>3 DEF HandledOK, Leaves
      <4>4. QED
        BY <3>3, <4>1, <4>2, <4>3
    <3>4. QED
      BY <2>1, <3>1, <3>2, <3>3 DEF Turns
  <2>5. UnissuedAbsent(work', queue', network', is)
    <3>1. ASSUME NEW y \in Txn \ is
          PROVE  NotStarted(work', network', y) /\ NeverQueued(queue', y)
      <4>1. NotStarted(wk, net, y) /\ NeverQueued(qu, y)
        BY DEF StartedOnce, UnissuedAbsent
      <4>2. t # y
        BY <2>2, <4>1 DEF NeverQueued
      <4>3. QED
        BY <2>3, <2>4, <4>1, <4>2 DEF NotStarted, NeverQueued
    <3>2. QED
      BY <3>1 DEF UnissuedAbsent
  <2>6. QueuedOnce(work', queue', network')
    <3>1. ASSUME NEW p \in Node, NEW i \in 1..Len(queue'[p]), FromClient(queue'[p][i].msg)
          PROVE  NotStarted(work', network', queue'[p][i].msg.id)
      <4>1. PICK k \in 1..Len(qu[p]) : queue'[p][i] = qu[p][k] /\ (p = n => k # 1)
        BY <2>3
      <4>2. NotStarted(wk, net, qu[p][k].msg.id) /\ qu[p][k].msg.id # t
        BY <2>2, <3>1, <4>1 DEF StartedOnce, QueuedOnce
      <4>3. QED
        BY <2>4, <4>1, <4>2 DEF NotStarted
    <3>2. ASSUME NEW p \in Node, NEW i \in 1..Len(queue'[p]), FromClient(queue'[p][i].msg),
                 NEW r \in Node, NEW j \in 1..Len(queue'[r]),
                 queue'[r][j].msg.id = queue'[p][i].msg.id
          PROVE  r = p /\ j = i
      <4>1. PICK k \in 1..Len(qu[p]) : queue'[p][i] = qu[p][k] /\ k = IF p = n THEN i + 1 ELSE i
        BY <2>2
      <4>2. PICK l \in 1..Len(qu[r]) : queue'[r][j] = qu[r][l] /\ l = IF r = n THEN j + 1 ELSE j
        BY <2>2
      <4>6. FromClient(qu[p][k].msg) /\ qu[r][l].msg.id = qu[p][k].msg.id
        BY <3>2, <4>1, <4>2
      <4>7. QueuedOnce(wk, qu, net)
        BY DEF StartedOnce
      <4>3. r = p /\ l = k
        BY <4>6, <4>7 DEF QueuedOnce
      <4>4. i \in Int /\ j \in Int
        BY <3>2
      <4>5. QED
        BY <4>1, <4>2, <4>3, <4>4
    <3>3. QED
      BY <3>1, <3>2 DEF QueuedOnce
  <2>7. OneCoordinator(work')
    <3>1. FromClient(e.msg) => \A p \in Node : wk[p].req.id # t
      BY <2>2 DEF StartedOnce, QueuedOnce, NotStarted
    <3>2. QED
      BY <2>4, <3>1 DEF StartedOnce, OneCoordinator
  <2>8. QED
    BY <2>5, <2>6, <2>7 DEF StartedOnce
<1>3. QED
  BY <1>1, <1>2

LEMMA FaultStarted ==
  ASSUME Orderly, NEW n \in Node, FaultOf(n)
  PROVE  StartedOnce(work', queue', network', issued')
<1>1. /\ HandledOK /\ StartedOnce(work, queue, network, issued)
      /\ network' = network /\ issued' = issued
  BY DEF Orderly, FaultOf
<1>2. /\ \A p \in Node : \/ work'[p].req.id \notin Txn /\ work'[p].mode \notin Coordinating
                         \/ work'[p].req = work[p].req /\ work'[p].mode = work[p].mode
      /\ \A p \in Node : /\ Len(queue'[p]) = Len(queue[p])
                         /\ \A i \in 1..Len(queue[p]) : queue'[p][i].msg = queue[p][i].msg
  BY <1>1, FaultForm, TxnAssumption DEF Alike, Idle, NoRequest, Coordinating, WritePhases
<1>3. \A t \in Txn : NotStarted(work, network, t) => NotStarted(work', network', t)
  BY <1>1, <1>2 DEF NotStarted
<1>4. UnissuedAbsent(work', queue', network', issued')
  BY <1>1, <1>2, <1>3 DEF StartedOnce, UnissuedAbsent, NeverQueued
<1>5. \A p \in Node : \A i \in 1..Len(queue[p]) : queue[p][i].msg.id \in Txn
  <2>1. ASSUME NEW p \in Node, NEW i \in 1..Len(queue[p]) PROVE queue[p][i].msg.id \in Txn
    <3>1. queue[p] \in Seq(Queued)
      BY <1>1 DEF HandledOK
    <3>2. queue[p][i] \in Queued
      BY <3>1
    <3>3. QED
      BY <3>2 DEF Queued, ClientMessage, NodeMessage
  <2>2. QED
    BY <2>1
<1>6. QueuedOnce(work', queue', network')
  <2> SUFFICES ASSUME NEW p \in Node, NEW i \in 1..Len(queue'[p]), FromClient(queue'[p][i].msg)
               PROVE  /\ NotStarted(work', network', queue'[p][i].msg.id)
                      /\ \A r \in Node : \A j \in 1..Len(queue'[r]) :
                           queue'[r][j].msg.id = queue'[p][i].msg.id => r = p /\ j = i
    BY DEF QueuedOnce
  <2>1. i \in 1..Len(queue[p]) /\ queue'[p][i].msg = queue[p][i].msg
    BY <1>2
  <2>2. /\ NotStarted(work, network, queue[p][i].msg.id)
        /\ \A r \in Node : \A j \in 1..Len(queue[r]) :
             queue[r][j].msg.id = queue[p][i].msg.id => r = p /\ j = i
    BY <1>1, <2>1 DEF StartedOnce, QueuedOnce
  <2>3. NotStarted(work', network', queue[p][i].msg.id)
    BY <1>3, <1>5, <2>1, <2>2
  <2>4. ASSUME NEW r \in Node, NEW j \in 1..Len(queue'[r]),
               queue'[r][j].msg.id = queue'[p][i].msg.id
        PROVE  r = p /\ j = i
    BY <1>2, <2>1, <2>2, <2>4
  <2>5. QED
    BY <2>1, <2>3, <2>4
<1>7. OneCoordinator(work')
  BY <1>1, <1>2 DEF StartedOnce, OneCoordinator
<1>8. QED
  BY <1>4, <1>6, <1>7 DEF StartedOnce

LEMMA FaultAnswered ==
  ASSUME Orderly, NEW n \in Node, FaultOf(n), AnsweredOnce
  PROVE  AnsweredOnce'
<1>1. /\ HandledOK /\ replies' = replies /\ issued' = issued
  BY DEF Orderly, FaultOf
<1>2. /\ \A p \in Node : work'[p].mode \in Coordinating =>
           work'[p].req = work[p].req /\ work'[p].mode = work[p].mode
      /\ \A p \in Node : /\ Len(queue'[p]) = Len(queue[p])
                         /\ \A i \in 1..Len(queue[p]) : queue'[p][i].msg = queue[p][i].msg
  BY <1>1, FaultForm DEF Alike, Idle, Coordinating, WritePhases
<1>3. Answered(work', queue', replies', issued')
  BY <1>1, <1>2 DEF AnsweredOnce, Answered
<1>4. AsRequested(work', queue')
  BY <1>2 DEF AnsweredOnce, AsRequested
<1>5. QED
  BY <1>3, <1>4 DEF AnsweredOnce

LEMMA StartedStep ==
  ASSUME Orderly, NEW n \in Node, StepOf(n)
  PROVE  StartedOnce(work', queue', network', issued')
<1>1. PICK w, q, net : Effect(n, w, q, net) /\ Ends(n, w, q, net)
  BY DEF StepOf
<1> DEFINE wk == [work EXCEPT ![n] = w]
           qu == [queue EXCEPT ![n] = q]
<1>2. w \in Work /\ q \in Seq(Queued) /\ net \in SUBSET NodeMessage
  BY <1>1, EffectWork, EffectQueuedOnce
<1>3. HandledOK /\ Leaves(n, w, q, wk, qu)
  BY DEF Leaves, Orderly
<1> HIDE DEF wk, qu
<1>4. StartedOnce(wk, qu, net, issued')
  BY <1>1, <1>3, EffectStarted
<1>5. QED
  BY <1>1, <1>2, <1>3, <1>4, EndsStarted

\* The inductive invariant is RequestInv of DbNodeOrder.
LEMMA RequestInductive ==
  ASSUME RequestInv, [Next]_vars, TypeOK'
  PROVE  RequestInv'
<1> SUFFICES ASSUME overwrites' = 0
             PROVE  StartedOnce(work', queue', network', issued') /\ AnsweredOnce'
  BY DEF RequestInv, AnsweredOnce
<1>1. CASE Next
  <2>1. Orderly /\ AnsweredOnce
    BY <1>1, CountersGrow, OrderlyHolds DEF RequestInv, AnsweredOnce
  <2>2. PICK n \in Node : StepOf(n) \/ FaultOf(n)
    BY <1>1, <2>1, AnyStepForm
  <2>3. QED
    BY <2>1, <2>2, StartedStep, AnsweredStep, FaultStarted, FaultAnswered
<1>2. CASE UNCHANGED vars
  BY <1>2 DEF vars, RequestInv, StartedOnce, UnissuedAbsent, NotStarted, NeverQueued,
     QueuedOnce, OneCoordinator, AnsweredOnce, Answered, AsRequested
<1>3. QED
  BY <1>1, <1>2

LEMMA RequestInitially ==
  ASSUME Init
  PROVE  StartedOnce(work, queue, network, issued) /\ AnsweredOnce
<1>1. /\ \A n \in Node : work[n] = Idle /\ Len(queue[n]) = 0
      /\ network = {} /\ issued = {} /\ replies = {}
      /\ Idle.mode \notin Coordinating /\ \A t \in Txn : Idle.req.id # t
  BY TxnAssumption DEF Init, Idle, NoRequest, Coordinating, WritePhases
<1>2. \A n \in Node : 1..Len(queue[n]) = {}
  BY <1>1
<1>3. QED
  BY <1>1, <1>2 DEF StartedOnce, UnissuedAbsent, NotStarted, NeverQueued, QueuedOnce,
     OneCoordinator, AnsweredOnce, Answered, AsRequested

LEMMA RequestsInvariant == Spec => []RequestInv
<1>1. Init /\ TypeOK => RequestInv
  BY RequestInitially DEF RequestInv, AnsweredOnce
<1>2. RequestInv /\ [Next]_vars /\ TypeOK' => RequestInv'
  BY RequestInductive
<1>3. QED
  BY <1>1, <1>2, TypeCorrect, PTL DEF Spec

\* Each request is answered at most once, for any nodes, quorums and requests,
\* however nodes crash and however often messages are delivered: a write refused by
\* a timer is never also reported as done (abortProcessing, timedOutLockRequests).
THEOREM AnswersOnce == Spec => []OneAnswer
<1>1. RequestInv => OneAnswer
  BY DEF RequestInv, AnsweredOnce, Answered, OneAnswer
<1>2. QED
  BY <1>1, RequestsInvariant, PTL

\* What diss.tex:336 says of a transaction, "may or may not be completed, but will not
\* be executed more than once", holds of every write in every behaviour in which no
\* request is overwritten in a queue (lockRequests.enqueue), whatever crashes.
THEOREM ExecutedOnceUnlessOverwritten == Spec => [](overwrites = 0 => ExecutedAtMostOnce)
<1>1. RequestInv => (overwrites = 0 => ExecutedAtMostOnce)
  BY DEF RequestInv, AnsweredOnce, Answered, ExecutedAtMostOnce, Writes, Successes
<1>2. QED
  BY <1>1, RequestsInvariant, PTL

=============================================================================
