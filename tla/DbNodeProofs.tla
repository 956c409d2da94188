---------------------------- MODULE DbNodeProofs ----------------------------
(***************************************************************************)
(* Proof that every action of DbNode keeps every variable in its type, for *)
(* every set of nodes and transactions and every quorum size: one lemma    *)
(* for each thing a handler is built from, then one for each action.  And  *)
(* proof that no lock is forgotten, whatever crashes and is overwritten.   *)
(***************************************************************************)
EXTENDS DbNodeInvariant, FiniteSetTheorems, SequenceTheorems, TLAPS

-----------------------------------------------------------------------------
(* Type correctness *)

ReplyMessage == [type : {"ClientReadResponse", "ClientWriteResponse"}, id : Txn,
                 ts : Nat, val : Txn \cup {0}, ok : BOOLEAN]

LEMMA QuorumSizes == ReadQuorumSize \in Nat /\ WriteQuorumSize \in Nat /\ WriteQuorumSize > 1
BY QuorumAssumption

LEMMA IdleType == Idle \in Work
BY DEF Idle, Work, NoRequest, NoMembers, NoAnswer, Answer, Modes, Steps, Coordinating, WritePhases

LEMMA ToMembersType ==
  ASSUME NEW n \in Node, NEW w, w.req.id \in Txn, NEW type \in NodeKinds,
         NEW v \in Version, NEW ok \in BOOLEAN
  PROVE  ToMembers(type, n, w, v, ok) \subseteq NodeMessage
BY DEF ToMembers, Members, Mail, NodeMessage, Version

LEMMA AssembledType ==
  ASSUME NEW n \in Node, NEW e \in Queued, e.msg \in ClientMessage,
         NEW mode \in Coordinating, NEW type \in NodeKinds, NEW step \in Steps,
         NEW k \in Nat, k > 1, NEW peers \in Peers(n, k)
  PROVE  Assembled(mode, e, peers, type, step) \in Work
<1> DEFINE members == [m \in Node |-> IF m \in peers THEN [NoAnswer EXCEPT !.type = type]
                                                   ELSE NoAnswer]
<1>1. members \in [Node -> Answer]
  BY DEF NoAnswer, Answer
<1>2. Cardinality(peers) \in Nat /\ Cardinality(peers) > 0
  BY DEF Peers
<1>3. e.timed \in BOOLEAN
  BY DEF Queued
<1>4. mode \in Modes /\ mode # "idle" /\ mode # "processingWrite"
  BY DEF Coordinating, WritePhases, Modes
<1> HIDE DEF members
<1>5. QED
  BY <1>1, <1>2, <1>3, <1>4 DEF Assembled, Work, members

\* The end of the main loop keeps the types of what it touches.
LEMMA EndLoopType ==
  ASSUME NEW n \in Node, NEW w \in Work, NEW q \in Seq(Queued), NEW done,
         NEW net \in SUBSET NodeMessage,
         work \in [Node -> Work], queue \in [Node -> Seq(Queued)],
         EndLoop(n, w, q, done, net)
  PROVE  /\ work' \in [Node -> Work]
         /\ queue' \in [Node -> Seq(Queued)]
         /\ network' \subseteq NodeMessage
<1>1. CASE w.mode # "idle" \/ q = <<>>
  BY <1>1 DEF EndLoop
<1>2. CASE w.mode = "idle" /\ q # <<>> /\ Head(q).msg.id \in done
  <2>1. Tail(q) \in Seq(Queued)
    BY <1>2, HeadTailProperties
  <2>2. /\ work' = [work EXCEPT ![n] = w]
        /\ queue' = [queue EXCEPT ![n] = Tail(q)]
        /\ network' = net
    BY <1>2 DEF EndLoop
  <2>3. QED
    BY <2>1, <2>2
<1>3. CASE w.mode = "idle" /\ q # <<>> /\ Head(q).msg.id \notin done
  <2> DEFINE e == Head(q)
  <2>1. e \in Queued /\ Tail(q) \in Seq(Queued)
    BY <1>3, HeadTailProperties
  <2> HIDE DEF e
  <2>2. queue' \in [Node -> Seq(Queued)]
    BY <1>3, <2>1 DEF EndLoop
  <2>3. BeginWrite(n, e, net) \/ BeginRead(n, e, net) \/ BeginLock(n, e, net)
    BY <1>3 DEF EndLoop, e
  <2>4. CASE BeginWrite(n, e, net)
    <3>1. e.msg \in ClientMessage
      BY <2>1, <2>4 DEF BeginWrite, Queued, NodeMessage, NodeKinds, WriteKinds
    <3>2. PICK peers \in Peers(n, WriteQuorumSize) :
            LET x == Assembled("assemblingQuorum", e, peers,
                               "NodeLockRequestNoTimeout", "NodeTimestampRequest") IN
            /\ work' = [work EXCEPT ![n] = x]
            /\ network' = net \cup ToMembers("NodeLockRequestNoTimeout", n, x, NoVersion, TRUE)
      BY <2>4 DEF BeginWrite
    <3> DEFINE x == Assembled("assemblingQuorum", e, peers,
                               "NodeLockRequestNoTimeout", "NodeTimestampRequest")
    <3>3. x \in Work
      BY <2>1, <3>1, AssembledType, QuorumSizes
         DEF Coordinating, WritePhases, NodeKinds, Steps
    <3>4. x.req.id \in Txn
      BY <3>1 DEF Assembled, ClientMessage
    <3> HIDE DEF x
    <3>5. ToMembers("NodeLockRequestNoTimeout", n, x, NoVersion, TRUE) \subseteq NodeMessage
      BY <3>4, ToMembersType DEF NodeKinds, NoVersion, Version
    <3>6. QED
      BY <2>2, <3>2, <3>3, <3>5 DEF x
  <2>5. CASE BeginRead(n, e, net)
    <3>1. e.msg \in ClientMessage /\ ReadQuorumSize > 1
      BY <2>1, <2>5 DEF BeginRead, Queued, NodeMessage, NodeKinds
    <3>2. PICK peers \in Peers(n, ReadQuorumSize) :
            LET x == Assembled("coordinatingFastRead", e, peers, "NodeGetRequest", "none") IN
            /\ work' = [work EXCEPT ![n] = x]
            /\ network' = net \cup ToMembers("NodeGetRequest", n, x, NoVersion, TRUE)
      BY <2>5 DEF BeginRead
    <3> DEFINE x == Assembled("coordinatingFastRead", e, peers, "NodeGetRequest", "none")
    <3>3. x \in Work
      BY <2>1, <3>1, AssembledType, QuorumSizes DEF Coordinating, NodeKinds, Steps
    <3>4. x.req.id \in Txn
      BY <3>1 DEF Assembled, ClientMessage
    <3> HIDE DEF x
    <3>5. ToMembers("NodeGetRequest", n, x, NoVersion, TRUE) \subseteq NodeMessage
      BY <3>4, ToMembersType DEF NodeKinds, NoVersion, Version
    <3>6. QED
      BY <2>2, <3>2, <3>3, <3>5 DEF x
  <2>6. CASE BeginLock(n, e, net)
    <3>1. e.msg \in NodeMessage
      BY <2>1, <2>6 DEF BeginLock, Queued, ClientMessage, ClientKinds, WriteKinds
    <3>2. Serving(e) \in Work
      BY <2>1, <3>1, IdleType DEF Serving, Work, Queued, Modes, Coordinating, WritePhases, Idle
    <3>3. Mail("NodeLockResponse", e.msg.id, n, e.msg.src, NoVersion, TRUE) \in NodeMessage
      BY <3>1 DEF Mail, NodeMessage, NoVersion, NodeKinds
    <3> DEFINE r == Mail("NodeLockResponse", e.msg.id, n, e.msg.src, NoVersion, TRUE)
    <3> HIDE DEF r
    <3>4. work' = [work EXCEPT ![n] = Serving(e)] /\ network' = net \cup {r}
      BY <2>6 DEF BeginLock, r
    <3>5. r \in NodeMessage
      BY <3>3 DEF r
    <3>6. QED
      BY <2>2, <3>2, <3>4, <3>5
  <2>7. QED
    BY <2>3, <2>4, <2>5, <2>6
<1>4. QED
  BY <1>1, <1>2, <1>3 DEF EndLoop

LEMMA AwaitingType ==
  ASSUME NEW w, w.req \in ClientMessage, w.timed \in BOOLEAN, w.members \in [Node -> Answer],
         NEW step \in Steps, NEW ts \in Nat
  PROVE  Awaiting(w, step, ts) \in Work
BY QuorumSizes DEF Awaiting, Work, Modes, Coordinating, WritePhases

LEMMA CountedType ==
  ASSUME NEW w \in Work, w.mode \in Coordinating, NEW m \in NodeMessage
  PROVE  /\ Counted(w, m) \in [mode : Coordinating, req : ClientMessage, timed : BOOLEAN,
                             step : Steps, ts : Nat, members : [Node -> Answer], waiting : Nat]
         /\ Counted(w, m).waiting # 0 => Counted(w, m) \in Work
BY DEF Counted, Work, NodeMessage, Answer, Modes, Coordinating, WritePhases

\* The variables a handler works on, and those only it or a client changes.
HandledOK ==
  /\ work \in [Node -> Work]
  /\ queue \in [Node -> Seq(Queued)]
  /\ network \subseteq NodeMessage
  /\ store \in [Node -> Version] /\ staged \in [Node -> Version]
  /\ replies \subseteq ReplyMessage

RestOK ==
  /\ unlocked \in [Node -> SUBSET Txn]
  /\ down \in [Node -> BOOLEAN]
  /\ issued \subseteq Txn /\ floor \in [Txn -> Nat]
  /\ resends \in Nat /\ crashes \in Nat /\ overwrites \in Nat

LEMMA TypeParts == TypeOK <=> HandledOK /\ RestOK
BY DEF TypeOK, HandledOK, RestOK, ReplyMessage

LEMMA ProceedType ==
  ASSUME HandledOK, NEW n \in Node, NEW w \in Work, NEW net \in SUBSET NodeMessage,
         Proceed(n, w, net)
  PROVE  /\ work' \in [Node -> Work]
         /\ queue' \in [Node -> Seq(Queued)]
         /\ network' \subseteq NodeMessage
<1>1. queue[n] \in Seq(Queued)
  BY DEF HandledOK
<1>2. QED
  BY <1>1, EndLoopType DEF HandledOK, Proceed

LEMMA RefusalType ==
  ASSUME NEW req \in ClientMessage, NEW ts \in Nat
  PROVE  Refusal(req, ts) \in ReplyMessage
BY DEF Refusal, Reply, ReplyTo, ReplyMessage, ClientMessage

LEMMA GiveUpType ==
  ASSUME HandledOK, NEW n \in Node, NEW w, w.req \in ClientMessage, NEW ts \in Nat,
         GiveUp(n, w, ts)
  PROVE  /\ store' \in [Node -> Version] /\ staged' \in [Node -> Version]
         /\ replies' \subseteq ReplyMessage
<1>1. NoVersion \in Version
  BY DEF NoVersion, Version
<1>2. QED
  BY <1>1, RefusalType DEF GiveUp, HandledOK

LEMMA UnlocksType ==
  ASSUME NEW n \in Node, NEW w, w.req.id \in Txn, NEW ok \in BOOLEAN
  PROVE  Unlocks(n, w, ok) \subseteq NodeMessage
BY ToMembersType DEF Unlocks, NodeKinds, NoVersion, Version

LEMMA AbortType ==
  ASSUME HandledOK, NEW n \in Node, NEW w, w.req \in ClientMessage, NEW ts \in Nat,
         NEW net \in SUBSET NodeMessage, Abort(n, w, ts, net)
  PROVE  HandledOK'
<1>1. w.req.id \in Txn
  BY DEF ClientMessage
<1>2. (net \cup Unlocks(n, w, FALSE)) \in SUBSET NodeMessage
  BY <1>1, UnlocksType
<1>3. QED
  BY <1>2, IdleType, ProceedType, GiveUpType DEF Abort, HandledOK

\* What continueProcessing is called with: the last answer has been counted.
Complete ==
  [mode : Coordinating, req : ClientMessage, timed : BOOLEAN, step : Steps, ts : Nat,
   members : [Node -> Answer], waiting : Nat]

LEMMA StageType ==
  ASSUME HandledOK, NEW n \in Node, NEW w \in Complete, NEW net \in SUBSET NodeMessage,
         Stage(n, w, net)
  PROVE  HandledOK'
<1>1. PICK latest \in {store[n].ts} \cup {w.members[m].ts : m \in Members(w)} :
        LET v == [ts |-> latest + 1, val |-> w.req.id] IN
        \/ Abort(n, w, v.ts, net)
        \/ /\ staged' = [staged EXCEPT ![n] = v]
           /\ Proceed(n, Awaiting(w, "NodeUnlockRequest", v.ts),
                      net \cup ToMembers("NodePutRequest", n, w, v, TRUE))
           /\ UNCHANGED <<store, replies>>
  BY DEF Stage
<1> DEFINE v == [ts |-> latest + 1, val |-> w.req.id]
<1>2. w.req \in ClientMessage /\ w.req.id \in Txn /\ w.timed \in BOOLEAN
      /\ w.members \in [Node -> Answer]
  BY DEF Complete, ClientMessage
<1>3. latest \in Nat
  BY <1>1, <1>2 DEF HandledOK, Version, Answer, Members
<1>4. v.ts \in Nat /\ v \in Version
  BY <1>2, <1>3 DEF Version
<1> HIDE DEF v
<1>5. CASE Abort(n, w, v.ts, net)
  BY <1>2, <1>4, <1>5, AbortType
<1>6. CASE /\ staged' = [staged EXCEPT ![n] = v]
           /\ Proceed(n, Awaiting(w, "NodeUnlockRequest", v.ts),
                      net \cup ToMembers("NodePutRequest", n, w, v, TRUE))
           /\ UNCHANGED <<store, replies>>
  <2>1. Awaiting(w, "NodeUnlockRequest", v.ts) \in Work
    BY <1>2, <1>4, AwaitingType DEF Steps
  <2>2. (net \cup ToMembers("NodePutRequest", n, w, v, TRUE)) \in SUBSET NodeMessage
    BY <1>2, <1>4, ToMembersType DEF NodeKinds
  <2>3. QED
    BY <1>4, <1>6, <2>1, <2>2, ProceedType DEF HandledOK
<1>7. QED
  BY <1>1, <1>5, <1>6 DEF v

LEMMA ContinueType ==
  ASSUME HandledOK, NEW n \in Node, NEW w \in Complete, NEW net \in SUBSET NodeMessage,
         ContinueProcessing(n, w, net)
  PROVE  HandledOK'
<1>1. w.req \in ClientMessage /\ w.req.id \in Txn /\ w.timed \in BOOLEAN
      /\ w.members \in [Node -> Answer]
  BY DEF Complete, ClientMessage
<1>2. CASE FinishRead(n, w, net)
  <2> DEFINE known == {store[n]} \cup
                 {[ts |-> w.members[m].ts, val |-> w.members[m].val] : m \in Members(w)}
  <2>1. PICK v \in known :
          replies' = replies \cup {Reply("ClientReadResponse", w.req.id, v, TRUE)}
    BY <1>2 DEF FinishRead
  <2>2. known \subseteq Version
    BY <1>1 DEF HandledOK, Version, Answer, Members
  <2>3. Reply("ClientReadResponse", w.req.id, v, TRUE) \in ReplyMessage
    BY <1>1, <2>1, <2>2 DEF Reply, ReplyMessage, Version
  <2>4. Proceed(n, Idle, net) /\ UNCHANGED <<store, staged>>
    BY <1>2 DEF FinishRead
  <2>5. QED
    BY <2>1, <2>3, <2>4, IdleType, ProceedType DEF HandledOK
<1>3. CASE AskTimestamps(n, w, net)
  <2>1. Awaiting(w, "NodePutRequest", 0) \in Work
    BY <1>1, AwaitingType DEF Steps
  <2>2. (net \cup ToMembers("NodeTimestampRequest", n, w, NoVersion, TRUE)) \in SUBSET NodeMessage
    BY <1>1, ToMembersType DEF NodeKinds, NoVersion, Version
  <2>3. QED
    BY <1>3, <2>1, <2>2, ProceedType DEF AskTimestamps, HandledOK
<1>4. CASE Commit(n, w, net)
  <2>1. (net \cup Unlocks(n, w, TRUE)) \in SUBSET NodeMessage
    BY <1>1, UnlocksType
  <2>2. Reply("ClientWriteResponse", w.req.id, [ts |-> w.ts, val |-> w.req.val], TRUE)
          \in ReplyMessage
    BY <1>1 DEF Reply, ReplyMessage, ClientMessage, Complete
  <2>3. NoVersion \in Version
    BY DEF NoVersion, Version
  <2>4. QED
    BY <1>4, <2>1, <2>2, <2>3, IdleType, ProceedType DEF Commit, HandledOK
<1>5. QED
  BY <1>2, <1>3, <1>4, StageType DEF ContinueProcessing

LEMMA CollectType ==
  ASSUME HandledOK, NEW n \in Node, work[n].mode \in Coordinating, NEW m \in NodeMessage,
         NEW net \in SUBSET NodeMessage, Collect(n, m, net)
  PROVE  HandledOK'
<1>1. work[n] \in Work
  BY DEF HandledOK
<1>2. work[n].req \in ClientMessage /\ work[n].req.ts \in Nat
  BY <1>1 DEF Work, ClientMessage
<1>3. CASE ~m.ok /\ Abort(n, work[n], work[n].req.ts, net)
  BY <1>2, <1>3, AbortType
<1>4. CASE Proceed(n, work[n], net) /\ UNCHANGED <<store, staged, replies>>
  BY <1>1, <1>4, ProceedType DEF HandledOK
<1>5. CASE /\ Counted(work[n], m).waiting # 0 /\ Proceed(n, Counted(work[n], m), net)
           /\ UNCHANGED <<store, staged, replies>>
  BY <1>1, <1>5, CountedType, ProceedType DEF HandledOK
<1>6. CASE ContinueProcessing(n, Counted(work[n], m), net)
  <2>1. Counted(work[n], m) \in Complete
    BY <1>1, CountedType DEF Complete
  <2>2. QED
    BY <1>6, <2>1, ContinueType
<1>7. QED
  BY <1>3, <1>4, <1>5, <1>6 DEF Collect

LEMMA EnqueueType ==
  ASSUME HandledOK, overwrites \in Nat, NEW n \in Node, NEW net \in SUBSET NodeMessage,
         NEW m, Entry(m) \in Queued, Enqueue(n, m, net)
  PROVE  /\ work' \in [Node -> Work]
         /\ queue' \in [Node -> Seq(Queued)]
         /\ network' \subseteq NodeMessage
         /\ overwrites' \in Nat
<1> DEFINE overwritten == work[n].mode = "idle" /\ queue[n] # <<>>
           held == IF overwritten THEN Head(queue[n]).msg ELSE m
<1>1. queue[n] \in Seq(Queued) /\ work[n] \in Work
  BY DEF HandledOK
<1>2. queue[n] # <<>> => Head(queue[n]) \in Queued
  BY <1>1, HeadTailProperties
<1>3. Entry(held) \in Queued
  BY <1>2 DEF Entry, Queued
<1>4. EndLoop(n, work[n], Append(queue[n], Entry(held)), unlocked[n], net)
      /\ (overwrites' = overwrites \/ overwrites' = overwrites + 1)
  BY DEF Enqueue
<1> HIDE DEF held
<1>5. Append(queue[n], Entry(held)) \in Seq(Queued)
  BY <1>1, <1>3, AppendProperties
<1>6. overwrites' \in Nat
  BY <1>4
<1>7. QED
  BY <1>1, <1>4, <1>5, <1>6, EndLoopType DEF HandledOK

LEMMA RequestType ==
  ASSUME NEW t \in Txn, NEW n \in Node,
         Kind[t] = "ClientReadRequest" => ReadQuorumSize > 1
  PROVE  Entry(Request(t, n)) \in Queued
<1>1. Kind[t] \in ClientKinds /\ ExpectedTs[t] \in Nat
  BY TxnAssumption
<1>2. Request(t, n) \in ClientMessage /\ Request(t, n).type = Kind[t]
  BY <1>1 DEF Request, Mail, ClientMessage
<1>3. QED
  BY <1>2 DEF Entry, Queued

LEMMA IssueType ==
  ASSUME RestOK, HandledOK, NEW t \in Txn, Issue(t)
  PROVE  issued' \subseteq Txn /\ floor' \in [Txn -> Nat]
<1>1. PICK newest \in {0} \cup {r.ts : r \in {x \in replies : x.ok}} :
        floor' = [floor EXCEPT ![t] = newest]
  BY DEF Issue
<1>2. newest \in Nat
  BY <1>1 DEF HandledOK, ReplyMessage
<1>3. QED
  BY <1>1, <1>2 DEF Issue, RestOK

LEMMA ClientRequestType ==
  ASSUME TypeOK, NEW n \in Node, NEW t \in Txn, ClientRequest(n, t)
  PROVE  TypeOK'
<1>1. HandledOK /\ RestOK
  BY TypeParts
<1>2. Entry(Request(t, n)) \in Queued
  BY RequestType DEF ClientRequest
<1>3. issued' \subseteq Txn /\ floor' \in [Txn -> Nat]
  BY <1>1, IssueType DEF ClientRequest
<1>4. Enqueue(n, Request(t, n), network) /\ network \in SUBSET NodeMessage
      /\ overwrites \in Nat
  BY <1>1 DEF ClientRequest, HandledOK, RestOK
<1>5. /\ work' \in [Node -> Work] /\ queue' \in [Node -> Seq(Queued)]
      /\ network' \subseteq NodeMessage /\ overwrites' \in Nat
  BY <1>1, <1>2, <1>4, EnqueueType
<1>6. HandledOK' /\ RestOK'
  BY <1>1, <1>3, <1>5 DEF ClientRequest, HandledOK, RestOK
<1>7. QED
  BY <1>6, TypeParts DEF TypeOK, HandledOK, RestOK, ReplyMessage

LEMMA LocalReadType ==
  ASSUME TypeOK, NEW n \in Node, NEW t \in Txn, LocalRead(n, t)
  PROVE  TypeOK'
<1>1. HandledOK /\ RestOK
  BY TypeParts
<1>2. Reply("ClientReadResponse", t, store[n], TRUE) \in ReplyMessage
  BY <1>1 DEF HandledOK, Reply, ReplyMessage, Version
<1>3. issued' \subseteq Txn /\ floor' \in [Txn -> Nat]
  BY <1>1, IssueType DEF LocalRead
<1>4. Proceed(n, work[n], network) /\ network \in SUBSET NodeMessage /\ work[n] \in Work
  BY <1>1 DEF LocalRead, HandledOK
<1>5. HandledOK' /\ RestOK'
  BY <1>1, <1>2, <1>3, <1>4, ProceedType DEF LocalRead, HandledOK, RestOK
<1>6. QED
  BY <1>5 DEF TypeOK, HandledOK, RestOK, ReplyMessage

\* What a handler of a message may change.
HandlerOK == HandledOK /\ unlocked \in [Node -> SUBSET Txn] /\ overwrites \in Nat

LEMMA NoVersionType == NoVersion \in Version
BY DEF NoVersion, Version

LEMMA LockRequestType ==
  ASSUME HandlerOK, NEW n \in Node, NEW m \in NodeMessage, NEW net \in SUBSET NodeMessage,
         LockRequest(n, m, net)
  PROVE  HandlerOK'
<1>1. Entry(m) \in Queued
  BY DEF LockRequest, Entry, Queued
<1>2. Enqueue(n, m, net) /\ UNCHANGED <<store, staged, unlocked, replies>>
  BY DEF LockRequest
<1>3. QED
  BY <1>1, <1>2, EnqueueType DEF HandlerOK, HandledOK

LEMMA LockResponseType ==
  ASSUME HandlerOK, NEW n \in Node, NEW m \in NodeMessage, NEW net \in SUBSET NodeMessage,
         LockResponse(n, m, net)
  PROVE  HandlerOK'
<1>1. UNCHANGED <<unlocked, overwrites>>
  BY DEF LockResponse
<1>2. CASE work[n].mode = "assemblingQuorum" /\ Collect(n, m, net)
  BY <1>1, <1>2, CollectType DEF HandlerOK, Coordinating, WritePhases
<1>3. Unlock(m, n) \subseteq NodeMessage
  <2>1. Mail("NodeUnlockRequest", m.id, n, m.src, NoVersion, FALSE) \in NodeMessage
    BY DEF Mail, NodeMessage, NodeKinds, NoVersion
  <2>2. QED
    BY <2>1 DEF Unlock
<1>4. CASE UNCHANGED <<store, staged, replies>> /\ Proceed(n, work[n], net \cup Unlock(m, n))
  <2>1. work[n] \in Work
    BY DEF HandlerOK, HandledOK
  <2>2. (net \cup Unlock(m, n)) \in SUBSET NodeMessage
    BY <1>3
  <2>3. QED
    BY <1>1, <1>4, <2>1, <2>2, ProceedType DEF HandlerOK, HandledOK
<1>5. QED
  BY <1>2, <1>4 DEF LockResponse

LEMMA UnlockRequestType ==
  ASSUME HandlerOK, NEW n \in Node, NEW m \in NodeMessage, NEW net \in SUBSET NodeMessage,
         UnlockRequest(n, m, net)
  PROVE  HandlerOK'
<1>1. store' \in [Node -> Version] /\ staged' \in [Node -> Version]
  BY NoVersionType DEF UnlockRequest, HandlerOK, HandledOK
<1>2. unlocked' \in [Node -> SUBSET Txn]
  BY DEF UnlockRequest, HandlerOK, NodeMessage
<1> DEFINE w == IF work[n].req.id = m.id THEN Idle ELSE work[n]
<1>3. w \in Work /\ queue[n] \in Seq(Queued)
  BY IdleType DEF HandlerOK, HandledOK
<1> HIDE DEF w
<1>4. EndLoop(n, w, queue[n], unlocked'[n], net) /\ UNCHANGED <<replies, overwrites>>
  BY DEF UnlockRequest, w
<1>5. QED
  BY <1>1, <1>2, <1>3, <1>4, EndLoopType DEF HandlerOK, HandledOK

LEMMA GetRequestType ==
  ASSUME HandlerOK, NEW n \in Node, NEW m \in NodeMessage, NEW net \in SUBSET NodeMessage,
         GetRequest(n, m, net)
  PROVE  HandlerOK'
<1> DEFINE ok == staged[n] = NoVersion
           v == IF ok THEN store[n] ELSE NoVersion
           r == Mail("NodeGetResponse", m.id, n, m.src, v, ok)
<1>1. v \in Version
  BY NoVersionType DEF HandlerOK, HandledOK
<1> HIDE DEF v
<1>2. r \in NodeMessage
  BY <1>1 DEF Mail, NodeMessage, NodeKinds, Version
<1>3. Proceed(n, work[n], net \cup {r})
      /\ UNCHANGED <<store, staged, unlocked, replies, overwrites>>
  BY DEF GetRequest, v
<1> HIDE DEF r
<1>4. (net \cup {r}) \in SUBSET NodeMessage /\ work[n] \in Work
  BY <1>2 DEF HandlerOK, HandledOK
<1>5. QED
  BY <1>3, <1>4, ProceedType DEF HandlerOK, HandledOK

LEMMA TimestampRequestType ==
  ASSUME HandlerOK, NEW n \in Node, NEW m \in NodeMessage, NEW net \in SUBSET NodeMessage,
         TimestampRequest(n, m, net)
  PROVE  HandlerOK'
<1> DEFINE held == work[n].mode = "processingWrite" /\ work[n].req.id = m.id
           v == [ts |-> IF held THEN store[n].ts ELSE 0, val |-> 0]
           r == Mail("NodeGetResponse", m.id, n, m.src, v, TRUE)
<1>1. v \in Version
  BY DEF HandlerOK, HandledOK, NoVersion, Version
<1> HIDE DEF v
<1>2. r \in NodeMessage
  BY <1>1 DEF Mail, NodeMessage, NodeKinds, Version
<1>3. Proceed(n, work[n], net \cup {r})
      /\ UNCHANGED <<store, staged, unlocked, replies, overwrites>>
  BY DEF TimestampRequest, v
<1> HIDE DEF r
<1>4. (net \cup {r}) \in SUBSET NodeMessage /\ work[n] \in Work
  BY <1>2 DEF HandlerOK, HandledOK
<1>5. QED
  BY <1>3, <1>4, ProceedType DEF HandlerOK, HandledOK

LEMMA PutRequestType ==
  ASSUME HandlerOK, NEW n \in Node, NEW m \in NodeMessage, NEW net \in SUBSET NodeMessage,
         PutRequest(n, m, net)
  PROVE  HandlerOK'
<1> DEFINE held == work[n].mode = "processingWrite" /\ work[n].req.id = m.id
           v == [ts |-> m.ts, val |-> m.val]
           r == Mail("NodePutResponse", m.id, n, m.src, v, held)
<1>1. v \in Version /\ held \in BOOLEAN
  BY DEF NodeMessage, Version
<1> HIDE DEF v, held
<1>2. r \in NodeMessage
  BY <1>1 DEF Mail, NodeMessage, NodeKinds, Version
<1>3. /\ Proceed(n, work[n], net \cup {r})
      /\ staged' = IF held THEN [staged EXCEPT ![n] = v] ELSE staged
      /\ UNCHANGED <<store, unlocked, replies, overwrites>>
  BY DEF PutRequest, v, held
<1> HIDE DEF r
<1>4. (net \cup {r}) \in SUBSET NodeMessage /\ work[n] \in Work
  BY <1>2 DEF HandlerOK, HandledOK
<1>5. QED
  BY <1>1, <1>3, <1>4, ProceedType DEF HandlerOK, HandledOK

LEMMA ResponseType ==
  ASSUME HandlerOK, NEW n \in Node, NEW m \in NodeMessage, NEW net \in SUBSET NodeMessage,
         GetResponse(n, m, net) \/ PutResponse(n, m, net)
  PROVE  HandlerOK'
<1>1. UNCHANGED <<unlocked, overwrites>>
  BY DEF GetResponse, PutResponse
<1>2. CASE work[n].mode \in Coordinating /\ Collect(n, m, net)
  BY <1>1, <1>2, CollectType DEF HandlerOK
<1>3. CASE Proceed(n, work[n], net) /\ UNCHANGED <<store, staged, replies>>
  <2>1. work[n] \in Work
    BY DEF HandlerOK, HandledOK
  <2>2. QED
    BY <1>1, <1>3, <2>1, ProceedType DEF HandlerOK, HandledOK
<1>4. QED
  BY <1>2, <1>3 DEF GetResponse, PutResponse, Coordinating, WritePhases

LEMMA DeliverType ==
  ASSUME TypeOK, NEW m \in network, NEW net \in {network, network \ {m}}, Deliver(m, net)
  PROVE  TypeOK'
<1>1. HandlerOK
  BY DEF TypeOK, HandlerOK, HandledOK, ReplyMessage
<1>2. m \in NodeMessage /\ m.dest \in Node /\ net \in SUBSET NodeMessage
  BY DEF TypeOK, NodeMessage
<1>3. HandlerOK'
  BY <1>1, <1>2, LockRequestType, LockResponseType, UnlockRequestType, GetRequestType,
     TimestampRequestType, PutRequestType, ResponseType DEF Deliver
<1>4. RestOK'
  BY <1>3 DEF Deliver, Receive, TypeOK, RestOK, HandlerOK
<1>5. QED
  BY <1>3, <1>4 DEF TypeOK, HandlerOK, HandledOK, RestOK, ReplyMessage

LEMMA TimerType ==
  ASSUME TypeOK, NEW n \in Node, InternalTimer(n) \/ RequestTimeout(n)
  PROVE  TypeOK'
<1>1. HandledOK /\ RestOK /\ work[n] \in Work
  BY TypeParts DEF HandledOK
<1>2. work[n].mode \in Coordinating
  BY DEF InternalTimer, RequestTimeout, Coordinating
<1>3. work[n].req \in ClientMessage /\ work[n].req.ts \in Nat /\ work[n].req.id \in Txn
  BY <1>1, <1>2 DEF Work, ClientMessage
<1>4. RestOK'
  BY <1>1 DEF InternalTimer, RequestTimeout, RestOK
<1>5. CASE InternalTimer(n)
  <2>1. Abort(n, work[n], work[n].req.ts, network) /\ network \in SUBSET NodeMessage
    BY <1>1, <1>5 DEF InternalTimer, HandledOK
  <2>2. HandledOK'
    BY <1>1, <1>3, <2>1, AbortType
  <2>3. QED
    BY <1>4, <2>2 DEF TypeOK, HandledOK, RestOK, ReplyMessage
<1>6. CASE RequestTimeout(n)
  <2>1. /\ GiveUp(n, work[n], work[n].req.ts)
        /\ work' = [work EXCEPT ![n] = Idle]
        /\ network' = network \cup Unlocks(n, work[n], FALSE)
        /\ queue' = queue
    BY <1>6 DEF RequestTimeout
  <2>2. HandledOK'
    BY <1>1, <1>3, <2>1, GiveUpType, UnlocksType, IdleType DEF HandledOK
  <2>3. QED
    BY <1>4, <2>2 DEF TypeOK, HandledOK, RestOK, ReplyMessage
<1>7. QED
  BY <1>5, <1>6

LEMMA LoopType ==
  ASSUME TypeOK, NEW n \in Node, Loop(n) \/ Elect(n)
  PROVE  TypeOK'
<1>1. HandledOK /\ RestOK /\ work[n] \in Work /\ queue[n] \in Seq(Queued)
      /\ network \in SUBSET NodeMessage
  BY TypeParts DEF HandledOK
<1>2. \E done : EndLoop(n, work[n], queue[n], done, network)
  BY DEF Loop, Elect, Proceed
<1>3. UNCHANGED <<store, staged, replies, down, issued, floor, resends, crashes, overwrites>>
  BY DEF Loop, Elect, others
<1>4. unlocked' \in [Node -> SUBSET Txn]
  BY <1>1 DEF Loop, Elect, others, RestOK
<1>5. HandledOK' /\ RestOK'
  BY <1>1, <1>2, <1>3, <1>4, EndLoopType DEF HandledOK, RestOK
<1>6. QED
  BY <1>5 DEF TypeOK, HandledOK, RestOK, ReplyMessage

\* Taking the i-th request out of a queue.
Without(q, i) == SubSeq(q, 1, i - 1) \o SubSeq(q, i + 1, Len(q))

LEMMA WithoutProperties ==
  ASSUME NEW S, NEW q \in Seq(S), NEW i \in 1..Len(q)
  PROVE  /\ Without(q, i) \in Seq(S)
         /\ Len(Without(q, i)) = Len(q) - 1
         /\ \A j \in 1..(Len(q) - 1) : Without(q, i)[j] = q[IF j < i THEN j ELSE j + 1]
<1> DEFINE a == SubSeq(q, 1, i - 1)
           b == SubSeq(q, i + 1, Len(q))
<1>1. a \in Seq(S) /\ Len(a) = i - 1 /\ \A j \in 1..(i - 1) : a[j] = q[j]
  OBVIOUS
<1>2. b \in Seq(S) /\ Len(b) = Len(q) - i /\ \A j \in 1..(Len(q) - i) : b[j] = q[j + i]
  OBVIOUS
<1>3. Without(q, i) = a \o b
  BY DEF Without
<1> HIDE DEF a, b
<1>4. a \o b \in Seq(S) /\ Len(a \o b) = Len(q) - 1
  <2>1. a \o b \in Seq(S) /\ Len(a \o b) = Len(a) + Len(b)
    BY <1>1, <1>2, ConcatProperties
  <2>2. QED
    BY <1>1, <1>2, <2>1
<1>5. ASSUME NEW j \in 1..(Len(q) - 1)
      PROVE  (a \o b)[j] = q[IF j < i THEN j ELSE j + 1]
  <2>1. CASE j < i
    BY <1>1, <1>2, <2>1
  <2>2. CASE ~(j < i)
    <3>1. (a \o b)[j] = b[j - (i - 1)]
      BY <1>1, <1>2, <2>2
    <3>2. j - (i - 1) \in 1..(Len(q) - i) /\ (j - (i - 1)) + i = j + 1
      BY <2>2
    <3>3. QED
      BY <1>2, <2>2, <3>1, <3>2
  <2>3. QED
    BY <2>1, <2>2
<1>6. QED
  BY <1>3, <1>4, <1>5

LEMMA QueueTimeoutType ==
  ASSUME TypeOK, NEW n \in Node, NEW i \in DOMAIN queue[n], QueueTimeout(n, i)
  PROVE  TypeOK'
<1> DEFINE req == queue[n][i].msg
<1>1. HandledOK /\ RestOK /\ queue[n] \in Seq(Queued) /\ i \in 1..Len(queue[n])
      /\ queue[n][i] \in Queued
  BY TypeParts DEF HandledOK
<1>2. queue' \in [Node -> Seq(Queued)]
  <2>1. queue' = [queue EXCEPT ![n] = Without(queue[n], i)]
    BY <1>1 DEF QueueTimeout, Without, HandledOK
  <2>2. Without(queue[n], i) \in Seq(Queued)
    BY <1>1, WithoutProperties
  <2>3. QED
    BY <1>1, <2>1, <2>2 DEF HandledOK
<1>3. network' \subseteq NodeMessage /\ replies' \subseteq ReplyMessage
  <2>1. CASE req \in ClientMessage
    <3>1. replies' = replies \cup {Refusal(req, 0)} /\ network' = network
      BY <2>1 DEF QueueTimeout, ClientMessage
    <3>2. QED
      BY <1>1, <2>1, <3>1, RefusalType DEF HandledOK
  <2>2. CASE req \in NodeMessage
    <3>1. network' = network \cup
             {Mail("NodeLockResponse", req.id, n, req.src, NoVersion, FALSE)}
          /\ replies' = replies
      BY <2>2 DEF QueueTimeout, NodeMessage, NodeKinds, ClientKinds, WriteKinds
    <3>2. Mail("NodeLockResponse", req.id, n, req.src, NoVersion, FALSE) \in NodeMessage
      BY <2>2 DEF Mail, NodeMessage, NodeKinds, NoVersion
    <3>3. QED
      BY <1>1, <3>1, <3>2 DEF HandledOK
  <2>3. QED
    BY <1>1, <2>1, <2>2 DEF Queued
<1>4. UNCHANGED <<work, staged, store, unlocked, down, issued, floor, resends, crashes,
                  overwrites>>
  BY DEF QueueTimeout, others
<1>5. QED
  BY <1>1, <1>2, <1>3, <1>4 DEF TypeOK, HandledOK, RestOK, ReplyMessage

LEMMA SignalLostType ==
  ASSUME TypeOK, NEW n \in Node, SignalLost(n)
  PROVE  TypeOK'
<1>1. work' \in [Node -> Work]
  <2>1. CASE work' = [work EXCEPT ![n].timed = FALSE] /\ work[n].timed
    <3>1. work[n] \in Work /\ work[n] # Idle
      BY <2>1 DEF TypeOK, Idle
    <3>2. [work[n] EXCEPT !.timed = FALSE] \in Work
      BY <3>1 DEF Work
    <3>3. QED
      BY <2>1, <3>2 DEF TypeOK
  <2>2. CASE work' = work
    BY <2>2 DEF TypeOK
  <2>3. QED
    BY <2>1, <2>2 DEF SignalLost
<1>2. queue' \in [Node -> Seq(Queued)]
  <2>1. CASE \E i \in DOMAIN queue[n] : queue' = [queue EXCEPT ![n][i].timed = FALSE]
    <3>1. PICK i \in DOMAIN queue[n] : queue' = [queue EXCEPT ![n][i].timed = FALSE]
      BY <2>1
    <3>2. queue[n] \in Seq(Queued) /\ i \in 1..Len(queue[n]) /\ queue[n][i] \in Queued
      BY <3>1 DEF TypeOK
    <3>3. [queue[n][i] EXCEPT !.timed = FALSE] \in Queued
      BY <3>2 DEF Queued
    <3>4. [queue[n] EXCEPT ![i] = [queue[n][i] EXCEPT !.timed = FALSE]] \in Seq(Queued)
      BY <3>2, <3>3
    <3>5. QED
      BY <3>1, <3>4 DEF TypeOK
  <2>2. CASE queue' = queue
    BY <2>2 DEF TypeOK
  <2>3. QED
    BY <2>1, <2>2 DEF SignalLost
<1>3. QED
  BY <1>1, <1>2 DEF TypeOK, SignalLost, others

\* Each action of Next keeps every variable in its type.
THEOREM TypeCorrect == Spec => []TypeOK
<1>1. Init => TypeOK
  BY IdleType, NoVersionType DEF Init, TypeOK
<1>2. TypeOK /\ [Next]_vars => TypeOK'
  <2> SUFFICES ASSUME TypeOK, [Next]_vars PROVE TypeOK'
    OBVIOUS
  <2>1. ASSUME NEW n \in Node, NEW t \in Txn, ClientRequest(n, t) \/ LocalRead(n, t)
        PROVE  TypeOK'
    BY <2>1, ClientRequestType, LocalReadType
  <2>2. ASSUME NEW m \in network, NEW net \in {network, network \ {m}}, Deliver(m, net)
        PROVE  TypeOK'
    BY <2>2, DeliverType
  <2>3. ASSUME NEW n \in Node, InternalTimer(n) \/ Loop(n) \/ Elect(n) \/ RequestTimeout(n)
                                 \/ SignalLost(n)
        PROVE  TypeOK'
    BY <2>3, TimerType, LoopType, SignalLostType
  <2>4. ASSUME NEW n \in Node, Fail(n) \/ Recover(n)
        PROVE  TypeOK'
    <3>1. CASE Fail(n)
      BY <3>1, <2>4, IdleType DEF Fail, TypeOK
    <3>2. CASE Recover(n)
      BY <3>2, <2>4 DEF Recover, TypeOK
    <3>3. QED
      BY <2>4, <3>1, <3>2
  <2>5. ASSUME NEW n \in Node, NEW i \in DOMAIN queue[n], QueueTimeout(n, i)
        PROVE  TypeOK'
    BY <2>5, QueueTimeoutType
  <2>6. CASE UNCHANGED vars
    BY <2>6 DEF TypeOK, vars
  <2>7. QED
    BY <2>1, <2>2, <2>3, <2>4, <2>5, <2>6 DEF Next
<1>3. QED
  BY <1>1, <1>2, PTL DEF Spec

-----------------------------------------------------------------------------
(* No locked node is forgotten, whatever is lost, repeated or crashes *)

\* Message u will free node p of transaction t: an unlock request for it, or its
\* lock response, which a coordinator that does not want it gives back.
Frees(u, p, t) ==
  /\ u.id = t
  /\ \/ u.type = "NodeUnlockRequest" /\ u.dest = p
     \/ u.type = "NodeLockResponse" /\ u.src = p /\ u.ok

\* A coordinator, or a message, takes care of the lock that p holds for t.
CaredFor(wk, nt, p, t) ==
  \/ \E c \in Node : wk[c].mode \in WritePhases /\ wk[c].req.id = t /\ p \in Members(wk[c])
  \/ \E u \in nt : Frees(u, p, t)

NoneForgotten(wk, nt) ==
  \A n \in Node : wk[n].mode = "processingWrite" => CaredFor(wk, nt, n, wk[n].req.id)

\* What a handler of node a leaves, w and net, takes care of all that a and the
\* messages took care of.
KeepsQuorum(a, w, net) ==
  \/ w = work[a]
  \/ /\ w.mode \in WritePhases /\ w.req.id = work[a].req.id
     /\ Members(work[a]) \subseteq Members(w)
  \/ /\ w.mode # "processingWrite"
     /\ work[a].mode \in WritePhases =>
          \A p \in Members(work[a]) : \E u \in net : Frees(u, p, work[a].req.id)
KeepsMessages(a, w, net) ==
  \A u \in network : \A p \in Node : Frees(u, p, u.id) =>
    \/ \E x \in net : Frees(x, p, u.id)
    \/ w.mode \in WritePhases /\ w.req.id = u.id /\ p \in Members(w)
    \/ p = a /\ (w.mode = "processingWrite" => w.req.id # u.id)
Careful(a, w, net) == KeepsQuorum(a, w, net) /\ KeepsMessages(a, w, net)

LEMMA CarefulKeeps ==
  ASSUME HandledOK, NoneForgotten(work, network), NEW a \in Node, NEW w, NEW net,
         Careful(a, w, net), NEW wk, wk = [work EXCEPT ![a] = w]
  PROVE  NoneForgotten(wk, net)
<1> SUFFICES ASSUME NEW n \in Node, wk[n].mode = "processingWrite"
             PROVE  CaredFor(wk, net, n, wk[n].req.id)
  BY DEF NoneForgotten
<1>1. /\ wk[a] = w /\ \A p \in Node : p # a => wk[p] = work[p]
      /\ KeepsQuorum(a, w, net) /\ KeepsMessages(a, w, net)
  BY DEF HandledOK, Careful
<1>2. work[n] = wk[n]
  <2>1. CASE n = a
    BY <1>1, <2>1 DEF KeepsQuorum, WritePhases
  <2>2. QED
    BY <1>1, <2>1
<1>3. CaredFor(work, network, n, wk[n].req.id)
  BY <1>2 DEF NoneForgotten
<1>4. CASE \E c \in Node : /\ work[c].mode \in WritePhases /\ work[c].req.id = wk[n].req.id
                           /\ n \in Members(work[c])
  <2>1. PICK c \in Node : /\ work[c].mode \in WritePhases /\ work[c].req.id = wk[n].req.id
                          /\ n \in Members(work[c])
    BY <1>4
  <2>2. CASE c # a
    BY <1>1, <2>1, <2>2 DEF CaredFor
  <2>3. CASE c = a
    <3>1. CASE w = work[a] \/ /\ w.mode \in WritePhases /\ w.req.id = work[a].req.id
                              /\ Members(work[a]) \subseteq Members(w)
      BY <1>1, <2>1, <2>3, <3>1 DEF CaredFor
    <3>2. CASE \A p \in Members(work[a]) : \E u \in net : Frees(u, p, work[a].req.id)
      BY <2>1, <2>3, <3>2 DEF CaredFor
    <3>3. QED
      BY <1>1, <2>1, <2>3, <3>1, <3>2 DEF KeepsQuorum
  <2>4. QED
    BY <2>2, <2>3
<1>5. CASE \E u \in network : Frees(u, n, wk[n].req.id)
  <2>1. PICK u \in network : Frees(u, n, wk[n].req.id)
    BY <1>5
  <2>2. u.id = wk[n].req.id
    BY <2>1 DEF Frees
  <2>3. \/ \E x \in net : Frees(x, n, u.id)
        \/ w.mode \in WritePhases /\ w.req.id = u.id /\ n \in Members(w)
        \/ n = a /\ (w.mode = "processingWrite" => w.req.id # u.id)
    BY <1>1, <2>1, <2>2 DEF KeepsMessages
  <2>4. QED
    BY <1>1, <2>2, <2>3 DEF CaredFor
<1>6. QED
  BY <1>3, <1>4, <1>5 DEF CaredFor

\* The end of the main loop: only the node's own lock response adds a lock.
LEMMA EndLoopForgetsNone ==
  ASSUME HandledOK, NEW a \in Node, NEW w, NEW q, NEW done, NEW net,
         NEW wk, wk = [work EXCEPT ![a] = w], NoneForgotten(wk, net),
         EndLoop(a, w, q, done, net)
  PROVE  NoneForgotten(work', network')
<1>1. CASE work' = wk /\ network' = net
  BY <1>1
<1>2. CASE w.mode = "idle" /\ (\/ BeginWrite(a, Head(q), net) \/ BeginRead(a, Head(q), net)
                               \/ BeginLock(a, Head(q), net))
  <2>1. /\ net \subseteq network'
        /\ \E x : /\ work' = [work EXCEPT ![a] = x]
                  /\ x.mode = "processingWrite" =>
                       \E u \in network' : Frees(u, a, x.req.id)
    <3>1. CASE BeginWrite(a, Head(q), net) \/ BeginRead(a, Head(q), net)
      <4>1. \A mode, e, peers, type, step : Assembled(mode, e, peers, type, step).mode = mode
        BY DEF Assembled
      <4>2. PICK x : /\ x.mode # "processingWrite" /\ work' = [work EXCEPT ![a] = x]
                     /\ net \subseteq network'
        <5>1. CASE BeginWrite(a, Head(q), net)
          <6>1. PICK peers : /\ peers \in Peers(a, WriteQuorumSize)
                             /\ LET x == Assembled("assemblingQuorum", Head(q), peers,
                                          "NodeLockRequestNoTimeout", "NodeTimestampRequest")
                                IN /\ work' = [work EXCEPT ![a] = x]
                                   /\ net \subseteq network'
            BY <5>1 DEF BeginWrite
          <6>2. QED
            BY <4>1, <6>1
        <5>2. CASE BeginRead(a, Head(q), net)
          <6>1. PICK peers : /\ peers \in Peers(a, ReadQuorumSize)
                             /\ LET x == Assembled("coordinatingFastRead", Head(q), peers,
                                                   "NodeGetRequest", "none")
                                IN /\ work' = [work EXCEPT ![a] = x]
                                   /\ net \subseteq network'
            BY <5>2 DEF BeginRead
          <6>2. QED
            BY <4>1, <6>1
        <5>3. QED
          BY <3>1, <5>1, <5>2
      <4>3. QED
        BY <4>2
    <3>2. CASE BeginLock(a, Head(q), net)
      <4> DEFINE e == Head(q)
                 u == Mail("NodeLockResponse", e.msg.id, a, e.msg.src, NoVersion, TRUE)
      <4>1. work' = [work EXCEPT ![a] = Serving(e)] /\ network' = net \cup {u}
        BY <3>2 DEF BeginLock
      <4>2. Serving(e).req = e.msg
        BY DEF Serving, Idle
      <4>3. Frees(u, a, e.msg.id)
        BY DEF Frees, Mail
      <4>4. u \in network' /\ net \subseteq network'
        BY <4>1
      <4> HIDE DEF u, e
      <4>5. QED
        BY <4>1, <4>2, <4>3, <4>4
    <3>3. QED
      BY <1>2, <3>1, <3>2
  <2>2. PICK x : /\ work' = [work EXCEPT ![a] = x]
                 /\ x.mode = "processingWrite" => \E u \in network' : Frees(u, a, x.req.id)
    BY <2>1
  <2>3. /\ wk[a].mode = "idle" /\ work'[a] = x
        /\ \A p \in Node : p # a => wk[p] = work'[p]
    BY <1>2, <2>2 DEF HandledOK
  <2> SUFFICES ASSUME NEW n \in Node, work'[n].mode = "processingWrite"
               PROVE  CaredFor(work', network', n, work'[n].req.id)
    BY DEF NoneForgotten
  <2>4. CASE n = a
    BY <2>2, <2>3, <2>4 DEF CaredFor
  <2>5. CASE n # a
    <3>1. CaredFor(wk, net, n, work'[n].req.id)
      BY <2>3, <2>5 DEF NoneForgotten
    <3>2. \A c \in Node : wk[c].mode \in WritePhases => work'[c] = wk[c]
      BY <2>3 DEF WritePhases
    <3>3. QED
      BY <2>1, <3>1, <3>2 DEF CaredFor
  <2>6. QED
    BY <2>4, <2>5
<1>3. QED
  BY <1>1, <1>2 DEF EndLoop

\* Nothing that a handler of node a leaves, w, q and net, is where no trace of its
\* transaction was, but for the requests in is that are new.
Homely(a, w, q, net, is) ==
  /\ w.mode \in Coordinating =>
       /\ work[a].mode \in Coordinating /\ w.req.id = work[a].req.id
       /\ \A p \in Members(w) : Away(work, queue, network, p, w.req.id)
  /\ w.mode = "processingWrite" =>
       work[a].mode = "processingWrite" /\ w.req.id = work[a].req.id
  /\ \A i \in 1..Len(q) :
       \/ \E k \in 1..Len(queue[a]) : q[i].msg = queue[a][k].msg
       \/ ~FromClient(q[i].msg) /\ Away(work, queue, network, a, q[i].msg.id)
       \/ FromClient(q[i].msg) /\ q[i].msg.id \in is \ issued
  /\ \A u \in net : Away(work, queue, network, Peer(u), u.id)

LEMMA HomelyKeeps ==
  ASSUME HandledOK, HomesApart(work, queue, network, issued), NEW a \in Node, NEW w, NEW q,
         NEW net, NEW is, issued \subseteq is, Homely(a, w, q, net, is),
         NEW wk, wk = [work EXCEPT ![a] = w], NEW qu, qu = [queue EXCEPT ![a] = q]
  PROVE  HomesApart(wk, qu, net, is)
<1>1. /\ wk[a] = w /\ \A p \in Node : p # a => wk[p] = work[p]
      /\ qu[a] = q /\ \A p \in Node : p # a => qu[p] = queue[p]
  BY DEF HandledOK
<1>2. ASSUME NEW b \in Node, NEW t \in Txn, AtHome(wk, qu, b, t)
      PROVE  AtHome(work, queue, b, t) \/ (b = a /\ t \in is \ issued)
  <2>1. CASE b # a
    BY <1>1, <1>2, <2>1 DEF AtHome
  <2>2. CASE b = a
    BY <1>1, <1>2, <2>2 DEF AtHome, Homely
  <2>3. QED
    BY <2>1, <2>2
<1>3. ASSUME NEW b \in Node, NEW t \in Txn, Away(wk, qu, net, b, t)
      PROVE  Away(work, queue, network, b, t)
  <2>1. CASE wk[b].mode = "processingWrite" /\ wk[b].req.id = t
    BY <1>1, <2>1 DEF Away, Homely
  <2>2. CASE \E c \in Node : wk[c].mode \in Coordinating /\ wk[c].req.id = t /\ b \in Members(wk[c])
    BY <1>1, <2>2 DEF Away, Homely
  <2>3. CASE \E i \in 1..Len(qu[b]) : ~FromClient(qu[b][i].msg) /\ qu[b][i].msg.id = t
    BY <1>1, <2>3 DEF Away, Homely
  <2>4. CASE \E m \in net : m.id = t /\ Peer(m) = b
    BY <2>4 DEF Homely
  <2>5. QED
    BY <1>3, <2>1, <2>2, <2>3, <2>4 DEF Away
<1>4. QED
  BY <1>2, <1>3 DEF HomesApart

\* Node a starts the request e that it has taken from its queue, or drops it.
Starts(a, e, net, wk) ==
  \/ work' = wk /\ network' = net
  \/ /\ FromClient(e.msg)
     /\ \E x : /\ work' = [work EXCEPT ![a] = x]
               /\ x.mode \in Coordinating /\ x.req = e.msg /\ a \notin Members(x)
               /\ \A u \in network' : u \in net \/ (u.id = e.msg.id /\ Peer(u) \in Members(x))
  \/ /\ ~FromClient(e.msg)
     /\ \E x : /\ work' = [work EXCEPT ![a] = x]
               /\ x.mode = "processingWrite" /\ x.req = e.msg
               /\ \A u \in network' : u \in net \/ (u.id = e.msg.id /\ Peer(u) = a)

\* Node a, idle, has taken the request e from its queue.
Took(a, e, wk, qu) ==
  /\ wk[a].mode = "idle" /\ \A p \in Node : p # a => wk[p] = work[p]
  /\ \E i \in 1..Len(qu[a]) : e = qu[a][i]
  /\ \A b \in Node : \A i \in 1..Len(queue'[b]) :
       \E k \in 1..Len(qu[b]) : queue'[b][i] = qu[b][k]

LEMMA StartsHomes ==
  ASSUME HandledOK, NEW a \in Node, NEW e, NEW net, NEW is, NEW wk, NEW qu,
         Took(a, e, wk, qu), HomesApart(wk, qu, net, is), Starts(a, e, net, wk)
  PROVE  HomesApart(work', queue', network', is)
<1> USE DEF Took
<1>1. /\ \A b \in Node, t \in Txn : AtHome(work', queue', b, t) => AtHome(wk, qu, b, t)
      /\ \A b \in Node, t \in Txn : Away(work', queue', network', b, t) =>
           Away(wk, qu, net, b, t) \/ (AtHome(wk, qu, a, t) /\ b # a)
  <2>1. CASE work' = wk /\ network' = net
    <3>1. ASSUME NEW b \in Node, NEW t \in Txn, AtHome(work', queue', b, t)
          PROVE  AtHome(wk, qu, b, t)
      BY <2>1, <3>1 DEF AtHome
    <3>2. ASSUME NEW b \in Node, NEW t \in Txn, Away(work', queue', network', b, t)
          PROVE  Away(wk, qu, net, b, t)
      BY <2>1, <3>2, SMTT(30) DEF Away
    <3>3. QED
      BY <3>1, <3>2
  <2>2. CASE FromClient(e.msg) /\ ~(work' = wk /\ network' = net)
    <3>1. PICK x : /\ work' = [work EXCEPT ![a] = x]
                   /\ x.mode \in Coordinating /\ x.req = e.msg /\ a \notin Members(x)
                   /\ \A u \in network' : u \in net \/ (u.id = e.msg.id /\ Peer(u) \in Members(x))
      BY <2>2 DEF Starts
    <3>2. work'[a] = x /\ \A p \in Node : p # a => work'[p] = wk[p]
      BY <3>1 DEF HandledOK
    <3>3. AtHome(wk, qu, a, e.msg.id)
      BY <2>2 DEF AtHome
    <3>4. ASSUME NEW b \in Node, NEW t \in Txn, AtHome(work', queue', b, t)
          PROVE  AtHome(wk, qu, b, t)
      <4>1. CASE \E i \in 1..Len(queue'[b]) : FromClient(queue'[b][i].msg) /\ queue'[b][i].msg.id = t
        BY <4>1 DEF AtHome
      <4>2. CASE work'[b].mode \in Coordinating /\ work'[b].req.id = t /\ b # a
        BY <3>2, <4>2 DEF AtHome
      <4>3. CASE work'[b].mode \in Coordinating /\ work'[b].req.id = t /\ b = a
        BY <3>1, <3>2, <3>3, <4>3
      <4>4. QED
        BY <3>4, <4>1, <4>2, <4>3 DEF AtHome
    <3>5. x.mode # "processingWrite"
      BY <3>1 DEF Coordinating, WritePhases
    <3>6. ASSUME NEW b \in Node, NEW t \in Txn, Away(work', queue', network', b, t)
          PROVE  Away(wk, qu, net, b, t) \/ (AtHome(wk, qu, a, t) /\ b # a)
      <4>1. CASE work'[b].mode = "processingWrite" /\ work'[b].req.id = t
        BY <3>2, <3>5, <4>1 DEF Away
      <4>2. CASE \E c \in Node : /\ work'[c].mode \in Coordinating /\ work'[c].req.id = t
                                 /\ b \in Members(work'[c])
        BY <3>1, <3>2, <3>3, <4>2 DEF Away
      <4>3. CASE \E i \in 1..Len(queue'[b]) : ~FromClient(queue'[b][i].msg) /\ queue'[b][i].msg.id = t
        BY <4>3 DEF Away
      <4>4. CASE \E m \in network' : m.id = t /\ Peer(m) = b
        BY <3>1, <3>3, <4>4 DEF Away
      <4>5. QED
        BY <3>6, <4>1, <4>2, <4>3, <4>4 DEF Away
    <3>7. QED
      BY <3>4, <3>6
  <2>3. CASE ~FromClient(e.msg) /\ ~(work' = wk /\ network' = net)
    <3>1. PICK x : /\ work' = [work EXCEPT ![a] = x]
                   /\ x.mode = "processingWrite" /\ x.req = e.msg
                   /\ \A u \in network' : u \in net \/ (u.id = e.msg.id /\ Peer(u) = a)
      BY <2>3 DEF Starts
    <3>2. work'[a] = x /\ \A p \in Node : p # a => work'[p] = wk[p]
      BY <3>1 DEF HandledOK
    <3>3. Away(wk, qu, net, a, e.msg.id)
      BY <2>3 DEF Away
    <3>4. x.mode \notin Coordinating
      BY <3>1 DEF Coordinating, WritePhases
    <3>5. ASSUME NEW b \in Node, NEW t \in Txn, AtHome(work', queue', b, t)
          PROVE  AtHome(wk, qu, b, t)
      BY <3>2, <3>4, <3>5 DEF AtHome
    <3>6. ASSUME NEW b \in Node, NEW t \in Txn, Away(work', queue', network', b, t)
          PROVE  Away(wk, qu, net, b, t)
      <4>1. CASE work'[b].mode = "processingWrite" /\ work'[b].req.id = t
        BY <3>1, <3>2, <3>3, <4>1 DEF Away
      <4>2. CASE \E c \in Node : /\ work'[c].mode \in Coordinating /\ work'[c].req.id = t
                                 /\ b \in Members(work'[c])
        BY <3>2, <3>4, <4>2 DEF Away
      <4>3. CASE \E i \in 1..Len(queue'[b]) : ~FromClient(queue'[b][i].msg) /\ queue'[b][i].msg.id = t
        BY <4>3 DEF Away
      <4>4. CASE \E m \in network' : m.id = t /\ Peer(m) = b
        BY <3>1, <3>3, <4>4 DEF Away
      <4>5. QED
        BY <3>6, <4>1, <4>2, <4>3, <4>4 DEF Away
    <3>7. QED
      BY <3>5, <3>6
  <2>4. QED
    BY <2>1, <2>2, <2>3
<1>2. QED
  BY <1>1 DEF HomesApart

\* The end of the main loop: who takes a client's request asks other nodes.
LEMMA EndLoopHomes ==
  ASSUME HandledOK, NEW a \in Node, NEW w, NEW q \in Seq(Queued), NEW done, NEW net, NEW is,
         NEW wk, wk = [work EXCEPT ![a] = w], NEW qu, qu = [queue EXCEPT ![a] = q],
         HomesApart(wk, qu, net, is), EndLoop(a, w, q, done, net)
  PROVE  HomesApart(work', queue', network', is)
<1>1. /\ wk[a] = w /\ \A p \in Node : p # a => wk[p] = work[p]
      /\ qu[a] = q /\ \A p \in Node : p # a => qu[p] = queue[p]
  BY DEF HandledOK
<1>2. CASE work' = wk /\ queue' = qu /\ network' = net
  BY <1>2
<1>3. CASE w.mode = "idle" /\ q # <<>> /\ queue' = [queue EXCEPT ![a] = Tail(q)]
  <2> DEFINE e == Head(q)
  <2>1. /\ e = q[1] /\ 1 \in 1..Len(q) /\ e \in Queued
        /\ \A i \in 1..Len(Tail(q)) : i + 1 \in 1..Len(q) /\ Tail(q)[i] = q[i + 1]
    BY <1>3, HeadTailProperties
  <2>2. /\ queue'[a] = Tail(q) /\ \A p \in Node : p # a => queue'[p] = queue[p]
    BY <1>3 DEF HandledOK
  <2>3. ASSUME NEW b \in Node, NEW i \in 1..Len(queue'[b])
        PROVE  \E k \in 1..Len(qu[b]) : queue'[b][i] = qu[b][k]
    <3>1. CASE b = a
      <4>1. i \in 1..Len(Tail(q)) /\ queue'[b] = Tail(q) /\ qu[b] = q
        BY <1>1, <2>2, <2>3, <3>1
      <4>2. i + 1 \in 1..Len(q) /\ Tail(q)[i] = q[i + 1]
        BY <2>1, <4>1
      <4>3. QED
        BY <4>1, <4>2, Zenon
    <3>2. CASE b # a
      BY <1>1, <2>2, <2>3, <3>2
    <3>3. QED
      BY <3>1, <3>2
  <2>4. \/ work' = wk /\ network' = net
        \/ BeginWrite(a, e, net) \/ BeginRead(a, e, net) \/ BeginLock(a, e, net)
    BY <1>3 DEF EndLoop
  <2> HIDE DEF e
  <2>5. Starts(a, e, net, wk)
    <3>1. CASE work' = wk /\ network' = net
      BY <3>1 DEF Starts
    <3>2. CASE BeginWrite(a, e, net)
      <4>1. PICK peers : /\ peers \in Peers(a, WriteQuorumSize)
                         /\ LET x == Assembled("assemblingQuorum", e, peers,
                                      "NodeLockRequestNoTimeout", "NodeTimestampRequest")
                            IN /\ work' = [work EXCEPT ![a] = x]
                               /\ network' = net \cup ToMembers("NodeLockRequestNoTimeout",
                                                                a, x, NoVersion, TRUE)
        BY <3>2 DEF BeginWrite
      <4> DEFINE x == Assembled("assemblingQuorum", e, peers, "NodeLockRequestNoTimeout",
                                "NodeTimestampRequest")
      <4>2. FromClient(e.msg)
        BY <3>2 DEF BeginWrite, FromClient, ClientKinds
      <4>3. x.req = e.msg /\ a \notin Members(x) /\ x.mode = "assemblingQuorum"
        BY <4>1 DEF Assembled, Members, Peers
      <4> HIDE DEF x
      <4>4. \A u \in ToMembers("NodeLockRequestNoTimeout", a, x, NoVersion, TRUE) :
              u.id = x.req.id /\ Peer(u) \in Members(x)
        BY DEF ToMembers, Mail, Peer, RequestKinds
      <4>5. QED
        BY <4>1, <4>2, <4>3, <4>4 DEF Starts, x, Coordinating, WritePhases
    <3>3. CASE BeginRead(a, e, net)
      <4>1. PICK peers : /\ peers \in Peers(a, ReadQuorumSize)
                         /\ LET x == Assembled("coordinatingFastRead", e, peers,
                                               "NodeGetRequest", "none")
                            IN /\ work' = [work EXCEPT ![a] = x]
                               /\ network' = net \cup ToMembers("NodeGetRequest",
                                                                a, x, NoVersion, TRUE)
        BY <3>3 DEF BeginRead
      <4> DEFINE x == Assembled("coordinatingFastRead", e, peers, "NodeGetRequest", "none")
      <4>2. FromClient(e.msg)
        BY <3>3 DEF BeginRead, FromClient, ClientKinds
      <4>3. x.req = e.msg /\ a \notin Members(x) /\ x.mode = "coordinatingFastRead"
        BY <4>1 DEF Assembled, Members, Peers
      <4> HIDE DEF x
      <4>4. \A u \in ToMembers("NodeGetRequest", a, x, NoVersion, TRUE) :
              u.id = x.req.id /\ Peer(u) \in Members(x)
        BY DEF ToMembers, Mail, Peer, RequestKinds
      <4>5. QED
        BY <4>1, <4>2, <4>3, <4>4 DEF Starts, x, Coordinating, WritePhases
    <3>4. CASE BeginLock(a, e, net)
      <4> DEFINE u == Mail("NodeLockResponse", e.msg.id, a, e.msg.src, NoVersion, TRUE)
      <4>1. work' = [work EXCEPT ![a] = Serving(e)] /\ network' = net \cup {u}
        BY <3>4 DEF BeginLock
      <4>2. Serving(e).req = e.msg /\ Serving(e).mode = "processingWrite"
        BY DEF Serving, Idle
      <4>3. u.id = e.msg.id /\ Peer(u) = a
        BY DEF Mail, Peer, RequestKinds
      <4>4. ~FromClient(e.msg)
        BY <3>4 DEF BeginLock, FromClient, ClientKinds, WriteKinds
      <4> HIDE DEF u
      <4>5. QED
        BY <4>1, <4>2, <4>3, <4>4 DEF Starts
    <3>5. QED
      BY <2>4, <3>1, <3>2, <3>3, <3>4
  <2>6. QED
    <3>1. wk[a].mode = "idle" /\ \E i \in 1..Len(qu[a]) : e = qu[a][i]
      BY <1>1, <1>3, <2>1
    <3>2. \A p \in Node : p # a => wk[p] = work[p]
      BY <1>1
    <3>3. \A b \in Node : \A i \in 1..Len(queue'[b]) :
            \E k \in 1..Len(qu[b]) : queue'[b][i] = qu[b][k]
      BY <2>3
    <3>4. Took(a, e, wk, qu)
      BY <3>1, <3>2, <3>3 DEF Took
    <3>5. QED
      BY <2>5, <3>4, StartsHomes
<1>4. QED
  BY <1>2, <1>3 DEF EndLoop

\* What is shown of every state: no lock is forgotten, and every transaction is at
\* home at one node.
Watched(wk, qu, nt, is) == NoneForgotten(wk, nt) /\ HomesApart(wk, qu, nt, is)

Watching == HandledOK /\ Watched(work, queue, network, issued) /\ issued \subseteq issued'

LEMMA CarefulStep ==
  ASSUME Watching, NEW a \in Node, NEW w, NEW q \in Seq(Queued), NEW net,
         Careful(a, w, net), Homely(a, w, q, net, issued'), NEW done, EndLoop(a, w, q, done, net)
  PROVE  Watched(work', queue', network', issued')
<1> DEFINE wk == [work EXCEPT ![a] = w]
           qu == [queue EXCEPT ![a] = q]
<1>1. HandledOK /\ NoneForgotten(work, network) /\ HomesApart(work, queue, network, issued)
      /\ issued \subseteq issued'
  BY DEF Watching, Watched
<1>2. NoneForgotten(wk, net)
  BY <1>1, CarefulKeeps
<1>3. HomesApart(wk, qu, net, issued')
  BY <1>1, HomelyKeeps
<1>4. NoneForgotten(work', network')
  BY <1>1, <1>2, EndLoopForgetsNone
<1>5. HomesApart(work', queue', network', issued')
  BY <1>1, <1>3, EndLoopHomes
<1>6. QED
  BY <1>4, <1>5 DEF Watched

\* Where the traces are that a node and the messages leave as they are.
LEMMA Traces ==
  ASSUME NEW a \in Node
  PROVE  /\ work[a].mode \in Coordinating =>
              \A p \in Members(work[a]) : Away(work, queue, network, p, work[a].req.id)
         /\ \A u \in network : Away(work, queue, network, Peer(u), u.id)
BY DEF Away

\* The node works on as before, and sends where its transactions were.
LEMMA PassesHomely ==
  ASSUME NEW a \in Node, NEW net, NEW is,
         \A u \in net : u \in network \/ Away(work, queue, network, Peer(u), u.id)
  PROVE  Homely(a, work[a], queue[a], net, is)
BY Traces DEF Homely

\* A coordinator works on, or not, and sends to members of its quorum c.
LEMMA CoordinatorHomely ==
  ASSUME NEW a \in Node, NEW c, NEW left, left \subseteq network, NEW net, NEW is, NEW w,
         \A p \in Members(c) : Away(work, queue, network, p, c.req.id),
         \A u \in net : u \in left \/ (u.id = c.req.id /\ Peer(u) \in Members(c)),
         \/ w.mode \notin Coordinating \cup {"processingWrite"}
         \/ /\ w.mode \in Coordinating /\ work[a].mode \in Coordinating
            /\ w.req = c.req /\ c.req = work[a].req /\ Members(w) = Members(c)
  PROVE  Homely(a, w, queue[a], net, is)
<1>1. \A u \in net : Away(work, queue, network, Peer(u), u.id)
  BY Traces
<1>2. w.mode \in Coordinating => w.mode # "processingWrite"
  BY DEF Coordinating, WritePhases
<1>3. QED
  BY <1>1, <1>2 DEF Homely

LEMMA UnlocksPeer ==
  ASSUME NEW n, NEW w, NEW ok
  PROVE  \A u \in Unlocks(n, w, ok) : u.id = w.req.id /\ Peer(u) \in Members(w)
BY DEF Unlocks, ToMembers, Mail, Peer, RequestKinds

\* Of the messages about locks, those that left does not have are about members
\* of v, for its transaction.
LeftOver(v, left) ==
  \A u \in network : \/ u \in left
                     \/ \A p \in Node : Frees(u, p, u.id) => p \in Members(v) /\ u.id = v.req.id

LEMMA TakenLeft ==
  ASSUME NEW m \in network, NEW left \in {network, network \ {m}}, NEW v,
         \/ m.type \notin {"NodeUnlockRequest", "NodeLockResponse"} \/ ~m.ok
         \/ m.src \in Members(v) /\ m.id = v.req.id,
         m.type # "NodeUnlockRequest"
  PROVE  LeftOver(v, left)
BY DEF LeftOver, Frees

\* The node works on, with all the members it had.
LEMMA GoesOnCareful ==
  ASSUME NEW a \in Node, NEW left, NEW w, NEW net,
         \/ w = work[a]
         \/ /\ w.mode \in WritePhases /\ w.req.id = work[a].req.id
            /\ Members(work[a]) \subseteq Members(w)
         \/ w.mode = "coordinatingFastRead" /\ work[a].mode = "coordinatingFastRead",
         LeftOver(w, left), left \subseteq net,
         w.mode \in WritePhases \/ \A u \in network : u \in left \/ \A p \in Node : ~Frees(u, p, u.id)
  PROVE  Careful(a, w, net)
<1>1. KeepsQuorum(a, w, net)
  BY DEF KeepsQuorum, WritePhases
<1>2. KeepsMessages(a, w, net)
  BY DEF KeepsMessages, LeftOver
<1>3. QED
  BY <1>1, <1>2 DEF Careful

\* The node gives up, or has done, its request, and tells the members of v.
LEMMA QuitsCareful ==
  ASSUME NEW a \in Node, NEW left, NEW v, NEW ok, NEW net, net = left \cup Unlocks(a, v, ok),
         v.req.id = work[a].req.id, Members(work[a]) \subseteq Members(v), LeftOver(v, left)
  PROVE  Careful(a, Idle, net)
<1>1. ASSUME NEW p \in Members(v)
      PROVE  \E u \in net : Frees(u, p, v.req.id)
  <2> DEFINE u == Mail("NodeUnlockRequest", v.req.id, a, p, NoVersion, ok)
  <2>1. u \in net
    BY DEF Unlocks, ToMembers
  <2>2. Frees(u, p, v.req.id)
    BY DEF Frees, Mail
  <2>3. QED
    BY <2>1, <2>2
<1>2. Idle.mode # "processingWrite"
  BY DEF Idle
<1>3. KeepsQuorum(a, Idle, net)
  BY <1>1, <1>2 DEF KeepsQuorum
<1>4. \A u \in left : u \in net
  OBVIOUS
<1>5. KeepsMessages(a, Idle, net)
  BY <1>1, <1>4 DEF KeepsMessages, LeftOver
<1>6. QED
  BY <1>3, <1>5 DEF Careful

LEMMA CountedKeeps ==
  ASSUME NEW w \in Work, NEW m \in NodeMessage
  PROVE  /\ Counted(w, m).mode = w.mode /\ Counted(w, m).req = w.req
         /\ Members(w) \subseteq Members(Counted(w, m)) /\ m.src \in Members(Counted(w, m))
         /\ Members(Counted(w, m)) \subseteq Members(w) \cup {m.src}
<1> DEFINE one == [type |-> m.type, ts |-> m.ts, val |-> m.val]
<1>1. one # NoAnswer
  BY DEF NoAnswer, NodeMessage, NodeKinds
<1> HIDE DEF one
<1>2. /\ Counted(w, m).members = [w.members EXCEPT ![m.src] = one]
      /\ Counted(w, m).mode = w.mode /\ Counted(w, m).req = w.req
  BY DEF Counted, one
<1>3. w.members \in [Node -> Answer] /\ m.src \in Node
  BY DEF Work, NodeMessage
<1>4. QED
  BY <1>1, <1>2, <1>3 DEF Members

\* A coordinator that has counted an answer works on, or has done.
LEMMA CollectHomely ==
  ASSUME NEW n \in Node, NEW m \in network, NEW left \in {network, network \ {m}}, NEW c,
         c.req = work[n].req, m.id = c.req.id, Peer(m) = m.src,
         Members(c) \subseteq Members(work[n]) \cup {m.src},
         work[n].mode \in Coordinating, NEW w, NEW net,
         \A u \in net : u \in left \/ (u.id = c.req.id /\ Peer(u) \in Members(c)),
         \/ w.mode \notin Coordinating \cup {"processingWrite"}
         \/ w.mode \in Coordinating /\ w.req = c.req /\ Members(w) = Members(c)
  PROVE  Homely(n, w, queue[n], net, issued')
<1>1. \A p \in Members(c) : Away(work, queue, network, p, c.req.id)
  BY Traces
<1>2. left \subseteq network
  OBVIOUS
<1>3. QED
  BY <1>1, <1>2, CoordinatorHomely

\* An answer that its coordinator waits for.
LEMMA CollectForgetsNone ==
  ASSUME Watching, NEW n \in Node,
         NEW m \in network, NEW left \in {network, network \ {m}}, m.id = work[n].req.id,
         \/ m.type = "NodeLockResponse" /\ work[n].mode = "assemblingQuorum"
         \/ /\ m.type = "NodeGetResponse"
            /\ work[n].mode \in {"coordinatingWrite", "coordinatingFastRead"}
         \/ m.type = "NodePutResponse" /\ work[n].mode = "coordinatingWrite",
         Collect(n, m, left)
  PROVE  Watched(work', queue', network', issued')
<1> DEFINE c == Counted(work[n], m)
<1>0. work[n] \in Work /\ m \in NodeMessage /\ queue[n] \in Seq(Queued)
  BY DEF HandledOK, Watching
<1>1. /\ c.mode = work[n].mode /\ c.req = work[n].req
      /\ Members(work[n]) \subseteq Members(c) /\ m.src \in Members(c)
      /\ Members(c) \subseteq Members(work[n]) \cup {m.src}
  BY <1>0, CountedKeeps
<1>2. m.type # "NodeUnlockRequest" /\ c.req.id = m.id /\ Peer(m) = m.src
      /\ work[n].mode \in Coordinating
  BY <1>1 DEF Peer, RequestKinds, Coordinating, WritePhases
<1> HIDE DEF c
<1>3. Idle.mode \notin Coordinating \cup {"processingWrite"}
  BY DEF Idle, Coordinating, WritePhases
<1>4. LeftOver(c, left)
  BY <1>1, <1>2, TakenLeft
<1>5. \/ work[n].mode \in WritePhases
      \/ \A u \in network : u \in left \/ \A p \in Node : ~Frees(u, p, u.id)
  BY DEF WritePhases, Frees
<1>6. ASSUME NEW w, w.mode \in WritePhases, w.req = c.req, Members(w) = Members(c), NEW net,
             left \subseteq net, NEW done,
             \A u \in net : u \in left \/ (u.id = c.req.id /\ Peer(u) \in Members(c)),
             EndLoop(n, w, queue[n], done, net)
      PROVE  Watched(work', queue', network', issued')
  <2>1. LeftOver(w, left)
    BY <1>4, <1>6 DEF LeftOver
  <2>2. w.req.id = work[n].req.id /\ Members(work[n]) \subseteq Members(w)
    BY <1>1, <1>6
  <2>3. Careful(n, w, net)
    BY <1>6, <2>1, <2>2, GoesOnCareful
  <2>4. w.mode \in Coordinating
    BY <1>6 DEF Coordinating
  <2>5. Homely(n, w, queue[n], net, issued')
    BY <1>1, <1>2, <1>6, <2>4, CollectHomely
  <2>6. QED
    BY <1>0, <1>6, <2>3, <2>5, CarefulStep
<1>7. ASSUME NEW v, NEW ok, NEW done, v.req = c.req, Members(v) \subseteq Members(c),
             Members(work[n]) \subseteq Members(v), LeftOver(v, left),
             EndLoop(n, Idle, queue[n], done, left \cup Unlocks(n, v, ok))
      PROVE  Watched(work', queue', network', issued')
  <2> DEFINE net == left \cup Unlocks(n, v, ok)
  <2>1. v.req.id = work[n].req.id
    BY <1>1, <1>7
  <2>2. Careful(n, Idle, net)
    BY <1>7, <2>1, QuitsCareful
  <2>3. \A u \in Unlocks(n, v, ok) : u.id = v.req.id /\ Peer(u) \in Members(v)
    BY UnlocksPeer
  <2>4. \A u \in net : u \in left \/ (u.id = c.req.id /\ Peer(u) \in Members(c))
    BY <1>7, <2>3
  <2>5. Homely(n, Idle, queue[n], net, issued')
    BY <1>1, <1>2, <1>3, <2>4, CollectHomely
  <2>6. QED
    BY <1>0, <1>7, <2>2, <2>5, CarefulStep
<1>8. CASE ~m.ok /\ Abort(n, work[n], work[n].req.ts, left)
  <2>1. LeftOver(work[n], left)
    BY <1>2, <1>8, TakenLeft
  <2>2. EndLoop(n, Idle, queue[n], unlocked[n], left \cup Unlocks(n, work[n], FALSE))
    BY <1>8 DEF Abort, Proceed
  <2>3. QED
    BY <1>1, <1>7, <2>1, <2>2
<1>9. CASE work[n].members[m.src].type = m.type /\ Proceed(n, work[n], left)
  <2>1. m.src \in Members(work[n])
    BY <1>0, <1>9 DEF Members, NodeMessage, NodeKinds, NoAnswer
  <2>2. LeftOver(work[n], left)
    BY <1>2, <2>1, TakenLeft
  <2>3. Careful(n, work[n], left)
    BY <1>5, <2>2, GoesOnCareful
  <2>4. Homely(n, work[n], queue[n], left, issued')
    BY PassesHomely
  <2>5. QED
    BY <1>0, <1>9, <2>3, <2>4, CarefulStep DEF Proceed
<1>10. CASE Proceed(n, c, left)
  <2>1. EndLoop(n, c, queue[n], unlocked[n], left)
    BY <1>10 DEF Proceed
  <2>2. CASE work[n].mode \in WritePhases
    BY <1>1, <1>6, <2>1, <2>2
  <2>3. CASE work[n].mode = "coordinatingFastRead"
    <3>1. Careful(n, c, left)
      BY <1>1, <1>4, <1>5, <2>3, GoesOnCareful DEF WritePhases
    <3>2. Homely(n, c, queue[n], left, issued')
      BY <1>1, <1>2, CollectHomely
    <3>3. QED
      BY <1>0, <2>1, <3>1, <3>2, CarefulStep
  <2>4. QED
    BY <2>2, <2>3 DEF WritePhases
<1>11. CASE ContinueProcessing(n, c, left)
  <2>1. CASE FinishRead(n, c, left)
    <3>1. work[n].mode = "coordinatingFastRead" /\ Idle.mode = "idle"
      BY <1>1, <2>1 DEF FinishRead, Idle
    <3>2. KeepsQuorum(n, Idle, left)
      BY <3>1 DEF KeepsQuorum, WritePhases
    <3>3. KeepsMessages(n, Idle, left)
      BY <1>5, <3>1 DEF KeepsMessages, WritePhases
    <3>4. Homely(n, Idle, queue[n], left, issued')
      BY <1>1, <1>2, <1>3, CollectHomely
    <3>5. EndLoop(n, Idle, queue[n], unlocked[n], left)
      BY <2>1 DEF FinishRead, Proceed
    <3>6. Careful(n, Idle, left)
      BY <3>2, <3>3 DEF Careful
    <3>7. QED
      BY <1>0, <3>4, <3>5, <3>6, CarefulStep
  <2>2. \A step, ts : LET w == Awaiting(c, step, ts) IN
          w.mode \in WritePhases /\ w.req = c.req /\ Members(w) = Members(c)
    BY DEF Awaiting, WritePhases, Members
  <2>3. \A v : \A u \in ToMembers("NodeTimestampRequest", n, c, v, TRUE) :
               u.id = c.req.id /\ Peer(u) \in Members(c)
    BY DEF ToMembers, Mail, Peer, RequestKinds
  <2>4. \A v : \A u \in ToMembers("NodePutRequest", n, c, v, TRUE) :
               u.id = c.req.id /\ Peer(u) \in Members(c)
    BY DEF ToMembers, Mail, Peer, RequestKinds
  <2>5. CASE AskTimestamps(n, c, left)
    <3> DEFINE w == Awaiting(c, "NodePutRequest", 0)
               net == left \cup ToMembers("NodeTimestampRequest", n, c, NoVersion, TRUE)
    <3>1. EndLoop(n, w, queue[n], unlocked[n], net)
      BY <2>5 DEF AskTimestamps, Proceed
    <3>2. \A u \in net : u \in left \/ (u.id = c.req.id /\ Peer(u) \in Members(c))
      BY <2>3
    <3>3. w.mode \in WritePhases /\ w.req = c.req /\ Members(w) = Members(c)
      BY <2>2
    <3>4. left \subseteq net
      OBVIOUS
    <3> HIDE DEF w, net
    <3>5. QED
      BY <1>6, <3>1, <3>2, <3>3, <3>4
  <2>6. CASE Stage(n, c, left)
    <3>1. PICK k : \/ Abort(n, c, k + 1, left)
                   \/ Proceed(n, Awaiting(c, "NodeUnlockRequest", k + 1),
                              left \cup ToMembers("NodePutRequest", n, c,
                                                  [ts |-> k + 1, val |-> c.req.id], TRUE))
      BY <2>6 DEF Stage
    <3>2. CASE Abort(n, c, k + 1, left)
      <4>1. EndLoop(n, Idle, queue[n], unlocked[n], left \cup Unlocks(n, c, FALSE))
        BY <3>2 DEF Abort, Proceed
      <4>2. QED
        BY <1>1, <1>4, <1>7, <4>1
    <3>3. CASE Proceed(n, Awaiting(c, "NodeUnlockRequest", k + 1),
                       left \cup ToMembers("NodePutRequest", n, c,
                                           [ts |-> k + 1, val |-> c.req.id], TRUE))
      <4> DEFINE w == Awaiting(c, "NodeUnlockRequest", k + 1)
                 net == left \cup ToMembers("NodePutRequest", n, c,
                                            [ts |-> k + 1, val |-> c.req.id], TRUE)
      <4>1. EndLoop(n, w, queue[n], unlocked[n], net)
        BY <3>3 DEF Proceed
      <4>2. \A u \in net : u \in left \/ (u.id = c.req.id /\ Peer(u) \in Members(c))
        BY <2>4
      <4>3. w.mode \in WritePhases /\ w.req = c.req /\ Members(w) = Members(c)
        BY <2>2
      <4>4. left \subseteq net
        OBVIOUS
      <4> HIDE DEF w, net
      <4>5. QED
        BY <1>6, <4>1, <4>2, <4>3, <4>4
    <3>4. QED
      BY <3>1, <3>2, <3>3
  <2>7. CASE Commit(n, c, left)
    <3>1. EndLoop(n, Idle, queue[n], unlocked[n], left \cup Unlocks(n, c, TRUE))
      BY <2>7 DEF Commit, Proceed
    <3>2. QED
      BY <1>1, <1>4, <1>7, <3>1
  <2>8. QED
    BY <1>11, <2>1, <2>5, <2>6, <2>7 DEF ContinueProcessing
<1>12. QED
  BY <1>8, <1>9, <1>10, <1>11 DEF Collect, c

\* The node goes on with its work: it lets go of no lock, and sends where its
\* transactions were.
LEMMA CarriesOn ==
  ASSUME Watching, NEW n \in Node, NEW net, NEW done,
         \A u \in network : u \in net \/ \A p \in Node : ~Frees(u, p, u.id),
         \A u \in net : u \in network \/ Away(work, queue, network, Peer(u), u.id),
         EndLoop(n, work[n], queue[n], done, net)
  PROVE  Watched(work', queue', network', issued')
<1>1. KeepsQuorum(n, work[n], net)
  BY DEF KeepsQuorum
<1>2. KeepsMessages(n, work[n], net)
  BY DEF KeepsMessages
<1>3. Homely(n, work[n], queue[n], net, issued')
  BY PassesHomely
<1>4. Careful(n, work[n], net) /\ queue[n] \in Seq(Queued)
  BY <1>1, <1>2 DEF Careful, Watching, HandledOK
<1>5. QED
  BY <1>3, <1>4, CarefulStep

\* A step without the end of the main loop.
LEMMA CarefulAlone ==
  ASSUME Watching, NEW a \in Node, NEW w, NEW q, Careful(a, w, network'),
         Homely(a, w, q, network', issued'),
         work' = [work EXCEPT ![a] = w], queue' = [queue EXCEPT ![a] = q]
  PROVE  Watched(work', queue', network', issued')
<1>1. HandledOK /\ NoneForgotten(work, network) /\ HomesApart(work, queue, network, issued)
      /\ issued \subseteq issued'
  BY DEF Watching, Watched
<1>2. NoneForgotten(work', network')
  BY <1>1, CarefulKeeps
<1>3. HomesApart(work', queue', network', issued')
  BY <1>1, HomelyKeeps
<1>4. QED
  BY <1>2, <1>3 DEF Watched

\* What is enqueued is on its way to the node, new to it, or queued already.
LEMMA EnqueueForgetsNone ==
  ASSUME Watching, NEW n \in Node, NEW m, Entry(m) \in Queued, NEW net \in SUBSET network,
         \A u \in network : u \in net \/ \A p \in Node : ~Frees(u, p, u.id),
         \/ ~FromClient(m) /\ Away(work, queue, network, n, m.id)
         \/ FromClient(m) /\ m.id \in issued' \ issued,
         Enqueue(n, m, net)
  PROVE  Watched(work', queue', network', issued')
<1> DEFINE held == IF work[n].mode = "idle" /\ queue[n] # <<>> THEN Head(queue[n]).msg ELSE m
           q == Append(queue[n], Entry(held))
<1>1. queue[n] \in Seq(Queued)
  BY DEF HandledOK, Watching
<1>2. EndLoop(n, work[n], q, unlocked[n], net)
  BY DEF Enqueue
<1>3. held = m \/ (queue[n] # <<>> /\ held = Head(queue[n]).msg)
  OBVIOUS
<1> HIDE DEF held
<1>4. queue[n] # <<>> => /\ Head(queue[n]) = queue[n][1] /\ 1 \in 1..Len(queue[n])
                         /\ queue[n][1] \in Queued
  BY <1>1
<1>5. Entry(held) \in Queued /\ Entry(held).msg = held
  BY <1>3, <1>4 DEF Entry, Queued
<1>6. /\ q \in Seq(Queued) /\ Len(q) = Len(queue[n]) + 1
      /\ \A i \in 1..Len(queue[n]) : q[i] = queue[n][i]
      /\ q[Len(queue[n]) + 1] = Entry(held)
  BY <1>1, <1>5, AppendProperties
<1> HIDE DEF q
<1>7. ASSUME NEW i \in 1..Len(q)
      PROVE  \/ \E k \in 1..Len(queue[n]) : q[i].msg = queue[n][k].msg
             \/ ~FromClient(q[i].msg) /\ Away(work, queue, network, n, q[i].msg.id)
             \/ FromClient(q[i].msg) /\ q[i].msg.id \in issued' \ issued
  <2>1. CASE i \in 1..Len(queue[n])
    BY <1>6, <2>1
  <2>2. CASE i = Len(queue[n]) + 1
    <3>1. q[i].msg = held
      BY <1>5, <1>6, <2>2
    <3>2. QED
      BY <1>3, <1>4, <3>1
  <2>3. Len(queue[n]) \in Nat
    BY <1>1
  <2>4. QED
    BY <1>6, <2>1, <2>2, <2>3
<1>8. /\ work[n].mode \in Coordinating =>
           \A p \in Members(work[n]) : Away(work, queue, network, p, work[n].req.id)
      /\ \A u \in net : Away(work, queue, network, Peer(u), u.id)
  BY Traces
<1>9. Homely(n, work[n], q, net, issued')
  BY <1>7, <1>8 DEF Homely
<1>10. Careful(n, work[n], net)
  BY DEF Careful, KeepsQuorum, KeepsMessages
<1>11. QED
  BY <1>2, <1>6, <1>9, <1>10, CarefulStep

LEMMA UnlockForgetsNone ==
  ASSUME Watching, NEW n \in Node, NEW m \in network, m.dest = n,
         NEW left \in {network, network \ {m}}, UnlockRequest(n, m, left)
  PROVE  Watched(work', queue', network', issued')
<1> DEFINE w == IF work[n].req.id = m.id THEN Idle ELSE work[n]
<1>1. EndLoop(n, w, queue[n], unlocked'[n], left) /\ m.type = "NodeUnlockRequest"
  BY DEF UnlockRequest
<1>2. m.id \in Txn /\ queue[n] \in Seq(Queued) /\ HomesApart(work, queue, network, issued)
  BY DEF Watching, Watched, HandledOK, NodeMessage
<1>3. Peer(m) = n /\ \A p \in Node : Frees(m, p, m.id) => p = n
  BY <1>1 DEF Peer, RequestKinds, Frees
<1>4. Away(work, queue, network, n, m.id)
  BY <1>3, Traces
<1>5. work[n].req.id = m.id => work[n].mode \notin Coordinating
  BY <1>2, <1>4 DEF HomesApart, AtHome
<1>6. Idle.mode \notin Coordinating \cup {"processingWrite"}
  BY DEF Idle, Coordinating, WritePhases
<1>7. KeepsQuorum(n, w, left)
  BY <1>5, <1>6 DEF KeepsQuorum, Coordinating
<1>8. w.mode = "processingWrite" => w.req.id # m.id
  BY <1>6
<1>9. Homely(n, w, queue[n], left, issued')
  <2>1. CASE w = work[n]
    BY <2>1, PassesHomely
  <2>2. CASE w = Idle
    BY <1>6, <2>2, Traces DEF Homely
  <2>3. QED
    BY <2>1, <2>2
<1> HIDE DEF w
<1>10. KeepsMessages(n, w, left)
  BY <1>3, <1>8 DEF KeepsMessages
<1>11. QED
  BY <1>1, <1>2, <1>7, <1>9, <1>10, CarefulStep DEF Careful

\* A member answers a coordinator that may well have forgotten it.
LEMMA ReplyForgetsNone ==
  ASSUME Watching, NEW n \in Node, NEW m \in network, m.dest = n,
         NEW left \in {network, network \ {m}},
         GetRequest(n, m, left) \/ TimestampRequest(n, m, left) \/ PutRequest(n, m, left)
  PROVE  Watched(work', queue', network', issued')
<1>1. PICK u : /\ u.id = m.id /\ Peer(u) = n
               /\ Proceed(n, work[n], left \cup {u})
  <2>1. \A type, v, ok : type \notin RequestKinds =>
          LET u == Mail(type, m.id, n, m.src, v, ok) IN u.id = m.id /\ Peer(u) = n
    BY DEF Mail, Peer
  <2>2. "NodeGetResponse" \notin RequestKinds /\ "NodePutResponse" \notin RequestKinds
    BY DEF RequestKinds
  <2>3. CASE GetRequest(n, m, left)
    BY <2>1, <2>2, <2>3, ZenonT(40) DEF GetRequest
  <2>4. CASE TimestampRequest(n, m, left)
    <3>1. PICK v : Proceed(n, work[n],
                           left \cup {Mail("NodeGetResponse", m.id, n, m.src, v, TRUE)})
      BY <2>4 DEF TimestampRequest
    <3>2. QED
      BY <2>1, <2>2, <3>1
  <2>5. CASE PutRequest(n, m, left)
    BY <2>1, <2>2, <2>5, SMTT(30) DEF PutRequest
  <2>6. QED
    BY <2>3, <2>4, <2>5
<1>2. m.type \in {"NodeGetRequest", "NodeTimestampRequest", "NodePutRequest"}
  BY DEF GetRequest, TimestampRequest, PutRequest
<1>3. Peer(m) = n /\ \A p \in Node : ~Frees(m, p, m.id)
  BY <1>2 DEF Peer, RequestKinds, Frees
<1>4. Away(work, queue, network, Peer(u), u.id)
  BY <1>1, <1>3, Traces
<1>5. EndLoop(n, work[n], queue[n], unlocked[n], left \cup {u})
  BY <1>1 DEF Proceed
<1>6. QED
  BY <1>3, <1>4, <1>5, CarriesOn

LEMMA LockResponseForgetsNone ==
  ASSUME Watching, NEW n \in Node, NEW m \in network, m.dest = n,
         LockResponse(n, m, network \ {m})
  PROVE  Watched(work', queue', network', issued')
<1> DEFINE left == network \ {m}
<1>1. m.type = "NodeLockResponse" /\ left \in {network, network \ {m}}
  BY DEF LockResponse
<1>2. CASE work[n].req.id = m.id /\ work[n].mode = "assemblingQuorum" /\ Collect(n, m, left)
  BY <1>1, <1>2, CollectForgetsNone
<1>3. CASE Proceed(n, work[n], left \cup Unlock(m, n))
  <2> DEFINE u == Mail("NodeUnlockRequest", m.id, n, m.src, NoVersion, FALSE)
             net == left \cup Unlock(m, n)
  <2>1. EndLoop(n, work[n], queue[n], unlocked[n], net)
    BY <1>3 DEF Proceed
  <2>2. Peer(m) = m.src /\ \A p \in Node : Frees(m, p, m.id) => p = m.src /\ m.ok
    BY <1>1 DEF Peer, RequestKinds, Frees
  <2>3. u.id = m.id /\ Peer(u) = m.src /\ \A p : p = m.src => Frees(u, p, m.id)
    BY DEF Mail, Peer, RequestKinds, Frees
  <2>4. Unlock(m, n) \subseteq {u} /\ (m.ok => Unlock(m, n) = {u})
    BY DEF Unlock
  <2> HIDE DEF u
  <2>5. \A x \in net : Away(work, queue, network, Peer(x), x.id)
    BY <2>2, <2>3, <2>4, Traces
  <2>6. KeepsMessages(n, work[n], net)
    BY <2>2, <2>3, <2>4 DEF KeepsMessages
  <2>7. KeepsQuorum(n, work[n], net)
    BY DEF KeepsQuorum
  <2> HIDE DEF net
  <2>8. Homely(n, work[n], queue[n], net, issued')
    BY <2>5, PassesHomely
  <2>9. Careful(n, work[n], net) /\ queue[n] \in Seq(Queued)
    BY <2>6, <2>7 DEF Careful, Watching, HandledOK
  <2>10. QED
    BY <2>1, <2>8, <2>9, CarefulStep
<1>4. QED
  BY <1>2, <1>3 DEF LockResponse

\* An answer about values or timestamps.
LEMMA ResponseForgetsNone ==
  ASSUME Watching, NEW n \in Node, NEW m \in network, m.dest = n,
         NEW left \in {network, network \ {m}}, GetResponse(n, m, left) \/ PutResponse(n, m, left)
  PROVE  Watched(work', queue', network', issued')
<1>1. m.type \in {"NodeGetResponse", "NodePutResponse"}
  BY DEF GetResponse, PutResponse
<1>2. CASE Proceed(n, work[n], left)
  <2>1. \A p \in Node : ~Frees(m, p, m.id)
    BY <1>1 DEF Frees
  <2>2. EndLoop(n, work[n], queue[n], unlocked[n], left)
    BY <1>2 DEF Proceed
  <2>3. QED
    BY <2>1, <2>2, CarriesOn
<1>3. CASE ~Proceed(n, work[n], left)
  <2>1. CASE GetResponse(n, m, left)
    <3>1. /\ m.type = "NodeGetResponse" /\ work[n].req.id = m.id
          /\ work[n].mode \in {"coordinatingWrite", "coordinatingFastRead"} /\ Collect(n, m, left)
      BY <1>3, <2>1 DEF GetResponse
    <3>2. QED
      BY <3>1, CollectForgetsNone
  <2>2. CASE PutResponse(n, m, left)
    <3>1. /\ m.type = "NodePutResponse" /\ work[n].req.id = m.id
          /\ work[n].mode = "coordinatingWrite" /\ Collect(n, m, left)
      BY <1>3, <2>2 DEF PutResponse
    <3>2. QED
      BY <3>1, CollectForgetsNone
  <2>3. QED
    BY <2>1, <2>2
<1>4. QED
  BY <1>2, <1>3

LEMMA DeliverForgetsNone ==
  ASSUME Watching, NEW m \in network, NEW left \in {network, network \ {m}}, Deliver(m, left)
  PROVE  Watched(work', queue', network', issued')
<1>1. m \in NodeMessage /\ m.dest \in Node
  BY DEF Watching, HandledOK, NodeMessage
<1>2. CASE LockRequest(m.dest, m, left)
  <2>1. m.type = "NodeLockRequestNoTimeout" /\ Enqueue(m.dest, m, left)
    BY <1>2 DEF LockRequest
  <2>2. Entry(m) \in Queued
    BY <1>1, <2>1 DEF Entry, Queued
  <2>3. Peer(m) = m.dest /\ ~FromClient(m) /\ \A p \in Node : ~Frees(m, p, m.id)
    BY <2>1 DEF Peer, RequestKinds, FromClient, ClientKinds, WriteKinds, Frees
  <2>4. Away(work, queue, network, m.dest, m.id)
    BY <2>3, Traces, <1>1
  <2>5. \A u \in network : u \in left \/ \A p \in Node : ~Frees(u, p, u.id)
    BY <2>3
  <2>6. left \in SUBSET network
    OBVIOUS
  <2>7. QED
    BY <1>1, <2>1, <2>2, <2>3, <2>4, <2>5, <2>6, EnqueueForgetsNone
<1>3. CASE LockResponse(m.dest, m, left)
  <2>1. left = network \ {m}
    BY <1>3 DEF LockResponse, Deliver, Receive
  <2>2. QED
    BY <1>1, <1>3, <2>1, LockResponseForgetsNone
<1>4. CASE UnlockRequest(m.dest, m, left)
  BY <1>1, <1>4, UnlockForgetsNone
<1>5. CASE \/ GetRequest(m.dest, m, left) \/ TimestampRequest(m.dest, m, left)
           \/ PutRequest(m.dest, m, left)
  BY <1>1, <1>5, ReplyForgetsNone
<1>6. CASE GetResponse(m.dest, m, left) \/ PutResponse(m.dest, m, left)
  BY <1>1, <1>6, ResponseForgetsNone
<1>7. QED
  BY <1>2, <1>3, <1>4, <1>5, <1>6 DEF Deliver

LEMMA TimersForgetNone ==
  ASSUME Watching, NEW n \in Node, InternalTimer(n) \/ RequestTimeout(n)
  PROVE  Watched(work', queue', network', issued')
<1> DEFINE net == network \cup Unlocks(n, work[n], FALSE)
<1>1. work[n].mode \in Coordinating /\ queue[n] \in Seq(Queued)
  BY DEF InternalTimer, RequestTimeout, Coordinating, Watching, HandledOK
<1>2. Idle.mode \notin Coordinating \cup {"processingWrite"}
  BY DEF Idle, Coordinating, WritePhases
<1>3. LeftOver(work[n], network)
  BY DEF LeftOver
<1>4. Careful(n, Idle, net)
  BY <1>3, QuitsCareful
<1>5. \A u \in Unlocks(n, work[n], FALSE) : u.id = work[n].req.id /\ Peer(u) \in Members(work[n])
  BY UnlocksPeer
<1>6. \A u \in net : Away(work, queue, network, Peer(u), u.id)
  BY <1>1, <1>5, Traces
<1>7. Homely(n, Idle, queue[n], net, issued')
  BY <1>2, <1>6 DEF Homely
<1>8. CASE InternalTimer(n)
  <2>1. EndLoop(n, Idle, queue[n], unlocked[n], net)
    BY <1>8 DEF InternalTimer, Abort, Proceed
  <2>2. QED
    BY <1>1, <1>4, <1>7, <2>1, CarefulStep
<1>9. CASE RequestTimeout(n)
  <2>1. work' = [work EXCEPT ![n] = Idle] /\ network' = net /\ queue' = queue
    BY <1>9 DEF RequestTimeout
  <2>2. queue' = [queue EXCEPT ![n] = queue[n]]
    BY <2>1 DEF Watching, HandledOK
  <2>3. Careful(n, Idle, network') /\ Homely(n, Idle, queue[n], network', issued')
    BY <1>4, <1>7, <2>1
  <2>4. QED
    BY <2>1, <2>2, <2>3, CarefulAlone
<1>10. QED
  BY <1>8, <1>9

LEMMA QueueTimeoutForgetsNone ==
  ASSUME Watching, NEW n \in Node, NEW i \in DOMAIN queue[n], QueueTimeout(n, i)
  PROVE  Watched(work', queue', network', issued')
<1> DEFINE req == queue[n][i].msg
           u == Mail("NodeLockResponse", req.id, n, req.src, NoVersion, FALSE)
           q == Without(queue[n], i)
<1>1. queue[n] \in Seq(Queued) /\ i \in 1..Len(queue[n])
  BY DEF Watching, HandledOK
<1>2. work' = [work EXCEPT ![n] = work[n]] /\ queue' = [queue EXCEPT ![n] = q]
  BY <1>1 DEF QueueTimeout, Without, Watching, HandledOK
<1>3. \A j \in 1..Len(q) : \E k \in 1..Len(queue[n]) : q[j].msg = queue[n][k].msg
  <2>1. Len(q) = Len(queue[n]) - 1
    BY <1>1, WithoutProperties
  <2>2. \A j \in 1..(Len(queue[n]) - 1) : q[j] = queue[n][IF j < i THEN j ELSE j + 1]
    BY <1>1, WithoutProperties
  <2> HIDE DEF q
  <2>3. Len(queue[n]) \in Nat
    BY <1>1
  <2>4. \A j \in 1..Len(q) : (IF j < i THEN j ELSE j + 1) \in 1..Len(queue[n])
    BY <1>1, <2>1, <2>3
  <2>5. QED
    BY <2>1, <2>2, <2>4
<1>4. u.id = req.id /\ Peer(u) = n
  BY DEF Mail, Peer, RequestKinds
<1>5. /\ network \subseteq network'
      /\ \A x \in network' : x \in network \/ (x = u /\ ~FromClient(req))
  BY DEF QueueTimeout, FromClient
<1>6. ~FromClient(req) => Away(work, queue, network, n, req.id)
  BY <1>1 DEF Away
<1>7. \A x \in network' : x \in network \/ Away(work, queue, network, Peer(x), x.id)
  BY <1>4, <1>5, <1>6
<1> HIDE DEF q, u, req
<1>8. /\ work[n].mode \in Coordinating =>
           \A p \in Members(work[n]) : Away(work, queue, network, p, work[n].req.id)
      /\ \A x \in network' : Away(work, queue, network, Peer(x), x.id)
  BY <1>7, Traces
<1>9. Homely(n, work[n], q, network', issued')
  BY <1>3, <1>8 DEF Homely
<1>10. Careful(n, work[n], network')
  BY <1>5 DEF Careful, KeepsQuorum, KeepsMessages
<1>11. QED
  BY <1>2, <1>9, <1>10, CarefulAlone

\* A crash forgets a lock or a read, and keeps the phases of a write.
LEMMA FailForgetsNone ==
  ASSUME Watching, NEW n \in Node, Fail(n)
  PROVE  Watched(work', queue', network', issued')
<1>1. queue' = [queue EXCEPT ![n] = queue[n]] /\ network' = network
  BY DEF Fail, Watching, HandledOK
<1>2. Idle.mode \notin Coordinating \cup {"processingWrite"}
  BY DEF Idle, Coordinating, WritePhases
<1>3. PICK w : /\ work' = [work EXCEPT ![n] = w]
               /\ w = work[n] \/ (w = Idle /\ work[n].mode \notin WritePhases)
  <2>1. CASE work[n].mode \in WritePhases
    <3>1. work' = [work EXCEPT ![n] = work[n]]
      BY <2>1 DEF Fail, Watching, HandledOK
    <3>2. QED
      BY <3>1
  <2>2. CASE work[n].mode \notin WritePhases
    BY <2>2 DEF Fail
  <2>3. QED
    BY <2>1, <2>2
<1>4. Careful(n, w, network')
  BY <1>1, <1>2, <1>3 DEF Careful, KeepsQuorum, KeepsMessages
<1>5. Homely(n, w, queue[n], network', issued')
  <2>1. CASE w = work[n]
    BY <1>1, <2>1, PassesHomely
  <2>2. CASE w = Idle
    BY <1>1, <1>2, <2>2, Traces DEF Homely
  <2>3. QED
    BY <1>3, <2>1, <2>2
<1>6. QED
  BY <1>1, <1>3, <1>4, <1>5, CarefulAlone

\* A step that changes none of what the invariant is about.
LEMMA SameTraces ==
  ASSUME Watched(work, queue, network, issued), network' = network, issued' = issued,
         \A n \in Node : /\ work'[n].mode = work[n].mode /\ work'[n].req = work[n].req
                         /\ work'[n].members = work[n].members
                         /\ Len(queue'[n]) = Len(queue[n])
                         /\ \A i \in 1..Len(queue[n]) : queue'[n][i].msg = queue[n][i].msg
  PROVE  Watched(work', queue', network', issued')
<1>1. NoneForgotten(work', network')
  BY DEF Watched, NoneForgotten, CaredFor, Members
<1>2. \A b \in Node, t \in Txn : AtHome(work', queue', b, t) => AtHome(work, queue, b, t)
  BY DEF AtHome
<1>3. \A b \in Node, t \in Txn : Away(work', queue', network', b, t) => Away(work, queue, network, b, t)
  BY DEF Away, Members
<1>4. QED
  BY <1>1, <1>2, <1>3 DEF Watched, HomesApart

LEMMA SignalLostForgetsNone ==
  ASSUME Watching, NEW n \in Node, SignalLost(n)
  PROVE  Watched(work', queue', network', issued')
<1>1. network' = network /\ issued' = issued
  BY DEF SignalLost, others
<1>2. \A p \in Node : /\ work'[p].mode = work[p].mode /\ work'[p].req = work[p].req
                      /\ work'[p].members = work[p].members
  <2>1. work[n] \in Work /\ \A p \in Node : work[p] \in Work
    BY DEF Watching, HandledOK
  <2>2. LET w == [work[n] EXCEPT !.timed = FALSE] IN
          w.mode = work[n].mode /\ w.req = work[n].req /\ w.members = work[n].members
    BY <2>1 DEF Work
  <2>3. QED
    BY <2>2 DEF SignalLost, Watching, HandledOK
<1>3. ASSUME NEW p \in Node
      PROVE  /\ Len(queue'[p]) = Len(queue[p])
             /\ \A i \in 1..Len(queue[p]) : queue'[p][i].msg = queue[p][i].msg
  <2>1. CASE queue' = queue
    BY <2>1
  <2>2. CASE \E j \in DOMAIN queue[n] : queue' = [queue EXCEPT ![n][j].timed = FALSE]
    <3>1. PICK j \in DOMAIN queue[n] : queue' = [queue EXCEPT ![n][j].timed = FALSE]
      BY <2>2
    <3>2. /\ queue[n] \in Seq(Queued) /\ queue[p] \in Seq(Queued)
          /\ j \in 1..Len(queue[n]) /\ queue[n][j] \in Queued
      BY <3>1 DEF Watching, HandledOK
    <3>3. [queue[n][j] EXCEPT !.timed = FALSE].msg = queue[n][j].msg
      BY <3>2 DEF Queued
    <3>4. CASE p = n
      <4>1. queue'[p] = [queue[n] EXCEPT ![j] = [queue[n][j] EXCEPT !.timed = FALSE]]
        BY <3>1, <3>4 DEF Watching, HandledOK
      <4>2. QED
        BY <3>2, <3>3, <3>4, <4>1
    <3>5. CASE p # n
      BY <3>1, <3>5 DEF Watching, HandledOK
    <3>6. QED
      BY <3>4, <3>5
  <2>3. QED
    BY <2>1, <2>2 DEF SignalLost
<1>4. Watched(work, queue, network, issued)
  BY DEF Watching
<1>5. QED
  BY <1>1, <1>2, <1>3, <1>4, SameTraces

LEMMA RequestForgetsNone ==
  ASSUME Watching, NEW n \in Node, NEW t \in Txn, ClientRequest(n, t) \/ LocalRead(n, t)
  PROVE  Watched(work', queue', network', issued')
<1>1. CASE ClientRequest(n, t)
  <2> DEFINE m == Request(t, n)
  <2>1. Enqueue(n, m, network) /\ Entry(m) \in Queued
    BY <1>1, RequestType DEF ClientRequest
  <2>2. t \in issued' \ issued
    BY <1>1 DEF ClientRequest, Issue
  <2>3. m.id = t /\ FromClient(m)
    BY TxnAssumption DEF Request, Mail, FromClient
  <2>4. network \in SUBSET network
    OBVIOUS
  <2> HIDE DEF m
  <2>5. QED
    BY <2>1, <2>2, <2>3, <2>4, EnqueueForgetsNone
<1>2. CASE LocalRead(n, t)
  <2>1. EndLoop(n, work[n], queue[n], unlocked[n], network)
    BY <1>2 DEF LocalRead, Proceed
  <2>2. QED
    BY <2>1, CarriesOn
<1>3. QED
  BY <1>1, <1>2

LEMMA StepForgetsNone ==
  ASSUME TypeOK, LockInv, [Next]_vars
  PROVE  LockInv'
<1>1. HandledOK /\ Watched(work, queue, network, issued)
  BY TypeParts DEF LockInv, NoOrphanLock, Watched, NoneForgotten, CaredFor, Frees
<1>2. Watching
  BY <1>1 DEF Watching, Next, ClientRequest, LocalRead, Issue, Deliver, InternalTimer, Loop,
              Elect, RequestTimeout, SignalLost, Fail, Recover, QueueTimeout, others, vars
<1>3. Watched(work', queue', network', issued')
  <2>1. ASSUME NEW n \in Node, NEW t \in Txn, ClientRequest(n, t) \/ LocalRead(n, t)
        PROVE  Watched(work', queue', network', issued')
    BY <1>2, <2>1, RequestForgetsNone
  <2>2. ASSUME NEW m \in network, NEW net \in {network, network \ {m}}, Deliver(m, net)
        PROVE  Watched(work', queue', network', issued')
    BY <1>2, <2>2, DeliverForgetsNone
  <2>3. ASSUME NEW n \in Node, InternalTimer(n) \/ RequestTimeout(n)
        PROVE  Watched(work', queue', network', issued')
    BY <1>2, <2>3, TimersForgetNone
  <2>4. ASSUME NEW n \in Node, Loop(n) \/ Elect(n)
        PROVE  Watched(work', queue', network', issued')
    <3>1. PICK done : EndLoop(n, work[n], queue[n], done, network)
      BY <2>4 DEF Loop, Elect, Proceed
    <3>2. QED
      BY <1>2, <3>1, CarriesOn
  <2>5. ASSUME NEW n \in Node, SignalLost(n) \/ Fail(n)
        PROVE  Watched(work', queue', network', issued')
    BY <1>2, <2>5, SignalLostForgetsNone, FailForgetsNone
  <2>6. CASE (\E n \in Node : Recover(n)) \/ UNCHANGED vars
    BY <1>1, <2>6 DEF Recover, vars
  <2>7. ASSUME NEW n \in Node, NEW i \in DOMAIN queue[n], QueueTimeout(n, i)
        PROVE  Watched(work', queue', network', issued')
    BY <1>2, <2>7, QueueTimeoutForgetsNone
  <2>8. QED
    BY <2>1, <2>2, <2>3, <2>4, <2>5, <2>6, <2>7 DEF Next
<1>4. QED
  BY <1>3 DEF LockInv, NoOrphanLock, Watched, NoneForgotten, CaredFor, Frees

\* A lock, whoever gave it, is never forgotten: whatever messages are lost or
\* repeated and whatever nodes crash, its coordinator still has the member in its
\* quorum, or what frees the member is on the way (handleLockRes, handleUnlockReq,
\* abortProcessing).
THEOREM NoLockForgotten == Spec => []NoOrphanLock
<1>1. Init => LockInv
  <2> SUFFICES ASSUME Init PROVE LockInv
    OBVIOUS
  <2>1. \A n \in Node : work[n].mode = "idle" /\ Len(queue[n]) = 0
    BY DEF Init, Idle
  <2>2. network = {}
    BY DEF Init
  <2>3. NoOrphanLock
    BY <2>1 DEF NoOrphanLock
  <2>4. HomesApart(work, queue, network, issued)
    BY <2>1, <2>2 DEF HomesApart, AtHome, Away, Coordinating, WritePhases
  <2>5. QED
    BY <2>3, <2>4 DEF LockInv
<1>2. TypeOK /\ LockInv /\ [Next]_vars => LockInv'
  BY StepForgetsNone
<1>3. LockInv => NoOrphanLock
  BY DEF LockInv
<1>4. QED
  BY <1>1, <1>2, <1>3, TypeCorrect, PTL DEF Spec

=============================================================================
