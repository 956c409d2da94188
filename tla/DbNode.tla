------------------------------- MODULE DbNode -------------------------------
(***************************************************************************)
(* The quorum-assembly protocol of dbnode/dbnode.go: every database node's *)
(* main loop, the messages the nodes exchange, and what clients are told.  *)
(*                                                                         *)
(* A write locks a quorum, asks its members for timestamps, stages the new *)
(* value on all of them, commits locally, answers the client and only then *)
(* tells the members to commit and unlock.  A read (const fastReads) asks  *)
(* a quorum for its values without locking.                                *)
(*                                                                         *)
(* One key is modelled: locks are per node, not per key.  The value of a   *)
(* write is its transaction id.  Quorums have two members or more.         *)
(***************************************************************************)
EXTENDS Naturals, Sequences, FiniteSets

CONSTANTS
  Node,             \* database node ids
  Client,           \* the address replies go to
  Txn,              \* transaction ids
  Kind,             \* the request each transaction makes
  ExpectedTs,       \* the timestamp a ClientStrongWriteRequest demands
  ReadQuorumSize,
  WriteQuorumSize,
  CleanWindow,      \* how far back cleanUnlockTxids keeps ids (50 in the code)
  MaxResends,       \* bound: repeater duplicates in one behaviour
  MaxCrashes,       \* bound: ControlFail messages in one behaviour
  MaxOverwrites     \* bound: requests overwritten in a queue (see Enqueue)

WriteKinds == {"ClientWriteRequest", "ClientStrongWriteRequest"}
ClientKinds == WriteKinds \cup {"ClientReadRequest"}

ASSUME NodeAssumption == IsFiniteSet(Node) /\ Client \notin Node
ASSUME TxnAssumption ==
  /\ Txn \subseteq Nat \ {0}
  /\ Kind \in [Txn -> ClientKinds]
  /\ ExpectedTs \in [Txn -> Nat]
ASSUME QuorumAssumption ==     \* net/manager.go: wqs > n/2, and W = 1 is local
  /\ ReadQuorumSize \in 1..Cardinality(Node)
  /\ WriteQuorumSize \in 2..Cardinality(Node)
  /\ 2 * WriteQuorumSize > Cardinality(Node)
ASSUME BoundAssumption ==
  CleanWindow \in Nat /\ MaxResends \in Nat /\ MaxCrashes \in Nat /\ MaxOverwrites \in Nat

VARIABLES
  work,        \* currentMode, clientRequest, quorumMembers, numWaitingNodes
  store,       \* the committed version in Store
  staged,      \* uncommitedTxid and uncommitedKey: the version put, not committed
  unlocked,    \* unlockTxids
  queue,       \* lockRequests
  down,        \* disabled
  network,     \* node-to-node messages sent and not delivered
  replies,     \* ClientReadResponse and ClientWriteResponse messages sent
  issued,      \* transactions whose request reached a node
  floor,       \* history: the newest timestamp reported before each request
  resends,     \* repeater duplicates so far
  crashes,     \* crashes so far
  overwrites   \* requests overwritten in a queue so far

vars == <<work, store, staged, unlocked, queue, down, network, replies,
          issued, floor, resends, crashes, overwrites>>

-----------------------------------------------------------------------------
(* Data *)

Version == [ts : Nat, val : Txn \cup {0}]
NoVersion == [ts |-> 0, val |-> 0]     \* an empty store, or nothing staged

NodeKinds == {"NodeLockRequestNoTimeout", "NodeLockResponse", "NodeUnlockRequest",
              "NodeGetRequest", "NodeGetResponse", "NodeTimestampRequest",
              "NodePutRequest", "NodePutResponse"}

RequestKinds == {"NodeLockRequestNoTimeout", "NodeUnlockRequest", "NodeGetRequest",
                 "NodeTimestampRequest", "NodePutRequest"}

ClientMessage == [type : ClientKinds, id : Txn, src : {Client}, dest : Node,
                  ts : Nat, val : Txn \cup {0}, ok : BOOLEAN]
NodeMessage == [type : NodeKinds, id : Txn, src : Node, dest : Node,
                ts : Nat, val : Txn \cup {0}, ok : BOOLEAN]

Mail(type, id, src, dest, version, ok) ==
  [type |-> type, id |-> id, src |-> src, dest |-> dest,
   ts |-> version.ts, val |-> version.val, ok |-> ok]

Request(t, n) ==     \* Data of a client request: the timestamp it demands
  Mail(Kind[t], t, Client, n, [ts |-> ExpectedTs[t], val |-> t], TRUE)

NoRequest == [type |-> "none", id |-> 0]

\* A queued request, and whether its timedOutLockRequests signal is still to come.
\* With ReadQuorumSize = 1 reads are local and never queued.
Queued ==
  [msg : {m \in ClientMessage : m.type = "ClientReadRequest" => ReadQuorumSize > 1} \cup
         {m \in NodeMessage : m.type = "NodeLockRequestNoTimeout"},
   timed : BOOLEAN]
Entry(m) == [msg |-> m, timed |-> TRUE]

\* An entry of quorumMembers: the request sent to that member, or its answer.
NoAnswer == [type |-> "none", ts |-> 0, val |-> 0]
Answer == [type : NodeKinds \cup {"none"}, ts : Nat, val : Txn \cup {0}]
NoMembers == [m \in Node |-> NoAnswer]

\* step is the marker quorumMembers[n.id]: what to send once all have answered.
Steps == {"none", "NodeTimestampRequest", "NodePutRequest", "NodeUnlockRequest"}
Modes == {"idle", "assemblingQuorum", "coordinatingWrite", "processingWrite",
          "coordinatingFastRead"}
WritePhases == {"assemblingQuorum", "coordinatingWrite"}
Coordinating == WritePhases \cup {"coordinatingFastRead"}

Idle == [mode |-> "idle", req |-> NoRequest, timed |-> FALSE, step |-> "none", ts |-> 0,
         members |-> NoMembers, waiting |-> 0]

\* A mode's record is complete: an idle node has forgotten its request, and a
\* coordinator still awaits an answer.
Work ==
  {w \in [mode : Modes, req : ClientMessage \cup NodeMessage \cup {NoRequest},
          timed : BOOLEAN, step : Steps, ts : Nat, members : [Node -> Answer],
          waiting : Nat] :
     /\ w.mode = "idle" => w = Idle
     /\ w.mode = "processingWrite" => w.req \in NodeMessage
     /\ w.mode \in Coordinating => w.req \in ClientMessage /\ w.waiting > 0}

Members(w) == {m \in Node : w.members[m] # NoAnswer}
ToMembers(type, n, w, version, ok) ==
  {Mail(type, w.req.id, n, m, version, ok) : m \in Members(w)}

Reply(type, id, version, ok) ==
  [type |-> type, id |-> id, ts |-> version.ts, val |-> version.val, ok |-> ok]
ReplyTo(req) == IF req.type = "ClientReadRequest" THEN "ClientReadResponse"
                                                   ELSE "ClientWriteResponse"
Refusal(req, ts) == Reply(ReplyTo(req), req.id, [ts |-> ts, val |-> req.val], FALSE)

\* A member of a nonempty set of versions that no other is newer than.
IsNewest(v, vs) == v \in vs /\ \A u \in vs : u.ts <= v.ts

-----------------------------------------------------------------------------
(* assembleQuorum and the end of the main loop *)

Peers(n, k) == {Q \in SUBSET (Node \ {n}) : Cardinality(Q) = k - 1}

\* assembleQuorum: the state of a node that coordinates e over the given peers.
Assembled(mode, e, peers, type, step) ==
  [mode |-> mode, req |-> e.msg, timed |-> e.timed, step |-> step, ts |-> 0,
   waiting |-> Cardinality(peers),
   members |-> [m \in Node |->
                 IF m \in peers THEN [NoAnswer EXCEPT !.type = type] ELSE NoAnswer]]

BeginWrite(n, e, net) ==
  /\ e.msg.type \in WriteKinds
  /\ \E peers \in Peers(n, WriteQuorumSize) :
       LET w == Assembled("assemblingQuorum", e, peers,
                          "NodeLockRequestNoTimeout", "NodeTimestampRequest") IN
       /\ work' = [work EXCEPT ![n] = w]
       /\ network' = net \cup ToMembers("NodeLockRequestNoTimeout", n, w, NoVersion, TRUE)

BeginRead(n, e, net) ==
  /\ e.msg.type = "ClientReadRequest"
  /\ \E peers \in Peers(n, ReadQuorumSize) :
       LET w == Assembled("coordinatingFastRead", e, peers, "NodeGetRequest", "none") IN
       /\ work' = [work EXCEPT ![n] = w]
       /\ network' = net \cup ToMembers("NodeGetRequest", n, w, NoVersion, TRUE)

Serving(e) == [Idle EXCEPT !.mode = "processingWrite", !.req = e.msg, !.timed = e.timed]

BeginLock(n, e, net) ==
  /\ e.msg.type = "NodeLockRequestNoTimeout"
  /\ work' = [work EXCEPT ![n] = Serving(e)]
  /\ network' = net \cup {Mail("NodeLockResponse", e.msg.id, n, e.msg.src, NoVersion, TRUE)}

\* Mutant of EndLoop: a locked node serves the next request too.
EndLoopWhileLocked(n, w, q, done, net) ==
  \/ /\ w.mode \notin {"idle", "processingWrite"} \/ q = <<>>
     /\ work' = [work EXCEPT ![n] = w]
     /\ queue' = [queue EXCEPT ![n] = q]
     /\ network' = net
  \/ /\ w.mode \in {"idle", "processingWrite"} /\ q # <<>>
     /\ queue' = [queue EXCEPT ![n] = Tail(q)]
     /\ \/ BeginWrite(n, Head(q), net)
        \/ BeginRead(n, Head(q), net)
        \/ BeginLock(n, Head(q), net)

\* What every iteration that handles an Incoming message ends with: an idle
\* node takes the request at the head of its queue, dropping it when its unlock
\* has already been received.  w, q, done and net are the node's work, queue
\* and unlockTxids and the network as the handler left them.
EndLoop(n, w, q, done, net) ==
  \/ /\ w.mode # "idle" \/ q = <<>>
     /\ work' = [work EXCEPT ![n] = w]
     /\ queue' = [queue EXCEPT ![n] = q]
     /\ network' = net
  \/ /\ w.mode = "idle" /\ q # <<>> /\ Head(q).msg.id \in done
     /\ work' = [work EXCEPT ![n] = w]
     /\ queue' = [queue EXCEPT ![n] = Tail(q)]
     /\ network' = net
  \/ /\ w.mode = "idle" /\ q # <<>> /\ Head(q).msg.id \notin done
     /\ queue' = [queue EXCEPT ![n] = Tail(q)]
     /\ \/ BeginWrite(n, Head(q), net)
        \/ BeginRead(n, Head(q), net)
        \/ BeginLock(n, Head(q), net)

Proceed(n, w, net) == EndLoop(n, w, queue[n], unlocked[n], net)

\* lockRequests.enqueue(&msg), with the end of the loop.  The queue holds a
\* pointer to the loop's variable msg, and the dequeue assigns to that variable:
\* when an idle node already has requests waiting, the entry just enqueued is
\* overwritten by the request at the head of the queue.
Enqueue(n, m, net) ==
  LET overwritten == work[n].mode = "idle" /\ queue[n] # <<>>
      held == IF overwritten THEN Head(queue[n]).msg ELSE m
  IN /\ EndLoop(n, work[n], Append(queue[n], Entry(held)), unlocked[n], net)
     /\ \/ held = m /\ UNCHANGED overwrites
        \/ held # m /\ overwrites < MaxOverwrites /\ overwrites' = overwrites + 1

-----------------------------------------------------------------------------
(* Delivery.  The network drops messages (they are then never delivered), and *)
(* delays and reorders them without bound.  The repeater resends a request    *)
(* until it is answered: a resent copy is a message that is still in flight   *)
(* when the first copy is handled, and its answer may be doubled the same     *)
(* way.  A duplicate lock request is queued, so its answer is not doubled.    *)

Receive(m, net) ==
  /\ ~down[m.dest]
  /\ \/ net = network \ {m} /\ UNCHANGED resends
     \/ /\ net = network /\ m.type # "NodeLockResponse"
        /\ resends < MaxResends /\ resends' = resends + 1

-----------------------------------------------------------------------------
(* abortProcessing and continueProcessing *)

\* Mutant of GiveUp: the client is not told.
GiveUpSilently(n, w, ts) ==
  staged' = [staged EXCEPT ![n] = NoVersion] /\ UNCHANGED <<store, replies>>

\* abortProcessing, but for what becomes of the node's mode: roll back, answer
\* the client of a write (never of a fast read).  ts is clientRequest.Timestamp.
GiveUp(n, w, ts) ==
  /\ staged' = [staged EXCEPT ![n] = NoVersion]
  /\ replies' = IF w.mode \in WritePhases THEN replies \cup {Refusal(w.req, ts)}
                                          ELSE replies
  /\ UNCHANGED store

Unlocks(n, w, ok) == ToMembers("NodeUnlockRequest", n, w, NoVersion, ok)

\* Mutants of Abort: the request is not forgotten; the quorum is not told.
AbortKeepsRequest(n, w, ts, net) ==
  /\ GiveUp(n, w, ts)
  /\ Proceed(n, [w EXCEPT !.mode = "idle"], net \cup Unlocks(n, w, FALSE))
AbortAlone(n, w, ts, net) ==
  GiveUp(n, w, ts) /\ Proceed(n, Idle, net)

Abort(n, w, ts, net) ==
  GiveUp(n, w, ts) /\ Proceed(n, Idle, net \cup Unlocks(n, w, FALSE))

\* Mutant of FinishRead: the coordinator answers what it has stored itself.
FinishReadOwn(n, w, net) ==
  /\ w.mode = "coordinatingFastRead"
  /\ replies' = replies \cup {Reply("ClientReadResponse", w.req.id, store[n], TRUE)}
  /\ Proceed(n, Idle, net)
  /\ UNCHANGED <<store, staged>>

FinishRead(n, w, net) ==
  /\ w.mode = "coordinatingFastRead"
  /\ LET known == {store[n]} \cup
                    {[ts |-> w.members[m].ts, val |-> w.members[m].val] : m \in Members(w)}
     IN \E v \in known :
          /\ IsNewest(v, known)
          /\ v.ts = store[n].ts => v = store[n]
          /\ replies' = replies \cup {Reply("ClientReadResponse", w.req.id, v, TRUE)}
  /\ Proceed(n, Idle, net)
  /\ UNCHANGED <<store, staged>>

\* A write coordinator that has sent a request to all its quorum: what it sends
\* next, and the timestamp it writes.
Awaiting(w, step, ts) ==
  [mode |-> "coordinatingWrite", req |-> w.req, timed |-> w.timed, step |-> step, ts |-> ts,
   members |-> w.members, waiting |-> WriteQuorumSize - 1]

AskTimestamps(n, w, net) ==
  /\ w.mode = "assemblingQuorum"
  /\ Proceed(n, Awaiting(w, "NodePutRequest", 0),
             net \cup ToMembers("NodeTimestampRequest", n, w, NoVersion, TRUE))
  /\ UNCHANGED <<store, staged, replies>>

\* Mutant of Stage: the coordinator's own timestamp is taken for the latest.
StageOwnTimestamp(n, w, net) ==
  LET v == [ts |-> store[n].ts + 1, val |-> w.req.id] IN
  /\ w.mode = "coordinatingWrite" /\ w.step = "NodePutRequest"
  /\ staged' = [staged EXCEPT ![n] = v]
  /\ Proceed(n, Awaiting(w, "NodeUnlockRequest", v.ts),
             net \cup ToMembers("NodePutRequest", n, w, v, TRUE))
  /\ UNCHANGED <<store, replies>>

Stage(n, w, net) ==
  /\ w.mode = "coordinatingWrite" /\ w.step = "NodePutRequest"
  /\ \E latest \in {store[n].ts} \cup {w.members[m].ts : m \in Members(w)} :
       LET v == [ts |-> latest + 1, val |-> w.req.id] IN
       /\ store[n].ts <= latest
       /\ \A m \in Members(w) : w.members[m].ts <= latest
       /\ \/ /\ w.req.type = "ClientStrongWriteRequest" /\ w.req.ts # v.ts
             /\ Abort(n, w, v.ts, net)
          \/ /\ w.req.type = "ClientStrongWriteRequest" => w.req.ts = v.ts
             /\ staged' = [staged EXCEPT ![n] = v]
             /\ Proceed(n, Awaiting(w, "NodeUnlockRequest", v.ts),
                        net \cup ToMembers("NodePutRequest", n, w, v, TRUE))
             /\ UNCHANGED <<store, replies>>

\* Mutant of Commit: the members are told to abort.
CommitAlone(n, w, net) ==
  /\ w.mode = "coordinatingWrite" /\ w.step = "NodeUnlockRequest"
  /\ store' = [store EXCEPT ![n] = staged[n]]
  /\ staged' = [staged EXCEPT ![n] = NoVersion]
  /\ replies' = replies \cup {Reply("ClientWriteResponse", w.req.id,
                                    [ts |-> w.ts, val |-> w.req.val], TRUE)}
  /\ Proceed(n, Idle, net \cup Unlocks(n, w, FALSE))

Commit(n, w, net) ==
  /\ w.mode = "coordinatingWrite" /\ w.step = "NodeUnlockRequest"
  /\ store' = [store EXCEPT ![n] = staged[n]]
  /\ staged' = [staged EXCEPT ![n] = NoVersion]
  /\ replies' = replies \cup {Reply("ClientWriteResponse", w.req.id,
                                    [ts |-> w.ts, val |-> w.req.val], TRUE)}
  /\ Proceed(n, Idle, net \cup Unlocks(n, w, TRUE))

ContinueProcessing(n, w, net) ==
  \/ FinishRead(n, w, net)
  \/ AskTimestamps(n, w, net)
  \/ Stage(n, w, net)
  \/ Commit(n, w, net)

\* The answer m replaces what the coordinator knew of its sender.
Counted(w, m) ==
  [mode |-> w.mode, req |-> w.req, timed |-> w.timed, step |-> w.step, ts |-> w.ts,
   members |-> [w.members EXCEPT ![m.src] = [type |-> m.type, ts |-> m.ts, val |-> m.val]],
   waiting |-> w.waiting - 1]

\* Mutant of Collect: an error counts as an answer.
CollectErrors(n, m, net) ==
  LET w == Counted(work[n], m)
      duplicate == work[n].members[m.src].type = m.type
  IN \/ duplicate /\ Proceed(n, work[n], net) /\ UNCHANGED <<store, staged, replies>>
     \/ /\ ~duplicate /\ w.waiting # 0
        /\ Proceed(n, w, net) /\ UNCHANGED <<store, staged, replies>>
     \/ ~duplicate /\ w.waiting = 0 /\ ContinueProcessing(n, w, net)

\* The common part of handleLockRes, handleGetRes and handlePutRes: an error
\* aborts, a second answer of the same type is ignored, the last one continues.
Collect(n, m, net) ==
  LET w == Counted(work[n], m)
      duplicate == work[n].members[m.src].type = m.type
  IN \/ ~m.ok /\ Abort(n, work[n], work[n].req.ts, net)
     \/ m.ok /\ duplicate /\ Proceed(n, work[n], net) /\ UNCHANGED <<store, staged, replies>>
     \/ /\ m.ok /\ ~duplicate /\ w.waiting # 0
        /\ Proceed(n, w, net) /\ UNCHANGED <<store, staged, replies>>
     \/ m.ok /\ ~duplicate /\ w.waiting = 0 /\ ContinueProcessing(n, w, net)

-----------------------------------------------------------------------------
(* The handlers: one action per case of the main loop's switch. *)

\* The request of t reaches a node; floor[t] records what t must observe.
Issue(t) ==
  /\ t \notin issued
  /\ issued' = issued \cup {t}
  /\ \E newest \in {0} \cup {r.ts : r \in {x \in replies : x.ok}} :
       /\ \A r \in replies : r.ok => r.ts <= newest
       /\ floor' = [floor EXCEPT ![t] = newest]

\* The elector decides which node enqueues a write; during an election any node
\* may believe it is the leader, so here any node may be.
ClientRequest(n, t) ==
  /\ ~down[n]
  /\ Kind[t] = "ClientReadRequest" => ReadQuorumSize > 1
  /\ Issue(t)
  /\ Enqueue(n, Request(t, n), network)
  /\ UNCHANGED <<store, staged, unlocked, down, replies, resends, crashes>>

\* Mutant of LocalRead: what is staged does not delay the read.
LocalReadAnyway(n, t) ==
  /\ ~down[n]
  /\ Kind[t] = "ClientReadRequest" /\ ReadQuorumSize = 1
  /\ Issue(t)
  /\ replies' = replies \cup {Reply("ClientReadResponse", t, store[n], TRUE)}
  /\ Proceed(n, work[n], network)
  /\ UNCHANGED <<store, staged, unlocked, down, resends, crashes, overwrites>>

\* processLocalRead.  While a version is staged the request is sent back to the
\* node itself: it is handled once nothing is staged.
LocalRead(n, t) ==
  /\ ~down[n]
  /\ Kind[t] = "ClientReadRequest" /\ ReadQuorumSize = 1
  /\ staged[n] = NoVersion
  /\ Issue(t)
  /\ replies' = replies \cup {Reply("ClientReadResponse", t, store[n], TRUE)}
  /\ Proceed(n, work[n], network)
  /\ UNCHANGED <<store, staged, unlocked, down, resends, crashes, overwrites>>

LockRequest(n, m, net) ==
  /\ m.type = "NodeLockRequestNoTimeout"
  /\ Enqueue(n, m, net)
  /\ UNCHANGED <<store, staged, unlocked, replies>>

\* Mutant of LockResponse: a lock nobody waits for is not given back.
LockResponseDropped(n, m, net) ==
  /\ m.type = "NodeLockResponse"
  /\ \/ work[n].req.id = m.id /\ work[n].mode = "assemblingQuorum" /\ Collect(n, m, net)
     \/ /\ work[n].req.id # m.id \/ work[n].mode # "assemblingQuorum"
        /\ Proceed(n, work[n], net)
        /\ UNCHANGED <<store, staged, replies>>
  /\ UNCHANGED <<unlocked, overwrites>>

\* handleLockRes: a lock nobody waits for any more is given back.
Unlock(m, n) ==
  IF m.ok THEN {Mail("NodeUnlockRequest", m.id, n, m.src, NoVersion, FALSE)} ELSE {}

LockResponse(n, m, net) ==
  /\ m.type = "NodeLockResponse"
  /\ \/ work[n].req.id = m.id /\ work[n].mode = "assemblingQuorum" /\ Collect(n, m, net)
     \/ /\ work[n].req.id # m.id \/ work[n].mode # "assemblingQuorum"
        /\ Proceed(n, work[n], net \cup Unlock(m, n))
        /\ UNCHANGED <<store, staged, replies>>
  /\ UNCHANGED <<unlocked, overwrites>>

\* Mutant of UnlockRequest: an abort commits as well.
UnlockRequestCommits(n, m, net) ==
  /\ m.type = "NodeUnlockRequest"
  /\ store' = IF work[n].req.id = m.id /\ staged[n] # NoVersion
              THEN [store EXCEPT ![n] = staged[n]] ELSE store
  /\ staged' = IF work[n].req.id = m.id THEN [staged EXCEPT ![n] = NoVersion] ELSE staged
  /\ unlocked' = [unlocked EXCEPT ![n] = @ \cup {m.id}]
  /\ EndLoop(n, IF work[n].req.id = m.id THEN Idle ELSE work[n],
             queue[n], unlocked'[n], net)
  /\ UNCHANGED <<replies, overwrites>>

\* handleUnlockReq.  ok means commit; without it the staged version stays put.
\* The NodeUnlockAck it sends only stops the repeater (handleUnlockAck).
UnlockRequest(n, m, net) ==
  /\ m.type = "NodeUnlockRequest"
  /\ \/ /\ work[n].req.id = m.id /\ staged[n] # NoVersion /\ m.ok
        /\ store' = [store EXCEPT ![n] = staged[n]]
        /\ staged' = [staged EXCEPT ![n] = NoVersion]
     \/ /\ ~(work[n].req.id = m.id /\ staged[n] # NoVersion /\ m.ok)
        /\ UNCHANGED <<store, staged>>
  /\ unlocked' = [unlocked EXCEPT ![n] = @ \cup {m.id}]
  /\ EndLoop(n, IF work[n].req.id = m.id THEN Idle ELSE work[n],
             queue[n], unlocked'[n], net)
  /\ UNCHANGED <<replies, overwrites>>

\* handleGetReq: with fast reads, any node answers unless a version is staged.
GetRequest(n, m, net) ==
  /\ m.type = "NodeGetRequest"
  /\ LET ok == staged[n] = NoVersion
         v == IF ok THEN store[n] ELSE NoVersion
     IN Proceed(n, work[n], net \cup {Mail("NodeGetResponse", m.id, n, m.src, v, ok)})
  /\ UNCHANGED <<store, staged, unlocked, replies, overwrites>>

\* Mutant of TimestampRequest: only an idle node reports its timestamp.
TimestampRequestIdle(n, m, net) ==
  /\ m.type = "NodeTimestampRequest"
  /\ LET v == [ts |-> IF work[n].mode = "idle" THEN store[n].ts ELSE 0, val |-> 0]
     IN Proceed(n, work[n], net \cup {Mail("NodeGetResponse", m.id, n, m.src, v, TRUE)})
  /\ UNCHANGED <<store, staged, unlocked, replies, overwrites>>

\* handleTimestampReq answers ok even to a transaction that holds no lock.
TimestampRequest(n, m, net) ==
  /\ m.type = "NodeTimestampRequest"
  /\ LET held == work[n].mode = "processingWrite" /\ work[n].req.id = m.id
         v == [ts |-> IF held THEN store[n].ts ELSE 0, val |-> 0]
     IN Proceed(n, work[n], net \cup {Mail("NodeGetResponse", m.id, n, m.src, v, TRUE)})
  /\ UNCHANGED <<store, staged, unlocked, replies, overwrites>>

GetResponse(n, m, net) ==
  /\ m.type = "NodeGetResponse"
  /\ LET mine == /\ work[n].req.id = m.id
                 /\ work[n].mode \in {"coordinatingWrite", "coordinatingFastRead"}
     IN \/ mine /\ Collect(n, m, net)
        \/ ~mine /\ Proceed(n, work[n], net) /\ UNCHANGED <<store, staged, replies>>
  /\ UNCHANGED <<unlocked, overwrites>>

\* handlePutReq: only the holder of the transaction's lock stages the version.
PutRequest(n, m, net) ==
  /\ m.type = "NodePutRequest"
  /\ LET held == work[n].mode = "processingWrite" /\ work[n].req.id = m.id
         v == [ts |-> m.ts, val |-> m.val]
     IN /\ staged' = IF held THEN [staged EXCEPT ![n] = v] ELSE staged
        /\ Proceed(n, work[n], net \cup {Mail("NodePutResponse", m.id, n, m.src, v, held)})
  /\ UNCHANGED <<store, unlocked, replies, overwrites>>

PutResponse(n, m, net) ==
  /\ m.type = "NodePutResponse"
  /\ LET mine == work[n].req.id = m.id /\ work[n].mode = "coordinatingWrite"
     IN \/ mine /\ Collect(n, m, net)
        \/ ~mine /\ Proceed(n, work[n], net) /\ UNCHANGED <<store, staged, replies>>
  /\ UNCHANGED <<unlocked, overwrites>>

Deliver(m, net) ==
  LET n == m.dest IN
  /\ Receive(m, net)
  /\ \/ LockRequest(n, m, net) \/ LockResponse(n, m, net) \/ UnlockRequest(n, m, net)
     \/ GetRequest(n, m, net) \/ GetResponse(n, m, net) \/ TimestampRequest(n, m, net)
     \/ PutRequest(n, m, net) \/ PutResponse(n, m, net)
  /\ UNCHANGED <<down, issued, floor, crashes>>

-----------------------------------------------------------------------------
(* Timers and failures.  Any message may be late, so any timer may fire. *)

others == <<store, unlocked, down, issued, floor, resends, crashes, overwrites>>

\* Mutant of InternalTimer: the assembling of a quorum does not time out.
InternalTimerLate(n) ==
  /\ ~down[n] /\ work[n].mode = "coordinatingWrite"
  /\ Abort(n, work[n], work[n].req.ts, network)
  /\ UNCHANGED <<unlocked, down, issued, floor, resends, crashes, overwrites>>

\* InternalTimerSignal with the current timeoutCounter.
InternalTimer(n) ==
  /\ ~down[n] /\ work[n].mode \in WritePhases
  /\ Abort(n, work[n], work[n].req.ts, network)
  /\ UNCHANGED <<unlocked, down, issued, floor, resends, crashes, overwrites>>

\* A message without an effect of its own (a stale InternalTimerSignal, a
\* NodeUnlockAck, ElectionAck, ElectionCoordinator) still ends with EndLoop.
Loop(n) ==
  /\ ~down[n]
  /\ Proceed(n, work[n], network)
  /\ UNCHANGED <<staged, replies, others>>

\* ElectionElect: cleanUnlockTxids, then the end of the loop.
Elect(n) ==
  /\ ~down[n]
  /\ unlocked' = [unlocked EXCEPT ![n] =
       {t \in @ : \A u \in @ : u <= t + CleanWindow}]
  /\ EndLoop(n, work[n], queue[n], unlocked'[n], network)
  /\ UNCHANGED <<store, staged, replies, down, issued, floor, resends, crashes, overwrites>>

\* Mutant of QueueTimeout: the request stays in the queue.
QueueTimeoutKeeps(n, i) ==
  LET req == queue[n][i].msg IN
  /\ ~down[n] /\ queue[n][i].timed
  /\ queue' = [queue EXCEPT ![n][i].timed = FALSE]
  /\ req.type \in ClientKinds
  /\ replies' = replies \cup {Refusal(req, 0)}
  /\ UNCHANGED network
  /\ UNCHANGED <<work, staged, others>>

\* timedOutLockRequests, the request still in the queue.
QueueTimeout(n, i) ==
  LET req == queue[n][i].msg IN
  /\ ~down[n] /\ queue[n][i].timed
  /\ queue' = [queue EXCEPT ![n] = SubSeq(@, 1, i - 1) \o SubSeq(@, i + 1, Len(@))]
  /\ \/ /\ req.type \in ClientKinds
        /\ replies' = replies \cup {Refusal(req, 0)}
        /\ UNCHANGED network
     \/ /\ req.type \notin ClientKinds
        /\ network' = network \cup
             {Mail("NodeLockResponse", req.id, n, req.src, NoVersion, FALSE)}
        /\ UNCHANGED replies
  /\ UNCHANGED <<work, staged, others>>

\* timedOutLockRequests, the request being coordinated: this case of the select
\* does not end with EndLoop, so queued requests wait for the next message.
RequestTimeout(n) ==
  /\ ~down[n] /\ work[n].mode \in Coordinating /\ work[n].timed
  /\ GiveUp(n, work[n], work[n].req.ts)
  /\ work' = [work EXCEPT ![n] = Idle]
  /\ network' = network \cup Unlocks(n, work[n], FALSE)
  /\ UNCHANGED <<queue, unlocked, down, issued, floor, resends, crashes, overwrites>>

\* A timedOutLockRequests signal that a disabled node receives is dropped.
SignalLost(n) ==
  /\ down[n]
  /\ \/ /\ work[n].timed
        /\ work' = [work EXCEPT ![n].timed = FALSE]
        /\ UNCHANGED queue
     \/ /\ \E i \in DOMAIN queue[n] :
             queue[n][i].timed /\ queue' = [queue EXCEPT ![n][i].timed = FALSE]
        /\ UNCHANGED work
  /\ UNCHANGED <<staged, network, replies, others>>

\* ControlFail: the phases of a write survive, everything else is forgotten.
Fail(n) ==
  /\ ~down[n] /\ crashes < MaxCrashes
  /\ crashes' = crashes + 1
  /\ down' = [down EXCEPT ![n] = TRUE]
  /\ work' = IF work[n].mode \in WritePhases THEN work ELSE [work EXCEPT ![n] = Idle]
  /\ UNCHANGED <<store, staged, unlocked, queue, network, replies, issued, floor,
                 resends, overwrites>>

Recover(n) ==
  /\ down[n]
  /\ down' = [down EXCEPT ![n] = FALSE]
  /\ UNCHANGED <<work, store, staged, unlocked, queue, network, replies, issued, floor,
                 resends, crashes, overwrites>>

-----------------------------------------------------------------------------
Init ==
  /\ work = [n \in Node |-> Idle]
  /\ store = [n \in Node |-> NoVersion]
  /\ staged = [n \in Node |-> NoVersion]
  /\ unlocked = [n \in Node |-> {}]
  /\ queue = [n \in Node |-> <<>>]
  /\ down = [n \in Node |-> FALSE]
  /\ network = {} /\ replies = {} /\ issued = {}
  /\ floor = [t \in Txn |-> 0]
  /\ resends = 0 /\ crashes = 0 /\ overwrites = 0

Next ==
  \/ \E n \in Node, t \in Txn : ClientRequest(n, t) \/ LocalRead(n, t)
  \/ \E m \in network : \E net \in {network, network \ {m}} : Deliver(m, net)
  \/ \E n \in Node : InternalTimer(n) \/ Loop(n) \/ Elect(n) \/ RequestTimeout(n)
                       \/ SignalLost(n) \/ Fail(n) \/ Recover(n)
  \/ \E n \in Node : \E i \in DOMAIN queue[n] : QueueTimeout(n, i)

Spec == Init /\ [][Next]_vars

-----------------------------------------------------------------------------
(* Properties *)

\* Every variable has the type the code gives it.
TypeOK ==
  /\ work \in [Node -> Work]
  /\ store \in [Node -> Version] /\ staged \in [Node -> Version]
  /\ unlocked \in [Node -> SUBSET Txn]
  /\ queue \in [Node -> Seq(Queued)]
  /\ down \in [Node -> BOOLEAN]
  /\ network \subseteq NodeMessage
  /\ replies \subseteq [type : {"ClientReadResponse", "ClientWriteResponse"}, id : Txn,
                        ts : Nat, val : Txn \cup {0}, ok : BOOLEAN]
  /\ issued \subseteq Txn /\ floor \in [Txn -> Nat]
  /\ resends \in Nat /\ crashes \in Nat /\ overwrites \in Nat

\* No request was overwritten in a queue and no node crashed: the behaviours in
\* which the protocol promises serialisable transactions.
Undisturbed == crashes = 0 /\ overwrites = 0

Successes == {r \in replies : r.ok}
Writes == {r \in Successes : r.type = "ClientWriteResponse"}

\* Two coordinators never run the timestamp, put and commit phases at the same
\* time: every write quorum is a majority and each member serves one of them.
WriteMutualExclusion ==
  Undisturbed => \A a, b \in Node :
    work[a].mode = "coordinatingWrite" /\ work[b].mode = "coordinatingWrite" => a = b

\* A timestamp names one value, among everything committed or reported: the
\* log.Fatal of handleBackgroundWriteReq ("Inconsistent values") never happens.
NoConflictingValues ==
  LET known == {store[n] : n \in Node} \cup
                 {[ts |-> r.ts, val |-> r.val] : r \in Successes}
  IN \A u, v \in known : u.ts = v.ts => u = v

\* The same, as long as the protocol is undisturbed.
OneValuePerTimestamp == Undisturbed => NoConflictingValues

\* A transaction observes all that was reported before it was requested: a read
\* is not older, and a write is newer, than every success before it.
RealTimeOrder ==
  Undisturbed => \A r \in Successes :
    IF r \in Writes THEN r.ts > floor[r.id] ELSE r.ts >= floor[r.id]

\* What clients are told is what one register would tell them (Register.tla),
\* its history being the writes reported, in the order of their timestamps.
History == [k \in 1..Cardinality(Writes) |-> (CHOOSE r \in Writes : r.ts = k).id]
Abstract == INSTANCE Register WITH history <- History
Linearisable == Abstract!Spec

\* A write reported to its client is on a write quorum: each member has it, or
\* a newer version, or still holds its lock with it staged and the commit coming.
Durable ==
  Undisturbed => \A r \in Writes :
    LET has(n) ==
          \/ store[n].ts >= r.ts
          \/ /\ staged[n] = [ts |-> r.ts, val |-> r.id]
             /\ work[n].mode = "processingWrite" /\ work[n].req.id = r.id
             /\ \E m \in network : /\ m.type = "NodeUnlockRequest" /\ m.ok
                                   /\ m.id = r.id /\ m.dest = n
    IN Cardinality({n \in Node : has(n)}) >= WriteQuorumSize

\* Each request is answered at most once: a write refused by a timer is never
\* also reported as done, nor done twice, even when nodes crash.
OneAnswer ==
  overwrites = 0 => \A r, s \in replies : r.id = s.id => r = s

\* A write its client was told has failed is neither stored nor returned by a
\* read, whatever was still staged at its quorum, even when nodes crash.
RefusedNeverVisible ==
  overwrites = 0 => \A r \in replies :
    r.type = "ClientWriteResponse" /\ ~r.ok =>
      /\ \A n \in Node : store[n].val # r.id
      /\ \A s \in Successes : s.val # r.id

\* A locked node is not forgotten: a coordinator has it in its quorum, or its
\* lock response or an unlock request for it is on the way, even after crashes.
NoOrphanLock ==
  \A n \in Node : work[n].mode = "processingWrite" =>
    \/ \E c \in Node : /\ work[c].mode \in WritePhases
                       /\ work[c].req.id = work[n].req.id /\ n \in Members(work[c])
    \/ \E m \in network : /\ m.id = work[n].req.id
                          /\ \/ m.type = "NodeUnlockRequest" /\ m.dest = n
                             \/ m.type = "NodeLockResponse" /\ m.src = n /\ m.ok

\* A node never replaces a committed version by one that is not newer: handlers
\* commit what was staged without comparing it to what is stored.
StoreMovesForward ==
  [][Undisturbed' =>
       \A n \in Node : store'[n] # store[n] => store'[n].ts > store[n].ts]_vars

-----------------------------------------------------------------------------
(* What the dissertation (docs/diss/diss.tex) says and the code does not do *)

\* diss.tex:336, "A transaction may or may not be completed, but will not be
\* executed more than once": no write is reported at two timestamps.
ExecutedAtMostOnce == \A r, s \in Writes : r.id = s.id => r.ts = s.ts

-----------------------------------------------------------------------------
(* Liveness *)

\* What the repeater sends until it is acknowledged, and the answers, of which one
\* is sent for each copy.  Lock requests and the get requests of reads have three
\* tries only: they may all be lost.
Persistent == {"NodeUnlockRequest", "NodeTimestampRequest", "NodePutRequest",
               "NodeGetResponse", "NodePutResponse"}

DeliverSome(n, type) ==
  \E m \in network : \E net \in {network, network \ {m}} :
    /\ m.dest = n /\ m.type = type /\ Kind[m.id] \in WriteKinds
    /\ Deliver(m, net)

SomeQueueTimeout(n) == \E i \in DOMAIN queue[n] : QueueTimeout(n, i)

\* Timers fire unless dropped by a disabled node, setInternalTimer never stops
\* signalling, disabled nodes recover, and fair links let through a message that
\* is sent again and again.
Fairness ==
  \A n \in Node :
    /\ WF_vars(InternalTimer(n)) /\ WF_vars(RequestTimeout(n))
    /\ WF_vars(SomeQueueTimeout(n)) /\ WF_vars(Loop(n)) /\ WF_vars(Recover(n))
    /\ \A type \in Persistent : WF_vars(DeliverSome(n, type))

LiveSpec == Spec /\ Fairness

\* A node locked for a write is unlocked: "avoiding leaking locks" is why every
\* member must acknowledge the end of a transaction.
LocksReleased ==
  \A n \in Node : work[n].mode = "processingWrite" ~> work[n].mode # "processingWrite"

\* A coordinator does not stay in a transaction for ever: timers end what lost
\* messages leave incomplete, so that every deadlock over locks is broken.
CoordinationEnds ==
  \A n \in Node : work[n].mode \in Coordinating ~> work[n].mode = "idle"

\* A write that reached a node is answered, done or refused.
WritesAnswered ==
  \A t \in Txn : (t \in issued /\ Kind[t] \in WriteKinds)
                   ~> (\E r \in replies : r.id = t)

=============================================================================
