# A quorum-replicated key-value store in TLA+

This directory holds the specification, the model checking and the proofs of
the distributed database in `src/` (Go): database nodes that lock a write
quorum, run a two-phase commit over it, and read from a read quorum without
locking. Paths such as `dbnode.go:269` are relative to the package directory
under `src/` that the component table names.

## 1. The system

| Component | Source | State | Operations |
|---|---|---|---|
| Database node | `dbnode/dbnode.go`, `requestQueue.go`, `coordinator.go` | `currentMode`, `clientRequest`, `quorumMembers`, `numWaitingNodes`, the local store with one uncommitted version, `unlockTxids`, `lockRequests`, `disabled` | one goroutine (`handleRequests`) handles client requests, the node-to-node messages, two kinds of timer, crash and recovery |
| Repeater | `dbnode/repeater/repeater.go` | requests not acknowledged, per destination, transaction and type of answer | `Send` repeats a request three times or for ever, `Ack`, `Fail`, `Recover` |
| Elector | `dbnode/elector/ring.go` (`bully.go` is called nowhere) | leader, token, next node in the ring, requests to forward | circulating the token, timer, forwarding, crash and recovery |
| Background propagater | `dbnode/backgroundWriter.go` | transactions to spread and the nodes that have them | `propagateTransaction`, `streamWrites`, `response` |
| Client | `net/client.go` | a response channel for each attempt | `Get`, `Put`, `StrongPut`, `routeResponses` |
| Client locker | `net/locker.go` | `wantLock`, `haveLock`, two response channels | a daemon that turns reads and strong puts into a lock |
| Network and failures | `net/manager.go`, `net/partitions.go` | links that are unavailable | delay, loss, `ControlFail`, `ControlRecover` |
| Local stores | `datastore/` | committed and uncommitted versions | `Get`, `Put`, `Commit`, `Rollback` |
| Messages | `net/packet/message.go` | none | the message types |

**How they interact.** A client (or the locker, through its client) sends a
request with a fresh id to a random node. The node forwards a write to the
leader that its elector names; the leader queues it. When the leader is idle it
takes the request from its queue and becomes the coordinator of the
transaction: through its repeater it sends `NodeLockRequestNoTimeout` to a
random quorum, then `NodeTimestampRequest`, then `NodePutRequest`, each time
waiting for all answers; it then commits locally, answers the client and tells
the members to commit with `NodeUnlockRequest`. A read goes to a read quorum
without locks (`const fastReads`), or is answered locally if that quorum is
the node itself. With sloppy quorums a committed write is afterwards handed to
the propagater. Everything a node receives passes through one channel
(`Incoming`) and one loop, except the signals of `timedOutLockRequests`.

**What is hard.** Two coordinators that assemble quorums at the same time;
answers that arrive after their coordinator gave up; an unlock that overtakes
its lock request, which `unlockTxids` must remember and `cleanUnlockTxids` may
forget; duplicates made by the repeater; timers that race with the last answer;
a crash that keeps a staged version and forgets the lock; a queue of pointers
to a variable of the loop; an answer to the client that precedes the commit of
the members. The entries under `hazards` in `PROJECT.json` name the line of
each, and the properties about it.

**What makes each component correct.**

- Node: write coordinators exclude each other; clients see one register; what
  was reported is on a quorum and is not lost; what was refused does not show;
  no lock leaks; coordinators and clients are not left waiting.
- Repeater: a request that must arrive is sent until *its* answer came.
- Elector: nodes that can talk agree on a leader in the end, and a failed node
  is dropped from the token.
- Propagater: every committed write reaches `n - R + 1` nodes and takes no
  version from the quorum that wrote it; the node's loop is never blocked by it.
- Client: an answer is delivered to the attempt it answers; routing never blocks.
- Locker: one holder at a time; `Lock` and `Unlock` return.
- The loops of node and elector: at most one tick is outstanding, so that
  arming the timer never blocks; a timeout means that nothing was heard since
  the tick was armed.
- Stores: commit and rollback affect exactly the transaction they name.

## 2. The modules

| Module | What it is |
|---|---|
| `Register` | the abstract specification: one register with a single history of writes |
| `DbNode` | the nodes, their messages, timers, crashes; the properties; the fairness |
| `DbNodeInvariant` | the inductive invariants `IInv` (locks) and `LockInv` (where a transaction is), in named parts |
| `DbNodeOrder` | the inductive invariants `OrderInv` (answers, conversations, versions, reads) and `RequestInv`, `TruthInv` (what crashes leave of them), in named parts |
| `MCDbNode` | transactions and symmetry for TLC |
| `DbNodeProofs` | proof of type correctness, and that no lock is forgotten |
| `DbNodeExclusion` | proof that write coordinators exclude each other |
| `DbNodeOrderProofs` | proof that a request is answered once however nodes crash, and that coordinator and member have one message between them |
| `DbNodeVersionProofs` | proof of what clients are promised, with what crashes leave of it, and that the nodes implement `Register` |
| `LoopTimer` | a main loop, its timer goroutine and its bounded inbox |
| `Repeater` | the repeater and the requests of one transaction to one peer |
| `Propagater`, `PropagaterProofs` | background writes next to the write transactions of sloppy quorums, on nodes that fail; proof that quorums keep what they committed, but for members that failed, and of when timestamps clash |
| `RingElector` | the election on a ring |
| `LoopProofs` | proofs of when the main loop blocks and when it times out falsely, and that undisturbed electors follow one leader |
| `Client` | the calls of a client, their attempts, response channels and router |
| `DeliveryProofs` | proofs that the repeater gives up no request too early, that a call returns what is true of its last attempt, and that the router waits only over a second answer |
| `LockService` | the abstract specification of a lock |
| `ClientLocker`, `ClientLockerProofs` | the locker over the register; proof that it implements `LockService` |
| `MCComponents` | `ClientLocker`, `LoopTimer`, `Repeater` and `Client` side by side for TLC |

How they hang together. `DbNode` is the node as clients and other nodes see it,
and refines `Register`; `ClientLocker` runs over the register of `Register` and
refines `LockService`. What `DbNode` takes for granted is what the smaller
modules show of the parts it is built from: that timers go on (`LoopTimer`),
that a request without limit arrives (`Repeater`, for `Persistent` in `DbNode`),
that an answer is taken for the attempt it answers (`Client`), that background
writes leave quorums and timestamps alone as long as no participant fails
(`Propagater`). The election is only a choice of leader in `DbNode`.

### `DbNode` and the code

State. `work[n]` is the record of what a node is doing: `currentMode`,
`clientRequest`, `quorumMembers` (the field `members`, and the field `step` for
the entry a coordinator stores for itself), `numWaitingNodes` (`waiting`), and
whether the `timedOutLockRequests` signal of the request is still to come
(`timed`). `store` and `staged` are the committed and the uncommitted version,
`unlocked` is `unlockTxids`, `queue` is `lockRequests`, `down` is `disabled`.
`network` holds the messages on their way and `replies` what clients were told.
`floor` is a history variable, and `resends`, `crashes`, `overwrites` count
towards their bounds.

Actions. Each case of the switch in `handleRequests` is an action that contains
everything the handler calls *and* the end of the loop:

| Action | Code |
|---|---|
| `ClientRequest`, `LocalRead` | the client cases, `lockRequests.enqueue`, `processLocalRead` |
| `LockRequest`, `LockResponse`, `UnlockRequest` | `lockRequests.enqueue`, `handleLockRes`, `handleUnlockReq` |
| `TimestampRequest`, `GetRequest`, `GetResponse` | `handleTimestampReq`, `handleGetReq`, `handleGetRes` |
| `PutRequest`, `PutResponse` | `handlePutReq`, `handlePutRes` |
| `InternalTimer` | `InternalTimerSignal` with the current counter |
| `QueueTimeout`, `RequestTimeout` | the `timedOutLockRequests` case of the select, which skips the end of the loop |
| `Elect`, `Loop` | `cleanUnlockTxids`; messages with no effect but the end of the loop |
| `Fail`, `Recover`, `SignalLost` | `ControlFail`, `ControlRecover`, signals dropped while disabled |

`Collect` is the counting common to the three answer handlers,
`ContinueProcessing` and `Abort` are `continueProcessing` and
`abortProcessing`, and `EndLoop` is the dequeue at the bottom of the loop
(`dbnode.go:264` and following), which also drops a request whose unlock came
first. `Enqueue` keeps what the code does with its pointer: when an idle node
already has requests waiting, the new entry becomes a copy of the request that
the same iteration dequeues.

Abstractions.

- One key. Locks belong to a node, not to a key, so transactions on different
  keys contend exactly as those on one key do.
- The value of a write is its transaction id; ids start at 1, because 0 marks
  an idle node here; the code's first id is 0 and its idle node has -1.
- Any node may act as leader. This covers every outcome of the election,
  including two leaders; nothing about the elector's progress is claimed.
- The network never removes a message unless it is delivered: a message that is
  never delivered is lost, and any order of delivery is possible. A partition
  only loses messages. A resend by the repeater is a copy of a message that
  stays on its way when it is first delivered (`Receive`); the answer to a
  duplicate may be doubled in turn. A lock request that is doubled is queued
  twice, so the lock answer needs no doubling of its own.
- Timers may fire whenever their guard holds, since any message may be late.
- A transaction id is used by one request (the client draws a new one from
  `idStream` for every attempt), so a retry is another transaction.

Bounds. `MaxResends`, `MaxCrashes`, `MaxOverwrites` bound how often those
things happen in one behaviour; `Txn` bounds the transactions. Nothing else is
cut off: queues, networks and timestamps are as large as the transactions make
them.

### The other components and the code

| Module | State | Actions |
|---|---|---|
| `ClientLocker` | `owners`, the versions of the key; for each client `wantLock`, `haveLock`, where application and daemon are, the current attempt of the daemon's strong put; `late`, attempts that timed out and may yet take effect | `Lock`, `Unlock`; `Get`, `StartRelease`, `StartAcquire`, `Skip`, `Success`, `Error` are the daemon's loop with the loop of `Client.put`; `Timeout`; the database's `Execute`, `Abort`, `ExecuteLate` |
| `Propagater` | `writes` with quorum, timestamp and who was asked and has staged it; `store`, `lockedBy`, `up`; of the propagater `active`, `confirmed`, and where its goroutine is (`streamer`); `stuck`, a main loop that waits in `propagateTransaction`; `forgotten`, the locks lost in failures (history) | `LockOwn`, `LockPeer`, `ReadTimestamp`, `Stage`, `CommitWrite` (which ends in `PropagateTransaction`), `AbortWrite`, `EndWrite` (the unlock request); `StreamWrites`, `BackgroundWriteReq`, `BackgroundWriteRes` with `response`; `ControlFail`, `ControlRecover`, `Miss` (a message to a failed node); `Lose` |
| `RingElector` | `leader`, `nextInRing`, `token`, `disabled`, whether the counter has grown (`heard`), `requestsToForward` | the cases of `mainLoop`: `TickHeard`, `TickSilent`, `ReceiveToken`, `ReceiveAck`, `Request`, `ControlFail`, `ControlRecover`; the links |
| `LoopTimer` | the inbox, `timeoutCounter`, what the timer goroutine is about to post, whether the loop waits to arm it; of a tick, whether anything was heard (`silent`) or the node has recovered (`stale`) since it was armed | `Arrive`; `Arm` is the rendezvous on `internalTimer`, `Post` the goroutine; `Count`, `Uncounted`, `HandleTick`, `Fail`, `Recover` |
| `Repeater` | `unackedReqs` of one peer and transaction, a goroutine and its `i` for each request, messages on their way | `Send`, `Round` (one turn of `send`), `Ack`, `RepeaterFail`, `RepeaterRecover`; the peer's `Deliver`, the link's `Drop` |
| `Client` | the ids drawn, `responseChans` (`registered`, `buffer`), where each call and `routeResponses` is, what the database did with each attempt (`fate`) | `NewAttempt`, `Receive`, `TimerFires` are `Get` and `put`; `Route`, `Put` are `routeResponses`; the database's `Decides` and `AnswersAgain`, an attempt processed a second time with a verdict of its own |

Abstractions.

- `ClientLocker` has one key. The register executes an attempt at once, refuses
  it, or executes it after its timeout; a strong write takes effect only at the
  next timestamp (`Applied`), which is what `Linearisable` shows of `DbNode`. A
  stale read, possible with sloppy quorums, counts as a fault.
- `Propagater` keeps of a write transaction the steps that touch the versions;
  its messages are those of `DbNode` and arrive once and in order here. A member
  reads its version when it is asked, and its coordinator learns it then: no
  background write lies between what a coordinator knows and when its member
  answered, but many may lie between two members. W may be any majority, R
  anything.
- A failure of `Propagater` does to locks what `ControlFail` does: a participant
  forgets its lock, a coordinator keeps it. Nobody commits the version that a
  participant has staged and forgotten: only the unlock of a write that was
  committed says ok, and its own put has replaced what was staged (with a
  duplicate that is otherwise: `refused_then_stored`). An answer that a failed
  coordinator misses is had again when the request is repeated.
- A background message does not go through the repeater, so that each copy is
  received once; the copy that a later round of `streamWrites` sends is another
  message (`round`). The goroutine runs on while its node is down, as in the code.
- `LoopTimer` is both loops, which differ in one point: an election message is
  counted in `ring.go` and not in `dbnode.go`. A client's message or a control
  signal may arrive at any time, also twice in a row (`ControlRecover` of a node
  that is up has no effect). The recovery sets the counter to 0 and marks the
  ticks that are still to come as stale, which the code cannot see.
- `RingElector` holds a token's ids as a set. The code's list may hold an id
  twice, since `addId` appends without looking, and `removeId` strikes one copy:
  `Struck` allows both outcomes.
- `Repeater` leaves out the pause between two rounds and so allows a resend at
  any time. Messages on the link are a set: two equal messages are one.
- `Client` leaves out what is read or written. An answer that is never routed is
  lost, in the link or in a full inbox. A request that has overwritten another's
  queue entry (`dbnode.go:221`, `269`) is processed twice, with other members
  perhaps, so the second verdict is independent of the first.

Bounds. All are in the names: `MaxCalls`, `MaxFaults`; `MaxWrites`, `MaxLost`,
`MaxCrashed`; `MaxDisturbed`, `MaxRequests`; `MaxArrivals`; `MaxDropped`, `MaxFailures`;
`MaxIds`, `MaxDoubled`. `MaxDisturbed` bounds as a whole what breaks the round
of a token, a tick that comes too early included: without that bound every node
may start a token at any time and nothing would be ever elected for good.

### `Register`

A write appends to the history, a strong write only at the place it demands, a
read returns a value at least as new as the history was when the read was
requested, and any request may be refused. Behind `Linearisable`, the history
is the reported writes in the order of their timestamps and `Write` happens
when the client is told. This is the consistency that diss.tex:152 defines:
each transaction appears to be executed at an instant, and sees all effects of
those that happened before it.

## 3. Properties

The comment on each in `DbNode.tla` says what it is about. Most are stated for
`Undisturbed` behaviours: no crash, no overwritten queue entry. `OneAnswer` and
`RefusedNeverVisible` are stated for every behaviour without an overwritten
entry, `NoOrphanLock` for every behaviour. Section 6 says what happens otherwise.

| Property | What could go wrong |
|---|---|
| `WriteMutualExclusion` | two coordinators past the assembly of their quorums |
| `OneValuePerTimestamp` | two values with one timestamp, the `log.Fatal` of `handleBackgroundWriteReq` |
| `Linearisable` | two histories, a lost update, a strong write at another place |
| `RealTimeOrder` | a read older than what was reported before it |
| `Durable` | a reported write that is not on a quorum or on its way to it |
| `OneAnswer` | a timer and the last answer both reach the client; a crash between them makes the node answer again |
| `RefusedNeverVisible` | a refused write that is stored or read, even after a crash |
| `NoOrphanLock` | a locked node that nobody will unlock, even after a crash |
| `StoreMovesForward` | a commit that replaces a newer version |
| `LocksReleased`, `CoordinationEnds`, `WritesAnswered` | waiting for ever |
| `IInv`, `OrderInv` | the inductive invariants of the proofs: a vote counted twice, a member counted that was unlocked, a timestamp computed from a version that is no longer true |

Of the other components:

| Property | What could go wrong |
|---|---|
| `OneHolder`, `LockRefined`, `LockerInv` | an attempt that timed out takes effect when nobody wants it any more, or frees another client's lock |
| `FreeLockTaken`, `UnlockFrees`, `CallsReturn` | a lock that is free, or ought to be, and stays so after retries were refused |
| `PropInv`, `ConfirmedHold` | a background write replaces a newer version, or a node is counted that lost what it confirmed; but for nodes that failed |
| `ClashOnlyIfForgotten` | a background write changes the versions from which a timestamp is computed: one timestamp for two values, and two `log.Fatal`, without the failure of a shared member. With one they happen (section 6) |
| `StuckOnlyIfHurried` | the main loop waits for a goroutine that waits for its lock |
| `SpreadsUnlessLost` | a committed write that is never sent on. With a lost message it is not (section 6) |
| `NeverBlocks`, `TicksGoOn`, `LoopTypeOK` | two ticks, a loop that waits for its own timer, an inbox without room |
| `FalseTimeoutsAreStale` | a tick taken for a timeout although something was heard since it was armed, without a recovery in between. With one it happens (section 6) |
| `ElectionEnds`, `RequestsForwarded`, `RingTypeOK` | a token lost with the node that held it; a wrong step at the wrap-around |
| `OneLeader` | two leaders, or nodes that follow different ones, with nothing failed, lost or early |
| `LeaderAgreed` | several tokens on the ring, with different ids, keep the nodes apart for ever |
| `NoneGivenUp`, `RepeatingEnds`, `RepeaterTypeOK` | a late answer of another phase ends a request that has not arrived; a goroutine that never ends |
| `ResultHonest`, `ClientInv` | the answer to an attempt that timed out taken for another's, or for another call's. What a call returns holds of its last attempt only (section 6) |
| `RouterFlows` | a router that waits at a channel that nobody reads, without a second answer to blame |

Each property of a passing run has a mutant in `PROJECT.json`: a plausible slip
in one handler (an abort that keeps its request, an unlock that resets before
it compares, a timer that misses a mode), after which TLC must find the
property violated under the same configuration.

## 4. Runs

| Run | Instance | Shows |
|---|---|---|
| `core` | 3 nodes, R = W = 2; a write, a strong write that must come second, a read | types, `OrderInv` and with it all that the proofs rest on, refinement of `Register` |
| `resends` | 3 nodes, R = W = 2; two writes, two duplicates | duplicates break neither exclusion nor timestamps nor the store |
| `disturbed` | 2 nodes, R = W = 2; the transactions of `core`, one crash, one overwritten entry | what holds even then: no lock is forgotten, no request answered twice, no refused write seen |
| `live` | 2 nodes, R = 1, W = 2; two writes and a read within one `CleanWindow`, one crash; `LiveSpec` | every wait ends; a local read observes every earlier report |
| `components` | 2 lockers, 2 attempts, 2 calls, 2 faults; an inbox of 2, 5 arrivals; a lock request, an unlock and another unlock, 2 retries, 1 loss, 1 failure; 2 calls, 2 attempts each, 3 in all, 1 attempt processed twice | what section 3 lists for locker, loop, repeater and client |
| `propagater` | 3 nodes, R = 1, W = 2, 2 writes, 1 background message lost, 1 failure | quorums keep what they staged, timestamps clash only where a participant failed, what is counted is there, and a write spreads |
| `ring` | 3 nodes, one disturbance, one client request | an election ends, what was buffered leaves, until the disturbance all follow one leader, and again in the end if all stay up |
| `vote_counted_twice`, `executed_twice`, `wedged_read`, `refused_then_stored`, `dead_leader` | see section 6 | five disagreements |

*Why these are enough.* Three nodes are the fewest for which a quorum of two is
a strict majority and leaves a node outside it, so that two coordinators can
overlap in one member, be each other's member, or be in the other's queue. Two
writes are needed for every race on a lock, and the strong write adds the
refusal at the staging step; the read sees both. Ids 1, 2 and 60 make
`cleanUnlockTxids` forget the small ids once 60 is unlocked (`CleanWindow` is
50, the code's constant). In `live` the ids are 1, 2 and 3, so that an unlock is
remembered: see section 6. With R = 1 every read is local there; the reads of
`core` and `disturbed` ask a quorum. Two nodes with W = 2 make each node a member
of the other's every quorum, which is the worst case for deadlock and for leaked
locks, and keep the state space small enough for crashes.

In `components` exactly one component moves in each behaviour (`focus`), since
the four share no state; their specifications are unchanged, and their fairness
holds for the behaviours in which they move. Two lockers and two faults are
enough for an attempt that takes effect late between the other's release and
acquisition, and for one of each of two clients. Two background writes with
R = 1 make every node a target (`CriticalSize` is 3) and the quorums of the two
writes overlap in one node or in two; the second commit is what blocks a main
loop; one failure, before or after staging, is what makes a timestamp clash.
An inbox of two is full when a tick and a message are in it; five
arrivals are a failure, a recovery and three messages around them. The three
requests of `AbortedWrite` are the only ones of one transaction of which two
are answered alike. Three attempts are a retry of one call next to another call,
and one doubled answer is enough to fill a channel.
In `ring` a disturbance is a failure, a loss, a token the rate limiter
discards, or a tick too early; with three nodes a token can pass a failed node
and still meet another.

The nodes are symmetric
except in the runs that check liveness, which use no symmetry.

Deadlock is checked in the runs of `DbNode` and in `ring`, not in those of the
other components, which stop when their calls, writes and arrivals are used up. In
`DbNode`, `Loop` is always possible on a node that is up (`Recover` on one that is
not), so that check says little, and waiting is what the liveness properties are for.

*Fairness* (`Fairness` in `DbNode.tla`). Weak fairness of
- `InternalTimer`: `setInternalTimer` never stops signalling while the node is up;
- `RequestTimeout`, `QueueTimeout`: the runtime fires the timer of each request
  once; a signal dropped by a disabled node (`SignalLost`) is gone for good,
  and then the action is not enabled;
- `Loop`: an idle node keeps receiving `InternalTimerSignal` and election
  messages;
- `Recover`: the failures of `manager.go` are temporary;
- `DeliverSome` for the messages that the repeater sends without limit and for
  their answers, and only for writes: the links lose each copy independently.
  Lock requests, lock answers and the messages of fast reads are tried three
  times, so they may all be lost and have no fairness.

The other components have weak fairness of what one of their goroutines does
next when it can (`DaemonStep`, `EndWrite`, `StreamWrites`, `Arm`, `Post`,
`LoopStep`, `Round`, the ticks of the ring), of what a peer or the database
decides (`Execute`, `Decide`, `Deliver`, `Ack`), and of recovery. A link
delivers what it does not lose, and it loses finitely many (`MaxLost`,
`MaxDropped`, `MaxDisturbed`); an application need not call anything, and a
client has no fairness, as its properties are invariants.

## 5. What is proved

**The database node.** All theorems hold for every set of nodes and of
transactions, every kind of request and every quorum size that the assumptions
in `DbNode.tla` allow: finitely many nodes, positive ids, and `2 W > N`,
`W > 1`, which `net/manager.go` demands of strict quorums of more than one node.
The bounds on resends, crashes and overwrites are arbitrary naturals, and
messages may be lost and reordered in all of them. Duplicates, crashes and
overwritten requests are faults a theorem holds for unless this table says
otherwise:

| Theorem | Module | Says | Until |
|---|---|---|---|
| `TypeCorrect` | `DbNodeProofs` | `TypeOK` | |
| `NoLockForgotten` | `DbNodeProofs` | `NoOrphanLock` | |
| `QuorumsStayHeld` | `DbNodeExclusion` | `IInv` | crash, overwrite (part of `IInv`) |
| `MutualExclusion` | `DbNodeExclusion` | `WriteMutualExclusion` | crash, overwrite (part of the property) |
| `AnswersOnce` | `DbNodeOrderProofs` | `OneAnswer` | overwrite (part of the property) |
| `ExecutedOnceUnlessOverwritten` | `DbNodeOrderProofs` | `ExecutedAtMostOnce` | overwrite |
| `OneMessageAtATime` | `DbNodeOrderProofs` | `Conversations` | crash, overwrite, duplicate |
| `OrderKept` | `DbNodeVersionProofs` | `OrderInv` | as each of its parts says |
| `ReportedWritesKept` | `DbNodeVersionProofs` | `Durable` | crash, overwrite, duplicate |
| `TimestampsNameOneValue` | `DbNodeVersionProofs` | `OneValuePerTimestamp` | crash, overwrite, duplicate |
| `VersionsMoveForward` | `DbNodeVersionProofs` | `StoreMovesForward` | crash, overwrite; without duplicates |
| `TruthKept` | `DbNodeVersionProofs` | `TruthInv` | overwrite, duplicate (part of `TruthInv`) |
| `RefusedNotSeen` | `DbNodeVersionProofs` | `RefusedNeverVisible` | overwrite (part of the property), duplicate |
| `ReportedBeforeIsSeen` | `DbNodeVersionProofs` | `RealTimeOrder`, for strict quorums | crash, overwrite, duplicate |
| `RegisterImplemented` | `DbNodeVersionProofs` | `Linearisable`, for strict quorums | without crashes, overwrites, duplicates |

"Until" is a state: what the theorem says is true in every state before the first
such fault, whatever the constants. The theorems about steps have the absence of
faults as a hypothesis on the behaviour; it holds of all behaviours when the
bounds are 0, as in `core`, and of many otherwise. `StrictQuorums` is
`R + W > N`, as `net/manager.go:79` has it; the invariant without reads does not
need it.

*Types and locks* (`DbNodeProofs`). One lemma for each thing a handler is built
from (`EndLoop`, `Collect`, `ContinueProcessing`, `Abort`, `Enqueue`) and one for
each action. `TypeOK` says more than the shape of the variables: an idle node has
forgotten its request, a locked node works for a node's message, a coordinator
works for a client's and still waits for an answer.

`NoOrphanLock` is not inductive: a coordinator that was told to unlock its own
transaction would forget the members it has locked. `LockInv` adds that this never
happens (`HomesApart`): a transaction is at home at one node, which coordinates it
or has its client's request in the queue, and what concerns it elsewhere (locks,
queued lock requests, messages, members) never concerns that node. It holds with
every fault: a crash only forgets, an overwritten entry is in one queue twice, a
duplicate is a message that was there before.

*Why `WriteMutualExclusion` is not inductive, and what `IInv` adds.* Nothing in
it says that a coordinator which counted W - 1 lock answers still holds those
members. `IInv` says so, and what that rests on:

- `UnissuedAbsent`, `QueuedOnce`: a request that is queued has left no other
  trace, so when its coordinator starts no message, lock or coordinator of that
  transaction exists. This is where undisturbed behaviours matter: an
  overwritten queue entry is in the queue twice.
- `OneCoordinator`: a transaction is coordinated by one node.
- `Surrounded`: all that concerns an active write is between its coordinator
  and the members it chose; no unlock request exists. Hence a member that is
  locked stays locked, although duplicates of its lock request may wait in its
  queue.
- `Assembling`: `waiting` is the number of members not heard from; a member
  that was counted holds the lock; one whose positive answer is on its way holds
  it too and has not been counted. So no member is counted twice.
- `Locked`: past the assembly all members hold the lock, and no positive lock
  answer is left, so that none is "given back" by `handleLockRes` while the
  write goes on.
- `BareLockResponses`: two lock answers of one member are the same message.

Two majorities meet; the common node is locked for one coordinator, or is itself
one and then not locked.

The proof follows the structure of the handlers. The invariant is stated over
(work, queue, network, received transactions) rather than over the variables,
because a handler reaches its next state in two moves, its own and that of
`EndLoop`, and the state between them is not a state of the system. `Send`,
`Forget`, `GoOn`, `Grant`, `Begin`, `Wait`, `LoseMessages` and `LoseQueued` each
take a consistent state through one elementary change; `EndLoopConsistent` and
the handler lemmas compose them. A crash or an overwritten entry ends an
undisturbed behaviour, so those steps have nothing to preserve
(`StaysDisturbed`).

*One answer, one message* (`DbNodeOrderProofs`). The many handlers are first
brought to one form: node n is left with some work, queue and network, and the
end of the loop follows (`Effect`); there are as many effects as the handlers have
outcomes. `AnswersOnce` needs that who was answered is worked on by nobody
(`Answered`), and that a request is started once (`StartedOnce`). This is
`RequestInv`, and crashes do not disturb it: what a fault does to a node is to make
it forget (`FaultForm`), and a forgotten request is never taken up again. The
duplicate of a message does not start a request either, so `AnswersOnce` holds
whatever crashes and whatever is delivered twice. For `OneMessageAtATime`, `Conversing` says of a coordinator that each
member that has not answered is the one end of at most one message: the request, its
copy in the member's queue, or the answer, and always of the present phase. So an
answer of an earlier phase cannot be taken for one of this, though `handleGetRes`
accepts both. This is what a duplicate breaks (section 6, `vote_counted_twice`).

*The order of versions* (`DbNodeVersionProofs`). `Versions` says, of a state before
the first duplicate:

- `Numbered`, `StoresKnown`, `ReadsKnown`: the reported writes have the timestamps
  1, 2, ... without a gap, and nothing else is stored, read or on its way to a
  reader;
- `AskingFor`: a timestamp that a coordinator was told, or will be, is still that of
  the member, because the member is locked for it;
- `Putting`: a coordinator in its last phase has the next timestamp, and who
  answered has its version staged;
- `Committed`, `CommitsReported`: of a reported write only instructions to commit are
  left, one for each node that it still locks, which has staged it;
- `Kept`: a reported write is on a write quorum, stored or so staged.

The argument for a new write: its quorum meets that of the last reported write in
a node, which is locked for the new one and hence not for the old one, and so has
stored it; no other coordinator is in these phases (`IInv`), so the largest
timestamp of the quorum is the number of reported writes, and one more is free.
`Reads` adds that a read that was requested when k writes had been reported has a
write quorum of which no node tells it of less than k (`FreshFor`); a read quorum
meets it. A node that commits only moves forward, and a node that has told a read of
an old version did so before the newer write was reported, so that a read requested
after that report has not been told yet.

*What crashes leave* (`TruthKept`, `RefusedNotSeen`). A participant that crashes
loses its lock and keeps what it staged, so exclusion, the quorums and the order of
versions are gone after a crash. What remains is `TruthInv`: a version that is
stored, read, or that a node is told to commit was reported (`StoresKnown`,
`CommitsReported`, `ReadsKnown`). Two facts make it inductive:

- `Staging`: a member that answered its put request, *and still serves the
  request*, has staged what was proposed; one that crashed meanwhile has counted,
  but whether it staged anything does not matter, because
- `Instructed`: an instruction to commit is obeyed only by a node that serves the
  request, and a node that still serves a reported write has staged it. Nothing else
  of a reported write is left.

At the step that reports a write, whoever still serves it must be in its quorum:
that is `NoOrphanLock`, which holds through every crash (`ReportTruthful`). Duplicates
are excluded because they break `Conversations`, on which `Staging` rests; the run
`refused_then_stored` shows that a crash and a duplicate do violate
`RefusedNeverVisible`. The lemmas on versions come in two kinds: those on `Sealed`
states hold after crashes, those on `Settled` states need that none happened.

*The refinement.* `RegisterImplemented` maps `history` to the reported writes in the
order of their timestamps. `CommitRefines` is the one step that is a `Write`;
reports of reads, refusals and the arrival of a request are the other steps
of `Register`, and all others stutter (`StepRefines`, one lemma for each effect).

*Why "until a duplicate".* With `W >= 3`, `Durable` is false after a duplicate; that
is the finding `vote_counted_twice`. The other three would fail later: with three
transactions, two duplicates, and `cleanUnlockTxids` forgetting an id in between, a
doubled lock request is granted after its transaction has ended, and a doubled
instruction to unlock, with the answer ok, then commits what this node has staged
since, which may be a write that was refused. Such a behaviour is too
long for the instances here; `resends`, with two transactions, shows that nothing
shorter does it. So these theorems are not stated for more than is true, and what
two writes with two duplicates do remains a check.

**The locker** (`ClientLockerProofs`): `LockerInvariant`, `MutualExclusion` and
`LockImplemented`, for every number of clients, attempts, calls and faults.
`OneHolder` alone is not inductive: an attempt that timed out, or that is still
awaited, may give the lock to a client that has ceased to want it. `LockerInv`
says that every attempt that can still take effect, that is, one for the next
timestamp, is one its client may make (`LateJustified`, `WriteJustified`): an
acquisition only while the application waits in `Lock`, a release only by the
owner who waits in `Unlock`. An attempt for another timestamp never takes
effect, because a strong write is refused there. With it each step of the locker
is a step of `LockService` or leaves phase and holder alone.

**The propagater** (`PropagaterProofs`): `PropInvariant`, `TimestampsClash`,
`CountedIsThere` and `StuckIfHurried`, for every finite set of nodes, W a majority,
any R, any number of writes, losses and failures. Background writes bypass all
locks, so that a version may change between the moments at which two members are
asked. The proof needs only that it never gets smaller at a node that is locked:
what a quorum committed is there or newer, or the member has failed before it
committed (`QuorumKeeps`); a later write that locked a common node and has asked it
has a larger timestamp, unless that node has forgotten the earlier write
(`LaterLarger`). A write commits when all of its quorum is asked (`AskedQuorum`),
and its members are locked for it or have forgotten it (`LocksMatch`), so a common
member that has forgotten neither write tells them apart (`SharedMember`).
`TimestampsClash` follows because two quorums meet. A failure adds to `forgotten`
where it clears a lock, and so preserves each of these. The lemma `KeepsOn` says
that a node loses a version to a late commit or to its own failure and to nothing
else, from which `ConfirmedHold` follows by induction over answers on their way.
`StuckIfHurried` needs that a signalled streamer has a write of which nothing was
sent yet (`Streaming`): no answer can have ended it, so it is still there when the
second commit signals again.

**The loops** (`LoopProofs`): `InboxBounded`, `LoopNeverBlocks` and `FalseTimeouts`,
for every size of the inbox. The invariant has two parts. Unless a node recovered
hastily, the loop waits to arm, the goroutine holds a tick, or one is in the inbox,
and only one of these. Whether or not it did, a tick that was armed since the last
recovery has no number from the future, and if it has the loop's, nothing that
counts was handled since; a recovery makes every tick stale, as it sets the
counter back.

**The ring** (`LoopProofs`): `RingTypes` and `OneIsElected`, for every number of
nodes, disturbances and requests. That the highest id of a token is an id of the
token (`Highest`) comes from the library's well-foundedness of the naturals, applied
to the distances from N - 1; `HighestOf` says which id it is. `OneLeader` alone is
not inductive. `Calmly` says what an undisturbed election looks like: the token
starts at node N - 1, so every token in flight and every node that has a leader
follows N - 1; a silent tick can only come while the token is on its way, which
disturbs.

**The repeater** (`DeliveryProofs`): `ArrivesBeforeItEnds` and `RetriesBounded`, for
every list of requests, any number of retries, losses and failures. An entry
that has gone and an answer on its way both come from a request that the peer
has received and answers alike (`GoneIfReached`, `AnswersFollow`).

**The client** (`DeliveryProofs`): `ClientInvariant`, `ResultsHonest` and
`RouterNeverWaits`, for every number of calls, attempts and answers. `ClientInv`
follows an answer through the inbox, the router and the response channel: wherever
it is, it names an attempt and says one thing that became of it
(`AnswersTruthful`); an attempt that is processed twice may have been both refused
and executed. The first answer to an attempt is in one of these places only
(`AnswersApart`), so that its channel is empty or holds a second one. A call waits
for its last attempt, and all earlier ones were refused, at least the first time,
unless one timed out (`CallHonest`).

The assumptions are those the modules name (`LockerAssumption`,
`PropagaterAssumption`, `LoopAssumption`, `RepeaterAssumption`, `ClientAssumption`): bounds are
naturals, there is at least one attempt, retry and place in an inbox, quorums
are as `net/manager.go` demands.

*Only model-checked:*

- liveness, in every module, which is out of the provers' reach, as is `ENABLED`;
- what duplicates do in the instance of `resends`, for the reasons above.

## 6. Where the code and its documents disagree

Five runs have a counterexample to a sentence of the dissertation
(`docs/diss/diss.tex`); `PROJECT.json` quotes it.

- `vote_counted_twice`: `handleGetRes` accepts a timestamp answer in the put
  phase, and compares its type with the put answer it has replaced. A late
  duplicate is counted as a second vote of a member, and a write is committed
  that another member has not staged. It needs W >= 3 and one duplicate.
- `executed_twice`: the queue entry overwritten through its pointer, above: the
  request at the head is executed twice and the new one never.
- `wedged_read`: the signal of `timedOutLockRequests` that arrives while a node
  is disabled is dropped, and `InternalTimerSignal` has no case for
  `coordinatingFastRead`; a read taken from the queue after recovery may then
  wait for ever and keep the node from serving anything else.
- `refused_then_stored`: an abort does not roll back what its members staged; a
  later transaction that locks such a member and commits without having staged
  anything there commits the refused version. It needs a crash and a duplicate:
  crashes alone, however many, are not enough (`RefusedNotSeen`).
- `dead_leader`: a silent tick strikes the leader off the token only if it is
  `nextInRing - 1`. For the node after n-1 that is -1, so a failed node n-1 stays
  the leader of the others, although an unreachable node "will be detected".

More were met while modelling; each is visible in a model, none has a run of its
own. The first four are what a checked property excepts by name: without the
exception TLC finds each of them in the instance of section 4.

- `ControlFail` resets every mode but the coordinator's, so a participant that
  fails is no longer locked, although diss.tex:573 keeps participants locked; this
  is why exclusion is stated for undisturbed behaviours. With sloppy quorums,
  another write may take such a node into its quorum before it has the first one's
  version, and commit with the same timestamp, against diss.tex:491. When the
  background write of one reaches a node that has the other, `log.Fatal`
  (`dbnode.go:639`) ends the program (`ClashOnlyIfForgotten`).
- A lost background write is not sent again until another commit of the same
  coordinator: "it just continues retrying" (diss.tex:613) needs `startClock`, which
  is started nowhere (`backgroundWriter.go:53-65`; `SpreadsUnlessLost`).
- A node "resets that timer each time it responds" (diss.tex:559), but a recovery
  sets `timeoutCounter` to 0 while an earlier tick is still to come. When the counter
  reaches its number, the tick is taken for a timeout although the node has just
  handled messages, and a write that its coordinator kept across the failure is
  aborted (`FalseTimeoutsAreStale`).
- "Error means transaction failed" (client.go:16): with two attempts, the first may
  have timed out and take effect although the last was refused. With an overwritten
  queue entry no timeout is needed: the first processing is refused to the client,
  its copy is executed (`AnswersAgain`; `ResultHonest` speaks of the last attempt).
- diss.tex:575 has a participant roll back when told to abort.
  `handleUnlockReq` does not: the staged version stays until the next put.
- Locks are released (`LocksReleased`) only as long as unlocks are remembered.
  Once `cleanUnlockTxids` has dropped an id, a lock request that was overtaken
  by its unlock is granted, and if the answer is lost as well, the lock leaks.
- A replica does not become "monotonically more up-to-date" (diss.tex:230): the
  commit of an older version that was staged before a background write came
  replaces it (`overwritten` in `Propagater`). The quorum of the newer version
  does keep it.
- `propagateTransaction` sends on an unbuffered channel while it holds the lock
  that `streamWrites` takes after receiving; two commits in a row block the main
  loop for ever (`StuckOnlyIfHurried` says when).
- "This goroutine must not block" (dbnode.go:136-138): it does, to arm its timer,
  after a recovery that comes before the tick armed earlier has gone through; the
  second tick stays. With a full inbox neither goroutine can go on.
- A missing response channel does not mean a timeout (client.go:87): it is after a
  refusal that the channel is deleted, after timeouts and successes it stays. So two
  answers to an attempt that timed out block `routeResponses`, and with it every
  call of the client, for ever (what `RouterFlows` leaves open).
- `Lock` "will block until the lock has been acquired" (locker.go:84): it goes on
  blocking if the answer to the acquisition was lost; nobody else gets the lock
  then. `Unlock` likewise, but the lock is free.
- Fail "also cancels resending" of limited requests (repeater.go:121-122): only if
  one of their rounds falls into the failure.
- diss.tex:632 adds an id to the token "if not already present"; `addId` does not
  look. `elector.go:18` names the bully algorithm, and makes a ring.

## 7. What is not modelled, and the plan

In the modelled components:
- of the node, W = 1 (`processLocalWrite`; the manager excludes it with more than
  one node), `coordinatingRead` and `processingRead` (unreachable while
  `fastReads` is constant `true`), `QueryState`, which is for tests, and several
  keys;
- of the elector, the token as a list: ids held twice, and slices that a message
  in flight and `r.token` share, so that an `append` may change a token on its
  way. `LeaderAgreed` is about rings whose nodes all stay up: with n-1 down
  for good, the leader n-2 finds itself at `nextInRing - 1` at a silent tick and
  strikes itself off;
- of the locker, what reads and writes of `wantLock` without synchronisation
  could give beyond an interleaving;
- of the network, partitions as a state: they lose messages, which every module
  allows at any time.

Not modelled at all: `bully.go` (dead code) and `dummy.go`; the files and pages of
`datastore/`, where keys meet only if their MD5 sums do; the flags, statistics
and plotting of `main.go`, `monitor.go` and `scripts/`, which hold no state of the
protocol. The data stores' versions, committed and uncommitted, are `store` and
`staged` in `DbNode`.

Next, in this order.

1. What holds of versions after the first duplicate: which of `Durable`,
   `StoreMovesForward` and `OneValuePerTimestamp` survive while `cleanUnlockTxids`
   forgets nothing, as theorems.
2. The token of `RingElector` as a list.
