--------------------------- MODULE DbNodeInvariant ---------------------------
(***************************************************************************)
(* Why two writes never commit at the same time: the invariant from which  *)
(* DbNodeExclusion derives WriteMutualExclusion.  It is stated over the    *)
(* work, queues, network and received transactions of a state (wk, qu, nt, *)
(* is), so that a handler and the end of the main loop that follows it can *)
(* be reasoned about separately.  Last, where a transaction may have left a*)
(* lock, from which DbNodeProofs derives NoOrphanLock.                     *)
(***************************************************************************)
EXTENDS DbNode

FromClient(m) == m.type \in ClientKinds

\* The two ends of a message: the coordinator and the member.
Home(m) == IF m.type \in RequestKinds THEN m.src ELSE m.dest
Peer(m) == IF m.type \in RequestKinds THEN m.dest ELSE m.src

\* Nothing in the state is about transaction t, but perhaps a queued request.
NotStarted(wk, nt, t) ==
  /\ \A m \in nt : m.id # t
  /\ \A n \in Node : wk[n].req.id # t

NeverQueued(qu, t) == \A n \in Node : \A i \in 1..Len(qu[n]) : qu[n][i].msg.id # t

\* A transaction that no node has received yet left no trace.
UnissuedAbsent(wk, qu, nt, is) ==
  \A t \in Txn \ is : NotStarted(wk, nt, t) /\ NeverQueued(qu, t)

\* A client's request that waits in a queue waits in that one place and has not
\* been started: its lock requests, locks and answers are still to come.
QueuedOnce(wk, qu, nt) ==
  \A n \in Node : \A i \in 1..Len(qu[n]) : FromClient(qu[n][i].msg) =>
    /\ NotStarted(wk, nt, qu[n][i].msg.id)
    /\ \A p \in Node : \A j \in 1..Len(qu[p]) :
         qu[p][j].msg.id = qu[n][i].msg.id => p = n /\ j = i

\* A transaction has at most one coordinator.
OneCoordinator(wk) ==
  \A a, b \in Node :
    /\ wk[a].mode \in Coordinating /\ wk[b].mode \in Coordinating
    /\ wk[a].req.id = wk[b].req.id
    => a = b

\* A transaction is started once, from the one place where it was requested.
StartedOnce(wk, qu, nt, is) ==
  UnissuedAbsent(wk, qu, nt, is) /\ QueuedOnce(wk, qu, nt) /\ OneCoordinator(wk)

Holds(wk, m, c) == /\ wk[m].mode = "processingWrite"
                   /\ wk[m].req.id = wk[c].req.id /\ wk[m].req.src = c

OkLockResponse(m) == m.type = "NodeLockResponse" /\ m.ok

\* What coordinator c of a write has around it: messages, queued lock requests
\* and locks of its transaction are between c and its quorum, and nobody has
\* been asked to unlock.
Surrounded(wk, qu, nt, c) ==
  LET t == wk[c].req.id IN
  /\ c \notin Members(wk[c])
  /\ Cardinality(Members(wk[c])) = WriteQuorumSize - 1
  /\ \A m \in nt : m.id = t =>
       /\ m.type # "NodeUnlockRequest"
       /\ m.type \in RequestKinds => m.src = c /\ m.dest \in Members(wk[c])
       /\ m.type \notin RequestKinds => m.dest = c /\ m.src \in Members(wk[c])
  /\ \A n \in Node : \A i \in 1..Len(qu[n]) :
       qu[n][i].msg.id = t => qu[n][i].msg.src = c /\ n \in Members(wk[c])
  /\ \A n \in Node : wk[n].mode = "processingWrite" /\ wk[n].req.id = t
                       => wk[n].req.src = c /\ n \in Members(wk[c])

Asked(w) == {m \in Node : w.members[m].type = "NodeLockRequestNoTimeout"}

\* While c assembles its quorum, members that answered hold its lock, and so do
\* those whose answer is on the way; the others are those it waits for.
Assembling(wk, nt, c) ==
  /\ \A m \in Members(wk[c]) :
       wk[c].members[m].type \in {"NodeLockRequestNoTimeout", "NodeLockResponse"}
  /\ wk[c].waiting = Cardinality(Asked(wk[c]))
  /\ \A m \in Members(wk[c]) : wk[c].members[m].type = "NodeLockResponse" => Holds(wk, m, c)
  /\ \A m \in nt : m.id = wk[c].req.id /\ OkLockResponse(m) =>
       Holds(wk, m.src, c) /\ wk[c].members[m.src].type # "NodeLockResponse"

\* From then on its whole quorum is locked, and no lock is still to be answered.
Locked(wk, nt, c) ==
  /\ \A m \in Members(wk[c]) : Holds(wk, m, c)
  /\ \A m \in nt : m.id = wk[c].req.id => ~OkLockResponse(m)

QuorumsHeld(wk, qu, nt) ==
  \A c \in Node :
    /\ wk[c].mode \in WritePhases => Surrounded(wk, qu, nt, c)
    /\ wk[c].mode = "assemblingQuorum" => Assembling(wk, nt, c)
    /\ wk[c].mode = "coordinatingWrite" => Locked(wk, nt, c)

\* A lock response carries no version, so that two of one member are the same.
BareLockResponses(nt) ==
  \A m \in nt : m.type = "NodeLockResponse" => m.ts = 0 /\ m.val = 0

Consistent(wk, qu, nt, is) ==
  /\ UnissuedAbsent(wk, qu, nt, is)
  /\ QueuedOnce(wk, qu, nt)
  /\ OneCoordinator(wk)
  /\ QuorumsHeld(wk, qu, nt)
  /\ BareLockResponses(nt)

\* The inductive invariant: in undisturbed behaviours every write quorum is held
\* by the one coordinator that assembled it (handleLockRes, handleUnlockReq).
IInv ==
  /\ TypeOK
  /\ Undisturbed => /\ \A n \in Node : ~down[n]
                    /\ Consistent(work, queue, network, issued)

-----------------------------------------------------------------------------
(* Where a transaction is, in every behaviour, disturbed or not *)

\* Node a coordinates transaction t, or has its client's request in the queue.
AtHome(wk, qu, a, t) ==
  \/ wk[a].mode \in Coordinating /\ wk[a].req.id = t
  \/ \E i \in 1..Len(qu[a]) : FromClient(qu[a][i].msg) /\ qu[a][i].msg.id = t

\* Node b serves t or is to serve it, has been or will be asked something about it.
Away(wk, qu, nt, b, t) ==
  \/ wk[b].mode = "processingWrite" /\ wk[b].req.id = t
  \/ \E c \in Node : wk[c].mode \in Coordinating /\ wk[c].req.id = t /\ b \in Members(wk[c])
  \/ \E i \in 1..Len(qu[b]) : ~FromClient(qu[b][i].msg) /\ qu[b][i].msg.id = t
  \/ \E m \in nt : m.id = t /\ Peer(m) = b

\* A transaction is at home at one node, which is no member of its quorums, so
\* that no coordinator is told to unlock what it coordinates itself.
HomesApart(wk, qu, nt, is) ==
  \A t \in Txn : \A a, b \in Node :
    /\ AtHome(wk, qu, a, t) \/ Away(wk, qu, nt, a, t) => t \in is
    /\ AtHome(wk, qu, a, t) /\ AtHome(wk, qu, b, t) => a = b
    /\ AtHome(wk, qu, a, t) => ~Away(wk, qu, nt, a, t)

\* The inductive invariant behind NoOrphanLock.
LockInv == NoOrphanLock /\ HomesApart(work, queue, network, issued)

=============================================================================
