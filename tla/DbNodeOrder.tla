----------------------------- MODULE DbNodeOrder -----------------------------
(***************************************************************************)
(* Why the nodes together look like one register: the invariants from      *)
(* which DbNodeOrderProofs and DbNodeVersionProofs derive what clients are *)
(* promised.  Like those of DbNodeInvariant they are stated over the       *)
(* components of a state (wk, qu, nt, st, sg and rp are work, queue,       *)
(* network, store, staged and replies; fl and is are floor and issued).    *)
(***************************************************************************)
EXTENDS DbNodeInvariant

\* net/manager.go: "Strict quorum requires V_R + V_W > n".
StrictQuorums == ReadQuorumSize + WriteQuorumSize > Cardinality(Node)

-----------------------------------------------------------------------------
(* One answer for each request *)

\* A transaction that was answered has been received, and nobody works on it.
Answered(wk, qu, rp, is) ==
  /\ \A r \in rp : r.id \in is
  /\ \A r \in rp : \A n \in Node : \A i \in 1..Len(qu[n]) :
       FromClient(qu[n][i].msg) => qu[n][i].msg.id # r.id
  /\ \A r \in rp : \A n \in Node : wk[n].mode \in Coordinating => wk[n].req.id # r.id
  /\ \A r, s \in rp : r.id = s.id => r = s

\* A coordinator works on the request a client made, and so will those who wait.
AsRequested(wk, qu) ==
  /\ \A n \in Node : wk[n].mode \in Coordinating =>
       /\ wk[n].req = Request(wk[n].req.id, n)
       /\ wk[n].mode \in WritePhases <=> wk[n].req.type \in WriteKinds
  /\ \A n \in Node : \A i \in 1..Len(qu[n]) : FromClient(qu[n][i].msg) =>
       qu[n][i].msg = Request(qu[n][i].msg.id, n)

-----------------------------------------------------------------------------
(* One message at a time between a coordinator and each of its quorum *)

\* What a coordinator has sent to its quorum, and the answer it waits for.
Asks(w) ==
  CASE w.mode = "assemblingQuorum" -> "NodeLockRequestNoTimeout"
    [] w.mode = "coordinatingFastRead" -> "NodeGetRequest"
    [] w.mode = "coordinatingWrite" /\ w.step = "NodePutRequest" -> "NodeTimestampRequest"
    [] OTHER -> "NodePutRequest"
Expects(w) ==
  CASE w.mode = "assemblingQuorum" -> "NodeLockResponse"
    [] w.mode = "coordinatingFastRead" -> "NodeGetResponse"
    [] w.mode = "coordinatingWrite" /\ w.step = "NodePutRequest" -> "NodeGetResponse"
    [] OTHER -> "NodePutResponse"

Silent(w) == {p \in Members(w) : w.members[p].type # Expects(w)}

\* Between c and a member there is one request on its way, or one in the queue
\* of the member, or one answer, of the present phase; none if it has answered.
Conversing(wk, qu, nt, c) ==
  LET w == wk[c]  t == wk[c].req.id IN
  /\ c \notin Members(w)
  /\ Cardinality(Members(w)) =
       (IF w.mode \in WritePhases THEN WriteQuorumSize ELSE ReadQuorumSize) - 1
  /\ w.mode = "coordinatingWrite" => w.step \in {"NodePutRequest", "NodeUnlockRequest"}
  /\ w.waiting = Cardinality(Silent(w))
  /\ \A m \in nt : m.id = t => /\ m.type \in {Asks(w), Expects(w)}
                               /\ Home(m) = c /\ Peer(m) \in Silent(w)
  /\ \A m, x \in nt : m.id = t /\ x.id = t /\ Peer(m) = Peer(x) => m = x
  /\ \A p \in Node : \A i \in 1..Len(qu[p]) : qu[p][i].msg.id = t =>
       /\ w.mode = "assemblingQuorum" /\ p \in Silent(w) /\ qu[p][i].msg.src = c
       /\ \A m \in nt : m.id = t => Peer(m) # p
       /\ \A j \in 1..Len(qu[p]) : qu[p][j].msg.id = t => i = j

Conversations(wk, qu, nt) ==
  \A c \in Node : wk[c].mode \in Coordinating => Conversing(wk, qu, nt, c)

-----------------------------------------------------------------------------
(* Versions *)

Written(rp) == {r \in rp : r.ok /\ r.type = "ClientWriteResponse"}
Top(rp) == Cardinality(Written(rp))
VersionOf(r) == [ts |-> r.ts, val |-> r.id]

\* Reported writes are numbered 1, 2, ... without a gap.
Numbered(rp) ==
  /\ IsFiniteSet(Written(rp))
  /\ \A r \in Written(rp) : r.ts \in 1..Top(rp) /\ r.val = r.id
  /\ \A r, s \in Written(rp) : r.ts = s.ts => r = s
  /\ \A k \in 1..Top(rp) : \E r \in Written(rp) : r.ts = k

Known(rp, v) == v = NoVersion \/ \E r \in Written(rp) : v = VersionOf(r)

\* What a node has stored was reported.
StoresKnown(st, rp) == \A n \in Node : Known(rp, st[n])

\* A coordinator that asks for timestamps: those it has, or will get, are true.
AskingFor(wk, nt, st) ==
  \A c \in Node : wk[c].mode = "coordinatingWrite" /\ wk[c].step = "NodePutRequest" =>
    /\ \A m \in nt : m.id = wk[c].req.id /\ m.type = "NodeGetResponse" =>
         m.ts = st[m.src].ts
    /\ \A p \in Members(wk[c]) : wk[c].members[p].type = "NodeGetResponse" =>
         wk[c].members[p].ts = st[p].ts

Proposed(w) == [ts |-> w.ts, val |-> w.req.id]

\* A coordinator that has members stage its version: it is the next one, and who
\* answered has staged it.
Putting(wk, nt, sg, rp) ==
  \A c \in Node : wk[c].mode = "coordinatingWrite" /\ wk[c].step = "NodeUnlockRequest" =>
    /\ wk[c].ts = Top(rp) + 1
    /\ wk[c].req.type = "ClientStrongWriteRequest" => wk[c].req.ts = wk[c].ts
    /\ sg[c] = Proposed(wk[c])
    /\ \A m \in nt : m.id = wk[c].req.id =>
         /\ m.ts = wk[c].ts /\ m.val = wk[c].req.id
         /\ m.type = "NodePutResponse" /\ m.ok => sg[m.src] = Proposed(wk[c])
    /\ \A p \in Members(wk[c]) : wk[c].members[p].type = "NodePutResponse" =>
         sg[p] = Proposed(wk[c])

CommitComing(nt, t, n) ==
  \E m \in nt : m.type = "NodeUnlockRequest" /\ m.ok /\ m.id = t /\ m.dest = n

\* Of a reported write only the instructions to commit are left; a node that it
\* still locks has staged it and will receive one.
Committed(wk, qu, nt, st, sg, rp) ==
  \A r \in Written(rp) :
    /\ \A m \in nt : m.id = r.id => m.type = "NodeUnlockRequest" /\ m.ok
    /\ \A p \in Node : \A i \in 1..Len(qu[p]) : qu[p][i].msg.id # r.id
    /\ \A n \in Node : wk[n].mode = "processingWrite" /\ wk[n].req.id = r.id =>
         sg[n] = VersionOf(r) /\ st[n].ts < r.ts /\ CommitComing(nt, r.id, n)

\* Nobody is told to commit what was not reported.
CommitsReported(nt, rp) ==
  \A m \in nt : m.type = "NodeUnlockRequest" /\ m.ok => \E r \in Written(rp) : r.id = m.id

\* Node n has version r or a newer one, or will have it before it serves another.
Has(wk, nt, st, sg, r, n) ==
  \/ st[n].ts >= r.ts
  \/ /\ wk[n].mode = "processingWrite" /\ wk[n].req.id = r.id
     /\ sg[n] = VersionOf(r) /\ CommitComing(nt, r.id, n)

WriteQuorums == {Q \in SUBSET Node : Cardinality(Q) >= WriteQuorumSize}

\* A reported write is on a quorum.
Kept(wk, nt, st, sg, rp) ==
  \A r \in Written(rp) : \E Q \in WriteQuorums : \A n \in Q : Has(wk, nt, st, sg, r, n)

\* What a read has been told, or will be, are reported versions; so is what a
\* client was told.
ReadsKnown(wk, nt, rp) ==
  /\ \A c \in Node : wk[c].mode = "coordinatingFastRead" =>
       /\ \A m \in nt : m.id = wk[c].req.id /\ m.type = "NodeGetResponse" =>
            Known(rp, [ts |-> m.ts, val |-> m.val])
       /\ \A p \in Members(wk[c]) : wk[c].members[p].type = "NodeGetResponse" =>
            Known(rp, [ts |-> wk[c].members[p].ts, val |-> wk[c].members[p].val])
  /\ \A s \in rp : s.ok => Known(rp, [ts |-> s.ts, val |-> s.val])

Versions(wk, qu, nt, st, sg, rp) ==
  /\ Numbered(rp) /\ StoresKnown(st, rp)
  /\ AskingFor(wk, nt, st) /\ Putting(wk, nt, sg, rp)
  /\ Committed(wk, qu, nt, st, sg, rp) /\ CommitsReported(nt, rp)
  /\ Kept(wk, nt, st, sg, rp) /\ ReadsKnown(wk, nt, rp)

-----------------------------------------------------------------------------
(* Reads *)

\* Node n has version k or a newer one, or will have it before it serves another.
AtLeast(wk, nt, st, sg, k, n) ==
  \/ st[n].ts >= k
  \/ /\ wk[n].mode = "processingWrite"
     /\ sg[n].ts >= k /\ CommitComing(nt, wk[n].req.id, n)

\* Node n has told the coordinator w of a read of no version older than k, nor is it
\* about to.
Told(w, nt, k, n) ==
  /\ \A m \in nt : m.id = w.req.id /\ m.type = "NodeGetResponse" /\ m.src = n /\ m.ok => m.ts >= k
  /\ n \in Members(w) /\ w.members[n].type = "NodeGetResponse" => w.members[n].ts >= k

\* The nodes that had version k when t was requested, or will have it once they
\* are unlocked: none of them tells t of an older one.
FreshFor(wk, nt, st, sg, k, t) ==
  \E Q \in WriteQuorums : \A n \in Q :
    /\ AtLeast(wk, nt, st, sg, k, n)
    /\ \A c \in Node : wk[c].mode = "coordinatingFastRead" /\ wk[c].req.id = t =>
         Told(wk[c], nt, k, n)

InTime(r, fl) == IF r.type = "ClientWriteResponse" THEN r.ts > fl[r.id] ELSE r.ts >= fl[r.id]

Reads(wk, nt, st, sg, rp, fl, is) ==
  /\ \A t \in Txn : fl[t] <= Top(rp)
  /\ \A r \in rp : r.ok => InTime(r, fl)
  /\ \A t \in is : FreshFor(wk, nt, st, sg, fl[t], t)

-----------------------------------------------------------------------------
(* What crashes leave of this *)

ServesIn(wk, p, t) == wk[p].mode = "processingWrite" /\ wk[p].req.id = t

\* A coordinator that has members stage its version: who answered, and has not
\* forgotten the request in a crash, has staged it.
Staging(wk, nt, sg) ==
  \A c \in Node : wk[c].mode = "coordinatingWrite" /\ wk[c].step = "NodeUnlockRequest" =>
    /\ sg[c] = Proposed(wk[c])
    /\ \A m \in nt : m.id = wk[c].req.id =>
         /\ m.ts = wk[c].ts /\ m.val = wk[c].req.id
         /\ m.type = "NodePutResponse" /\ m.ok /\ ServesIn(wk, m.src, m.id) =>
              sg[m.src] = Proposed(wk[c])
    /\ \A p \in Members(wk[c]) :
         wk[c].members[p].type = "NodePutResponse" /\ ServesIn(wk, p, wk[c].req.id) =>
           sg[p] = Proposed(wk[c])

\* Of a reported write only the instructions to commit are left; a node that still
\* serves it has staged it.
Instructed(wk, qu, nt, sg, rp) ==
  \A r \in Written(rp) :
    /\ r.val = r.id
    /\ \A m \in nt : m.id = r.id => m.type = "NodeUnlockRequest" /\ m.ok
    /\ \A p \in Node : \A i \in 1..Len(qu[p]) : qu[p][i].msg.id # r.id
    /\ \A p \in Node : ServesIn(wk, p, r.id) => sg[p] = VersionOf(r)

Truthful(wk, qu, nt, st, sg, rp) ==
  /\ Staging(wk, nt, sg) /\ Instructed(wk, qu, nt, sg, rp)
  /\ StoresKnown(st, rp) /\ CommitsReported(nt, rp) /\ ReadsKnown(wk, nt, rp)

\* What holds of every request, however nodes crash, if none was overwritten.
RequestInv ==
  /\ TypeOK
  /\ overwrites = 0 => /\ StartedOnce(work, queue, network, issued)
                       /\ Answered(work, queue, replies, issued)
                       /\ AsRequested(work, queue)

\* No request was overwritten and no message delivered twice, whatever crashed.
Undoubled == overwrites = 0 /\ resends = 0

\* The inductive invariant behind RefusedNeverVisible: a version that is stored or
\* read was reported, though a crash may undo the lock under which it was staged.
TruthInv ==
  /\ RequestInv
  /\ Undoubled => /\ Conversations(work, queue, network)
                  /\ Truthful(work, queue, network, store, staged, replies)

-----------------------------------------------------------------------------
\* No message was delivered twice: with duplicates a member may be counted twice.
Unrepeated == Undisturbed /\ resends = 0

\* The inductive invariant behind Linearisable and all that clients are promised:
\* what commitWrite reports is on a quorum, and what handleGetRes reads is from it.
OrderInv ==
  /\ IInv
  /\ Undisturbed => Answered(work, queue, replies, issued) /\ AsRequested(work, queue)
  /\ Unrepeated =>
       /\ Conversations(work, queue, network)
       /\ Versions(work, queue, network, store, staged, replies)
       /\ StrictQuorums => Reads(work, network, store, staged, replies, floor, issued)

=============================================================================
