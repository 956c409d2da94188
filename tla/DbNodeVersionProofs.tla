------------------------- MODULE DbNodeVersionProofs -------------------------
(***************************************************************************)
(* Proof of what clients are promised: that a reported write is on a quorum*)
(* and never undone, that a timestamp names one value, that a refused write*)
(* is seen by nobody, that a transaction observes what was reported before *)
(* it was requested, and that the nodes implement the register of Register.*)
(***************************************************************************)
EXTENDS DbNodeOrderProofs

\* What is known of a state in which no request was overwritten and no message
\* delivered twice, whatever nodes have crashed; and if none has.
Sealed == /\ Orderly /\ AnsweredOnce
          /\ Conversations(work, queue, network)
          /\ Truthful(work, queue, network, store, staged, replies)
Settled == /\ Sealed /\ IInv /\ Calm
           /\ Versions(work, queue, network, store, staged, replies)

\* A state with versions that were never lost in a crash is truthful.
LEMMA VersionsTruthful ==
  ASSUME NEW wk, NEW qu, NEW nt, NEW st, NEW sg, NEW rp, Versions(wk, qu, nt, st, sg, rp)
  PROVE  Truthful(wk, qu, nt, st, sg, rp)
<1>1. Staging(wk, nt, sg)
  BY DEF Versions, Putting, Staging
<1>2. Instructed(wk, qu, nt, sg, rp)
  BY DEF Versions, Numbered, Committed, Instructed, ServesIn
<1>3. QED
  BY <1>1, <1>2 DEF Versions, Truthful

-----------------------------------------------------------------------------
(* What a settled state says of a node, of a member, of a reported write *)

LEMMA SettledNode ==
  ASSUME Sealed, NEW p \in Node
  PROVE  /\ work[p] \in Work /\ store[p] \in Version /\ staged[p] \in Version
         /\ work[p].req.id \in Txn => work[p].mode # "idle"
<1>1. work[p] \in Work /\ store[p] \in Version /\ staged[p] \in Version
  BY DEF Sealed, Orderly, HandledOK
<1>2. 0 \notin Txn
  BY TxnAssumption
<1>3. work[p].mode = "idle" => work[p].req.id = 0
  BY <1>1 DEF Work, Idle, NoRequest
<1>4. QED
  BY <1>1, <1>2, <1>3

\* Nobody works on a write that was reported, and it waits in no queue.
LEMMA Reported ==
  ASSUME Sealed, NEW r \in Written(replies)
  PROVE  /\ r \in replies /\ r.ok /\ r.id \in issued /\ r.id \in Txn /\ r.ts \in Nat
         /\ r.val = r.id
         /\ \A p \in Node : work[p].mode \in Coordinating => work[p].req.id # r.id
         /\ \A p \in Node : \A i \in 1..Len(queue[p]) : queue[p][i].msg.id # r.id
         /\ \A m \in network : m.id = r.id => m.type = "NodeUnlockRequest" /\ m.ok
<1>1. r \in replies /\ r.ok
  BY DEF Written
<1>2. r \in ReplyMessage
  BY <1>1 DEF Sealed, Orderly, HandledOK
<1>3. Answered(work, queue, replies, issued)
      /\ Instructed(work, queue, network, staged, replies)
  BY DEF Sealed, AnsweredOnce, Truthful
<1>4. r.id \in issued /\ \A p \in Node : work[p].mode \in Coordinating => work[p].req.id # r.id
  BY <1>1, <1>3 DEF Answered
<1>5. /\ r.val = r.id
      /\ \A p \in Node : \A i \in 1..Len(queue[p]) : queue[p][i].msg.id # r.id
      /\ \A m \in network : m.id = r.id => m.type = "NodeUnlockRequest" /\ m.ok
  BY <1>3 DEF Instructed
<1>6. QED
  BY <1>1, <1>2, <1>4, <1>5 DEF ReplyMessage

LEMMA ReportedNumbered ==
  ASSUME Settled, NEW r \in Written(replies)
  PROVE  r.ts \in 1..Top(replies)
BY DEF Settled, Versions, Numbered

\* The members of a quorum that is locked serve its coordinator.
LEMMA MemberServes ==
  ASSUME Settled, NEW c \in Node, work[c].mode = "coordinatingWrite",
         NEW p \in Members(work[c])
  PROVE  /\ p \in Node /\ p # c /\ Serves(p, work[c].req.id)
         /\ work[p].mode \notin Coordinating
<1>1. Locked(work, network, c) /\ Surrounded(work, queue, network, c)
  BY DEF Settled, IInv, Calm, Undisturbed, Consistent, QuorumsHeld, WritePhases
<1>2. p \in Node
  BY DEF Members
<1>3. QED
  BY <1>1, <1>2 DEF Locked, Holds, Surrounded, Serves, Coordinating, WritePhases

\* Two coordinators of one transaction, or past the assembly, are one.
LEMMA OneWriter ==
  ASSUME Settled, NEW a \in Node, NEW b \in Node
  PROVE  /\ work[a].mode = "coordinatingWrite" /\ work[b].mode = "coordinatingWrite" => a = b
         /\ work[a].mode \in Coordinating /\ work[b].mode \in Coordinating
              /\ work[a].req.id = work[b].req.id => a = b
BY HeldQuorumsExclude DEF Settled, Calm, Consistent, OneCoordinator

\* What a coordinator and a member have between them.
LEMMA MessageBetween ==
  ASSUME Sealed, NEW c \in Node, work[c].mode \in Coordinating,
         NEW m \in network, m.id = work[c].req.id
  PROVE  /\ m.type \in {Asks(work[c]), Expects(work[c])}
         /\ Peer(m) \in Members(work[c]) /\ Peer(m) \in Silent(work[c]) /\ m \in NodeMessage
<1>1. Conversing(work, queue, network, c)
  BY DEF Sealed, Conversations
<1>2. m \in NodeMessage
  BY DEF Sealed, Orderly, HandledOK
<1>3. QED
  BY <1>1, <1>2 DEF Conversing, Silent

\* Who tells a node to commit what it works on has reported it.
LEMMA CommitsOnlyReported ==
  ASSUME Sealed, NEW n \in Node, NEW m \in network, m.type = "NodeUnlockRequest", m.ok,
         work[n].req.id = m.id
  PROVE  \E r \in Written(replies) :
           r.id = m.id /\ work[n].mode = "processingWrite" /\ staged[n] = VersionOf(r)
<1>1. PICK r \in Written(replies) : r.id = m.id
  BY DEF Sealed, Truthful, CommitsReported
<1>2. work[n].mode \notin Coordinating /\ work[n].mode # "idle" /\ work[n] \in Work
  BY <1>1, Reported, SettledNode
<1>3. work[n].mode = "processingWrite"
  BY <1>2 DEF Work, Modes, Coordinating, WritePhases
<1>4. staged[n] = VersionOf(r)
  BY <1>1, <1>3 DEF Sealed, Truthful, Instructed, ServesIn
<1>5. QED
  BY <1>1, <1>3, <1>4

-----------------------------------------------------------------------------
(* What a handler that does not report a write makes of the state *)

\* A handler in such a state, but for the one that commits and reports.
Acts(n, w, q, net, wk, qu) ==
  /\ Sealed /\ resends' = 0
  /\ Effect(n, w, q, net) /\ ~CommitEffect(n, w, q, net)
  /\ Leaves(n, w, q, wk, qu)
Handles(n, w, q, net, wk, qu) == Settled /\ Acts(n, w, q, net, wk, qu)

LEMMA HandledNodes ==
  ASSUME NEW n \in Node, NEW w, NEW q, NEW net, NEW wk, NEW qu, Acts(n, w, q, net, wk, qu)
  PROVE  /\ wk[n] = w /\ \A p \in Node : p # n => wk[p] = work[p]
         /\ qu[n] = q /\ \A p \in Node : p # n => qu[p] = queue[p]
         /\ Conversations(wk, qu, net)
         /\ w \in Work /\ Idle.mode = "idle"
         /\ w.mode \in Coordinating =>
              /\ work[n].mode \in Coordinating /\ w.req = work[n].req
              /\ w.mode \in WritePhases <=> work[n].mode \in WritePhases
BY LeavesOthers, EffectConversations, EffectWork, EffectCoordinates DEF Acts, Sealed, Orderly, Idle

LEMMA WrittenKept ==
  ASSUME NEW n \in Node, NEW w, NEW q, NEW net, Effect(n, w, q, net),
         ~CommitEffect(n, w, q, net)
  PROVE  /\ Written(replies') = Written(replies)
         /\ replies \subseteq replies'
<1>1. \A req, ts : Refusal(req, ts).ok = FALSE
  BY DEF Refusal, Reply
<1>2. \A t, v : Reply("ClientReadResponse", t, v, TRUE).type = "ClientReadResponse"
  BY DEF Reply
<1>3. \/ replies' = replies
      \/ \E r : replies' = replies \cup {r} /\ ~(r.ok /\ r.type = "ClientWriteResponse")
  <2>1. CASE LocalReadEffect(n, w, q, net)
    BY <1>2, <2>1 DEF LocalReadEffect
  <2>2. CASE FinishReadEffect(n, w, q, net)
    <3>1. PICK c, v : replies' = replies \cup {Reply("ClientReadResponse", c.req.id, v, TRUE)}
      BY <2>2 DEF FinishReadEffect
    <3>2. QED
      BY <1>2, <3>1
  <2>3. CASE QuitEffect(n, w, q, net)
    <3>1. PICK ts : GiveUp(n, work[n], ts)
      BY <2>3 DEF QuitEffect
    <3>2. QED
      BY <1>1, <3>1 DEF GiveUp
  <2>4. CASE ExpireEffect(n, w, q, net)
    <3>1. PICK i \in 1..Len(queue[n]) :
            replies' = replies \/ replies' = replies \cup {Refusal(queue[n][i].msg, 0)}
      BY <2>4 DEF ExpireEffect
    <3>2. QED
      BY <1>1, <3>1
  <2>5. QED
    BY <2>1, <2>2, <2>3, <2>4 DEF Effect, PassEffect, IssueEffect, LockEffect, GetEffect,
       TimestampEffect, PutEffect, UnlockEffect, GiveBackEffect, CountEffect, AskEffect,
       StageEffect, NothingWritten
<1>4. QED
  BY <1>3 DEF Written

\* What becomes of the work of n.
LEMMA EffectMode ==
  ASSUME NEW n \in Node, NEW w, NEW q, NEW net, Effect(n, w, q, net)
  PROVE  \/ w = work[n] \/ w = Idle
         \/ CountEffect(n, w, q, net) \/ AskEffect(n, w, q, net) \/ StageEffect(n, w, q, net)
BY DEF Effect, PassEffect, IssueEffect, LocalReadEffect, LockEffect, GetEffect,
   TimestampEffect, PutEffect, UnlockEffect, GiveBackEffect, FinishReadEffect,
   CommitEffect, QuitEffect, ExpireEffect

\* Node n stores the reported write r that it served and had staged.
Stores(n, w, r) ==
  /\ work[n].mode = "processingWrite" /\ work[n].req.id = r.id /\ w = Idle
  /\ staged[n] = VersionOf(r) /\ store'[n] = VersionOf(r)

LEMMA StoreMoves ==
  ASSUME NEW n \in Node, NEW w, NEW q, NEW net, NEW wk, NEW qu, Acts(n, w, q, net, wk, qu),
         NEW p \in Node
  PROVE  \/ store'[p] = store[p]
         \/ p = n /\ \E r \in Written(replies) : Stores(n, w, r)
<1>1. CASE store' = store
  BY <1>1
<1>2. CASE UnlockEffect(n, w, q, net) /\ store' # store
  <2>1. PICK m : /\ m \in network /\ m.type = "NodeUnlockRequest" /\ m.ok
                 /\ work[n].req.id = m.id /\ store' = [store EXCEPT ![n] = staged[n]] /\ w = Idle
    BY <1>2 DEF UnlockEffect, Taken
  <2>2. store \in [Node -> Version]
    BY DEF Acts, Sealed, Orderly, HandledOK
  <2>3. \A x \in Node : x # n => store'[x] = store[x]
    BY <2>1, <2>2
  <2>4. store'[n] = staged[n]
    BY <2>1, <2>2
  <2>5. \E r \in Written(replies) :
           r.id = m.id /\ work[n].mode = "processingWrite" /\ staged[n] = VersionOf(r)
    BY <2>1, CommitsOnlyReported DEF Acts
  <2>6. QED
    BY <2>1, <2>3, <2>4, <2>5 DEF Stores
<1>3. QED
  BY <1>1, <1>2 DEF Acts, Effect, PassEffect, IssueEffect, LocalReadEffect, LockEffect,
     GetEffect, TimestampEffect, PutEffect, GiveBackEffect, CountEffect, FinishReadEffect,
     AskEffect, StageEffect, QuitEffect, GiveUp, ExpireEffect, NothingWritten

\* Unless a crash lost the lock, it replaces an older version.
LEMMA StoresNewer ==
  ASSUME Settled, NEW n \in Node, NEW w, NEW r \in Written(replies), Stores(n, w, r)
  PROVE  store[n].ts < r.ts
BY DEF Settled, Versions, Committed, Stores

\* Node n stages what the coordinator of the transaction it serves has sent.
Puts(n, w, m) ==
  /\ m \in network /\ m.type = "NodePutRequest" /\ m.dest = n /\ Serves(n, m.id)
  /\ staged'[n] = [ts |-> m.ts, val |-> m.val] /\ w = work[n]

LEMMA StagedMoves ==
  ASSUME NEW n \in Node, NEW w, NEW q, NEW net, NEW wk, NEW qu, Acts(n, w, q, net, wk, qu),
         NEW p \in Node, staged'[p] # staged[p]
  PROVE  /\ p = n
         /\ \/ w = Idle
            \/ \E m : Puts(n, w, m)
            \/ /\ work[n].mode = "coordinatingWrite" /\ w.mode = "coordinatingWrite"
               /\ w.step = "NodeUnlockRequest" /\ staged'[n] = Proposed(w)
<1>1. staged \in [Node -> Version]
  BY DEF Acts, Sealed, Orderly, HandledOK
<1>2. CASE PutEffect(n, w, q, net)
  <2>1. PICK m : /\ m \in network /\ m.type = "NodePutRequest" /\ m.dest = n /\ w = work[n]
                 /\ staged' = IF Serves(n, m.id)
                              THEN [staged EXCEPT ![n] = [ts |-> m.ts, val |-> m.val]] ELSE staged
    BY <1>2 DEF PutEffect, Taken
  <2>2. Serves(n, m.id) /\ p = n
    BY <1>1, <2>1
  <2>3. staged'[n] = [ts |-> m.ts, val |-> m.val]
    BY <1>1, <2>1, <2>2
  <2>4. Puts(n, w, m)
    BY <2>1, <2>2, <2>3 DEF Puts
  <2>5. QED
    BY <2>2, <2>4
<1>3. CASE UnlockEffect(n, w, q, net)
  <2>1. w = Idle /\ staged' = [staged EXCEPT ![n] = NoVersion]
    BY <1>3 DEF UnlockEffect
  <2>2. QED
    BY <1>1, <2>1
<1>4. CASE StageEffect(n, w, q, net)
  <2>1. ASSUME NEW m, NEW c, NEW left, NEW k, LastAnswer(n, m, left, c),
               c.mode = "coordinatingWrite",
               staged' = [staged EXCEPT ![n] = [ts |-> k + 1, val |-> c.req.id]],
               w = Awaiting(c, "NodeUnlockRequest", k + 1)
        PROVE  /\ p = n
               /\ work[n].mode = "coordinatingWrite" /\ w.mode = "coordinatingWrite"
               /\ w.step = "NodeUnlockRequest" /\ staged'[n] = Proposed(w)
    <3>1. p = n /\ staged'[n] = [ts |-> k + 1, val |-> c.req.id]
      BY <1>1, <2>1
    <3>2. work[n].mode = "coordinatingWrite"
      BY <2>1 DEF LastAnswer, Counted
    <3>3. QED
      BY <2>1, <3>1, <3>2 DEF Awaiting, Proposed
  <2>2. QED
    BY <1>4, <2>1, ZenonT(40) DEF StageEffect, AllDated
<1>5. CASE QuitEffect(n, w, q, net)
  <2>1. staged' = [staged EXCEPT ![n] = NoVersion] /\ w = Idle
    BY <1>5 DEF QuitEffect, GiveUp
  <2>2. QED
    BY <1>1, <2>1
<1>6. QED
  BY <1>2, <1>3, <1>4, <1>5 DEF Acts, Effect, PassEffect, IssueEffect, LocalReadEffect,
     LockEffect, GetEffect, TimestampEffect, GiveBackEffect, CountEffect, FinishReadEffect,
     AskEffect, ExpireEffect, NothingWritten

\* The store of a coordinator and of its members stays as it is.
LEMMA MemberStoreKept ==
  ASSUME NEW n \in Node, NEW w, NEW q, NEW net, NEW wk, NEW qu, Handles(n, w, q, net, wk, qu),
         NEW c \in Node, work[c].mode = "coordinatingWrite",
         NEW p \in Members(work[c]) \cup {c}
  PROVE  store'[p] = store[p]
<1>1. Settled /\ p \in Node /\ work[c].mode \in Coordinating
  BY DEF Handles, Members, Coordinating, WritePhases
<1>2. ASSUME NEW r \in Written(replies), Stores(n, w, r), p = n
      PROVE  FALSE
  <2>1. work[c].req.id # r.id
    BY <1>1, Reported DEF Settled
  <2>2. work[p].mode = "processingWrite" /\ work[p].req.id = r.id
    BY <1>2 DEF Stores
  <2>3. p # c
    BY <2>2
  <2>4. Serves(p, work[c].req.id)
    BY <1>1, <2>3, MemberServes
  <2>5. QED
    BY <2>1, <2>2, <2>4 DEF Serves
<1>3. QED
  BY <1>1, <1>2, StoreMoves DEF Handles

\* A node that no longer serves was told to unlock.
LEMMA ServerFreed ==
  ASSUME NEW n \in Node, NEW w, NEW q, NEW net, NEW wk, NEW qu, Handles(n, w, q, net, wk, qu),
         work[n].mode = "processingWrite"
  PROVE  \/ w = work[n]
         \/ /\ w = Idle
            /\ \E m : /\ m \in network /\ m.type = "NodeUnlockRequest" /\ m.id = work[n].req.id
                      /\ (m.ok /\ staged[n] # NoVersion => store'[n] = staged[n])
<1> SUFFICES ASSUME w # work[n]
             PROVE  /\ w = Idle
                    /\ \E m : /\ m \in network /\ m.type = "NodeUnlockRequest"
                              /\ m.id = work[n].req.id
                              /\ (m.ok /\ staged[n] # NoVersion => store'[n] = staged[n])
  OBVIOUS
<1>1. ~CommitEffect(n, w, q, net) /\ Effect(n, w, q, net) /\ store \in [Node -> Version]
  BY DEF Handles, Settled, Calm, HandledOK, Acts
<1>2. work[n].mode \notin Coordinating
  BY DEF Coordinating, WritePhases
<1>3. ASSUME NEW m, NEW left, NEW x, LastAnswer(n, m, left, x)
      PROVE  FALSE
  BY <1>2, <1>3 DEF LastAnswer, Answering, Coordinating, WritePhases
<1>4. ~FinishReadEffect(n, w, q, net) /\ ~QuitEffect(n, w, q, net)
  BY <1>2, <1>3 DEF FinishReadEffect, QuitEffect
<1>5. ~CountEffect(n, w, q, net)
  BY <1>2 DEF CountEffect, Answering, Coordinating, WritePhases
<1>6. ~AskEffect(n, w, q, net) /\ ~StageEffect(n, w, q, net)
  BY <1>3 DEF AskEffect, StageEffect, AllDated
<1>7. UnlockEffect(n, w, q, net)
  BY <1>1, <1>4, <1>5, <1>6 DEF Effect, PassEffect, IssueEffect, LocalReadEffect, LockEffect,
     GetEffect, TimestampEffect, PutEffect, GiveBackEffect, ExpireEffect
<1>8. PICK m : /\ m \in network /\ m.type = "NodeUnlockRequest"
               /\ w = (IF work[n].req.id = m.id THEN Idle ELSE work[n])
               /\ \/ store' = [store EXCEPT ![n] = staged[n]]
                  \/ ~(work[n].req.id = m.id /\ staged[n] # NoVersion /\ m.ok)
  BY <1>7 DEF UnlockEffect, Taken
<1>9. work[n].req.id = m.id /\ w = Idle
  BY <1>8
<1>10. m.ok /\ staged[n] # NoVersion => store'[n] = staged[n]
  BY <1>1, <1>8, <1>9
<1>11. QED
  BY <1>8, <1>9, <1>10

\* What a coordinator's members have staged stays as it is, but for what it has
\* sent them.
LEMMA MemberStagedKept ==
  ASSUME NEW n \in Node, NEW w, NEW q, NEW net, NEW wk, NEW qu, Handles(n, w, q, net, wk, qu),
         NEW c \in Node, work[c].mode = "coordinatingWrite", NEW p \in Members(work[c])
  PROVE  \/ staged'[p] = staged[p]
         \/ \E m : /\ m \in network /\ m.type = "NodePutRequest" /\ m.id = work[c].req.id
                   /\ staged'[p] = [ts |-> m.ts, val |-> m.val]
<1>1. /\ Settled /\ p \in Node /\ p # c /\ work[p].mode = "processingWrite"
      /\ work[p].req.id = work[c].req.id
  BY MemberServes DEF Handles, Serves
<1>2. SUFFICES ASSUME staged'[p] # staged[p]
               PROVE  \E m : /\ m \in network /\ m.type = "NodePutRequest"
                             /\ m.id = work[c].req.id
                             /\ staged'[p] = [ts |-> m.ts, val |-> m.val]
  OBVIOUS
<1>3. p = n /\ (w = Idle \/ \E m : Puts(n, w, m))
  BY <1>1, <1>2, StagedMoves DEF Handles
<1>4. CASE \E m : Puts(n, w, m)
  BY <1>1, <1>3, <1>4 DEF Puts, Serves
<1>5. CASE w = Idle
  <2>1. work[n].mode = "processingWrite" /\ w # work[n]
    BY <1>1, <1>3, <1>5 DEF Idle
  <2>2. PICK m : m \in network /\ m.type = "NodeUnlockRequest" /\ m.id = work[n].req.id
    BY <2>1, ServerFreed
  <2>3. work[c].mode \in Coordinating
    BY DEF Coordinating, WritePhases
  <2>4. m.type \in {Asks(work[c]), Expects(work[c])}
    BY <1>1, <1>3, <2>2, <2>3, MessageBetween DEF Settled
  <2>5. QED
    BY <2>2, <2>4 DEF Asks, Expects
<1>6. QED
  BY <1>3, <1>4, <1>5

\* Where a message comes from that a handler sends: the answer to a request, a
\* lock given back, a message of the coordinator n, or the end of a long wait.
TellsVersion(n, u) ==
  \E m \in network :
    /\ m.dest = n /\ m.type = "NodeGetRequest" /\ u.type = "NodeGetResponse" /\ u.id = m.id
    /\ u.src = n /\ [ts |-> u.ts, val |-> u.val] \in {store[n], NoVersion}
    /\ u.ok => u.ts = store[n].ts /\ staged[n] = NoVersion
TellsTimestamp(n, u) ==
  \E m \in network :
    /\ m.dest = n /\ m.type = "NodeTimestampRequest" /\ u.type = "NodeGetResponse"
    /\ u.id = m.id /\ u.src = n /\ (Serves(n, u.id) => u.ts = store[n].ts)
TellsStaged(n, w, u) ==
  \E m \in network :
    /\ m.dest = n /\ m.type = "NodePutRequest" /\ u.type = "NodePutResponse" /\ u.id = m.id
    /\ u.src = n /\ u.ts = m.ts /\ u.val = m.val /\ (u.ok => Puts(n, w, m))
GivesBack(u) ==
  \E m \in network : /\ m.type = "NodeLockResponse" /\ u.id = m.id
                     /\ u.type = "NodeUnlockRequest" /\ ~u.ok
Coordinated(n, w, u) ==
  /\ work[n].mode \in Coordinating /\ u.id = work[n].req.id
  /\ \/ u.type = "NodeTimestampRequest"
     \/ /\ u.type = "NodePutRequest" /\ u.ts = w.ts /\ u.val = u.id
        /\ work[n].mode = "coordinatingWrite"
     \/ u.type = "NodeUnlockRequest" /\ ~u.ok
Expired(n, u) ==
  u.type = "NodeLockResponse" /\ \E i \in 1..Len(queue[n]) : u.id = queue[n][i].msg.id

LEMMA NewMail ==
  ASSUME NEW n \in Node, NEW w, NEW q, NEW net, NEW wk, NEW qu, Acts(n, w, q, net, wk, qu),
         NEW u \in net, u \notin network
  PROVE  \/ TellsVersion(n, u) \/ TellsTimestamp(n, u) \/ TellsStaged(n, w, u)
         \/ GivesBack(u) \/ Coordinated(n, w, u) \/ Expired(n, u)
<1>1. Sealed /\ staged \in [Node -> Version] /\ store[n] \in Version
  BY DEF Acts, Sealed, Orderly, HandledOK
<1>2. ASSUME NEW m, NEW left, Taken(n, m, left)
      PROVE  m \in network /\ m.dest = n /\ left \subseteq network
  BY <1>2 DEF Taken
<1>3. CASE GetEffect(n, w, q, net)
  <2>1. PICK m, left :
          /\ Taken(n, m, left) /\ m.type = "NodeGetRequest"
          /\ net = left \cup {Mail("NodeGetResponse", m.id, n, m.src,
                                   IF staged[n] = NoVersion THEN store[n] ELSE NoVersion,
                                   staged[n] = NoVersion)}
    BY <1>3 DEF GetEffect
  <2>2. u = Mail("NodeGetResponse", m.id, n, m.src,
                 IF staged[n] = NoVersion THEN store[n] ELSE NoVersion, staged[n] = NoVersion)
    BY <1>2, <2>1
  <2>3. /\ u.type = "NodeGetResponse" /\ u.id = m.id /\ u.src = n
        /\ u.ts = (IF staged[n] = NoVersion THEN store[n] ELSE NoVersion).ts
        /\ u.val = (IF staged[n] = NoVersion THEN store[n] ELSE NoVersion).val
        /\ u.ok <=> staged[n] = NoVersion
    BY <2>2 DEF Mail
  <2>4. [ts |-> u.ts, val |-> u.val] \in {store[n], NoVersion} /\ (u.ok => u.ts = store[n].ts)
    <3>1. CASE staged[n] = NoVersion
      <4>1. u.ts = store[n].ts /\ u.val = store[n].val
        BY <2>3, <3>1
      <4>2. store[n] = [ts |-> store[n].ts, val |-> store[n].val]
        BY <1>1 DEF Version
      <4>3. QED
        BY <4>1, <4>2
    <3>2. CASE staged[n] # NoVersion
      BY <2>3, <3>2 DEF NoVersion
    <3>3. QED
      BY <3>1, <3>2
  <2>5. m \in network /\ m.dest = n
    BY <1>2, <2>1
  <2>6. TellsVersion(n, u)
    BY <2>1, <2>3, <2>4, <2>5 DEF TellsVersion
  <2>7. QED
    BY <2>6
<1>4. CASE TimestampEffect(n, w, q, net)
  <2>1. PICK m, left :
          /\ Taken(n, m, left) /\ m.type = "NodeTimestampRequest"
          /\ net = left \cup {Mail("NodeGetResponse", m.id, n, m.src,
                 [ts |-> IF Serves(n, m.id) THEN store[n].ts ELSE 0, val |-> 0], TRUE)}
    BY <1>4 DEF TimestampEffect
  <2>2. u = Mail("NodeGetResponse", m.id, n, m.src,
                 [ts |-> IF Serves(n, m.id) THEN store[n].ts ELSE 0, val |-> 0], TRUE)
    BY <1>2, <2>1
  <2>3. /\ u.type = "NodeGetResponse" /\ u.id = m.id /\ u.src = n
        /\ u.ts = IF Serves(n, m.id) THEN store[n].ts ELSE 0
    BY <2>2 DEF Mail
  <2>4. m \in network /\ m.dest = n
    BY <1>2, <2>1
  <2>5. TellsTimestamp(n, u)
    BY <2>1, <2>3, <2>4 DEF TellsTimestamp
  <2>6. QED
    BY <2>5
<1>5. CASE PutEffect(n, w, q, net)
  <2>1. PICK m, left :
          /\ Taken(n, m, left) /\ m.type = "NodePutRequest"
          /\ net = left \cup {Mail("NodePutResponse", m.id, n, m.src,
                                   [ts |-> m.ts, val |-> m.val], Serves(n, m.id))}
          /\ staged' = IF Serves(n, m.id)
                       THEN [staged EXCEPT ![n] = [ts |-> m.ts, val |-> m.val]] ELSE staged
          /\ w = work[n]
    BY <1>5 DEF PutEffect
  <2>2. u = Mail("NodePutResponse", m.id, n, m.src, [ts |-> m.ts, val |-> m.val],
                 Serves(n, m.id))
    BY <1>2, <2>1
  <2>3. /\ u.type = "NodePutResponse" /\ u.id = m.id /\ u.src = n
        /\ u.ts = m.ts /\ u.val = m.val /\ (u.ok <=> Serves(n, m.id))
    BY <2>2 DEF Mail
  <2>4. m \in network /\ m.dest = n
    BY <1>2, <2>1
  <2>5. u.ok => Puts(n, w, m)
    BY <1>1, <2>1, <2>3, <2>4 DEF Puts
  <2>6. TellsStaged(n, w, u)
    BY <2>1, <2>3, <2>4, <2>5 DEF TellsStaged
  <2>7. QED
    BY <2>6
<1>6. CASE GiveBackEffect(n, w, q, net)
  <2>1. PICK m, left :
          /\ Taken(n, m, left) /\ m.type = "NodeLockResponse"
          /\ net = left \cup {Mail("NodeUnlockRequest", m.id, n, m.src, NoVersion, FALSE)}
    BY <1>6 DEF GiveBackEffect
  <2>2. u = Mail("NodeUnlockRequest", m.id, n, m.src, NoVersion, FALSE) /\ m \in network
    BY <1>2, <2>1
  <2>3. GivesBack(u)
    BY <2>1, <2>2 DEF GivesBack, Mail
  <2>4. QED
    BY <2>3
<1>7. ASSUME NEW type, NEW c, NEW v, NEW ok, c.req = work[n].req,
             u \in ToMembers(type, n, c, v, ok)
      PROVE  u.type = type /\ u.id = work[n].req.id /\ u.ts = v.ts /\ u.val = v.val /\ u.ok = ok
  BY <1>7, ToMembersShape
<1>8. ASSUME NEW m, NEW c, NEW left, LastAnswer(n, m, left, c)
      PROVE  /\ left \subseteq network /\ c.req = work[n].req /\ c.mode = work[n].mode
             /\ work[n].mode \in Coordinating
  BY <1>2, <1>8 DEF LastAnswer, Answering, Counted, Coordinating, WritePhases
<1>9. CASE AskEffect(n, w, q, net)
  <2>1. PICK m, c, left :
          /\ LastAnswer(n, m, left, c)
          /\ net = left \cup ToMembers("NodeTimestampRequest", n, c, NoVersion, TRUE)
    BY <1>9 DEF AskEffect
  <2>2. u \in ToMembers("NodeTimestampRequest", n, c, NoVersion, TRUE)
    BY <1>8, <2>1
  <2>3. QED
    BY <1>7, <1>8, <2>1, <2>2 DEF Coordinated
<1>10. CASE StageEffect(n, w, q, net)
  <2>1. ASSUME NEW m, NEW c, NEW left, NEW k, LastAnswer(n, m, left, c),
               c.mode = "coordinatingWrite", w = Awaiting(c, "NodeUnlockRequest", k + 1),
               net = left \cup ToMembers("NodePutRequest", n, c,
                                         [ts |-> k + 1, val |-> c.req.id], TRUE)
        PROVE  Coordinated(n, w, u)
    <3>1. u \in ToMembers("NodePutRequest", n, c, [ts |-> k + 1, val |-> c.req.id], TRUE)
      BY <1>8, <2>1
    <3>2. /\ u.type = "NodePutRequest" /\ u.id = work[n].req.id
          /\ u.ts = k + 1 /\ u.val = work[n].req.id
      <4> DEFINE v == [ts |-> k + 1, val |-> c.req.id]
      <4>1. v.ts = k + 1 /\ v.val = c.req.id
        OBVIOUS
      <4>2. u \in ToMembers("NodePutRequest", n, c, v, TRUE)
        BY <3>1
      <4> HIDE DEF v
      <4>3. u.type = "NodePutRequest" /\ u.id = work[n].req.id /\ u.ts = v.ts /\ u.val = v.val
        BY <1>7, <1>8, <2>1, <4>2, ZenonT(40)
      <4>4. QED
        BY <1>8, <2>1, <4>1, <4>3
    <3>3. QED
      BY <1>8, <2>1, <3>2 DEF Coordinated, Awaiting
  <2>2. QED
    BY <1>10, <2>1 DEF StageEffect, AllDated
<1>11. CASE QuitEffect(n, w, q, net)
  <2>1. PICK left, c : left \subseteq network /\ c.req = work[n].req
                       /\ net = left \cup Unlocks(n, c, FALSE)
    BY <1>2, <1>11 DEF QuitEffect, TakenAnswer
  <2>2. u \in ToMembers("NodeUnlockRequest", n, c, NoVersion, FALSE)
    BY <2>1 DEF Unlocks
  <2>3. work[n].mode \in Coordinating
    BY <1>11 DEF QuitEffect
  <2>4. QED
    BY <1>7, <2>1, <2>2, <2>3 DEF Coordinated
<1>12. CASE ExpireEffect(n, w, q, net)
  <2>1. PICK i \in 1..Len(queue[n]) :
          \/ net = network
          \/ net = network \cup {Mail("NodeLockResponse", queue[n][i].msg.id, n,
                                      queue[n][i].msg.src, NoVersion, FALSE)}
    BY <1>12 DEF ExpireEffect
  <2>2. u.type = "NodeLockResponse" /\ u.id = queue[n][i].msg.id
    BY <2>1 DEF Mail
  <2>3. QED
    BY <2>2 DEF Expired
<1>13. CASE \/ PassEffect(n, w, q, net) \/ IssueEffect(n, w, q, net)
            \/ LocalReadEffect(n, w, q, net) \/ LockEffect(n, w, q, net)
            \/ UnlockEffect(n, w, q, net)
  BY <1>2, <1>13 DEF PassEffect, IssueEffect, LocalReadEffect, LockEffect, UnlockEffect,
                     TakenAnswer
<1>14. CASE CountEffect(n, w, q, net) \/ FinishReadEffect(n, w, q, net)
  BY <1>2, <1>14 DEF CountEffect, FinishReadEffect, LastAnswer, Answering
<1>15. QED
  BY <1>3, <1>4, <1>5, <1>6, <1>9, <1>10, <1>11, <1>12, <1>13, <1>14 DEF Acts, Effect

-----------------------------------------------------------------------------
(* Reported writes are kept by such a handler *)

\* It sends nothing about them, and no instruction to commit.
LEMMA NewMailUnreported ==
  ASSUME NEW n \in Node, NEW w, NEW q, NEW net, NEW wk, NEW qu, Acts(n, w, q, net, wk, qu),
         NEW u \in net, u \notin network
  PROVE  /\ \A r \in Written(replies) : u.id # r.id
         /\ ~(u.type = "NodeUnlockRequest" /\ u.ok)
<1>1. Sealed
  BY DEF Acts
<1>2. ASSUME NEW m \in network, m.type # "NodeUnlockRequest", NEW r \in Written(replies)
      PROVE  m.id # r.id
  BY <1>1, <1>2, Reported
<1>3. CASE TellsVersion(n, u) \/ TellsTimestamp(n, u) \/ TellsStaged(n, w, u) \/ GivesBack(u)
  BY <1>2, <1>3 DEF TellsVersion, TellsTimestamp, TellsStaged, GivesBack
<1>4. CASE Coordinated(n, w, u) \/ Expired(n, u)
  BY <1>1, <1>4, Reported DEF Coordinated, Expired
<1>5. QED
  BY <1>3, <1>4, NewMail

LEMMA HandledCommits ==
  ASSUME NEW n \in Node, NEW w, NEW q, NEW net, NEW wk, NEW qu, Acts(n, w, q, net, wk, qu)
  PROVE  CommitsReported(net, replies')
<1>1. Written(replies') = Written(replies)
  BY WrittenKept DEF Acts
<1>2. CommitsReported(network, replies)
  BY DEF Acts, Sealed, Truthful
<1>3. ASSUME NEW m \in net, m.type = "NodeUnlockRequest", m.ok
      PROVE  \E r \in Written(replies) : r.id = m.id
  BY <1>2, <1>3, NewMailUnreported DEF CommitsReported
<1>4. QED
  BY <1>1, <1>3 DEF CommitsReported

LEMMA HandledStores ==
  ASSUME NEW n \in Node, NEW w, NEW q, NEW net, NEW wk, NEW qu, Acts(n, w, q, net, wk, qu)
  PROVE  StoresKnown(store', replies')
<1>1. Written(replies') = Written(replies)
  BY WrittenKept DEF Acts
<1>2. StoresKnown(store, replies)
  BY DEF Acts, Sealed, Truthful
<1>3. ASSUME NEW p \in Node
      PROVE  Known(replies, store'[p])
  <2>1. CASE store'[p] = store[p]
    BY <1>2, <2>1 DEF StoresKnown
  <2>2. CASE p = n /\ \E r \in Written(replies) : Stores(n, w, r)
    BY <2>2 DEF Stores, Known
  <2>3. QED
    BY <2>1, <2>2, StoreMoves
<1>4. QED
  BY <1>1, <1>3 DEF StoresKnown, Known

LEMMA HandledQueue ==
  ASSUME NEW n \in Node, NEW w, NEW q, NEW net, NEW wk, NEW qu, Acts(n, w, q, net, wk, qu),
         NEW r \in Written(replies), NEW p \in Node, NEW i \in 1..Len(qu[p])
  PROVE  qu[p][i].msg.id # r.id
<1>1. Sealed /\ Orderly /\ Effect(n, w, q, net)
  BY DEF Acts, Sealed
<1>2. qu[n] = q /\ \A x \in Node : x # n => qu[x] = queue[x]
  BY HandledNodes
<1>3. \A x \in Node : \A k \in 1..Len(queue[x]) : queue[x][k].msg.id # r.id
  BY <1>1, Reported
<1>4. CASE p # n
  BY <1>2, <1>3, <1>4
<1>5. CASE p = n
  <2>1. i \in 1..Len(q)
    BY <1>2, <1>5
  <2>2. \/ \E k \in 1..Len(queue[n]) : q[i] = queue[n][k]
        \/ q[i].msg.id \notin issued
        \/ q[i].msg \in network /\ q[i].msg.type = "NodeLockRequestNoTimeout"
    BY <1>1, <2>1, EffectEntries
  <2>3. q[i].msg.id # r.id
    BY <1>1, <1>3, <2>2, Reported
  <2>4. QED
    BY <1>2, <1>5, <2>3
<1>6. QED
  BY <1>4, <1>5

\* An instruction to commit that was delivered has been followed.
LEMMA Delivered ==
  ASSUME NEW n \in Node, NEW w, NEW q, NEW net, NEW wk, NEW qu, Handles(n, w, q, net, wk, qu),
         NEW u \in network, u \notin net, u.type = "NodeUnlockRequest"
  PROVE  u.dest = n /\ (work[n].req.id = u.id => w = Idle)
<1>1. ASSUME NEW m, NEW left, Taken(n, m, left), u \notin left
      PROVE  u = m /\ u.dest = n
  BY <1>1 DEF Taken
<1>2. u.type \notin AnswerKinds
  BY DEF AnswerKinds
<1>3. ASSUME NEW left, TakenAnswer(n, left) PROVE u \in left
  BY <1>1, <1>2, <1>3 DEF TakenAnswer
<1>4. ASSUME NEW m, NEW left, Answering(n, m, left) PROVE u \in left
  BY <1>1, <1>2, <1>4 DEF Answering, AnswerKinds
<1>5. CASE UnlockEffect(n, w, q, net)
  BY <1>1, <1>5 DEF UnlockEffect
<1>6. CASE ~UnlockEffect(n, w, q, net)
  <2>1. ~PassEffect(n, w, q, net) /\ ~QuitEffect(n, w, q, net)
    BY <1>3 DEF PassEffect, QuitEffect
  <2>2. ~IssueEffect(n, w, q, net) /\ ~LocalReadEffect(n, w, q, net)
    BY DEF IssueEffect, LocalReadEffect
  <2>3. ~LockEffect(n, w, q, net) /\ ~GetEffect(n, w, q, net) /\ ~TimestampEffect(n, w, q, net)
    BY <1>1 DEF LockEffect, GetEffect, TimestampEffect
  <2>4. ~PutEffect(n, w, q, net) /\ ~GiveBackEffect(n, w, q, net)
    BY <1>1 DEF PutEffect, GiveBackEffect
  <2>5. ~CountEffect(n, w, q, net) /\ ~FinishReadEffect(n, w, q, net)
    BY <1>4 DEF CountEffect, FinishReadEffect, LastAnswer
  <2>6. ~AskEffect(n, w, q, net) /\ ~StageEffect(n, w, q, net)
    BY <1>4 DEF AskEffect, StageEffect, AllDated, LastAnswer
  <2>7. ~ExpireEffect(n, w, q, net)
    BY DEF ExpireEffect
  <2>8. QED
    BY <1>6, <2>1, <2>2, <2>3, <2>4, <2>5, <2>6, <2>7 DEF Handles, Effect, Acts
<1>7. QED
  BY <1>5, <1>6

\* A node that serves a reported write goes on, or has stored it.
LEMMA ServerGoesOn ==
  ASSUME NEW n \in Node, NEW w, NEW q, NEW net, NEW wk, NEW qu, Handles(n, w, q, net, wk, qu),
         NEW r \in Written(replies), NEW p \in Node, Serves(p, r.id)
  PROVE  \/ /\ wk[p] = work[p] /\ staged'[p] = staged[p] /\ store'[p] = store[p]
            /\ CommitComing(net, r.id, p)
         \/ wk[p] = Idle /\ store'[p].ts = r.ts
<1>1. Settled /\ work[p].mode = "processingWrite" /\ work[p].req.id = r.id
  BY DEF Handles, Serves
<1>2. Committed(work, queue, network, store, staged, replies)
  BY <1>1 DEF Settled, Versions
<1>3. staged[p] = VersionOf(r) /\ CommitComing(network, r.id, p)
  BY <1>1, <1>2 DEF Committed
<1>4. PICK u \in network : u.type = "NodeUnlockRequest" /\ u.ok /\ u.id = r.id /\ u.dest = p
  BY <1>3 DEF CommitComing
<1>5. /\ wk[n] = w /\ \A x \in Node : x # n => wk[x] = work[x]
      /\ Idle.mode = "idle" /\ w \in Work
  BY HandledNodes DEF Handles
<1>6. CASE p # n
  <2>1. wk[p] = work[p] /\ staged'[p] = staged[p] /\ store'[p] = store[p]
    BY <1>5, <1>6, StagedMoves, StoreMoves DEF Handles
  <2>2. u \in net
    BY <1>4, <1>6, Delivered
  <2>3. QED
    BY <1>4, <2>1, <2>2 DEF CommitComing
<1>7. CASE p = n /\ w = work[n]
  <2>1. w # Idle /\ w.mode # "coordinatingWrite"
    BY <1>1, <1>5, <1>7
  <2>2. u \in net
    BY <1>1, <1>4, <1>7, <2>1, Delivered
  <2>3. store'[p] = store[p]
    BY <1>7, <2>1, StoreMoves DEF Stores, Handles
  <2>4. ASSUME staged'[p] # staged[p] PROVE FALSE
    <3>1. PICK m : Puts(n, w, m)
      BY <2>1, <2>4, StagedMoves DEF Handles
    <3>2. m \in network /\ m.id = r.id /\ m.type = "NodePutRequest"
      BY <1>1, <1>7, <3>1 DEF Puts, Serves
    <3>3. QED
      BY <1>1, <3>2, Reported DEF Settled
  <2>5. QED
    BY <1>4, <1>5, <1>7, <2>2, <2>3, <2>4 DEF CommitComing
<1>8. CASE p = n /\ w # work[n]
  <2>1. /\ w = Idle
        /\ \E m : /\ m \in network /\ m.type = "NodeUnlockRequest" /\ m.id = work[n].req.id
                  /\ (m.ok /\ staged[n] # NoVersion => store'[n] = staged[n])
    BY <1>1, <1>8, ServerFreed
  <2>2. PICK m : /\ m \in network /\ m.type = "NodeUnlockRequest" /\ m.id = r.id
                 /\ (m.ok /\ staged[n] # NoVersion => store'[n] = staged[n])
    BY <1>1, <1>8, <2>1
  <2>3. m.ok /\ r.val = r.id /\ r.id \in Txn
    BY <1>1, <2>2, Reported DEF Settled
  <2>4. staged[n] # NoVersion
    BY <1>3, <1>8, <2>3, TxnAssumption DEF VersionOf, NoVersion
  <2>5. store'[n] = VersionOf(r)
    BY <1>3, <1>8, <2>2, <2>3, <2>4
  <2>6. QED
    BY <1>5, <1>8, <2>1, <2>5 DEF VersionOf
<1>9. QED
  BY <1>6, <1>7, <1>8

LEMMA HandledCommitted ==
  ASSUME NEW n \in Node, NEW w, NEW q, NEW net, NEW wk, NEW qu, Handles(n, w, q, net, wk, qu)
  PROVE  Committed(wk, qu, net, store', staged', replies')
<1>1. Written(replies') = Written(replies) /\ Settled
  BY WrittenKept DEF Handles, Acts
<1>2. SUFFICES ASSUME NEW r \in Written(replies)
      PROVE  /\ \A m \in net : m.id = r.id => m.type = "NodeUnlockRequest" /\ m.ok
             /\ \A p \in Node : \A i \in 1..Len(qu[p]) : qu[p][i].msg.id # r.id
             /\ \A p \in Node : wk[p].mode = "processingWrite" /\ wk[p].req.id = r.id =>
                  staged'[p] = VersionOf(r) /\ store'[p].ts < r.ts /\ CommitComing(net, r.id, p)
  BY <1>1 DEF Committed
<1>3. \A m \in net : m.id = r.id => m.type = "NodeUnlockRequest" /\ m.ok
  BY <1>1, Reported, NewMailUnreported DEF Settled, Handles
<1>4. \A p \in Node : \A i \in 1..Len(qu[p]) : qu[p][i].msg.id # r.id
  BY HandledQueue DEF Handles
<1>5. ASSUME NEW p \in Node, wk[p].mode = "processingWrite", wk[p].req.id = r.id
      PROVE  staged'[p] = VersionOf(r) /\ store'[p].ts < r.ts /\ CommitComing(net, r.id, p)
  <2>1. /\ wk[n] = w /\ \A x \in Node : x # n => wk[x] = work[x]
        /\ Idle.mode = "idle"
    BY HandledNodes DEF Handles
  <2> Effect(n, w, q, net)
    BY DEF Handles, Acts
  <2>2. wk[p] = work[p]
    <3>1. w.mode # "processingWrite" \/ w = work[n]
      <4>1. CASE CountEffect(n, w, q, net)
        BY <4>1 DEF CountEffect, Answering, Counted
      <4>2. CASE AskEffect(n, w, q, net)
        BY <4>2 DEF AskEffect, Awaiting
      <4>3. CASE StageEffect(n, w, q, net)
        BY <4>3 DEF StageEffect, Awaiting
      <4>4. QED
        BY <2>1, <4>1, <4>2, <4>3, EffectMode
    <3>2. QED
      BY <1>5, <2>1, <3>1
  <2>3. Serves(p, r.id) /\ wk[p] # Idle
    BY <1>5, <2>1, <2>2 DEF Serves
  <2>4. staged'[p] = staged[p] /\ store'[p] = store[p] /\ CommitComing(net, r.id, p)
    BY <2>3, ServerGoesOn
  <2>5. staged[p] = VersionOf(r) /\ store[p].ts < r.ts
    BY <1>1, <2>3 DEF Settled, Versions, Committed, Serves
  <2>6. QED
    BY <2>4, <2>5
<1>6. QED
  BY <1>3, <1>4, <1>5

LEMMA HandledKept ==
  ASSUME NEW n \in Node, NEW w, NEW q, NEW net, NEW wk, NEW qu, Handles(n, w, q, net, wk, qu)
  PROVE  Kept(wk, net, store', staged', replies')
<1>1. Written(replies') = Written(replies) /\ Settled
  BY WrittenKept DEF Handles, Acts
<1>2. ASSUME NEW r \in Written(replies), NEW p \in Node,
             Has(work, network, store, staged, r, p)
      PROVE  Has(wk, net, store', staged', r, p)
  <2>1. CASE store[p].ts >= r.ts
    <3>1. CASE store'[p] = store[p]
      BY <2>1, <3>1 DEF Has
    <3>2. CASE p = n /\ \E s \in Written(replies) : Stores(n, w, s)
      <4>1. PICK s \in Written(replies) : Stores(n, w, s)
        BY <3>2
      <4>2. store'[p].ts = s.ts /\ store[p].ts < s.ts
        BY <1>1, <3>2, <4>1, StoresNewer DEF Stores, VersionOf
      <4>3. store[p].ts \in Nat /\ s.ts \in Nat /\ r.ts \in Nat
        BY <1>1, Reported, SettledNode DEF Version, Settled
      <4>4. QED
        BY <2>1, <4>2, <4>3 DEF Has
    <3>3. QED
      BY <3>1, <3>2, StoreMoves DEF Handles
  <2>2. CASE /\ Serves(p, r.id) /\ staged[p] = VersionOf(r)
    <3>1. r.ts \in Nat
      BY <1>1, Reported DEF Settled
    <3>2. QED
      BY <2>2, <3>1, ServerGoesOn DEF Has, Serves
  <2>3. QED
    BY <1>2, <2>1, <2>2 DEF Has, Serves
<1>3. ASSUME NEW r \in Written(replies)
      PROVE  \E Q \in WriteQuorums : \A p \in Q : Has(wk, net, store', staged', r, p)
  <2>1. PICK Q \in WriteQuorums : \A p \in Q : Has(work, network, store, staged, r, p)
    BY <1>1 DEF Settled, Versions, Kept
  <2>2. \A p \in Q : p \in Node
    BY DEF WriteQuorums
  <2>3. QED
    BY <1>2, <2>1, <2>2
<1>4. QED
  BY <1>1, <1>3 DEF Kept

-----------------------------------------------------------------------------
(* Coordinators of writes under such a handler *)

\* An answer is counted that is not the last.
Counts(n, w, net) == \E m : Answering(n, m, net) /\ w = Counted(work[n], m)

LEMMA StagePhase ==
  ASSUME NEW n \in Node, NEW w, NEW q, NEW net, StageEffect(n, w, q, net)
  PROVE  w.mode = "coordinatingWrite" /\ w.step = "NodeUnlockRequest"
<1>1. ASSUME NEW m, NEW c, NEW left, NEW k, AllDated(n, m, left, c, k),
             w = Awaiting(c, "NodeUnlockRequest", k + 1)
      PROVE  w.mode = "coordinatingWrite" /\ w.step = "NodeUnlockRequest"
  BY <1>1 DEF Awaiting
<1>2. QED
  BY <1>1 DEF StageEffect

\* A coordinator past the assembly, after the step: in its phase, with an answer
\* counted perhaps, or in the next.
LEMMA WriterMoves ==
  ASSUME NEW n \in Node, NEW w, NEW q, NEW net, NEW wk, NEW qu, Acts(n, w, q, net, wk, qu),
         NEW c \in Node, wk[c].mode = "coordinatingWrite"
  PROVE  \/ wk[c] = work[c]
         \/ c = n /\ Counts(n, w, net)
         \/ c = n /\ AskEffect(n, w, q, net)
         \/ c = n /\ StageEffect(n, w, q, net)
<1>1. /\ wk[n] = w /\ \A x \in Node : x # n => wk[x] = work[x]
      /\ Idle.mode = "idle"
  BY HandledNodes
<1>2. Effect(n, w, q, net)
  BY DEF Acts
<1>3. CountEffect(n, w, q, net) => Counts(n, w, net)
  BY DEF CountEffect, Counts
<1>4. QED
  BY <1>1, <1>2, <1>3, EffectMode

\* In a phase whose answers are counted, what is known of a member is as before,
\* or what it has just said.
LEMMA CountedEntry ==
  ASSUME NEW n \in Node, NEW w, NEW q, NEW net, NEW wk, NEW qu, Acts(n, w, q, net, wk, qu),
         Counts(n, w, net)
  PROVE  /\ w.mode = work[n].mode /\ w.step = work[n].step /\ w.ts = work[n].ts
         /\ w.req = work[n].req /\ work[n].mode \in Coordinating
         /\ Members(w) = Members(work[n])
         /\ \A p \in Members(w) :
              \/ w.members[p] = work[n].members[p]
              \/ \E m \in network : /\ m.id = work[n].req.id /\ m.ok /\ m.src = p
                                    /\ w.members[p] = [type |-> m.type, ts |-> m.ts, val |-> m.val]
<1>1. Orderly /\ resends' = 0 /\ Conversations(work, queue, network)
  BY DEF Acts, Sealed
<1>2. PICK m : Answering(n, m, net) /\ w = Counted(work[n], m)
  BY DEF Counts
<1>3. work[n].mode \in Coordinating /\ work[n] \in Work
  BY <1>1, <1>2, LastAnswerType
<1>4. Conversing(work, queue, network, n)
  BY <1>1, <1>3 DEF Conversations
<1>5. Members(w) = Members(work[n]) /\ m \in network
  BY <1>1, <1>2, <1>4, AnswerCounted
<1>6. /\ w.mode = work[n].mode /\ w.step = work[n].step /\ w.ts = work[n].ts
      /\ w.req = work[n].req
      /\ w.members = [work[n].members EXCEPT ![m.src] = [type |-> m.type, ts |-> m.ts, val |-> m.val]]
  BY <1>2 DEF Counted
<1>7. m.id = work[n].req.id /\ m.ok
  BY <1>2 DEF Answering
<1>8. ASSUME NEW p \in Members(w)
      PROVE  \/ w.members[p] = work[n].members[p]
             \/ m.src = p /\ w.members[p] = [type |-> m.type, ts |-> m.ts, val |-> m.val]
  <2>1. p \in Node
    BY DEF Members
  <2>2. work[n].members \in [Node -> Answer]
    BY <1>3 DEF Work
  <2>3. QED
    BY <1>6, <2>1, <2>2
<1>9. QED
  BY <1>3, <1>5, <1>6, <1>7, <1>8

LEMMA HandledAsking ==
  ASSUME NEW n \in Node, NEW w, NEW q, NEW net, NEW wk, NEW qu, Handles(n, w, q, net, wk, qu)
  PROVE  AskingFor(wk, net, store')
<1> SUFFICES ASSUME NEW c \in Node, wk[c].mode = "coordinatingWrite",
                    wk[c].step = "NodePutRequest"
             PROVE  /\ \A m \in net : m.id = wk[c].req.id /\ m.type = "NodeGetResponse" =>
                         m.ts = store'[m.src].ts
                    /\ \A p \in Members(wk[c]) : wk[c].members[p].type = "NodeGetResponse" =>
                         wk[c].members[p].ts = store'[p].ts
  BY DEF AskingFor
<1>1. /\ wk[n] = w /\ \A x \in Node : x # n => wk[x] = work[x]
      /\ Conversations(wk, qu, net)
  BY HandledNodes DEF Handles
<1>2. Settled /\ Calm /\ resends' = 0 /\ AskingFor(work, network, store)
      /\ Conversations(work, queue, network)
  BY DEF Handles, Settled, Versions, Sealed, Acts
<1> DEFINE t == work[c].req.id
<1>3. CASE wk[c].req = work[c].req /\ work[c].mode = "coordinatingWrite"
           /\ work[c].step = "NodePutRequest"
  <2>1. work[c].mode \in Coordinating
        /\ Asks(work[c]) = "NodeTimestampRequest" /\ Expects(work[c]) = "NodeGetResponse"
    BY <1>3 DEF Coordinating, WritePhases, Asks, Expects
  <2>2. ASSUME NEW m \in network, m.id = t
        PROVE  /\ m.type \in {"NodeTimestampRequest", "NodeGetResponse"}
               /\ Peer(m) \in Members(work[c]) /\ Peer(m) \in Node
    BY <1>2, <2>1, <2>2, MessageBetween DEF Members, Settled
  <2>3. ASSUME NEW m \in network, m.id = t, m.type = "NodeGetResponse"
        PROVE  m.ts = store'[m.src].ts
    <3>1. m.src \in Members(work[c])
      BY <2>2, <2>3 DEF Peer, RequestKinds
    <3>2. store'[m.src] = store[m.src]
      BY <1>3, <3>1, MemberStoreKept
    <3>3. QED
      BY <1>2, <1>3, <2>3, <3>2 DEF AskingFor
  <2>4. ASSUME NEW m \in net, m.id = t, m.type = "NodeGetResponse", m \notin network
        PROVE  m.ts = store'[m.src].ts
    <3>1. TellsVersion(n, m) \/ TellsTimestamp(n, m)
      BY <2>4, NewMail DEF TellsStaged, GivesBack, Coordinated, Expired, Handles
    <3>2. TellsTimestamp(n, m)
      BY <2>2, <2>4, <3>1 DEF TellsVersion
    <3>3. PICK x \in network : /\ x.dest = n /\ x.type = "NodeTimestampRequest" /\ m.id = x.id
                               /\ m.src = n /\ (Serves(n, m.id) => m.ts = store[n].ts)
      BY <3>2 DEF TellsTimestamp
    <3>4. n \in Members(work[c])
      BY <2>2, <2>4, <3>3 DEF Peer, RequestKinds
    <3>5. Serves(n, t)
      BY <1>2, <1>3, <3>4, MemberServes
    <3>6. store'[n] = store[n]
      BY <1>3, <3>4, MemberStoreKept
    <3>7. QED
      BY <2>4, <3>3, <3>5, <3>6
  <2>5. ASSUME NEW p \in Members(wk[c]), wk[c].members[p].type = "NodeGetResponse"
        PROVE  wk[c].members[p].ts = store'[p].ts
    <3>1. CASE wk[c] = work[c]
      <4>1. store'[p] = store[p]
        BY <1>3, <2>5, <3>1, MemberStoreKept
      <4>2. QED
        BY <1>2, <1>3, <2>5, <3>1, <4>1 DEF AskingFor
    <3>2. CASE c = n /\ Counts(n, w, net)
      <4>1. p \in Members(work[n]) /\ p \in Members(w)
        BY <1>1, <2>5, <3>2, CountedEntry DEF Handles
      <4>2. store'[p] = store[p]
        BY <1>3, <3>2, <4>1, MemberStoreKept
      <4>3. CASE w.members[p] = work[n].members[p]
        BY <1>1, <1>2, <1>3, <2>5, <3>2, <4>1, <4>2, <4>3 DEF AskingFor
      <4>4. CASE \E m \in network :
                   /\ m.id = work[n].req.id /\ m.ok /\ m.src = p
                   /\ w.members[p] = [type |-> m.type, ts |-> m.ts, val |-> m.val]
        <5>1. PICK m \in network :
                /\ m.id = work[n].req.id /\ m.src = p
                /\ w.members[p] = [type |-> m.type, ts |-> m.ts, val |-> m.val]
          BY <4>4
        <5>2. m.type = "NodeGetResponse" /\ w.members[p].ts = m.ts
          BY <1>1, <2>5, <3>2, <5>1
        <5>3. m.ts = store'[p].ts
          BY <2>3, <3>2, <5>1, <5>2
        <5>4. QED
          BY <1>1, <3>2, <5>2, <5>3
      <4>5. \A y \in Members(w) :
              \/ w.members[y] = work[n].members[y]
              \/ \E m \in network :
                   /\ m.id = work[n].req.id /\ m.ok /\ m.src = y
                   /\ w.members[y] = [type |-> m.type, ts |-> m.ts, val |-> m.val]
        BY <3>2, CountedEntry DEF Handles
      <4>6. QED
        BY <4>1, <4>3, <4>4, <4>5
    <3>3. CASE c = n /\ AskEffect(n, w, q, net)
      BY <1>3, <3>3 DEF AskEffect, LastAnswer, Counted
    <3>4. ~StageEffect(n, w, q, net) \/ c # n
      BY <1>1, StagePhase
    <3>5. QED
      BY <3>1, <3>2, <3>3, <3>4, WriterMoves DEF Handles
  <2>6. QED
    BY <1>3, <2>3, <2>4, <2>5
<1>4. CASE c = n /\ AskEffect(n, w, q, net)
  <2>1. PICK m, x, left : /\ LastAnswer(n, m, left, x) /\ w = Awaiting(x, "NodePutRequest", 0)
                          /\ x.mode = "assemblingQuorum"
    BY <1>4 DEF AskEffect
  <2>9. work[n].mode = "assemblingQuorum"
    BY <2>1 DEF LastAnswer, Counted
  <2>2. /\ Answering(n, m, left) /\ x = Counted(work[n], m) /\ w.req = work[n].req
        /\ w.members = [work[n].members EXCEPT ![m.src] = [type |-> m.type, ts |-> m.ts, val |-> m.val]]
        /\ m.type = "NodeLockResponse"
    BY <1>4, <2>9, <2>1 DEF LastAnswer, Awaiting, Counted, Answering
  <2>3. work[n] \in Work /\ work[n].mode \in Coordinating
    BY <1>2, <1>4, <2>9 DEF Calm, HandledOK, Coordinating, WritePhases
  <2>4. Asks(work[n]) = "NodeLockRequestNoTimeout" /\ Expects(work[n]) = "NodeLockResponse"
    BY <1>4, <2>9 DEF Asks, Expects
  <2>5. ASSUME NEW u \in net, u.id = t, u.type = "NodeGetResponse"
        PROVE  FALSE
    <3>1. ASSUME NEW v \in network, v.id = t
          PROVE  v.type \in {"NodeLockRequestNoTimeout", "NodeLockResponse"}
      BY <1>2, <1>4, <2>9, <2>3, <2>4, <3>1, MessageBetween DEF Settled
    <3>2. u \notin network
      BY <2>5, <3>1
    <3>3. TellsVersion(n, u) \/ TellsTimestamp(n, u)
      BY <2>5, <3>2, NewMail DEF TellsStaged, GivesBack, Coordinated, Expired, Handles
    <3>4. QED
      BY <2>5, <3>1, <3>3 DEF TellsVersion, TellsTimestamp
  <2>6. ASSUME NEW p \in Members(w)
        PROVE  w.members[p].type # "NodeGetResponse"
    <3>1. p \in Node /\ work[n].members \in [Node -> Answer]
      BY <2>3 DEF Members, Work
    <3>2. Assembling(work, network, n)
      BY <1>2, <1>4, <2>9 DEF Calm, Consistent, QuorumsHeld
    <3>3. CASE p = m.src
      BY <2>2, <3>1, <3>3
    <3>4. CASE p # m.src
      <4>1. w.members[p] = work[n].members[p]
        BY <2>2, <3>1, <3>4
      <4>2. p \in Members(work[n])
        BY <3>1, <4>1 DEF Members
      <4>3. QED
        BY <3>2, <4>1, <4>2 DEF Assembling
    <3>5. QED
      BY <3>3, <3>4
  <2>7. QED
    BY <1>1, <1>4, <2>2, <2>5, <2>6
<1>5. QED
  <2>1. CASE wk[c] = work[c]
    BY <1>3, <2>1
  <2>2. CASE c = n /\ Counts(n, w, net)
    BY <1>1, <1>3, <2>2, CountedEntry DEF Handles
  <2>3. CASE c = n /\ AskEffect(n, w, q, net)
    BY <1>4, <2>3
  <2>4. ~StageEffect(n, w, q, net) \/ c # n
    BY <1>1, StagePhase
  <2>5. QED
    BY <2>1, <2>2, <2>3, <2>4, WriterMoves DEF Handles

\* Node n coordinates c, whose quorum has answered; what the last answer said.
LEMMA QuorumComplete ==
  ASSUME Sealed, resends' = 0, NEW n \in Node, NEW m, NEW c, NEW left, LastAnswer(n, m, left, c)
  PROVE  /\ c.mode = work[n].mode /\ c.step = work[n].step /\ c.req = work[n].req
         /\ c.ts = work[n].ts /\ work[n].mode \in Coordinating /\ work[n] \in Work
         /\ m \in network /\ m.id = work[n].req.id /\ m.ok /\ m.type = Expects(work[n])
         /\ left = network \ {m} /\ \A u \in left : u.id # work[n].req.id
         /\ Members(c) = Members(work[n])
         /\ \A p \in Node : \A i \in 1..Len(queue[p]) : queue[p][i].msg.id # work[n].req.id
         /\ \A p \in Members(c) :
              /\ c.members[p].type = Expects(work[n])
              /\ \/ p = m.src /\ c.members[p] = [type |-> m.type, ts |-> m.ts, val |-> m.val]
                 \/ c.members[p] = work[n].members[p]
<1>1. Answering(n, m, left) /\ c = Counted(work[n], m) /\ c.waiting = 0 /\ Orderly
  BY DEF LastAnswer, Sealed
<1>2. work[n].mode \in Coordinating /\ work[n] \in Work
  BY <1>1, LastAnswerType
<1>3. Conversing(work, queue, network, n)
  BY <1>2 DEF Sealed, Conversations
<1>4. /\ m \in network /\ left = network \ {m} /\ m.type = Expects(work[n])
      /\ Expects(c) = Expects(work[n]) /\ Members(c) = Members(work[n])
      /\ c.waiting = Cardinality(Silent(c)) /\ IsFiniteSet(Silent(c))
      /\ \A u \in left : u.id = work[n].req.id => Peer(u) \in Silent(c)
      /\ \A p \in Node : \A i \in 1..Len(queue[p]) :
           queue[p][i].msg.id = work[n].req.id => p \in Silent(c)
  BY <1>1, <1>3, AnswerCounted
<1>5. Silent(c) = {}
  BY <1>1, <1>4, FS_EmptySet
<1>6. /\ c.mode = work[n].mode /\ c.step = work[n].step /\ c.req = work[n].req
      /\ c.ts = work[n].ts /\ m.id = work[n].req.id /\ m.ok
      /\ c.members = [work[n].members EXCEPT ![m.src] = [type |-> m.type, ts |-> m.ts, val |-> m.val]]
  BY <1>1 DEF Counted, Answering
<1>7. ASSUME NEW p \in Members(c)
      PROVE  /\ c.members[p].type = Expects(work[n])
             /\ \/ p = m.src /\ c.members[p] = [type |-> m.type, ts |-> m.ts, val |-> m.val]
                \/ c.members[p] = work[n].members[p]
  <2>1. p \in Node /\ work[n].members \in [Node -> Answer]
    BY <1>2 DEF Members, Work
  <2>2. c.members[p].type = Expects(work[n])
    BY <1>4, <1>5 DEF Silent
  <2>3. QED
    BY <1>6, <2>1, <2>2
<1>8. QED
  BY <1>2, <1>4, <1>5, <1>6, <1>7

\* The timestamps of a locked quorum include that of the last reported write, and
\* no newer one.
LEMMA LatestIsTop ==
  ASSUME Settled, resends' = 0, NEW n \in Node, NEW m, NEW c, NEW left, NEW k,
         AllDated(n, m, left, c, k)
  PROVE  k = Top(replies)
<1> DEFINE top == Top(replies)
<1>1. /\ LastAnswer(n, m, left, c) /\ Latest(n, c, k)
      /\ c.mode = "coordinatingWrite" /\ c.step = "NodePutRequest"
  BY DEF AllDated
<1>2. /\ work[n].mode = "coordinatingWrite" /\ work[n].step = "NodePutRequest"
      /\ Members(c) = Members(work[n]) /\ m \in network /\ m.id = work[n].req.id
      /\ m.type = Expects(work[n]) /\ work[n].mode \in Coordinating
      /\ \A p \in Members(c) :
              /\ c.members[p].type = Expects(work[n])
              /\ \/ p = m.src /\ c.members[p] = [type |-> m.type, ts |-> m.ts, val |-> m.val]
                 \/ c.members[p] = work[n].members[p]
  BY <1>1, QuorumComplete DEF Settled
<1>3. Expects(work[n]) = "NodeGetResponse"
  BY <1>2 DEF Expects
<1>4. /\ AskingFor(work, network, store) /\ Numbered(replies) /\ StoresKnown(store, replies)
      /\ Kept(work, network, store, staged, replies)
  BY DEF Settled, Versions
<1>5. ASSUME NEW p \in Members(c) PROVE c.members[p].ts = store[p].ts
  BY <1>2, <1>3, <1>4, <1>5 DEF AskingFor
<1>6. top \in Nat
  BY <1>4, FS_CardinalityType DEF Numbered, Top
<1>7. ASSUME NEW p \in Node PROVE store[p].ts \in Nat /\ store[p].ts <= top
  <2>1. store[p].ts \in Nat
    BY SettledNode DEF Version, Settled
  <2>2. CASE store[p] = NoVersion
    BY <1>6, <2>1, <2>2 DEF NoVersion
  <2>3. CASE \E r \in Written(replies) : store[p] = VersionOf(r)
    <3>1. PICK r \in Written(replies) : store[p] = VersionOf(r)
      BY <2>3
    <3>2. r.ts \in 1..top /\ store[p].ts = r.ts
      BY <1>4, <3>1 DEF VersionOf, Numbered
    <3>3. QED
      BY <1>6, <3>2
  <2>4. QED
    BY <1>4, <2>1, <2>2, <2>3 DEF StoresKnown, Known
<1>8. k \in Nat /\ k <= top /\ store[n].ts <= k
      /\ \A p \in Members(c) : store[p].ts <= k
  <2>1. \A p \in Members(c) : p \in Node
    BY DEF Members
  <2>2. QED
    BY <1>1, <1>5, <1>7, <2>1 DEF Latest
<1> HIDE DEF top
<1>9. ASSUME top > 0 PROVE k >= top
  <2>1. PICK r \in Written(replies) : r.ts = top
    BY <1>4, <1>6, <1>9 DEF Numbered, top
  <2>2. PICK Q \in WriteQuorums : \A p \in Q : Has(work, network, store, staged, r, p)
    BY <1>4 DEF Kept
  <2> DEFINE P == Members(work[n]) \cup {n}
  <2>3. P \in SUBSET Node /\ Cardinality(P) = WriteQuorumSize
    <3>1. Conversing(work, queue, network, n)
      BY <1>2 DEF Settled, Conversations, Sealed
    <3>2. n \notin Members(work[n]) /\ Cardinality(Members(work[n])) = WriteQuorumSize - 1
      BY <1>2, <3>1 DEF Conversing, WritePhases
    <3>3. Members(work[n]) \subseteq Node /\ IsFiniteSet(Members(work[n]))
      BY NodeAssumption, FS_Subset DEF Members
    <3>4. Cardinality(P) = Cardinality(Members(work[n])) + 1
      BY <3>2, <3>3, FS_AddElement
    <3>5. QED
      BY <3>2, <3>3, <3>4, QuorumSizes
  <2> HIDE DEF P
  <2>4. Q \subseteq Node /\ Cardinality(Q) >= WriteQuorumSize
    BY DEF WriteQuorums
  <2>5. Q \cap P # {}
    <3>1. Cardinality(Node) \in Nat /\ Cardinality(Q) \in Nat
      BY <2>4, NodeAssumption, FS_CardinalityType, FS_Subset
    <3>2. Cardinality(Q) + Cardinality(P) > Cardinality(Node)
      BY <2>3, <2>4, <3>1, QuorumAssumption, QuorumSizes
    <3>3. QED
      BY <2>3, <2>4, <3>2, NodeAssumption, FS_MajoritiesIntersect
  <2>6. PICK p \in Q : p \in P
    BY <2>5
  <2>7. p \in Node /\ (p = n \/ p \in Members(work[n]))
    BY <2>4, <2>6 DEF P
  <2>8. ~Serves(p, r.id)
    <3>1. work[n].req.id # r.id
      BY <1>2, Reported DEF Settled
    <3>2. CASE p = n
      BY <1>2, <3>2 DEF Serves
    <3>3. CASE p \in Members(work[n])
      BY <1>2, <3>1, <3>3, MemberServes DEF Serves
    <3>4. QED
      BY <2>7, <3>2, <3>3
  <2>9. store[p].ts >= top
    BY <2>1, <2>2, <2>8 DEF Has, Serves
  <2>10. store[p].ts <= k
    BY <1>2, <1>8, <2>7
  <2>11. QED
    BY <1>6, <1>7, <1>8, <2>7, <2>9, <2>10
<1>10. k = top
  BY <1>6, <1>8, <1>9
<1>11. QED
  BY <1>10 DEF top

\* What a coordinator proposes when it has heard all the timestamps.
LEMMA ProposalForm ==
  ASSUME Sealed, resends' = 0, NEW n \in Node, NEW w, NEW q, NEW net, StageEffect(n, w, q, net)
  PROVE  /\ work[n].mode = "coordinatingWrite" /\ work[n].step = "NodePutRequest"
         /\ w.mode = "coordinatingWrite" /\ w.req = work[n].req
         /\ w.req.type = "ClientStrongWriteRequest" => w.req.ts = w.ts
         /\ staged'[n] = Proposed(w)
         /\ \A p \in Members(w) : w.members[p].type = "NodeGetResponse"
         /\ \E m, c, left, k : AllDated(n, m, left, c, k) /\ w.ts = k + 1
<1>1. staged \in [Node -> Version]
  BY DEF Sealed, Orderly, HandledOK
<1>2. PICK m, c, left, k :
        /\ AllDated(n, m, left, c, k)
        /\ c.req.type = "ClientStrongWriteRequest" => c.req.ts = k + 1
        /\ staged' = [staged EXCEPT ![n] = [ts |-> k + 1, val |-> c.req.id]]
        /\ w = Awaiting(c, "NodeUnlockRequest", k + 1)
  BY DEF StageEffect
<1>3. /\ LastAnswer(n, m, left, c) /\ c.mode = "coordinatingWrite"
      /\ c.step = "NodePutRequest"
  BY <1>2 DEF AllDated
<1>4. /\ c.mode = work[n].mode /\ c.step = work[n].step /\ c.req = work[n].req
      /\ \A p \in Members(c) :
            /\ c.members[p].type = Expects(work[n])
            /\ \/ p = m.src /\ c.members[p] = [type |-> m.type, ts |-> m.ts, val |-> m.val]
               \/ c.members[p] = work[n].members[p]
  BY <1>3, QuorumComplete
<1>5. /\ work[n].mode = "coordinatingWrite" /\ work[n].step = "NodePutRequest"
      /\ c.req = work[n].req
      /\ \A p \in Members(c) : c.members[p].type = Expects(work[n])
  BY <1>3, <1>4
<1>6. /\ w.mode = "coordinatingWrite" /\ w.req = c.req /\ w.ts = k + 1
      /\ w.members = c.members
  BY <1>2, <1>3 DEF Awaiting
<1>7. staged'[n] = Proposed(w)
  BY <1>1, <1>2, <1>6 DEF Proposed
<1>8. Expects(work[n]) = "NodeGetResponse" /\ Members(w) = Members(c)
  BY <1>5, <1>6 DEF Expects, Members
<1>9. QED
  BY <1>2, <1>5, <1>6, <1>7, <1>8

\* If no crash has cost a member its lock, that is the next version.
LEMMA StageProposal ==
  ASSUME Settled, resends' = 0, NEW n \in Node, NEW w, NEW q, NEW net, StageEffect(n, w, q, net)
  PROVE  w.ts = Top(replies) + 1
<1>1. PICK m, c, left, k : AllDated(n, m, left, c, k) /\ w.ts = k + 1
  BY ProposalForm DEF Settled
<1>2. QED
  BY <1>1, LatestIsTop

LEMMA HandledPutting ==
  ASSUME NEW n \in Node, NEW w, NEW q, NEW net, NEW wk, NEW qu, Handles(n, w, q, net, wk, qu)
  PROVE  Putting(wk, net, staged', replies')
<1> SUFFICES ASSUME NEW c \in Node, wk[c].mode = "coordinatingWrite",
                    wk[c].step = "NodeUnlockRequest"
             PROVE  /\ wk[c].ts = Top(replies) + 1
                    /\ wk[c].req.type = "ClientStrongWriteRequest" => wk[c].req.ts = wk[c].ts
                    /\ staged'[c] = Proposed(wk[c])
                    /\ \A m \in net : m.id = wk[c].req.id =>
                         /\ m.ts = wk[c].ts /\ m.val = wk[c].req.id
                         /\ m.type = "NodePutResponse" /\ m.ok => staged'[m.src] = Proposed(wk[c])
                    /\ \A p \in Members(wk[c]) : wk[c].members[p].type = "NodePutResponse" =>
                         staged'[p] = Proposed(wk[c])
  <2>1. Written(replies') = Written(replies)
    BY WrittenKept DEF Handles, Acts
  <2>2. Top(replies') = Top(replies)
    BY <2>1 DEF Top
  <2>3. QED
    BY <2>2 DEF Putting
<1>1. /\ wk[n] = w /\ \A x \in Node : x # n => wk[x] = work[x]
      /\ Conversations(wk, qu, net)
  BY HandledNodes DEF Handles
<1>2. Settled /\ Calm /\ resends' = 0 /\ Putting(work, network, staged, replies)
  BY DEF Handles, Settled, Versions, Acts
<1> DEFINE t == wk[c].req.id
<1>3. ASSUME NEW u \in net, u.id = t
      PROVE  u.type \in {"NodePutRequest", "NodePutResponse"}
  <2>1. wk[c].mode \in Coordinating
    BY DEF Coordinating, WritePhases
  <2>2. u.type \in {Asks(wk[c]), Expects(wk[c])}
    BY <1>1, <1>3, <2>1 DEF Conversations, Conversing
  <2>3. QED
    BY <2>2 DEF Asks, Expects
\* A message that c has just sent.
<1>4. ASSUME work[c].mode = "coordinatingWrite", work[c].req = wk[c].req,
             NEW u \in net, u.id = t, u \notin network
      PROVE  \/ u.type = "NodePutRequest" /\ u.ts = wk[c].ts /\ u.val = t
             \/ TellsStaged(n, w, u)
  <2>1. Coordinated(n, w, u) \/ TellsStaged(n, w, u)
    BY <1>3, <1>4, NewMail DEF TellsVersion, TellsTimestamp, GivesBack, Expired, Handles
  <2>2. ASSUME Coordinated(n, w, u)
        PROVE  u.type = "NodePutRequest" /\ u.ts = wk[c].ts /\ u.val = t
    <3>1. /\ u.type = "NodePutRequest" /\ u.ts = w.ts /\ u.val = u.id
          /\ work[n].mode = "coordinatingWrite"
      BY <1>3, <1>4, <2>2 DEF Coordinated
    <3>2. c = n
      BY <1>2, <1>4, <3>1, OneWriter
    <3>3. QED
      BY <1>1, <1>4, <3>1, <3>2
  <2>3. QED
    BY <2>1, <2>2
<1>5. CASE /\ wk[c].req = work[c].req /\ wk[c].ts = work[c].ts
           /\ work[c].mode = "coordinatingWrite" /\ work[c].step = "NodeUnlockRequest"
           /\ wk[c] = work[c] \/ (c = n /\ Counts(n, w, net))
  <2>1. Proposed(wk[c]) = Proposed(work[c])
    BY <1>5 DEF Proposed
  <2>2. /\ work[c].ts = Top(replies) + 1
        /\ work[c].req.type = "ClientStrongWriteRequest" => work[c].req.ts = work[c].ts
        /\ staged[c] = Proposed(work[c])
        /\ \A m \in network : m.id = t =>
             /\ m.ts = work[c].ts /\ m.val = t
             /\ m.type = "NodePutResponse" /\ m.ok => staged[m.src] = Proposed(work[c])
        /\ \A p \in Members(work[c]) : work[c].members[p].type = "NodePutResponse" =>
             staged[p] = Proposed(work[c])
    BY <1>2, <1>5 DEF Putting
  <2>3. staged'[c] = Proposed(wk[c])
    <3>1. CASE staged'[c] = staged[c]
      BY <2>1, <2>2, <3>1
    <3>2. CASE staged'[c] # staged[c]
      <4>1. c = n /\ (w = Idle \/ (\E m : Puts(n, w, m)) \/ staged'[n] = Proposed(w))
        BY <3>2, StagedMoves DEF Handles
      <4>2. w # Idle
        BY <1>1, <4>1 DEF Idle
      <4>3. ~\E m : Puts(n, w, m)
        BY <1>5, <4>1 DEF Puts, Serves
      <4>4. QED
        BY <1>1, <4>1, <4>2, <4>3
    <3>3. QED
      BY <3>1, <3>2
  <2>4. ASSUME NEW p \in Members(work[c]), staged[p] = Proposed(work[c])
        PROVE  staged'[p] = Proposed(wk[c])
    <3>1. ASSUME NEW m \in network, m.id = t, staged'[p] = [ts |-> m.ts, val |-> m.val]
          PROVE  staged'[p] = Proposed(wk[c])
      BY <1>5, <2>2, <3>1 DEF Proposed
    <3>2. \/ staged'[p] = staged[p]
          \/ \E m : /\ m \in network /\ m.type = "NodePutRequest" /\ m.id = work[c].req.id
                    /\ staged'[p] = [ts |-> m.ts, val |-> m.val]
      BY <1>5, MemberStagedKept
    <3>3. QED
      BY <1>5, <2>1, <2>4, <3>1, <3>2
  <2>5. ASSUME NEW u \in network, u.id = t, u.type = "NodePutResponse"
        PROVE  u.src \in Members(work[c])
    <3>1. work[c].mode \in Coordinating
      BY <1>5 DEF Coordinating, WritePhases
    <3>2. Peer(u) \in Members(work[c])
      BY <1>2, <1>5, <2>5, <3>1, MessageBetween DEF Settled
    <3>3. QED
      BY <2>5, <3>2 DEF Peer, RequestKinds
  <2>6. ASSUME NEW u \in net, u.id = t
        PROVE  /\ u.ts = wk[c].ts /\ u.val = t
               /\ u.type = "NodePutResponse" /\ u.ok => staged'[u.src] = Proposed(wk[c])
    <3>1. CASE u \in network
      BY <1>5, <2>2, <2>4, <2>5, <2>6, <3>1
    <3>2. CASE TellsStaged(n, w, u)
      <4>1. PICK m \in network :
              /\ m.type = "NodePutRequest" /\ u.id = m.id /\ u.src = n
              /\ u.ts = m.ts /\ u.val = m.val /\ (u.ok => Puts(n, w, m))
        BY <3>2 DEF TellsStaged
      <4>2. m.ts = work[c].ts /\ m.val = t
        BY <2>2, <2>6, <4>1
      <4>3. u.ok => staged'[n] = Proposed(wk[c])
        BY <1>5, <4>1, <4>2 DEF Puts, Proposed
      <4>4. QED
        BY <1>5, <4>1, <4>2, <4>3
    <3>3. QED
      BY <1>4, <1>5, <2>6, <3>1, <3>2
  <2>7. ASSUME NEW p \in Members(wk[c]), wk[c].members[p].type = "NodePutResponse"
        PROVE  staged'[p] = Proposed(wk[c])
    <3>1. CASE wk[c] = work[c]
      BY <2>2, <2>4, <2>7, <3>1
    <3>2. CASE c = n /\ Counts(n, w, net)
      <4>1. p \in Members(work[n]) /\ p \in Members(w)
        BY <1>1, <2>7, <3>2, CountedEntry DEF Handles
      <4>2. \A y \in Members(w) :
              \/ w.members[y] = work[n].members[y]
              \/ \E m \in network :
                   /\ m.id = work[n].req.id /\ m.ok /\ m.src = y
                   /\ w.members[y] = [type |-> m.type, ts |-> m.ts, val |-> m.val]
        BY <3>2, CountedEntry DEF Handles
      <4>3. CASE w.members[p] = work[n].members[p]
        BY <1>1, <2>2, <2>4, <2>7, <3>2, <4>1, <4>3
      <4>4. CASE \E m \in network :
                   /\ m.id = work[n].req.id /\ m.ok /\ m.src = p
                   /\ w.members[p] = [type |-> m.type, ts |-> m.ts, val |-> m.val]
        <5>1. PICK m \in network :
                /\ m.id = t /\ m.ok /\ m.src = p
                /\ w.members[p] = [type |-> m.type, ts |-> m.ts, val |-> m.val]
          BY <1>5, <3>2, <4>4
        <5>2. m.type = "NodePutResponse"
          BY <1>1, <2>7, <3>2, <5>1
        <5>3. staged[p] = Proposed(work[c])
          BY <2>2, <5>1, <5>2
        <5>4. QED
          BY <2>4, <3>2, <4>1, <5>3
      <4>5. QED
        BY <4>1, <4>2, <4>3, <4>4
    <3>3. QED
      BY <1>5, <3>1, <3>2
  <2>8. QED
    BY <1>5, <2>2, <2>3, <2>6, <2>7
<1>6. CASE c = n /\ StageEffect(n, w, q, net)
  <2>1. /\ work[n].mode = "coordinatingWrite" /\ work[n].step = "NodePutRequest"
        /\ w.req = work[n].req /\ w.ts = Top(replies) + 1
        /\ w.req.type = "ClientStrongWriteRequest" => w.req.ts = w.ts
        /\ staged'[n] = Proposed(w)
        /\ \A p \in Members(w) : w.members[p].type = "NodeGetResponse"
    BY <1>2, <1>6, ProposalForm, StageProposal DEF Settled
  <2>2. ASSUME NEW u \in network, u.id = t
        PROVE  u.type \notin {"NodePutRequest", "NodePutResponse"}
    <3>1. work[n].mode \in Coordinating
          /\ Asks(work[n]) = "NodeTimestampRequest" /\ Expects(work[n]) = "NodeGetResponse"
      BY <2>1 DEF Coordinating, WritePhases, Asks, Expects
    <3>2. u.type \in {Asks(work[n]), Expects(work[n])}
      BY <1>1, <1>2, <1>6, <2>1, <2>2, <3>1, MessageBetween DEF Settled
    <3>3. QED
      BY <3>1, <3>2
  <2>3. ASSUME NEW u \in net, u.id = t
        PROVE  u.type = "NodePutRequest" /\ u.ts = wk[c].ts /\ u.val = t
    <3>1. u \notin network
      BY <1>3, <2>2, <2>3
    <3>2. ~TellsStaged(n, w, u)
      BY <2>2, <2>3 DEF TellsStaged
    <3>3. QED
      BY <1>1, <1>4, <1>6, <2>1, <2>3, <3>1, <3>2
  <2>4. QED
    BY <1>1, <1>6, <2>1, <2>3
<1>7. QED
  <2>1. ASSUME AskEffect(n, w, q, net), c = n PROVE FALSE
    <3>1. PICK x : w = Awaiting(x, "NodePutRequest", 0)
      BY <2>1 DEF AskEffect
    <3>2. w.step = "NodePutRequest"
      BY <3>1 DEF Awaiting
    <3>3. QED
      BY <1>1, <2>1, <3>2
  <2>2. CASE c = n /\ Counts(n, w, net)
    BY <1>1, <1>5, <2>2, CountedEntry DEF Handles
  <2>3. QED
    BY <1>5, <1>6, <2>1, <2>2, WriterMoves DEF Handles

-----------------------------------------------------------------------------
(* Reads, and the versions, under such a handler *)

LEMMA ReaderMoves ==
  ASSUME NEW n \in Node, NEW w, NEW q, NEW net, NEW wk, NEW qu, Acts(n, w, q, net, wk, qu),
         NEW c \in Node, wk[c].mode = "coordinatingFastRead"
  PROVE  wk[c] = work[c] \/ (c = n /\ Counts(n, w, net))
<1>1. /\ wk[n] = w /\ \A x \in Node : x # n => wk[x] = work[x]
      /\ Idle.mode = "idle"
  BY HandledNodes
<1>2. Effect(n, w, q, net) /\ Sealed /\ resends' = 0
  BY DEF Acts
<1>3. CountEffect(n, w, q, net) => Counts(n, w, net)
  BY DEF CountEffect, Counts
<1>4. AskEffect(n, w, q, net) => w.mode = "coordinatingWrite"
  BY DEF AskEffect, Awaiting
<1>5. StageEffect(n, w, q, net) => w.mode = "coordinatingWrite"
  BY StagePhase
<1>6. QED
  BY <1>1, <1>2, <1>3, <1>4, <1>5, EffectMode

\* What a read has heard of is a reported version.
LEMMA HeardKnown ==
  ASSUME Sealed, NEW c \in Node, work[c].mode = "coordinatingFastRead"
  PROVE  /\ \A m \in network : m.id = work[c].req.id /\ m.type = "NodeGetResponse" =>
              Known(replies, [ts |-> m.ts, val |-> m.val])
         /\ \A p \in Members(work[c]) : work[c].members[p].type = "NodeGetResponse" =>
              Known(replies, [ts |-> work[c].members[p].ts, val |-> work[c].members[p].val])
BY DEF Sealed, Truthful, ReadsKnown

LEMMA HandledReading ==
  ASSUME NEW n \in Node, NEW w, NEW q, NEW net, NEW wk, NEW qu, Acts(n, w, q, net, wk, qu),
         NEW c \in Node, wk[c].mode = "coordinatingFastRead"
  PROVE  /\ \A m \in net : m.id = wk[c].req.id /\ m.type = "NodeGetResponse" =>
              Known(replies, [ts |-> m.ts, val |-> m.val])
         /\ \A p \in Members(wk[c]) : wk[c].members[p].type = "NodeGetResponse" =>
              Known(replies, [ts |-> wk[c].members[p].ts, val |-> wk[c].members[p].val])
<1>1. /\ wk[n] = w /\ \A x \in Node : x # n => wk[x] = work[x]
  BY HandledNodes
<1>2. Sealed
  BY DEF Acts
<1>3. wk[c] = work[c] \/ (c = n /\ Counts(n, w, net))
  BY ReaderMoves
<1>4. /\ wk[c].req = work[c].req /\ work[c].mode = "coordinatingFastRead"
  BY <1>1, <1>3, CountedEntry
<1> DEFINE t == work[c].req.id
<1>5. /\ \A m \in network : m.id = t /\ m.type = "NodeGetResponse" =>
           Known(replies, [ts |-> m.ts, val |-> m.val])
      /\ \A p \in Members(work[c]) : work[c].members[p].type = "NodeGetResponse" =>
           Known(replies, [ts |-> work[c].members[p].ts, val |-> work[c].members[p].val])
  BY <1>2, <1>4, HeardKnown
<1>6. ASSUME NEW u \in net, u.id = t, u.type = "NodeGetResponse", u \notin network
      PROVE  Known(replies, [ts |-> u.ts, val |-> u.val])
  <2>1. TellsVersion(n, u) \/ TellsTimestamp(n, u)
    BY <1>6, NewMail DEF TellsStaged, GivesBack, Coordinated, Expired
  <2>2. ~TellsTimestamp(n, u)
    <3>1. work[c].mode \in Coordinating /\ Asks(work[c]) = "NodeGetRequest"
          /\ Expects(work[c]) = "NodeGetResponse"
      BY <1>4 DEF Coordinating, WritePhases, Asks, Expects
    <3>2. \A m \in network : m.id = t => m.type # "NodeTimestampRequest"
      BY <1>2, <3>1, MessageBetween
    <3>3. QED
      BY <1>6, <3>2 DEF TellsTimestamp
  <2>3. [ts |-> u.ts, val |-> u.val] \in {store[n], NoVersion}
    BY <2>1, <2>2 DEF TellsVersion
  <2>4. Known(replies, store[n]) /\ Known(replies, NoVersion)
    BY <1>2 DEF Sealed, Truthful, StoresKnown, Known
  <2>5. QED
    BY <2>3, <2>4
<1>7. ASSUME NEW p \in Members(wk[c]), wk[c].members[p].type = "NodeGetResponse"
      PROVE  Known(replies, [ts |-> wk[c].members[p].ts, val |-> wk[c].members[p].val])
  <2>1. CASE wk[c] = work[c]
    BY <1>5, <1>7, <2>1
  <2>2. CASE c = n /\ Counts(n, w, net)
    <3>1. p \in Members(work[n]) /\ p \in Members(w)
      BY <1>1, <1>7, <2>2, CountedEntry
    <3>2. \A y \in Members(w) :
            \/ w.members[y] = work[n].members[y]
            \/ \E m \in network :
                 /\ m.id = work[n].req.id /\ m.ok /\ m.src = y
                 /\ w.members[y] = [type |-> m.type, ts |-> m.ts, val |-> m.val]
      BY <2>2, CountedEntry
    <3>3. CASE w.members[p] = work[n].members[p]
      BY <1>1, <1>5, <1>7, <2>2, <3>1, <3>3
    <3>4. CASE \E m \in network :
                 /\ m.id = work[n].req.id /\ m.ok /\ m.src = p
                 /\ w.members[p] = [type |-> m.type, ts |-> m.ts, val |-> m.val]
      <4>1. PICK m \in network :
              m.id = t /\ w.members[p] = [type |-> m.type, ts |-> m.ts, val |-> m.val]
        BY <2>2, <3>4
      <4>2. m.type = "NodeGetResponse" /\ w.members[p].ts = m.ts /\ w.members[p].val = m.val
        BY <1>1, <1>7, <2>2, <4>1
      <4>3. Known(replies, [ts |-> m.ts, val |-> m.val])
        BY <1>5, <4>1, <4>2
      <4>4. QED
        BY <1>1, <2>2, <4>2, <4>3
    <3>5. QED
      BY <3>1, <3>2, <3>3, <3>4
  <2>3. QED
    BY <1>3, <2>1, <2>2
<1>8. QED
  BY <1>4, <1>5, <1>6, <1>7

\* What a coordinator of a read knows when the last answer has come.
Heard(n, c) == {store[n]} \cup
                 {[ts |-> c.members[p].ts, val |-> c.members[p].val] : p \in Members(c)}

\* The answer of a read, local or not.
LocalAnswer(n, s) ==
  \E t \in Txn : /\ Issue(t) /\ ReadQuorumSize = 1 /\ staged[n] = NoVersion
                 /\ s = Reply("ClientReadResponse", t, store[n], TRUE)
QuorumAnswer(n, net, s) ==
  \E m, c, v : /\ LastAnswer(n, m, net, c) /\ c.mode = "coordinatingFastRead"
               /\ IsNewest(v, Heard(n, c)) /\ UNCHANGED floor
               /\ s = Reply("ClientReadResponse", c.req.id, v, TRUE)

LEMMA NewAnswer ==
  ASSUME NEW n \in Node, NEW w, NEW q, NEW net, Effect(n, w, q, net), ~CommitEffect(n, w, q, net),
         NEW s \in replies', s.ok, s \notin replies
  PROVE  LocalAnswer(n, s) \/ QuorumAnswer(n, net, s)
<1>1. \A req, ts : Refusal(req, ts).ok = FALSE
  BY DEF Refusal, Reply
<1>2. CASE LocalReadEffect(n, w, q, net)
  BY <1>2 DEF LocalReadEffect, LocalAnswer
<1>3. CASE FinishReadEffect(n, w, q, net)
  <2>1. PICK m, c : /\ LastAnswer(n, m, net, c) /\ c.mode = "coordinatingFastRead"
                    /\ \E v : /\ IsNewest(v, Heard(n, c))
                              /\ replies' = replies \cup {Reply("ClientReadResponse", c.req.id, v, TRUE)}
    BY <1>3 DEF FinishReadEffect, Heard
  <2>2. PICK v : /\ IsNewest(v, Heard(n, c))
                 /\ replies' = replies \cup {Reply("ClientReadResponse", c.req.id, v, TRUE)}
    BY <2>1
  <2>3. UNCHANGED floor
    BY <1>3 DEF FinishReadEffect
  <2>4. QED
    BY <2>1, <2>2, <2>3 DEF QuorumAnswer
<1>4. CASE QuitEffect(n, w, q, net)
  <2>1. PICK ts : GiveUp(n, work[n], ts)
    BY <1>4 DEF QuitEffect
  <2>2. QED
    BY <1>1, <2>1 DEF GiveUp
<1>5. CASE ExpireEffect(n, w, q, net)
  <2>1. PICK i \in 1..Len(queue[n]) :
          replies' = replies \/ replies' = replies \cup {Refusal(queue[n][i].msg, 0)}
    BY <1>5 DEF ExpireEffect
  <2>2. QED
    BY <1>1, <2>1
<1>6. QED
  BY <1>2, <1>3, <1>4, <1>5 DEF Effect, PassEffect, IssueEffect, LockEffect, GetEffect,
     TimestampEffect, PutEffect, UnlockEffect, GiveBackEffect, CountEffect, AskEffect,
     StageEffect, NothingWritten

\* A client is told of a reported version.
LEMMA HandledAnswers ==
  ASSUME NEW n \in Node, NEW w, NEW q, NEW net, NEW wk, NEW qu, Acts(n, w, q, net, wk, qu),
         NEW s \in replies', s.ok
  PROVE  Known(replies, [ts |-> s.ts, val |-> s.val])
<1>1. Sealed /\ Effect(n, w, q, net) /\ ~CommitEffect(n, w, q, net) /\ resends' = 0
  BY DEF Acts
<1>2. ReadsKnown(work, network, replies) /\ Known(replies, store[n])
  BY <1>1 DEF Sealed, Truthful, StoresKnown
<1>3. store[n] = [ts |-> store[n].ts, val |-> store[n].val]
  BY <1>1, SettledNode DEF Version
<1>4. CASE s \in replies
  BY <1>2, <1>4 DEF ReadsKnown
<1>5. CASE LocalAnswer(n, s)
  <2>1. s.ts = store[n].ts /\ s.val = store[n].val
    BY <1>5 DEF LocalAnswer, Reply
  <2>2. QED
    BY <1>2, <1>3, <2>1
<1>6. CASE QuorumAnswer(n, net, s)
  <2>1. PICK m, c, v : /\ LastAnswer(n, m, net, c) /\ c.mode = "coordinatingFastRead"
                       /\ IsNewest(v, Heard(n, c))
                       /\ s = Reply("ClientReadResponse", c.req.id, v, TRUE)
    BY <1>6 DEF QuorumAnswer
  <2>2. s.ts = v.ts /\ s.val = v.val /\ v \in Heard(n, c)
    BY <2>1 DEF Reply, IsNewest
  <2>3. CASE v = store[n]
    BY <1>2, <1>3, <2>2, <2>3
  <2>4. CASE \E p \in Members(c) : v = [ts |-> c.members[p].ts, val |-> c.members[p].val]
    <3>1. PICK p \in Members(c) : v = [ts |-> c.members[p].ts, val |-> c.members[p].val]
      BY <2>4
    <3>2. /\ c.mode = work[n].mode /\ Members(c) = Members(work[n])
          /\ m \in network /\ m.id = work[n].req.id /\ m.type = Expects(work[n])
          /\ \A y \in Members(c) :
               /\ c.members[y].type = Expects(work[n])
               /\ \/ y = m.src /\ c.members[y] = [type |-> m.type, ts |-> m.ts, val |-> m.val]
                  \/ c.members[y] = work[n].members[y]
      BY <1>1, <2>1, QuorumComplete
    <3>3. Expects(work[n]) = "NodeGetResponse" /\ work[n].mode = "coordinatingFastRead"
      BY <2>1, <3>2 DEF Expects
    <3>4. /\ \A u \in network : u.id = work[n].req.id /\ u.type = "NodeGetResponse" =>
               Known(replies, [ts |-> u.ts, val |-> u.val])
          /\ \A y \in Members(work[n]) : work[n].members[y].type = "NodeGetResponse" =>
               Known(replies, [ts |-> work[n].members[y].ts, val |-> work[n].members[y].val])
      BY <1>1, <3>3, HeardKnown
    <3>5. CASE c.members[p] = work[n].members[p]
      BY <2>2, <3>1, <3>2, <3>3, <3>4, <3>5
    <3>6. CASE c.members[p] = [type |-> m.type, ts |-> m.ts, val |-> m.val]
      BY <2>2, <3>1, <3>2, <3>3, <3>4, <3>6
    <3>7. QED
      BY <3>1, <3>2, <3>5, <3>6
  <2>5. QED
    BY <2>2, <2>3, <2>4 DEF Heard
<1>7. QED
  BY <1>1, <1>4, <1>5, <1>6, NewAnswer

LEMMA HandledVersions ==
  ASSUME NEW n \in Node, NEW w, NEW q, NEW net, NEW wk, NEW qu, Handles(n, w, q, net, wk, qu)
  PROVE  Versions(wk, qu, net, store', staged', replies')
<1>1. Written(replies') = Written(replies)
  BY WrittenKept DEF Handles, Acts
<1>2. Numbered(replies')
  BY <1>1 DEF Handles, Settled, Versions, Numbered, Top
<1>3. ReadsKnown(wk, net, replies')
  <2>1. \A v : Known(replies', v) <=> Known(replies, v)
    BY <1>1 DEF Known
  <2>2. QED
    BY <2>1, HandledReading, HandledAnswers DEF ReadsKnown, Handles
<1>4. QED
  BY <1>2, <1>3, HandledStores, HandledAsking, HandledPutting, HandledCommitted,
     HandledCommits, HandledKept DEF Versions, Handles

-----------------------------------------------------------------------------
(* A write is committed and reported *)

\* Coordinator n reports r: those of its quorum that still serve it have staged it.
Reports(n, r, net, wk, qu) ==
  /\ work[n].mode = "coordinatingWrite"
  /\ r.id = work[n].req.id /\ r.id \in Txn /\ r.ts = work[n].ts /\ r.val = r.id
  /\ Written(replies') = Written(replies) \cup {r} /\ r \notin Written(replies)
  /\ \A s \in replies' : s \in replies \/ s = r
  /\ \A s \in Written(replies) : s.id # r.id
  /\ \A p \in Members(work[n]) : /\ Serves(p, r.id) => staged[p] = VersionOf(r)
                                /\ CommitComing(net, r.id, p)
  /\ store'[n] = VersionOf(r)
  /\ \A p \in Node : p # n => store'[p] = store[p] /\ staged'[p] = staged[p] /\ wk[p] = work[p]
  /\ wk[n] = Idle
  /\ \A u \in net : \/ u \in network /\ u.id # r.id
                    \/ u.type = "NodeUnlockRequest" /\ u.ok /\ u.id = r.id
  /\ \A u \in network : u.id # r.id => u \in net
  /\ \A p \in Node : \A i \in 1..Len(qu[p]) :
       /\ qu[p][i].msg.id # r.id
       /\ \A s \in Written(replies) : qu[p][i].msg.id # s.id

\* And that no crash has cost a member its lock.
Commits(n, r, net, wk, qu) ==
  /\ Reports(n, r, net, wk, qu) /\ r.ts = Top(replies) + 1
  /\ \A p \in Members(work[n]) : staged[p] = VersionOf(r)

LEMMA ReportForm ==
  ASSUME Sealed, resends' = 0, NEW n \in Node, NEW w, NEW q, NEW net,
         CommitEffect(n, w, q, net), NEW wk, NEW qu, Leaves(n, w, q, wk, qu)
  PROVE  \E r : Reports(n, r, net, wk, qu)
<1>1. /\ HandledOK /\ AsRequested(work, queue) /\ Staging(work, network, staged)
      /\ store \in [Node -> Version] /\ staged \in [Node -> Version]
  BY DEF Orderly, HandledOK, Truthful, AnsweredOnce, Sealed
<1>2. PICK m, c, left :
        /\ LastAnswer(n, m, left, c)
        /\ c.mode = "coordinatingWrite" /\ c.step = "NodeUnlockRequest"
        /\ replies' = replies \cup {Reply("ClientWriteResponse", c.req.id,
                                          [ts |-> c.ts, val |-> c.req.val], TRUE)}
        /\ net = left \cup Unlocks(n, c, TRUE)
  BY DEF CommitEffect
<1> DEFINE r == Reply("ClientWriteResponse", c.req.id, [ts |-> c.ts, val |-> c.req.val], TRUE)
<1>3. /\ c.mode = work[n].mode /\ c.step = work[n].step /\ c.req = work[n].req
      /\ c.ts = work[n].ts /\ work[n].mode \in Coordinating /\ work[n] \in Work
      /\ m \in network /\ m.id = work[n].req.id /\ m.ok /\ m.type = Expects(work[n])
      /\ left = network \ {m} /\ \A u \in left : u.id # work[n].req.id
      /\ Members(c) = Members(work[n])
      /\ \A p \in Node : \A i \in 1..Len(queue[p]) : queue[p][i].msg.id # work[n].req.id
      /\ \A p \in Members(c) :
           /\ c.members[p].type = Expects(work[n])
           /\ \/ p = m.src /\ c.members[p] = [type |-> m.type, ts |-> m.ts, val |-> m.val]
              \/ c.members[p] = work[n].members[p]
  BY <1>2, QuorumComplete
<1>4. work[n].mode = "coordinatingWrite" /\ work[n].step = "NodeUnlockRequest"
      /\ Expects(work[n]) = "NodePutResponse"
  BY <1>2, <1>3 DEF Expects
<1>5. /\ staged[n] = Proposed(work[n])
      /\ \A u \in network : /\ u.id = work[n].req.id /\ u.type = "NodePutResponse" /\ u.ok
                            /\ Serves(u.src, u.id)
                            => staged[u.src] = Proposed(work[n])
      /\ \A p \in Members(work[n]) : /\ work[n].members[p].type = "NodePutResponse"
                                     /\ Serves(p, work[n].req.id)
                                     => staged[p] = Proposed(work[n])
  BY <1>1, <1>4 DEF Staging, ServesIn, Serves
<1>6. work[n].req.val = work[n].req.id /\ work[n].req.id \in Txn
  <2>1. work[n].req = Request(work[n].req.id, n)
    BY <1>1, <1>3 DEF AsRequested
  <2>2. \A t : Request(t, n).val = t
    BY DEF Request, Mail
  <2>3. QED
    BY <1>3, <2>1, <2>2 DEF Work, ClientMessage
<1>7. /\ r.id = work[n].req.id /\ r.ts = work[n].ts /\ r.val = r.id
      /\ r.type = "ClientWriteResponse" /\ r.ok
  BY <1>3, <1>5, <1>6 DEF Reply
<1>8. replies' = replies \cup {r}
  BY <1>2
<1> HIDE DEF r
<1>9. VersionOf(r) = Proposed(work[n])
  BY <1>7 DEF VersionOf, Proposed
<1>10. \A s \in Written(replies) : s.id # r.id
  BY <1>3, <1>7, Reported
<1>11. Written(replies') = Written(replies) \cup {r} /\ r \notin Written(replies)
       /\ \A s \in replies' : s \in replies \/ s = r
  BY <1>7, <1>8, <1>10 DEF Written
<1>12. ASSUME NEW p \in Members(work[n]), Serves(p, r.id) PROVE staged[p] = VersionOf(r)
  <2>1. /\ c.members[p].type = "NodePutResponse"
        /\ \/ p = m.src /\ c.members[p] = [type |-> m.type, ts |-> m.ts, val |-> m.val]
           \/ c.members[p] = work[n].members[p]
    <3>1. \A y \in Members(c) :
            /\ c.members[y].type = Expects(work[n])
            /\ \/ y = m.src /\ c.members[y] = [type |-> m.type, ts |-> m.ts, val |-> m.val]
               \/ c.members[y] = work[n].members[y]
      BY <1>3
    <3>2. p \in Members(c)
      BY <1>3
    <3>3. QED
      BY <1>4, <3>1, <3>2
  <2>2. CASE p = m.src
    BY <1>3, <1>4, <1>5, <1>7, <1>9, <1>12, <2>2
  <2>3. CASE c.members[p] = work[n].members[p]
    BY <1>5, <1>7, <1>9, <1>12, <2>1, <2>3
  <2>4. QED
    BY <2>1, <2>2, <2>3
<1>13. ASSUME NEW u \in Unlocks(n, c, TRUE)
       PROVE  u.type = "NodeUnlockRequest" /\ u.ok /\ u.id = r.id
  <2>1. u \in ToMembers("NodeUnlockRequest", n, c, NoVersion, TRUE)
    BY DEF Unlocks
  <2>2. u.type = "NodeUnlockRequest" /\ u.ok /\ u.id = c.req.id
    BY <2>1 DEF ToMembers, Mail
  <2>3. c.req.id = r.id
    BY <1>3, <1>7
  <2>4. QED
    BY <2>2, <2>3
<1>14. ASSUME NEW p \in Members(work[n]) PROVE CommitComing(net, r.id, p)
  <2> DEFINE u == Mail("NodeUnlockRequest", c.req.id, n, p, NoVersion, TRUE)
  <2>1. u \in Unlocks(n, c, TRUE)
    BY <1>3 DEF Unlocks, ToMembers
  <2>2. u \in net /\ u.dest = p
    BY <1>2, <2>1 DEF Mail
  <2>3. QED
    BY <1>13, <2>1, <2>2 DEF CommitComing
<1>15. /\ store' = [store EXCEPT ![n] = staged[n]] /\ staged' = [staged EXCEPT ![n] = NoVersion]
       /\ w = Idle /\ q = queue[n]
  BY DEF CommitEffect
<1>16. /\ wk[n] = Idle /\ qu = queue /\ \A p \in Node : p # n => wk[p] = work[p]
  BY <1>1, <1>15, LeavesOthers
<1>17. /\ store'[n] = VersionOf(r)
       /\ \A p \in Node : p # n => store'[p] = store[p] /\ staged'[p] = staged[p] /\ wk[p] = work[p]
  BY <1>1, <1>5, <1>9, <1>15, <1>16
<1>18. /\ \A u \in net : \/ u \in network /\ u.id # r.id
                         \/ u.type = "NodeUnlockRequest" /\ u.ok /\ u.id = r.id
       /\ \A u \in network : u.id # r.id => u \in net
  BY <1>2, <1>3, <1>7, <1>13, ZenonT(40)
<1>19. \A p \in Node : \A i \in 1..Len(qu[p]) :
         /\ qu[p][i].msg.id # r.id
         /\ \A s \in Written(replies) : qu[p][i].msg.id # s.id
  BY <1>3, <1>7, <1>16, Reported
<1>20. Reports(n, r, net, wk, qu)
  BY <1>4, <1>6, <1>7, <1>10, <1>11, <1>12, <1>14, <1>16, <1>17, <1>18, <1>19 DEF Reports
<1>21. QED
  BY <1>20

LEMMA CommitForm ==
  ASSUME Settled, resends' = 0, NEW n \in Node, NEW w, NEW q, NEW net,
         CommitEffect(n, w, q, net), NEW wk, NEW qu, Leaves(n, w, q, wk, qu)
  PROVE  \E r : Commits(n, r, net, wk, qu)
<1>1. PICK r : Reports(n, r, net, wk, qu)
  BY ReportForm DEF Settled
<1>2. work[n].mode = "coordinatingWrite" /\ work[n].step = "NodeUnlockRequest"
  <2>1. PICK m, c, left : /\ LastAnswer(n, m, left, c)
                          /\ c.mode = "coordinatingWrite" /\ c.step = "NodeUnlockRequest"
    BY DEF CommitEffect
  <2>2. QED
    BY <2>1 DEF LastAnswer, Counted
<1>3. work[n].ts = Top(replies) + 1
  BY <1>2 DEF Settled, Versions, Putting
<1>4. ASSUME NEW p \in Members(work[n]) PROVE Serves(p, r.id)
  BY <1>1, <1>2, MemberServes DEF Reports
<1>5. QED
  BY <1>1, <1>3, <1>4 DEF Commits, Reports

\* What was reported remains so.
LEMMA ReportGrows ==
  ASSUME NEW n \in Node, NEW r, NEW net, NEW wk, NEW qu, Reports(n, r, net, wk, qu)
  PROVE  \A v : Known(replies, v) => Known(replies', v)
BY DEF Reports, Known

LEMMA CommitNumbered ==
  ASSUME Settled, NEW n \in Node, NEW r, NEW net, NEW wk, NEW qu, Commits(n, r, net, wk, qu)
  PROVE  /\ Numbered(replies') /\ Top(replies) \in Nat
         /\ \A v : Known(replies, v) => Known(replies', v)
<1>1. /\ Numbered(replies) /\ r.ts = Top(replies) + 1 /\ r.val = r.id
      /\ Written(replies') = Written(replies) \cup {r} /\ r \notin Written(replies)
  BY DEF Settled, Versions, Commits, Reports
<1>2. IsFiniteSet(Written(replies)) /\ Top(replies) \in Nat
  BY <1>1, FS_CardinalityType DEF Numbered, Top
<1>3. IsFiniteSet(Written(replies')) /\ Top(replies') = Top(replies) + 1
  BY <1>1, <1>2, FS_AddElement DEF Top
<1>4. ASSUME NEW s \in Written(replies') PROVE s.ts \in 1..Top(replies') /\ s.val = s.id
  BY <1>1, <1>2, <1>3, <1>4 DEF Numbered
<1>5. ASSUME NEW s \in Written(replies'), NEW u \in Written(replies'), s.ts = u.ts PROVE s = u
  BY <1>1, <1>2, <1>3, <1>5 DEF Numbered
<1>6. ASSUME NEW k \in 1..Top(replies') PROVE \E s \in Written(replies') : s.ts = k
  <2>1. k \in 1..Top(replies) \/ k = Top(replies) + 1
    BY <1>2, <1>3, <1>6
  <2>2. QED
    BY <1>1, <2>1 DEF Numbered
<1>7. QED
  BY <1>1, <1>2, <1>3, <1>4, <1>5, <1>6 DEF Numbered, Known

\* No other write is under way past the assembly of its quorum.
LEMMA CommitAlonePast ==
  ASSUME Settled, NEW n \in Node, NEW r, NEW net, NEW wk, NEW qu, Commits(n, r, net, wk, qu)
  PROVE  \A c \in Node : wk[c].mode # "coordinatingWrite"
<1>1. Idle.mode = "idle"
  BY DEF Idle
<1>2. QED
  BY <1>1, OneWriter DEF Commits, Reports

LEMMA CommitCommitted ==
  ASSUME Settled, NEW n \in Node, NEW r, NEW net, NEW wk, NEW qu, Commits(n, r, net, wk, qu)
  PROVE  Committed(wk, qu, net, store', staged', replies')
<1>1. Committed(work, queue, network, store, staged, replies) /\ StoresKnown(store, replies)
  BY DEF Settled, Versions
<1>2. /\ Written(replies') = Written(replies) \cup {r} /\ r.ts = Top(replies) + 1
      /\ Top(replies) \in Nat /\ wk[n].mode = "idle"
      /\ \A p \in Node : p # n => store'[p] = store[p] /\ staged'[p] = staged[p] /\ wk[p] = work[p]
      /\ \A s \in Written(replies) : s.id # r.id
      /\ work[n].mode = "coordinatingWrite" /\ r.id = work[n].req.id
  <2>1. Top(replies) \in Nat
    BY CommitNumbered
  <2>2. Idle.mode = "idle"
    BY DEF Idle
  <2>3. QED
    BY <2>1, <2>2 DEF Commits, Reports
<1>3. ASSUME NEW s \in Written(replies), NEW m \in net, m.id = s.id
      PROVE  m.type = "NodeUnlockRequest" /\ m.ok
  BY <1>1, <1>3 DEF Commits, Reports, Committed
<1>4. ASSUME NEW m \in net, m.id = r.id
      PROVE  m.type = "NodeUnlockRequest" /\ m.ok
  BY <1>4 DEF Commits, Reports
<1>5. ASSUME NEW s \in Written(replies), NEW p \in Node, wk[p].mode = "processingWrite",
             wk[p].req.id = s.id
      PROVE  staged'[p] = VersionOf(s) /\ store'[p].ts < s.ts /\ CommitComing(net, s.id, p)
  <2>1. p # n
    BY <1>2, <1>5
  <2>2. staged[p] = VersionOf(s) /\ store[p].ts < s.ts /\ CommitComing(network, s.id, p)
    BY <1>1, <1>2, <1>5, <2>1 DEF Committed
  <2>3. CommitComing(net, s.id, p)
    BY <1>2, <2>2 DEF CommitComing, Commits, Reports
  <2>4. QED
    BY <1>2, <2>1, <2>2, <2>3
<1>6. ASSUME NEW p \in Node, wk[p].mode = "processingWrite", wk[p].req.id = r.id
      PROVE  staged'[p] = VersionOf(r) /\ store'[p].ts < r.ts /\ CommitComing(net, r.id, p)
  <2>1. p # n /\ work[p].mode = "processingWrite" /\ work[p].req.id = work[n].req.id
    BY <1>2, <1>6
  <2>2. p \in Members(work[n])
    BY <1>2, <2>1 DEF Settled, Calm, Consistent, QuorumsHeld, Surrounded, WritePhases
  <2>3. staged[p] = VersionOf(r) /\ CommitComing(net, r.id, p)
    BY <2>2 DEF Commits, Reports
  <2>4. store[p].ts \in Nat /\ store[p].ts <= Top(replies)
    <3>1. CASE store[p] = NoVersion
      BY <1>2, <3>1 DEF NoVersion
    <3>2. CASE \E s \in Written(replies) : store[p] = VersionOf(s)
      <4>1. PICK s \in Written(replies) : store[p] = VersionOf(s)
        BY <3>2
      <4>2. s.ts \in 1..Top(replies) /\ store[p].ts = s.ts
        BY <4>1, ReportedNumbered DEF VersionOf
      <4>3. QED
        BY <1>2, <4>2
    <3>3. QED
      BY <1>1, <3>1, <3>2 DEF StoresKnown, Known
  <2>5. QED
    BY <1>2, <2>1, <2>3, <2>4
<1>7. \A p \in Node : \A i \in 1..Len(qu[p]) :
        qu[p][i].msg.id # r.id /\ \A s \in Written(replies) : qu[p][i].msg.id # s.id
  BY DEF Commits, Reports
<1>8. QED
  BY <1>2, <1>3, <1>4, <1>5, <1>6, <1>7 DEF Committed

LEMMA ReportInstructed ==
  ASSUME Sealed, NEW n \in Node, NEW r, NEW net, NEW wk, NEW qu, Reports(n, r, net, wk, qu)
  PROVE  CommitsReported(net, replies')
<1>1. CommitsReported(network, replies)
  BY DEF Sealed, Truthful
<1> SUFFICES ASSUME NEW m \in net, m.type = "NodeUnlockRequest", m.ok
             PROVE  \E s \in Written(replies') : s.id = m.id
  BY DEF CommitsReported
<1>2. /\ Written(replies') = Written(replies) \cup {r}
      /\ m \in network \/ m.id = r.id
  BY DEF Reports
<1>3. CASE m \in network
  BY <1>1, <1>2, <1>3 DEF CommitsReported
<1>4. QED
  BY <1>2, <1>3

LEMMA ReportStores ==
  ASSUME Sealed, NEW n \in Node, NEW r, NEW net, NEW wk, NEW qu, Reports(n, r, net, wk, qu)
  PROVE  StoresKnown(store', replies')
<1>1. \A v : Known(replies, v) => Known(replies', v)
  BY ReportGrows
<1>2. /\ Written(replies') = Written(replies) \cup {r} /\ store'[n] = VersionOf(r)
      /\ \A p \in Node : p # n => store'[p] = store[p]
  BY DEF Reports
<1>3. StoresKnown(store, replies)
  BY DEF Sealed, Truthful
<1>4. Known(replies', store'[n])
  BY <1>2 DEF Known
<1>5. QED
  BY <1>1, <1>2, <1>3, <1>4 DEF StoresKnown

\* The nodes that had an earlier write still have it or a newer one.
LEMMA CommitHas ==
  ASSUME Settled, NEW n \in Node, NEW r, NEW net, NEW wk, NEW qu, Commits(n, r, net, wk, qu),
         NEW s \in Written(replies), NEW p \in Node,
         Has(work, network, store, staged, s, p)
  PROVE  Has(wk, net, store', staged', s, p)
<1>1. s.ts \in 1..Top(replies)
  BY ReportedNumbered
<1>2. Top(replies) \in Nat
  BY CommitNumbered
<1>3. /\ s.id # r.id /\ r.ts = Top(replies) + 1 /\ store'[n] = VersionOf(r)
      /\ p # n => store'[p] = store[p] /\ staged'[p] = staged[p] /\ wk[p] = work[p]
      /\ \A u \in network : u.id # r.id => u \in net
  BY DEF Commits, Reports
<1>4. CASE p = n
  <2>1. store'[p].ts = r.ts
    BY <1>3, <1>4 DEF VersionOf
  <2>2. QED
    BY <1>1, <1>2, <1>3, <2>1 DEF Has
<1>5. CASE p # n
  <2>1. CommitComing(network, s.id, p) => CommitComing(net, s.id, p)
    BY <1>3 DEF CommitComing
  <2>2. QED
    BY <1>3, <1>5, <2>1 DEF Has
<1>6. QED
  BY <1>4, <1>5

\* The write that is reported is on the quorum that staged it.
LEMMA CommitOnQuorum ==
  ASSUME Settled, NEW n \in Node, NEW r, NEW net, NEW wk, NEW qu, Commits(n, r, net, wk, qu)
  PROVE  \E Q \in WriteQuorums : \A p \in Q : Has(wk, net, store', staged', r, p)
<1> DEFINE Q == Members(work[n]) \cup {n}
<1>1. /\ work[n].mode = "coordinatingWrite" /\ r.id = work[n].req.id
      /\ r.ts = Top(replies) + 1 /\ store'[n] = VersionOf(r)
      /\ \A p \in Members(work[n]) : staged[p] = VersionOf(r) /\ CommitComing(net, r.id, p)
      /\ \A p \in Node : p # n => store'[p] = store[p] /\ staged'[p] = staged[p] /\ wk[p] = work[p]
  BY DEF Commits, Reports
<1>2. Q \in WriteQuorums
  <2>1. /\ n \notin Members(work[n])
        /\ Cardinality(Members(work[n])) = WriteQuorumSize - 1
    BY <1>1 DEF Settled, IInv, Calm, Undisturbed, Consistent, QuorumsHeld, WritePhases, Surrounded
  <2>2. IsFiniteSet(Members(work[n])) /\ Members(work[n]) \subseteq Node
    BY NodeAssumption, FS_Subset DEF Members
  <2>3. Cardinality(Q) = Cardinality(Members(work[n])) + 1
    BY <2>1, <2>2, FS_AddElement
  <2>4. WriteQuorumSize \in Int
    BY QuorumAssumption
  <2>5. QED
    BY <2>1, <2>2, <2>3, <2>4 DEF WriteQuorums
<1>3. ASSUME NEW p \in Q PROVE Has(wk, net, store', staged', r, p)
  <2>1. CASE p = n
    <3>1. store'[p].ts = r.ts /\ r.ts \in Nat
      BY <1>1, <2>1, CommitNumbered DEF VersionOf
    <3>2. QED
      BY <3>1 DEF Has
  <2>2. CASE p \in Members(work[n])
    <3>1. p \in Node /\ p # n /\ Serves(p, work[n].req.id)
      BY <1>1, <2>2, MemberServes
    <3>2. QED
      BY <1>1, <2>2, <3>1 DEF Has, Serves
  <2>3. QED
    BY <2>1, <2>2
<1> HIDE DEF Q
<1>4. QED
  BY <1>2, <1>3

LEMMA CommitKept ==
  ASSUME Settled, NEW n \in Node, NEW r, NEW net, NEW wk, NEW qu, Commits(n, r, net, wk, qu)
  PROVE  Kept(wk, net, store', staged', replies')
<1> SUFFICES ASSUME NEW s \in Written(replies')
             PROVE  \E Q \in WriteQuorums : \A p \in Q : Has(wk, net, store', staged', s, p)
  BY DEF Kept
<1>1. s \in Written(replies) \/ s = r
  BY DEF Commits, Reports
<1>2. CASE s \in Written(replies)
  <2>1. Kept(work, network, store, staged, replies)
    BY DEF Settled, Versions
  <2>2. PICK Q \in WriteQuorums : \A p \in Q : Has(work, network, store, staged, s, p)
    BY <1>2, <2>1 DEF Kept
  <2>3. ASSUME NEW p \in Q PROVE Has(wk, net, store', staged', s, p)
    <3>1. p \in Node
      BY DEF WriteQuorums
    <3>2. QED
      BY <1>2, <2>2, <3>1, CommitHas
  <2>4. QED
    BY <2>3
<1>3. CASE s = r
  BY <1>3, CommitOnQuorum
<1>4. QED
  BY <1>1, <1>2, <1>3

LEMMA ReportReads ==
  ASSUME Sealed, NEW n \in Node, NEW r, NEW net, NEW wk, NEW qu, Reports(n, r, net, wk, qu)
  PROVE  ReadsKnown(wk, net, replies')
<1>1. \A v : Known(replies, v) => Known(replies', v)
  BY ReportGrows
<1>2. /\ Written(replies') = Written(replies) \cup {r} /\ r.val = r.id
      /\ \A s \in replies' : s \in replies \/ s = r
      /\ \A p \in Node : p # n => wk[p] = work[p]
      /\ wk[n] = Idle
      /\ \A u \in net : u \in network \/ u.type = "NodeUnlockRequest"
  BY DEF Reports
<1>3. ASSUME NEW s \in replies', s.ok PROVE Known(replies', [ts |-> s.ts, val |-> s.val])
  <2>1. CASE s \in replies
    <3>1. Known(replies, [ts |-> s.ts, val |-> s.val])
      BY <1>3, <2>1 DEF Sealed, Truthful, ReadsKnown
    <3>2. QED
      BY <1>1, <3>1
  <2>2. CASE s = r
    BY <1>2, <2>2 DEF Known, VersionOf
  <2>3. QED
    BY <1>2, <2>1, <2>2
<1>4. ASSUME NEW c \in Node, wk[c].mode = "coordinatingFastRead"
      PROVE  work[c] = wk[c]
  BY <1>2, <1>4 DEF Idle
<1>5. ASSUME NEW c \in Node, wk[c].mode = "coordinatingFastRead",
             NEW m \in net, m.id = wk[c].req.id, m.type = "NodeGetResponse"
      PROVE  Known(replies', [ts |-> m.ts, val |-> m.val])
  <2>1. Known(replies, [ts |-> m.ts, val |-> m.val])
    BY <1>2, <1>4, <1>5, HeardKnown
  <2>2. QED
    BY <1>1, <2>1
<1>6. ASSUME NEW c \in Node, wk[c].mode = "coordinatingFastRead",
             NEW p \in Members(wk[c]), wk[c].members[p].type = "NodeGetResponse"
      PROVE  Known(replies', [ts |-> wk[c].members[p].ts, val |-> wk[c].members[p].val])
  <2>1. Known(replies, [ts |-> wk[c].members[p].ts, val |-> wk[c].members[p].val])
    BY <1>4, <1>6, HeardKnown
  <2>2. QED
    BY <1>1, <2>1
<1>7. QED
  BY <1>3, <1>5, <1>6 DEF ReadsKnown

LEMMA CommitVersions ==
  ASSUME Settled, NEW n \in Node, NEW r, NEW net, NEW wk, NEW qu, Commits(n, r, net, wk, qu)
  PROVE  Versions(wk, qu, net, store', staged', replies')
<1>1. Numbered(replies')
  BY CommitNumbered
<1>2. AskingFor(wk, net, store') /\ Putting(wk, net, staged', replies')
  BY CommitAlonePast DEF AskingFor, Putting
<1>3. CommitsReported(net, replies') /\ StoresKnown(store', replies') /\ ReadsKnown(wk, net, replies')
  BY ReportInstructed, ReportStores, ReportReads DEF Settled, Commits
<1>4. QED
  BY <1>1, <1>2, <1>3, CommitCommitted, CommitKept DEF Versions


-----------------------------------------------------------------------------
(* The end of the main loop *)

\* Node n, idle, takes the request of transaction t from its queue: it starts to
\* coordinate it, grants its lock or drops it.
Takes(n, t, wk, qu, net) ==
  /\ wk[n] = Idle
  /\ \A p \in Node : p # n => work'[p] = wk[p]
  /\ work'[n].mode # "coordinatingWrite"
  /\ work'[n] = wk[n] \/ work'[n].req.id = t
  /\ \A u \in net : u \in network'
  /\ \A u \in network' : \/ u \in net
                         \/ /\ u.id = t
                            /\ u.type \notin {"NodeGetResponse", "NodeUnlockRequest"}
  /\ \A p \in Node : \A i \in 1..Len(queue'[p]) :
       \E k \in 1..Len(qu[p]) : queue'[p][i] = qu[p][k]
  /\ \E i \in 1..Len(qu[n]) : qu[n][i].msg.id = t
  /\ work'[n].mode = "coordinatingFastRead" =>
       /\ \A u \in net : u.id # work'[n].req.id
       /\ \A p \in Members(work'[n]) : work'[n].members[p].type # "NodeGetResponse"

LEMMA EndsTakes ==
  ASSUME HandledOK, NEW n \in Node, NEW w \in Work, NEW q \in Seq(Queued),
         NEW net \in SUBSET NodeMessage, Ends(n, w, q, net),
         NEW wk, NEW qu, Leaves(n, w, q, wk, qu), QueuedOnce(wk, qu, net)
  PROVE  \/ work' = wk /\ queue' = qu /\ network' = net
         \/ \E t : Takes(n, t, wk, qu, net)
<1> SUFFICES ASSUME ~(work' = wk /\ queue' = qu /\ network' = net)
             PROVE  \E t : Takes(n, t, wk, qu, net)
  OBVIOUS
<1>1. /\ wk[n] = Idle
      /\ \E e \in Queued : TookHead(n, e, qu) /\ Turns(n, e, wk, net)
  BY EndsForm
<1>2. PICK e \in Queued : TookHead(n, e, qu) /\ Turns(n, e, wk, net)
  BY <1>1
<1>3. /\ \A x : \A p \in Node : p # n => [wk EXCEPT ![n] = x][p] = wk[p]
      /\ \A x : [wk EXCEPT ![n] = x][n] = x
  BY DEF HandledOK, Leaves
<1>4. /\ 1 \in 1..Len(qu[n]) /\ e = qu[n][1]
      /\ \A p \in Node : \A i \in 1..Len(queue'[p]) :
           \E k \in 1..Len(qu[p]) : queue'[p][i] = qu[p][k]
  BY <1>2 DEF TookHead
<1> DEFINE t == e.msg.id
<1>5. \E i \in 1..Len(qu[n]) : qu[n][i].msg.id = t
  BY <1>4
<1>6. Idle.mode = "idle"
  BY DEF Idle
<1>7. CASE work' = wk /\ network' = net
  BY <1>1, <1>4, <1>5, <1>6, <1>7 DEF Takes
<1>8. CASE \E x \in Work : /\ Coordinates(n, e, x) /\ work' = [wk EXCEPT ![n] = x]
                           /\ network' = net \cup ToMembers(Asks(x), n, x, NoVersion, TRUE)
  <2>1. PICK x \in Work : /\ Coordinates(n, e, x) /\ work' = [wk EXCEPT ![n] = x]
                          /\ network' = net \cup ToMembers(Asks(x), n, x, NoVersion, TRUE)
    BY <1>8
  <2>2. /\ FromClient(e.msg) /\ x.req = e.msg
        /\ x.mode \in {"assemblingQuorum", "coordinatingFastRead"}
        /\ \A p \in Members(x) : x.members[p].type = Asks(x)
    BY <2>1 DEF Coordinates
  <2>3. /\ Asks(x) \notin {"NodeGetResponse", "NodeUnlockRequest"}
    BY <2>2 DEF Asks
  <2>4. /\ work'[n] = x /\ \A p \in Node : p # n => work'[p] = wk[p]
    BY <1>3, <2>1
  <2>5. ASSUME NEW u \in network'
        PROVE  u \in net \/ (u.id = t /\ u.type \notin {"NodeGetResponse", "NodeUnlockRequest"})
    <3>1. u \in net \/ u \in ToMembers(Asks(x), n, x, NoVersion, TRUE)
      BY <2>1
    <3>2. CASE u \in ToMembers(Asks(x), n, x, NoVersion, TRUE)
      <4>1. u.type = Asks(x) /\ u.id = x.req.id
        BY <3>2 DEF ToMembers, Mail
      <4>2. QED
        BY <2>2, <2>3, <4>1
    <3>3. QED
      BY <3>1, <3>2
  <2>6. \A u \in net : u.id # t
    BY <1>4, <2>2 DEF QueuedOnce, NotStarted
  <2>7. \A u \in net : u \in network'
    BY <2>1
  <2>8. /\ x.mode # "coordinatingWrite" /\ x.req.id = t
        /\ \A p \in Members(x) : x.members[p].type # "NodeGetResponse"
    BY <2>2, <2>3
  <2> HIDE DEF t
  <2>9. QED
    BY <1>1, <1>4, <1>5, <2>4, <2>5, <2>6, <2>7, <2>8 DEF Takes
<1>9. CASE /\ work' = [wk EXCEPT ![n] = Serving(e)] /\ network' = net \cup {GrantOf(n, e)}
  <2>1. Serving(e).mode = "processingWrite" /\ Serving(e).req = e.msg
    BY DEF Serving, Idle
  <2>2. GrantOf(n, e).id = t /\ GrantOf(n, e).type = "NodeLockResponse"
    BY DEF GrantOf, Mail
  <2>3. work'[n] = Serving(e) /\ \A p \in Node : p # n => work'[p] = wk[p]
    BY <1>3, <1>9
  <2>4. /\ work'[n].mode = "processingWrite" /\ work'[n].req.id = t
    BY <2>1, <2>3
  <2>5. \A u \in net : u \in network'
    BY <1>9
  <2>6. \A u \in network' : \/ u \in net
                            \/ /\ u.id = t
                               /\ u.type \notin {"NodeGetResponse", "NodeUnlockRequest"}
    BY <1>9, <2>2
  <2> HIDE DEF t
  <2>7. QED
    BY <1>1, <1>4, <1>5, <2>3, <2>4, <2>5, <2>6 DEF Takes
<1>10. QED
  BY <1>2, <1>7, <1>8, <1>9 DEF Turns

\* The request that is taken is not of a reported write, nor of a write under way.
LEMMA TakesAnother ==
  ASSUME NEW n \in Node, NEW t, NEW wk, NEW qu, NEW net, Takes(n, t, wk, qu, net),
         Conversations(wk, qu, net), Instructed(wk, qu, net, staged', replies')
  PROVE  /\ \A r \in Written(replies') : r.id # t
         /\ \A c \in Node : wk[c].mode = "coordinatingWrite" => wk[c].req.id # t
<1>1. PICK i \in 1..Len(qu[n]) : qu[n][i].msg.id = t
  BY DEF Takes
<1>2. \A r \in Written(replies') : r.id # t
  BY <1>1 DEF Instructed
<1>3. ASSUME NEW c \in Node, wk[c].mode = "coordinatingWrite", wk[c].req.id = t PROVE FALSE
  <2>1. Conversing(wk, qu, net, c)
    BY <1>3 DEF Conversations, Coordinating, WritePhases
  <2>2. wk[c].mode = "assemblingQuorum"
    BY <1>1, <1>3, <2>1 DEF Conversing
  <2>3. QED
    BY <1>3, <2>2
<1>4. QED
  BY <1>2, <1>3

LEMMA TakesTruthful ==
  ASSUME NEW n \in Node, NEW t, NEW wk, NEW qu, NEW net \in SUBSET NodeMessage, Takes(n, t, wk, qu, net),
         Conversations(wk, qu, net), Truthful(wk, qu, net, store', staged', replies')
  PROVE  Truthful(work', queue', network', store', staged', replies')
<1>1. /\ \A r \in Written(replies') : r.id # t
      /\ \A c \in Node : wk[c].mode = "coordinatingWrite" => wk[c].req.id # t
  BY TakesAnother DEF Truthful
<1>2. /\ wk[n] = Idle /\ Idle.mode = "idle"
      /\ \A p \in Node : p # n => work'[p] = wk[p]
      /\ work'[n].mode # "coordinatingWrite"
      /\ work'[n] = wk[n] \/ work'[n].req.id = t
      /\ \A u \in network' : \/ u \in net
                             \/ /\ u.id = t
                                /\ u.type \notin {"NodeGetResponse", "NodeUnlockRequest"}
      /\ work'[n].mode = "coordinatingFastRead" =>
           /\ \A u \in net : u.id # work'[n].req.id
           /\ \A p \in Members(work'[n]) : work'[n].members[p].type # "NodeGetResponse"
  BY DEF Takes, Idle
<1>3. \A p \in Node : \A y : y # t /\ ServesIn(work', p, y) => ServesIn(wk, p, y)
  BY <1>2 DEF ServesIn
<1>4. Staging(work', network', staged')
  <2>1. Staging(wk, net, staged')
    BY DEF Truthful
  <2>2. \A c \in Node : work'[c].mode = "coordinatingWrite" =>
          c # n /\ work'[c] = wk[c] /\ wk[c].req.id # t
    BY <1>1, <1>2
  <2>3. ASSUME NEW c \in Node, work'[c].mode = "coordinatingWrite",
               work'[c].step = "NodeUnlockRequest"
        PROVE  /\ staged'[c] = Proposed(work'[c])
               /\ \A m \in network' : m.id = work'[c].req.id =>
                    /\ m.ts = work'[c].ts /\ m.val = work'[c].req.id
                    /\ m.type = "NodePutResponse" /\ m.ok /\ ServesIn(work', m.src, m.id) =>
                         staged'[m.src] = Proposed(work'[c])
               /\ \A p \in Members(work'[c]) :
                    /\ work'[c].members[p].type = "NodePutResponse"
                    /\ ServesIn(work', p, work'[c].req.id)
                    => staged'[p] = Proposed(work'[c])
    <3>1. work'[c] = wk[c] /\ wk[c].req.id # t
      BY <2>2, <2>3
    <3>2. staged'[c] = Proposed(wk[c])
      BY <2>1, <2>3, <3>1 DEF Staging
    <3>3. ASSUME NEW m \in network', m.id = wk[c].req.id
          PROVE  /\ m.ts = wk[c].ts /\ m.val = wk[c].req.id
                 /\ m.type = "NodePutResponse" /\ m.ok /\ ServesIn(work', m.src, m.id) =>
                      staged'[m.src] = Proposed(wk[c])
      <4>1. m \in net /\ m.src \in Node
        BY <1>2, <3>1, <3>3 DEF NodeMessage
      <4>2. QED
        BY <1>3, <2>1, <2>3, <3>1, <3>3, <4>1 DEF Staging
    <3>4. ASSUME NEW p \in Members(wk[c]), wk[c].members[p].type = "NodePutResponse",
                 ServesIn(work', p, wk[c].req.id)
          PROVE  staged'[p] = Proposed(wk[c])
      <4>1. p \in Node
        BY DEF Members
      <4>2. QED
        BY <1>3, <2>1, <2>3, <3>1, <3>4, <4>1 DEF Staging
    <3>5. QED
      BY <3>1, <3>2, <3>3, <3>4
  <2>4. QED
    BY <2>3 DEF Staging
<1>5. Instructed(work', queue', network', staged', replies')
  <2>1. Instructed(wk, qu, net, staged', replies')
    BY DEF Truthful
  <2>2. ASSUME NEW r \in Written(replies'), NEW p \in Node, NEW i \in 1..Len(queue'[p])
        PROVE  queue'[p][i].msg.id # r.id
    <3>1. PICK k \in 1..Len(qu[p]) : queue'[p][i] = qu[p][k]
      BY DEF Takes
    <3>2. QED
      BY <2>1, <3>1 DEF Instructed
  <2>3. QED
    BY <1>1, <1>2, <1>3, <2>1, <2>2 DEF Instructed
<1>6. CommitsReported(network', replies')
  BY <1>2 DEF Truthful, CommitsReported
<1>7. ReadsKnown(work', network', replies')
  <2>1. ReadsKnown(wk, net, replies')
    BY DEF Truthful
  <2>2. ASSUME NEW c \in Node, work'[c].mode = "coordinatingFastRead",
               NEW m \in network', m.id = work'[c].req.id, m.type = "NodeGetResponse"
        PROVE  Known(replies', [ts |-> m.ts, val |-> m.val])
    <3>1. m \in net /\ c # n /\ work'[c] = wk[c]
      BY <1>2, <2>2
    <3>2. QED
      BY <2>1, <2>2, <3>1 DEF ReadsKnown
  <2>3. ASSUME NEW c \in Node, work'[c].mode = "coordinatingFastRead",
               NEW p \in Members(work'[c]), work'[c].members[p].type = "NodeGetResponse"
        PROVE  Known(replies', [ts |-> work'[c].members[p].ts, val |-> work'[c].members[p].val])
    <3>1. c # n /\ work'[c] = wk[c]
      BY <1>2, <2>3
    <3>2. QED
      BY <2>1, <2>3, <3>1 DEF ReadsKnown
  <2>4. QED
    BY <2>1, <2>2, <2>3 DEF ReadsKnown
<1>8. QED
  BY <1>4, <1>5, <1>6, <1>7 DEF Truthful

LEMMA TakesVersions ==
  ASSUME NEW n \in Node, NEW t, NEW wk, NEW qu, NEW net \in SUBSET NodeMessage, Takes(n, t, wk, qu, net),
         Conversations(wk, qu, net), Versions(wk, qu, net, store', staged', replies')
  PROVE  Versions(work', queue', network', store', staged', replies')
<1>1. /\ \A r \in Written(replies') : r.id # t
      /\ \A c \in Node : wk[c].mode = "coordinatingWrite" => wk[c].req.id # t
  BY TakesAnother, VersionsTruthful DEF Truthful
<1>2. /\ wk[n] = Idle /\ Idle.mode = "idle"
      /\ \A p \in Node : p # n => work'[p] = wk[p]
      /\ work'[n].mode # "coordinatingWrite"
      /\ work'[n] = wk[n] \/ work'[n].req.id = t
      /\ \A u \in net : u \in network'
      /\ \A u \in network' : \/ u \in net
                             \/ /\ u.id = t
                                /\ u.type \notin {"NodeGetResponse", "NodeUnlockRequest"}
      /\ work'[n].mode = "coordinatingFastRead" =>
           /\ \A u \in net : u.id # work'[n].req.id
           /\ \A p \in Members(work'[n]) : work'[n].members[p].type # "NodeGetResponse"
  BY DEF Takes, Idle
<1>3. \A c \in Node : work'[c].mode = "coordinatingWrite" =>
        c # n /\ work'[c] = wk[c] /\ wk[c].req.id # t
  BY <1>1, <1>2
<1>4. AskingFor(work', network', store')
  <2>1. AskingFor(wk, net, store')
    BY DEF Versions
  <2>2. QED
    BY <1>2, <1>3, <2>1 DEF AskingFor
<1>5. Putting(work', network', staged', replies')
  <2>1. Putting(wk, net, staged', replies')
    BY DEF Versions
  <2>2. QED
    BY <1>2, <1>3, <2>1 DEF Putting
<1>6. \A r \in Written(replies') : \A p \in Node :
        CommitComing(net, r.id, p) => CommitComing(network', r.id, p)
  BY <1>2 DEF CommitComing
<1>7. Committed(work', queue', network', store', staged', replies')
  <2>1. Committed(wk, qu, net, store', staged', replies')
    BY DEF Versions
  <2> SUFFICES ASSUME NEW r \in Written(replies')
               PROVE  /\ \A m \in network' : m.id = r.id => m.type = "NodeUnlockRequest" /\ m.ok
                      /\ \A p \in Node : \A i \in 1..Len(queue'[p]) : queue'[p][i].msg.id # r.id
                      /\ \A p \in Node : work'[p].mode = "processingWrite" /\ work'[p].req.id = r.id =>
                           /\ staged'[p] = VersionOf(r) /\ store'[p].ts < r.ts
                           /\ CommitComing(network', r.id, p)
    BY DEF Committed
  <2>2. \A m \in network' : m.id = r.id => m.type = "NodeUnlockRequest" /\ m.ok
    BY <1>1, <1>2, <2>1 DEF Committed
  <2>3. ASSUME NEW p \in Node, NEW i \in 1..Len(queue'[p]) PROVE queue'[p][i].msg.id # r.id
    <3>1. PICK k \in 1..Len(qu[p]) : queue'[p][i] = qu[p][k]
      BY DEF Takes
    <3>2. QED
      BY <2>1, <3>1 DEF Committed
  <2>4. ASSUME NEW p \in Node, work'[p].mode = "processingWrite", work'[p].req.id = r.id
        PROVE  /\ staged'[p] = VersionOf(r) /\ store'[p].ts < r.ts
               /\ CommitComing(network', r.id, p)
    <3>1. work'[p] = wk[p]
      BY <1>1, <1>2, <2>4
    <3>2. QED
      BY <1>6, <2>1, <2>4, <3>1 DEF Committed
  <2>5. QED
    BY <2>2, <2>3, <2>4
<1>8. CommitsReported(network', replies')
  BY TakesTruthful, VersionsTruthful DEF Truthful
<1>9. Kept(work', network', store', staged', replies')
  <2>1. Kept(wk, net, store', staged', replies')
    BY DEF Versions
  <2>2. ASSUME NEW r \in Written(replies'), NEW p \in Node, Has(wk, net, store', staged', r, p)
        PROVE  Has(work', network', store', staged', r, p)
    BY <1>2, <1>6, <2>2 DEF Has
  <2>3. QED
    BY <2>1, <2>2 DEF Kept, WriteQuorums
<1>10. ReadsKnown(work', network', replies')
  BY TakesTruthful, VersionsTruthful DEF Truthful
<1>11. Numbered(replies') /\ StoresKnown(store', replies')
  BY DEF Versions
<1>12. QED
  BY <1>4, <1>5, <1>7, <1>8, <1>9, <1>10, <1>11 DEF Versions

-----------------------------------------------------------------------------
(* What was reported before a request is seen by it *)

\* No node has a newer version than the last that was reported.
LEMMA StoredBounded ==
  ASSUME Settled, NEW p \in Node
  PROVE  store[p].ts \in Nat /\ Top(replies) \in Nat /\ store[p].ts <= Top(replies)
<1>1. Numbered(replies) /\ Known(replies, store[p])
  BY DEF Settled, Versions, StoresKnown
<1>2. Top(replies) \in Nat
  BY <1>1, FS_CardinalityType DEF Numbered, Top
<1>3. CASE store[p] = NoVersion
  BY <1>2, <1>3 DEF NoVersion
<1>4. CASE \E s \in Written(replies) : store[p] = VersionOf(s)
  <2>1. PICK s \in Written(replies) : store[p] = VersionOf(s)
    BY <1>4
  <2>2. s.ts \in 1..Top(replies) /\ store[p].ts = s.ts
    BY <2>1, ReportedNumbered DEF VersionOf
  <2>3. QED
    BY <1>2, <2>2
<1>5. QED
  BY <1>1, <1>3, <1>4 DEF Known

\* A node that is about to commit has staged a reported version.
LEMMA CommitComingReported ==
  ASSUME Settled, NEW p \in Node, work[p].mode = "processingWrite",
         CommitComing(network, work[p].req.id, p)
  PROVE  \E r \in Written(replies) : Serves(p, r.id) /\ staged[p] = VersionOf(r)
<1>1. PICK m \in network : m.type = "NodeUnlockRequest" /\ m.ok /\ m.id = work[p].req.id
  BY DEF CommitComing
<1>2. PICK r \in Written(replies) : r.id = m.id
  BY <1>1 DEF Settled, Versions, CommitsReported
<1>3. staged[p] = VersionOf(r)
  BY <1>1, <1>2 DEF Settled, Versions, Committed
<1>4. QED
  BY <1>1, <1>2, <1>3 DEF Serves

LEMMA AtLeastHandled ==
  ASSUME NEW n \in Node, NEW w, NEW q, NEW net, NEW wk, NEW qu, Handles(n, w, q, net, wk, qu),
         NEW p \in Node, NEW k \in Nat, AtLeast(work, network, store, staged, k, p)
  PROVE  AtLeast(wk, net, store', staged', k, p)
<1>1. Settled
  BY DEF Handles
<1>2. CASE store[p].ts >= k
  <2>1. CASE store'[p] = store[p]
    BY <1>2, <2>1 DEF AtLeast
  <2>2. CASE p = n /\ \E s \in Written(replies) : Stores(n, w, s)
    <3>1. PICK s \in Written(replies) : Stores(n, w, s)
      BY <2>2
    <3>2. store'[p].ts = s.ts /\ store[p].ts < s.ts
      BY <1>1, <2>2, <3>1, StoresNewer DEF Stores, VersionOf
    <3>3. store[p].ts \in Nat /\ s.ts \in Nat
      BY <1>1, Reported, StoredBounded DEF Settled
    <3>4. QED
      BY <1>2, <3>2, <3>3 DEF AtLeast
  <2>3. QED
    BY <2>1, <2>2, StoreMoves DEF Handles
<1>3. CASE /\ work[p].mode = "processingWrite" /\ staged[p].ts >= k
           /\ CommitComing(network, work[p].req.id, p)
  <2>1. PICK r \in Written(replies) : Serves(p, r.id) /\ staged[p] = VersionOf(r)
    BY <1>1, <1>3, CommitComingReported
  <2>2. \/ /\ wk[p] = work[p] /\ staged'[p] = staged[p]
           /\ CommitComing(net, r.id, p)
        \/ store'[p].ts = r.ts
    BY <2>1, ServerGoesOn
  <2>3. staged[p].ts = r.ts /\ work[p].req.id = r.id
    BY <2>1 DEF VersionOf, Serves
  <2>4. QED
    BY <1>3, <2>2, <2>3 DEF AtLeast
<1>4. QED
  BY <1>2, <1>3 DEF AtLeast

\* A node that answers a read with what it has stored has nothing staged.
LEMMA AnswersAtLeast ==
  ASSUME Settled, NEW p \in Node, NEW k \in Nat, AtLeast(work, network, store, staged, k, p),
         staged[p] = NoVersion
  PROVE  store[p].ts >= k
<1>1. store[p].ts \in Nat
  BY StoredBounded
<1>2. CASE staged[p].ts >= k
  BY <1>1, <1>2 DEF NoVersion
<1>3. QED
  BY <1>2 DEF AtLeast

LEMMA ToldHandled ==
  ASSUME NEW n \in Node, NEW w, NEW q, NEW net, NEW wk, NEW qu, Handles(n, w, q, net, wk, qu),
         NEW c \in Node, wk[c].mode = "coordinatingFastRead", NEW p \in Node, NEW k \in Nat,
         AtLeast(work, network, store, staged, k, p), Told(work[c], network, k, p)
  PROVE  Told(wk[c], net, k, p)
<1>1. /\ wk[n] = w /\ \A x \in Node : x # n => wk[x] = work[x]
  BY HandledNodes DEF Handles
<1>2. Settled
  BY DEF Handles
<1>3. wk[c] = work[c] \/ (c = n /\ Counts(n, w, net))
  BY ReaderMoves DEF Handles
<1>4. /\ wk[c].req = work[c].req /\ work[c].mode = "coordinatingFastRead"
  BY <1>1, <1>3, CountedEntry DEF Handles
<1> DEFINE t == work[c].req.id
<1>5. /\ \A m \in network : m.id = t /\ m.type = "NodeGetResponse" /\ m.src = p /\ m.ok => m.ts >= k
      /\ p \in Members(work[c]) /\ work[c].members[p].type = "NodeGetResponse" =>
           work[c].members[p].ts >= k
  BY DEF Told
<1>6. ASSUME NEW u \in net, u.id = t, u.type = "NodeGetResponse", u.src = p, u.ok, u \notin network
      PROVE  u.ts >= k
  <2>1. TellsVersion(n, u) \/ TellsTimestamp(n, u)
    BY <1>6, NewMail DEF TellsStaged, GivesBack, Coordinated, Expired, Handles
  <2>2. ~TellsTimestamp(n, u)
    <3>1. work[c].mode \in Coordinating /\ Asks(work[c]) = "NodeGetRequest"
          /\ Expects(work[c]) = "NodeGetResponse"
      BY <1>4 DEF Coordinating, WritePhases, Asks, Expects
    <3>2. \A m \in network : m.id = t => m.type # "NodeTimestampRequest"
      BY <1>2, <3>1, MessageBetween DEF Settled
    <3>3. QED
      BY <1>6, <3>2 DEF TellsTimestamp
  <2>3. u.src = n /\ u.ts = store[n].ts /\ staged[n] = NoVersion
    BY <1>6, <2>1, <2>2 DEF TellsVersion
  <2>4. QED
    BY <1>2, <1>6, <2>3, AnswersAtLeast
<1>7. ASSUME p \in Members(wk[c]), wk[c].members[p].type = "NodeGetResponse"
      PROVE  wk[c].members[p].ts >= k
  <2>1. CASE wk[c] = work[c]
    BY <1>5, <1>7, <2>1
  <2>2. CASE c = n /\ Counts(n, w, net)
    <3>1. p \in Members(work[n]) /\ p \in Members(w)
      BY <1>1, <1>7, <2>2, CountedEntry DEF Handles
    <3>2. \A y \in Members(w) :
            \/ w.members[y] = work[n].members[y]
            \/ \E m \in network :
                 /\ m.id = work[n].req.id /\ m.ok /\ m.src = y
                 /\ w.members[y] = [type |-> m.type, ts |-> m.ts, val |-> m.val]
      BY <2>2, CountedEntry DEF Handles
    <3>3. CASE w.members[p] = work[n].members[p]
      BY <1>1, <1>5, <1>7, <2>2, <3>1, <3>3
    <3>4. CASE \E m \in network :
                 /\ m.id = work[n].req.id /\ m.ok /\ m.src = p
                 /\ w.members[p] = [type |-> m.type, ts |-> m.ts, val |-> m.val]
      <4>1. PICK m \in network :
              /\ m.id = t /\ m.ok /\ m.src = p
              /\ w.members[p] = [type |-> m.type, ts |-> m.ts, val |-> m.val]
        BY <2>2, <3>4
      <4>2. m.type = "NodeGetResponse" /\ w.members[p].ts = m.ts
        BY <1>1, <1>7, <2>2, <4>1
      <4>3. m.ts >= k
        BY <1>5, <4>1, <4>2
      <4>4. QED
        BY <1>1, <2>2, <4>2, <4>3
    <3>5. QED
      BY <3>1, <3>2, <3>3, <3>4
  <2>3. QED
    BY <1>3, <2>1, <2>2
<1>8. QED
  BY <1>4, <1>5, <1>6, <1>7 DEF Told

LEMMA FreshHandled ==
  ASSUME NEW n \in Node, NEW w, NEW q, NEW net, NEW wk, NEW qu, Handles(n, w, q, net, wk, qu),
         NEW t, NEW k \in Nat, FreshFor(work, network, store, staged, k, t)
  PROVE  FreshFor(wk, net, store', staged', k, t)
<1>1. PICK Q \in WriteQuorums : \A p \in Q :
        /\ AtLeast(work, network, store, staged, k, p)
        /\ \A c \in Node : work[c].mode = "coordinatingFastRead" /\ work[c].req.id = t =>
             Told(work[c], network, k, p)
  BY DEF FreshFor
<1>2. ASSUME NEW p \in Q
      PROVE  /\ AtLeast(wk, net, store', staged', k, p)
             /\ \A c \in Node : wk[c].mode = "coordinatingFastRead" /\ wk[c].req.id = t =>
                  Told(wk[c], net, k, p)
  <2>1. p \in Node
    BY DEF WriteQuorums
  <2>2. AtLeast(wk, net, store', staged', k, p)
    BY <1>1, <2>1, AtLeastHandled
  <2>3. ASSUME NEW c \in Node, wk[c].mode = "coordinatingFastRead", wk[c].req.id = t
        PROVE  Told(wk[c], net, k, p)
    <3>1. wk[c] = work[c] \/ (c = n /\ Counts(n, w, net))
      BY <2>3, ReaderMoves DEF Handles
    <3>2. work[c].mode = "coordinatingFastRead" /\ work[c].req.id = t
      BY <2>3, <3>1, CountedEntry, HandledNodes DEF Handles
    <3>3. Told(work[c], network, k, p)
      BY <1>1, <3>2
    <3>4. QED
      BY <1>1, <2>1, <2>3, <3>3, ToldHandled
  <2>4. QED
    BY <2>2, <2>3
<1>3. QED
  BY <1>2 DEF FreshFor

LEMMA AtLeastCommitted ==
  ASSUME Settled, NEW n \in Node, NEW r, NEW net, NEW wk, NEW qu, Commits(n, r, net, wk, qu),
         NEW p \in Node, NEW k \in Nat, k <= Top(replies),
         AtLeast(work, network, store, staged, k, p)
  PROVE  AtLeast(wk, net, store', staged', k, p)
<1>1. /\ r.ts = Top(replies) + 1 /\ Top(replies) \in Nat /\ store'[n] = VersionOf(r)
      /\ p # n => store'[p] = store[p] /\ staged'[p] = staged[p] /\ wk[p] = work[p]
      /\ \A s \in Written(replies) : s.id # r.id
      /\ \A u \in network : u.id # r.id => u \in net
  <2>1. Top(replies) \in Nat
    BY CommitNumbered
  <2>2. QED
    BY <2>1 DEF Commits, Reports
<1>2. CASE p = n
  <2>1. store'[p].ts = r.ts
    BY <1>1, <1>2 DEF VersionOf
  <2>2. QED
    BY <1>1, <2>1 DEF AtLeast
<1>3. CASE p # n /\ store[p].ts >= k
  BY <1>1, <1>3 DEF AtLeast
<1>4. CASE /\ p # n /\ work[p].mode = "processingWrite" /\ staged[p].ts >= k
           /\ CommitComing(network, work[p].req.id, p)
  <2>1. PICK s \in Written(replies) : Serves(p, s.id)
    BY <1>4, CommitComingReported
  <2>2. work[p].req.id # r.id
    BY <1>1, <2>1 DEF Serves
  <2>3. CommitComing(net, work[p].req.id, p)
    BY <1>1, <1>4, <2>2 DEF CommitComing
  <2>4. QED
    BY <1>1, <1>4, <2>3 DEF AtLeast
<1>5. QED
  BY <1>2, <1>3, <1>4 DEF AtLeast

LEMMA FreshCommitted ==
  ASSUME Settled, NEW n \in Node, NEW r, NEW net, NEW wk, NEW qu, Commits(n, r, net, wk, qu),
         NEW t, NEW k \in Nat, k <= Top(replies), FreshFor(work, network, store, staged, k, t)
  PROVE  FreshFor(wk, net, store', staged', k, t)
<1>1. PICK Q \in WriteQuorums : \A p \in Q :
        /\ AtLeast(work, network, store, staged, k, p)
        /\ \A c \in Node : work[c].mode = "coordinatingFastRead" /\ work[c].req.id = t =>
             Told(work[c], network, k, p)
  BY DEF FreshFor
<1>2. /\ wk[n].mode = "idle" /\ \A p \in Node : p # n => wk[p] = work[p]
      /\ \A u \in net : u \in network \/ u.type = "NodeUnlockRequest"
  BY DEF Commits, Reports, Idle
<1>3. ASSUME NEW p \in Q
      PROVE  /\ AtLeast(wk, net, store', staged', k, p)
             /\ \A c \in Node : wk[c].mode = "coordinatingFastRead" /\ wk[c].req.id = t =>
                  Told(wk[c], net, k, p)
  <2>1. p \in Node
    BY DEF WriteQuorums
  <2>2. AtLeast(wk, net, store', staged', k, p)
    BY <1>1, <2>1, AtLeastCommitted
  <2>3. ASSUME NEW c \in Node, wk[c].mode = "coordinatingFastRead", wk[c].req.id = t
        PROVE  Told(wk[c], net, k, p)
    <3>1. wk[c] = work[c]
      BY <1>2, <2>3
    <3>2. Told(work[c], network, k, p)
      BY <1>1, <2>3, <3>1
    <3>3. QED
      BY <1>2, <3>1, <3>2 DEF Told
  <2>4. QED
    BY <2>2, <2>3
<1>4. QED
  BY <1>3 DEF FreshFor

LEMMA FreshTaken ==
  ASSUME NEW n \in Node, NEW t, NEW wk, NEW qu, NEW net, Takes(n, t, wk, qu, net),
         NEW st, NEW sg, NEW k, NEW x, FreshFor(wk, net, st, sg, k, x)
  PROVE  FreshFor(work', network', st, sg, k, x)
<1>1. PICK Q \in WriteQuorums : \A p \in Q :
        /\ AtLeast(wk, net, st, sg, k, p)
        /\ \A c \in Node : wk[c].mode = "coordinatingFastRead" /\ wk[c].req.id = x =>
             Told(wk[c], net, k, p)
  BY DEF FreshFor
<1>2. /\ wk[n].mode = "idle" /\ \A p \in Node : p # n => work'[p] = wk[p]
      /\ \A u \in net : u \in network'
      /\ \A u \in network' : u \in net \/ u.type # "NodeGetResponse"
      /\ work'[n].mode = "coordinatingFastRead" =>
           /\ \A u \in net : u.id # work'[n].req.id
           /\ \A p \in Members(work'[n]) : work'[n].members[p].type # "NodeGetResponse"
  BY DEF Takes, Idle
<1>3. ASSUME NEW p \in Q
      PROVE  /\ AtLeast(work', network', st, sg, k, p)
             /\ \A c \in Node : work'[c].mode = "coordinatingFastRead" /\ work'[c].req.id = x =>
                  Told(work'[c], network', k, p)
  <2>1. p \in Node
    BY DEF WriteQuorums
  <2>2. AtLeast(work', network', st, sg, k, p)
    <3>1. \A y : CommitComing(net, y, p) => CommitComing(network', y, p)
      BY <1>2 DEF CommitComing
    <3>2. p = n => wk[p].mode # "processingWrite"
      BY <1>2
    <3>3. QED
      BY <1>1, <1>2, <2>1, <3>1, <3>2 DEF AtLeast
  <2>3. ASSUME NEW c \in Node, work'[c].mode = "coordinatingFastRead", work'[c].req.id = x
        PROVE  Told(work'[c], network', k, p)
    <3>1. CASE c = n
      BY <1>2, <2>3, <3>1 DEF Told
    <3>2. CASE c # n
      <4>1. work'[c] = wk[c] /\ Told(wk[c], net, k, p)
        BY <1>1, <1>2, <2>3, <3>2
      <4>2. QED
        BY <1>2, <4>1 DEF Told
    <3>3. QED
      BY <3>1, <3>2
  <2>4. QED
    BY <2>2, <2>3
<1>4. QED
  BY <1>3 DEF FreshFor

LEMMA HasAtLeast ==
  ASSUME NEW r, NEW p, Has(work, network, store, staged, r, p), r.ts \in Nat
  PROVE  AtLeast(work, network, store, staged, r.ts, p)
<1>1. VersionOf(r).ts = r.ts
  BY DEF VersionOf
<1>2. QED
  BY <1>1 DEF Has, AtLeast

\* When a request arrives, a write quorum has, or will have, what was reported.
LEMMA NewestFresh ==
  ASSUME Settled, NEW t \in Txn, Issue(t)
  PROVE  /\ issued' = issued \cup {t} /\ t \notin issued
         /\ \A x \in Txn : x # t => floor'[x] = floor[x]
         /\ floor'[t] \in Nat /\ floor'[t] <= Top(replies)
         /\ FreshFor(work, network, store, staged, floor'[t], t)
<1>1. PICK newest \in {0} \cup {r.ts : r \in {x \in replies : x.ok}} :
        floor' = [floor EXCEPT ![t] = newest]
  BY DEF Issue
<1>2. floor \in [Txn -> Nat] /\ issued' = issued \cup {t} /\ t \notin issued
  BY DEF Settled, IInv, TypeOK, Issue
<1>3. floor'[t] = newest /\ \A x \in Txn : x # t => floor'[x] = floor[x]
  BY <1>1, <1>2
<1>4. Top(replies) \in Nat /\ \A p \in Node : store[p].ts \in Nat
  BY FS_CardinalityType, SettledNode DEF Settled, Versions, Numbered, Top, Version
<1>5. newest = 0 \/ \E r \in Written(replies) : newest = r.ts
  <2>1. CASE newest = 0
    BY <2>1
  <2>2. CASE \E r \in replies : r.ok /\ newest = r.ts
    <3>1. PICK r \in replies : r.ok /\ newest = r.ts
      BY <2>2
    <3>2. Known(replies, [ts |-> r.ts, val |-> r.val])
      BY <3>1 DEF Settled, Versions, ReadsKnown
    <3>3. QED
      BY <3>1, <3>2 DEF Known, NoVersion, VersionOf
  <2>3. QED
    BY <2>1, <2>2
<1>6. newest \in Nat /\ newest <= Top(replies)
  <2>1. \A r \in Written(replies) : r.ts \in 1..Top(replies)
    BY ReportedNumbered
  <2>2. QED
    BY <1>4, <1>5, <2>1
<1>7. \A c \in Node : work[c].req.id # t
  BY <1>2 DEF Settled, Calm, Consistent, UnissuedAbsent, NotStarted
<1>8. \E Q \in WriteQuorums : \A p \in Q : AtLeast(work, network, store, staged, newest, p)
  <2>1. CASE newest = 0
    <3>1. Node \in WriteQuorums
      <4>1. Cardinality(Node) \in Nat
        BY NodeAssumption, FS_CardinalityType
      <4>2. QED
        BY <4>1, QuorumAssumption DEF WriteQuorums
    <3>2. \A p \in Node : AtLeast(work, network, store, staged, newest, p)
      BY <1>4, <2>1 DEF AtLeast
    <3>3. QED
      BY <3>1, <3>2
  <2>2. CASE \E r \in Written(replies) : newest = r.ts
    <3>1. PICK r \in Written(replies) : newest = r.ts
      BY <2>2
    <3>2. PICK Q \in WriteQuorums : \A p \in Q : Has(work, network, store, staged, r, p)
      BY DEF Settled, Versions, Kept
    <3>3. QED
      BY <1>6, <3>1, <3>2, HasAtLeast
  <2>3. QED
    BY <1>5, <2>1, <2>2
<1>9. FreshFor(work, network, store, staged, newest, t)
  BY <1>7, <1>8 DEF FreshFor, WriteQuorums
<1>10. QED
  BY <1>2, <1>3, <1>6, <1>9

\* A request has arrived: nothing has happened yet but, for a local read, its answer.
Arrives(n, t, w, net) ==
  Issue(t) /\ w = work[n] /\ net = network /\ UNCHANGED <<store, staged>>

LEMMA FloorMoves ==
  ASSUME NEW n \in Node, NEW w, NEW q, NEW net, Effect(n, w, q, net)
  PROVE  \/ UNCHANGED <<issued, floor>>
         \/ \E t \in Txn : Arrives(n, t, w, net)
BY DEF Effect, PassEffect, IssueEffect, LocalReadEffect, LockEffect, GetEffect, TimestampEffect,
   PutEffect, UnlockEffect, GiveBackEffect, CountEffect, FinishReadEffect, AskEffect,
   StageEffect, CommitEffect, QuitEffect, ExpireEffect, NothingWritten, Arrives

\* With a strict quorum, reads are local only if writes go to all nodes.
LEMMA LocalReadInTime ==
  ASSUME StrictQuorums, Settled, NEW n \in Node, NEW t \in Txn, Issue(t),
         ReadQuorumSize = 1, staged[n] = NoVersion
  PROVE  store[n].ts >= floor'[t]
<1>1. floor'[t] \in Nat /\ FreshFor(work, network, store, staged, floor'[t], t)
  BY NewestFresh
<1>2. PICK Q \in WriteQuorums : \A p \in Q : AtLeast(work, network, store, staged, floor'[t], p)
  BY <1>1 DEF FreshFor
<1>3. Q = Node
  <2>1. Q \subseteq Node /\ Cardinality(Q) >= WriteQuorumSize
    BY DEF WriteQuorums
  <2>2. Cardinality(Node) \in Nat /\ Cardinality(Q) \in Nat
    BY <2>1, NodeAssumption, FS_CardinalityType, FS_Subset
  <2>3. Cardinality(Q) >= Cardinality(Node)
    BY <2>1, <2>2, QuorumAssumption DEF StrictQuorums
  <2>4. QED
    BY <2>1, <2>2, <2>3, NodeAssumption, FS_Subset
<1>4. QED
  BY <1>1, <1>2, <1>3, AnswersAtLeast

\* A read quorum meets the nodes that have what was reported before the read.
LEMMA ReadQuorumMeets ==
  ASSUME StrictQuorums, Settled, NEW n \in Node, work[n].mode = "coordinatingFastRead",
         NEW Q \in WriteQuorums
  PROVE  \E p \in Q : p = n \/ p \in Members(work[n])
<1> DEFINE P == Members(work[n]) \cup {n}
<1>1. P \in SUBSET Node /\ Cardinality(P) = ReadQuorumSize
  <2>1. n \notin Members(work[n]) /\ Cardinality(Members(work[n])) = ReadQuorumSize - 1
    BY DEF Settled, Conversations, Conversing, Coordinating, WritePhases, Sealed
  <2>2. Members(work[n]) \subseteq Node /\ IsFiniteSet(Members(work[n]))
    BY NodeAssumption, FS_Subset DEF Members
  <2>3. Cardinality(P) = Cardinality(Members(work[n])) + 1
    BY <2>1, <2>2, FS_AddElement
  <2>4. QED
    BY <2>1, <2>2, <2>3, QuorumSizes
<1>2. Q \subseteq Node /\ Cardinality(Q) >= WriteQuorumSize
  BY DEF WriteQuorums
<1> HIDE DEF P
<1>3. Cardinality(Node) \in Nat /\ Cardinality(Q) \in Nat
  BY <1>2, NodeAssumption, FS_CardinalityType, FS_Subset
<1>4. Cardinality(Q) + Cardinality(P) > Cardinality(Node)
  BY <1>1, <1>2, <1>3, QuorumSizes DEF StrictQuorums
<1>5. Q \cap P # {}
  BY <1>1, <1>2, <1>4, NodeAssumption, FS_MajoritiesIntersect
<1>6. QED
  BY <1>5 DEF P

LEMMA FinishReadInTime ==
  ASSUME StrictQuorums, Settled, resends' = 0, NEW n \in Node, NEW m, NEW c, NEW net,
         LastAnswer(n, m, net, c), c.mode = "coordinatingFastRead",
         NEW k \in Nat, FreshFor(work, network, store, staged, k, work[n].req.id),
         NEW v, IsNewest(v, Heard(n, c))
  PROVE  v.ts >= k
<1>1. /\ c.mode = work[n].mode /\ Members(c) = Members(work[n]) /\ m \in network
      /\ m.id = work[n].req.id /\ m.ok /\ m.type = Expects(work[n])
      /\ \A p \in Members(c) :
           /\ c.members[p].type = Expects(work[n])
           /\ \/ p = m.src /\ c.members[p] = [type |-> m.type, ts |-> m.ts, val |-> m.val]
              \/ c.members[p] = work[n].members[p]
  BY QuorumComplete DEF Settled
<1>2. work[n].mode = "coordinatingFastRead" /\ Expects(work[n]) = "NodeGetResponse"
  BY <1>1 DEF Expects
<1>3. PICK Q \in WriteQuorums : \A p \in Q :
        AtLeast(work, network, store, staged, k, p) /\ Told(work[n], network, k, p)
  BY <1>2 DEF FreshFor
<1>4. PICK p \in Q : p = n \/ p \in Members(work[n])
  BY <1>2, ReadQuorumMeets
<1>5. store[n].ts \in Nat /\ store[n].ts <= v.ts /\ v.ts \in Nat
      /\ \A x \in Members(c) : c.members[x].ts <= v.ts /\ c.members[x].ts \in Nat
  <2>1. /\ v \in Heard(n, c) /\ \A u \in Heard(n, c) : u.ts <= v.ts
        /\ store[n] \in Heard(n, c)
        /\ \A x \in Members(c) : [ts |-> c.members[x].ts, val |-> c.members[x].val] \in Heard(n, c)
    BY DEF IsNewest, Heard
  <2>2. store[n].ts \in Nat /\ work[n] \in Work /\ m \in NodeMessage
    BY <1>1, SettledNode DEF Version, Settled, Calm, HandledOK
  <2>3. \A x \in Members(c) : c.members[x].ts \in Nat
    <3>1. \A x \in Members(work[n]) : work[n].members[x].ts \in Nat
      BY <2>2 DEF Work, Members, Answer
    <3>2. QED
      BY <1>1, <2>2, <3>1 DEF NodeMessage
  <2>4. v.ts \in Nat
    BY <2>1, <2>2, <2>3 DEF Heard
  <2>5. QED
    BY <2>1, <2>2, <2>3, <2>4
<1>6. CASE p = n
  <2>1. store[n].ts >= k
    BY <1>2, <1>3, <1>4, <1>6 DEF AtLeast
  <2>2. QED
    BY <1>5, <2>1
<1>7. CASE p \in Members(work[n])
  <2>1. c.members[p].ts >= k
    BY <1>1, <1>2, <1>3, <1>7 DEF Told
  <2>2. QED
    BY <1>1, <1>5, <1>7, <2>1
<1>8. QED
  BY <1>4, <1>6, <1>7

LEMMA AnswersInTime ==
  ASSUME StrictQuorums, NEW n \in Node, NEW w, NEW q, NEW net, NEW wk, NEW qu,
         Handles(n, w, q, net, wk, qu),
         Reads(work, network, store, staged, replies, floor, issued),
         NEW s \in replies', s.ok
  PROVE  InTime(s, floor')
<1>1. Settled /\ Effect(n, w, q, net) /\ ~CommitEffect(n, w, q, net) /\ resends' = 0
  BY DEF Handles, Acts
<1>2. CASE s \in replies
  <2>1. s.id \in issued /\ s.id \in Txn /\ InTime(s, floor)
    BY <1>1, <1>2 DEF Settled, AnsweredOnce, Answered, Calm, Reads, Sealed
  <2>2. floor'[s.id] = floor[s.id]
    <3>1. CASE UNCHANGED <<issued, floor>>
      BY <3>1
    <3>2. CASE \E t \in Txn : Arrives(n, t, w, net)
      BY <1>1, <2>1, <3>2, NewestFresh DEF Arrives
    <3>3. QED
      BY <1>1, <3>1, <3>2, FloorMoves
  <2>3. QED
    BY <2>1, <2>2 DEF InTime
<1>3. CASE LocalAnswer(n, s)
  <2>1. PICK t \in Txn : /\ Issue(t) /\ ReadQuorumSize = 1 /\ staged[n] = NoVersion
                         /\ s = Reply("ClientReadResponse", t, store[n], TRUE)
    BY <1>3 DEF LocalAnswer
  <2>2. s.type = "ClientReadResponse" /\ s.id = t /\ s.ts = store[n].ts
    BY <2>1 DEF Reply
  <2>3. store[n].ts >= floor'[t]
    BY <1>1, <2>1, LocalReadInTime
  <2>4. QED
    BY <2>2, <2>3 DEF InTime
<1>4. CASE QuorumAnswer(n, net, s)
  <2>1. PICK m, c, v : /\ LastAnswer(n, m, net, c) /\ c.mode = "coordinatingFastRead"
                       /\ IsNewest(v, Heard(n, c)) /\ UNCHANGED floor
                       /\ s = Reply("ClientReadResponse", c.req.id, v, TRUE)
    BY <1>4 DEF QuorumAnswer
  <2>2. s.type = "ClientReadResponse" /\ s.id = c.req.id /\ s.ts = v.ts
    BY <2>1 DEF Reply
  <2>3. c.req = work[n].req /\ work[n].mode \in Coordinating
    <3>1. Answering(n, m, net) /\ c = Counted(work[n], m) /\ Orderly
      BY <1>1, <2>1 DEF LastAnswer, Settled, Sealed
    <3>2. QED
      BY <3>1, LastAnswerType
  <2>4. work[n].req.id \in issued /\ work[n].req.id \in Txn
    <3>1. work[n] \in Work /\ issued \in SUBSET Txn /\ UnissuedAbsent(work, queue, network, issued)
      BY <1>1 DEF Settled, Calm, HandledOK, Consistent
    <3>2. work[n].req.id \in Txn
      BY <2>3, <3>1 DEF Work, ClientMessage
    <3>3. QED
      BY <3>1, <3>2 DEF UnissuedAbsent, NotStarted
  <2> DEFINE k == floor[work[n].req.id]
  <2>5. k \in Nat /\ FreshFor(work, network, store, staged, k, work[n].req.id)
    BY <1>1, <2>4 DEF Settled, IInv, TypeOK, Reads
  <2> HIDE DEF k
  <2>6. v.ts >= k
    BY <1>1, <2>1, <2>5, FinishReadInTime
  <2>7. QED
    BY <2>1, <2>2, <2>3, <2>6 DEF InTime, k
<1>5. QED
  BY <1>1, <1>2, <1>3, <1>4, NewAnswer

LEMMA HandledReads ==
  ASSUME StrictQuorums, NEW n \in Node, NEW w, NEW q, NEW net, NEW wk, NEW qu,
         Handles(n, w, q, net, wk, qu),
         Reads(work, network, store, staged, replies, floor, issued)
  PROVE  Reads(wk, net, store', staged', replies', floor', issued')
<1>1. /\ Settled /\ Effect(n, w, q, net) /\ ~CommitEffect(n, w, q, net)
      /\ floor \in [Txn -> Nat] /\ issued \in SUBSET Txn
  BY DEF Handles, Settled, IInv, TypeOK, Acts
<1>2. Top(replies') = Top(replies)
  BY <1>1, WrittenKept DEF Top
<1>3. /\ \A t \in Txn : floor[t] <= Top(replies)
      /\ \A t \in issued : FreshFor(work, network, store, staged, floor[t], t)
  BY DEF Reads
<1>4. ASSUME NEW t \in issued PROVE FreshFor(wk, net, store', staged', floor[t], t)
  BY <1>1, <1>3, FreshHandled
<1>5. CASE UNCHANGED <<issued, floor>>
  BY <1>2, <1>3, <1>4, <1>5, AnswersInTime DEF Reads
<1>6. CASE \E t \in Txn : Arrives(n, t, w, net)
  <2>1. PICK t \in Txn : Arrives(n, t, w, net)
    BY <1>6
  <2>2. Issue(t) /\ net = network /\ store' = store /\ staged' = staged /\ w = work[n]
    BY <2>1 DEF Arrives
  <2>3. wk = work
    BY <1>1, <2>2, LeavesOthers DEF Handles, Acts, Settled, Calm
  <2>4. /\ issued' = issued \cup {t} /\ t \notin issued
        /\ \A x \in Txn : x # t => floor'[x] = floor[x]
        /\ floor'[t] <= Top(replies)
        /\ FreshFor(work, network, store, staged, floor'[t], t)
    BY <1>1, <2>2, NewestFresh
  <2>5. \A x \in Txn : floor'[x] <= Top(replies')
    BY <1>2, <1>3, <2>4
  <2>6. \A x \in issued' : FreshFor(wk, net, store', staged', floor'[x], x)
    BY <1>1, <1>3, <2>2, <2>3, <2>4
  <2>7. QED
    BY <2>5, <2>6, AnswersInTime DEF Reads
<1>7. QED
  BY <1>1, <1>5, <1>6, FloorMoves

LEMMA CommittedReads ==
  ASSUME Settled, NEW n \in Node, NEW r, NEW net, NEW wk, NEW qu, Commits(n, r, net, wk, qu),
         UNCHANGED <<issued, floor>>,
         Reads(work, network, store, staged, replies, floor, issued)
  PROVE  Reads(wk, net, store', staged', replies', floor', issued')
<1>1. /\ \A t \in Txn : floor[t] \in Nat /\ floor[t] <= Top(replies)
      /\ \A t \in issued : t \in Txn /\ FreshFor(work, network, store, staged, floor[t], t)
      /\ \A s \in replies : s.ok => InTime(s, floor)
  BY DEF Reads, Settled, IInv, TypeOK
<1>2. Top(replies) \in Nat /\ IsFiniteSet(Written(replies))
  BY CommitNumbered DEF Settled, Versions, Numbered
<1>3. /\ r.id \in Txn /\ r.ts = Top(replies) + 1 /\ r \in Written(replies')
      /\ Written(replies') = Written(replies) \cup {r} /\ r \notin Written(replies)
      /\ \A s \in replies' : s \in replies \/ s = r
  BY DEF Commits, Reports
<1>4. Top(replies') = Top(replies) + 1
  BY <1>2, <1>3, FS_AddElement DEF Top
<1>5. \A t \in Txn : floor'[t] <= Top(replies')
  BY <1>1, <1>2, <1>4
<1>6. InTime(r, floor)
  <2>1. r.type = "ClientWriteResponse"
    BY <1>3 DEF Written
  <2>2. r.ts > floor[r.id]
    BY <1>1, <1>2, <1>3
  <2>3. QED
    BY <2>1, <2>2 DEF InTime
<1>7. \A s \in replies' : s.ok => InTime(s, floor')
  BY <1>1, <1>3, <1>6
<1>8. ASSUME NEW t \in issued PROVE FreshFor(wk, net, store', staged', floor[t], t)
  BY <1>1, FreshCommitted
<1>9. QED
  BY <1>5, <1>7, <1>8 DEF Reads

LEMMA TakenReads ==
  ASSUME NEW n \in Node, NEW t, NEW wk, NEW qu, NEW net, Takes(n, t, wk, qu, net),
         NEW st, NEW sg, NEW rp, NEW fl, NEW is, Reads(wk, net, st, sg, rp, fl, is)
  PROVE  Reads(work', network', st, sg, rp, fl, is)
BY FreshTaken DEF Reads

-----------------------------------------------------------------------------
(* Every step *)

StoresForward == \A n \in Node : store'[n] # store[n] => store'[n].ts > store[n].ts

LEMMA HandledForward ==
  ASSUME NEW n \in Node, NEW w, NEW q, NEW net, NEW wk, NEW qu, Handles(n, w, q, net, wk, qu)
  PROVE  StoresForward
<1> SUFFICES ASSUME NEW p \in Node, store'[p] # store[p]
             PROVE  store'[p].ts > store[p].ts
  BY DEF StoresForward
<1>1. p = n /\ \E r \in Written(replies) : Stores(n, w, r)
  BY StoreMoves DEF Handles
<1>2. PICK r \in Written(replies) : Stores(n, w, r)
  BY <1>1
<1>3. store'[p].ts = r.ts /\ store[p].ts < r.ts
  BY <1>1, <1>2, StoresNewer DEF Stores, VersionOf, Handles
<1>4. store[p].ts \in Nat /\ r.ts \in Nat
  <2>1. Settled
    BY DEF Handles
  <2>2. QED
    BY <2>1, Reported, StoredBounded DEF Settled
<1>5. QED
  BY <1>3, <1>4

LEMMA CommitForward ==
  ASSUME Settled, NEW n \in Node, NEW r, NEW net, NEW wk, NEW qu, Commits(n, r, net, wk, qu)
  PROVE  StoresForward
<1> SUFFICES ASSUME NEW p \in Node, store'[p] # store[p]
             PROVE  store'[p].ts > store[p].ts
  BY DEF StoresForward
<1>1. store[p].ts \in Nat /\ Top(replies) \in Nat /\ store[p].ts <= Top(replies)
  BY StoredBounded
<1>2. p = n /\ store'[n].ts = Top(replies) + 1
  BY DEF Commits, Reports, VersionOf
<1>3. QED
  BY <1>1, <1>2

LEMMA VersionsStep ==
  ASSUME Settled, resends' = 0, NEW n \in Node, StepOf(n)
  PROVE  /\ Versions(work', queue', network', store', staged', replies')
         /\ StoresForward
         /\ StrictQuorums /\ Reads(work, network, store, staged, replies, floor, issued) =>
              Reads(work', network', store', staged', replies', floor', issued')
<1>1. PICK w, q, net : Effect(n, w, q, net) /\ Ends(n, w, q, net)
  BY DEF StepOf
<1> DEFINE wk == [work EXCEPT ![n] = w]
           qu == [queue EXCEPT ![n] = q]
<1>2. Orderly /\ HandledOK /\ Conversations(work, queue, network) /\ Sealed
  BY DEF Settled, Calm, Sealed
<1>3. w \in Work /\ q \in Seq(Queued) /\ net \in SUBSET NodeMessage /\ QueuedOnce(wk, qu, net)
  BY <1>1, <1>2, EffectWork, EffectQueuedOnce
<1>4. Leaves(n, w, q, wk, qu)
  BY DEF Leaves
<1> HIDE DEF wk, qu
<1>5. Conversations(wk, qu, net)
  BY <1>1, <1>2, <1>4, EffectConversations
<1>6. /\ Versions(wk, qu, net, store', staged', replies') /\ StoresForward
      /\ StrictQuorums /\ Reads(work, network, store, staged, replies, floor, issued) =>
           Reads(wk, net, store', staged', replies', floor', issued')
  <2>1. CASE CommitEffect(n, w, q, net)
    <3>1. PICK r : Commits(n, r, net, wk, qu)
      BY <1>4, <2>1, CommitForm
    <3>2. UNCHANGED <<issued, floor>>
      BY <2>1 DEF CommitEffect
    <3>3. QED
      BY <3>1, <3>2, CommitVersions, CommitForward, CommittedReads
  <2>2. CASE ~CommitEffect(n, w, q, net)
    <3>1. Handles(n, w, q, net, wk, qu)
      BY <1>1, <1>2, <1>4, <2>2 DEF Handles, Acts
    <3>2. QED
      BY <3>1, HandledVersions, HandledForward, HandledReads
  <2>3. QED
    BY <2>1, <2>2
<1>7. \/ work' = wk /\ queue' = qu /\ network' = net
      \/ \E t : Takes(n, t, wk, qu, net)
  BY <1>1, <1>2, <1>3, <1>4, EndsTakes
<1>8. CASE work' = wk /\ queue' = qu /\ network' = net
  BY <1>6, <1>8
<1>9. CASE \E t : Takes(n, t, wk, qu, net)
  BY <1>3, <1>5, <1>6, <1>9, TakesVersions, TakenReads
<1>10. QED
  BY <1>6, <1>7, <1>8, <1>9

\* The inductive invariant is OrderInv of DbNodeOrder.
LEMMA OrderInit == Init => OrderInv
<1> SUFFICES ASSUME Init PROVE OrderInv
  OBVIOUS
<1>1. IInv
  BY InitConsistent
<1>2. AnsweredOnce /\ Conversations(work, queue, network)
  BY DEF Init, AnsweredOnce, Answered, AsRequested, Conversations, Idle, Coordinating, WritePhases
<1>3. Written(replies) = {} /\ replies = {} /\ network = {} /\ issued = {} /\ floor = [t \in Txn |-> 0]
  BY DEF Init, Written
<1>4. Numbered(replies) /\ Top(replies) = 0
  BY <1>3, FS_EmptySet DEF Numbered, Top
<1>5. /\ \A n \in Node : work[n].mode = "idle" /\ store[n] = NoVersion
  BY DEF Init, Idle
<1>6. Versions(work, queue, network, store, staged, replies)
  BY <1>3, <1>4, <1>5
     DEF Versions, StoresKnown, Known, AskingFor, Putting, Committed, CommitsReported,
         Kept, ReadsKnown
<1>7. Reads(work, network, store, staged, replies, floor, issued)
  BY <1>3, <1>4 DEF Reads
<1>8. QED
  BY <1>1, <1>2, <1>6, <1>7 DEF OrderInv, AnsweredOnce

LEMMA OrderSettled ==
  ASSUME OrderInv, Next, Unrepeated'
  PROVE  /\ Settled /\ Unrepeated /\ resends' = 0
         /\ StrictQuorums => Reads(work, network, store, staged, replies, floor, issued)
         /\ \E n \in Node : StepOf(n)
<1>1. Unrepeated /\ resends' = 0 /\ Undisturbed' /\ Undisturbed
  BY StaysUnrepeated DEF OrderInv, IInv, Unrepeated
<1>2. Calm /\ Orderly /\ \E n \in Node : StepOf(n)
  BY <1>1, StepForm DEF OrderInv
<1>3. AnsweredOnce /\ IInv /\ Conversations(work, queue, network)
      /\ Versions(work, queue, network, store, staged, replies)
  BY <1>1 DEF OrderInv, AnsweredOnce
<1>4. Truthful(work, queue, network, store, staged, replies)
  BY <1>2, <1>3, VersionsTruthful
<1>5. QED
  BY <1>1, <1>2, <1>3, <1>4 DEF Settled, OrderInv, Sealed

LEMMA OrderInductive ==
  ASSUME OrderInv, [Next]_vars, IInv'
  PROVE  OrderInv'
<1>1. Undisturbed' => AnsweredOnce'
  BY AnsweredInductive DEF OrderInv, AnsweredOnce
<1>2. Unrepeated' => Conversations(work', queue', network')
  BY ConversationsInductive DEF OrderInv, AnsweredOnce
<1>3. ASSUME Unrepeated'
      PROVE  /\ Versions(work', queue', network', store', staged', replies')
             /\ StrictQuorums => Reads(work', network', store', staged', replies', floor', issued')
  <2>1. CASE Next
    BY <1>3, <2>1, OrderSettled, VersionsStep
  <2>2. CASE UNCHANGED vars
    <3>1. /\ Unrepeated /\ work' = work /\ queue' = queue /\ network' = network
          /\ store' = store /\ staged' = staged /\ replies' = replies
          /\ floor' = floor /\ issued' = issued
      BY <1>3, <2>2 DEF vars, Unrepeated, Undisturbed
    <3>2. QED
      BY <3>1 DEF OrderInv
  <2>3. QED
    BY <2>1, <2>2
<1>4. QED
  BY <1>1, <1>2, <1>3 DEF OrderInv, AnsweredOnce

\* Whatever the nodes do without losing a request, each is answered once; as long
\* as no message is delivered twice, reported writes are numbered, each is on a
\* quorum, what is read was reported, and was not overtaken before the read.
THEOREM OrderKept == Spec => []OrderInv
<1>1. OrderInv /\ [Next]_vars /\ IInv' => OrderInv'
  BY OrderInductive
<1>2. QED
  BY <1>1, OrderInit, QuorumsStayHeld, PTL DEF Spec

-----------------------------------------------------------------------------
(* What clients are promised *)

LEMMA DurableHolds ==
  ASSUME TypeOK, Kept(work, network, store, staged, replies)
  PROVE  Durable
<1> SUFFICES ASSUME NEW r \in Writes
             PROVE  Cardinality({n \in Node :
                      \/ store[n].ts >= r.ts
                      \/ /\ staged[n] = [ts |-> r.ts, val |-> r.id]
                         /\ work[n].mode = "processingWrite" /\ work[n].req.id = r.id
                         /\ \E m \in network : /\ m.type = "NodeUnlockRequest" /\ m.ok
                                               /\ m.id = r.id /\ m.dest = n})
                    >= WriteQuorumSize
  BY DEF Durable
<1> DEFINE D == {n \in Node :
                      \/ store[n].ts >= r.ts
                      \/ /\ staged[n] = [ts |-> r.ts, val |-> r.id]
                         /\ work[n].mode = "processingWrite" /\ work[n].req.id = r.id
                         /\ \E m \in network : /\ m.type = "NodeUnlockRequest" /\ m.ok
                                               /\ m.id = r.id /\ m.dest = n}
<1>1. r \in Written(replies)
  BY DEF Writes, Successes, Written
<1>2. PICK Q \in WriteQuorums : \A n \in Q : Has(work, network, store, staged, r, n)
  BY <1>1 DEF Kept
<1>3. Q \subseteq Node /\ Cardinality(Q) >= WriteQuorumSize
  BY DEF WriteQuorums
<1>4. Q \subseteq D
  BY <1>2, <1>3 DEF Has, CommitComing, VersionOf
<1>5. D \subseteq Node
  OBVIOUS
<1> HIDE DEF D
<1>6. Cardinality(Q) \in Nat /\ Cardinality(D) \in Nat /\ Cardinality(Q) <= Cardinality(D)
  BY <1>4, <1>5, NodeAssumption, FS_Subset, FS_CardinalityType
<1>7. Cardinality(D) >= WriteQuorumSize
  BY <1>3, <1>6, QuorumAssumption
<1>8. QED
  BY <1>7 DEF D

\* As long as no message is delivered twice, a write that handlePutRes reported is
\* on a write quorum: each member has it or a newer version, or keeps it staged
\* under its lock with the instruction to commit on the way (handleUnlockReq).
THEOREM ReportedWritesKept == Spec => [](resends = 0 => Durable)
<1>1. OrderInv => (resends = 0 => Durable)
  <2> SUFFICES ASSUME OrderInv, resends = 0, Undisturbed PROVE Durable
    BY DEF Durable
  <2>1. TypeOK /\ Kept(work, network, store, staged, replies)
    BY DEF OrderInv, IInv, Unrepeated, Versions
  <2>2. QED
    BY <2>1, DurableHolds
<1>2. QED
  BY <1>1, OrderKept, PTL

LEMMA OneValue ==
  ASSUME Numbered(replies), NEW u, NEW v, Known(replies, u), Known(replies, v)
  PROVE  u = v \/ u.ts # v.ts
<1>1. \A s \in Written(replies) : s.ts \in 1..Top(replies)
  BY DEF Numbered
<1>2. \A s \in Written(replies) : VersionOf(s).ts = s.ts /\ VersionOf(s) = [ts |-> s.ts, val |-> s.id]
  BY DEF VersionOf
<1>3. NoVersion.ts = 0
  BY DEF NoVersion
<1>4. \A s \in Written(replies) : s.ts # 0
  BY <1>1
<1>5. \A s, x \in Written(replies) : s.ts = x.ts => s = x
  BY DEF Numbered
<1>6. QED
  BY <1>2, <1>3, <1>4, <1>5 DEF Known

\* As long as no message is delivered twice, a timestamp names one value among all
\* that nodes have stored and clients were told: the log.Fatal of
\* handleBackgroundWriteReq is never reached.
THEOREM TimestampsNameOneValue == Spec => [](resends = 0 => OneValuePerTimestamp)
<1>1. OrderInv => (resends = 0 => OneValuePerTimestamp)
  <2> SUFFICES ASSUME OrderInv, resends = 0, Undisturbed PROVE NoConflictingValues
    BY DEF OneValuePerTimestamp
  <2> DEFINE known == {store[n] : n \in Node} \cup
                        {[ts |-> r.ts, val |-> r.val] : r \in Successes}
  <2>1. /\ Numbered(replies) /\ StoresKnown(store, replies)
        /\ ReadsKnown(work, network, replies)
    BY DEF OrderInv, Unrepeated, Versions
  <2>2. \A v \in known : Known(replies, v)
    BY <2>1 DEF StoresKnown, ReadsKnown, Successes
  <2>3. \A u, v \in known : u.ts = v.ts => u = v
    BY <2>1, <2>2, OneValue
  <2>4. QED
    BY <2>3 DEF NoConflictingValues
<1>2. QED
  BY <1>1, OrderKept, PTL

LEMMA EachStepForward == Spec => [][Unrepeated' => StoresForward]_vars
<1>1. OrderInv /\ [Next]_vars => [Unrepeated' => StoresForward]_vars
  <2> SUFFICES ASSUME OrderInv, Next, Unrepeated' PROVE StoresForward
    OBVIOUS
  <2>1. QED
    BY OrderSettled, VersionsStep
<1>2. QED
  BY <1>1, OrderKept, PTL DEF Spec

\* As long as no message is delivered twice, a node never replaces a committed
\* version by one that is not newer, though handleUnlockReq and continueProcessing
\* commit what is staged without comparing it to what is stored.
THEOREM VersionsMoveForward == Spec /\ [](resends = 0) => StoreMovesForward
<1>1. /\ [Unrepeated' => StoresForward]_vars
      /\ (resends = 0)'
      => [Undisturbed' => \A n \in Node :
            store'[n] # store[n] => store'[n].ts > store[n].ts]_vars
  BY DEF Unrepeated, StoresForward
<1>2. QED
  BY <1>1, EachStepForward, PTL DEF StoreMovesForward

\* With a strict quorum, and as long as no message is delivered twice, a read is
\* not older, and a write is newer, than all that was reported before its request
\* reached a node, though handleGetReq answers without taking a lock.
THEOREM ReportedBeforeIsSeen ==
  ASSUME StrictQuorums
  PROVE  Spec => [](resends = 0 => RealTimeOrder)
<1>1. OrderInv => (resends = 0 => RealTimeOrder)
  <2> SUFFICES ASSUME OrderInv, resends = 0, Undisturbed, NEW r \in Successes
               PROVE  IF r \in Writes THEN r.ts > floor[r.id] ELSE r.ts >= floor[r.id]
    BY DEF RealTimeOrder
  <2>1. InTime(r, floor)
    BY DEF OrderInv, Unrepeated, Reads, Successes
  <2>2. QED
    BY <2>1 DEF InTime, Writes
<1>2. QED
  BY <1>1, OrderKept, PTL

-----------------------------------------------------------------------------
(* What clients are told is what one register would tell them *)

HistoryOf(rp) == [k \in 1..Top(rp) |-> (CHOOSE r \in Written(rp) : r.ts = k).id]

LEMMA HistoryIs == History = HistoryOf(replies) /\ History' = HistoryOf(replies')
<1>1. Writes = Written(replies) /\ Writes' = Written(replies')
  BY DEF Writes, Successes, Written
<1>2. QED
  BY <1>1 DEF History, HistoryOf, Top

LEMMA HistoryPlaces ==
  ASSUME NEW rp, Numbered(rp), \A r \in Written(rp) : r.id \in Txn
  PROVE  /\ HistoryOf(rp) \in Seq(Txn) /\ Len(HistoryOf(rp)) = Top(rp) /\ Top(rp) \in Nat
         /\ \A r \in Written(rp) : HistoryOf(rp)[r.ts] = r.id
<1>1. Top(rp) \in Nat
  BY FS_CardinalityType DEF Numbered, Top
<1>2. ASSUME NEW r \in Written(rp)
      PROVE  /\ r.ts \in 1..Top(rp)
             /\ (CHOOSE s \in Written(rp) : s.ts = r.ts) = r
  <2>1. \A s \in Written(rp) : s.ts = r.ts => s = r
    BY DEF Numbered
  <2>2. (CHOOSE s \in Written(rp) : s.ts = r.ts) = r
    BY <2>1
  <2>3. QED
    BY <2>2 DEF Numbered
<1>3. \A k \in 1..Top(rp) : (CHOOSE r \in Written(rp) : r.ts = k).id \in Txn
  <2> TAKE k \in 1..Top(rp)
  <2>1. PICK r \in Written(rp) : r.ts = k
    BY DEF Numbered
  <2>2. QED
    BY <1>2, <2>1
<1>4. HistoryOf(rp) \in [1..Top(rp) -> Txn]
  BY <1>3 DEF HistoryOf
<1>5. HistoryOf(rp) \in Seq(Txn)
  BY <1>1, <1>4, SeqDef
<1>6. Len(HistoryOf(rp)) = Top(rp)
  BY <1>1, <1>4, <1>5, LenProperties
<1>7. \A r \in Written(rp) : HistoryOf(rp)[r.ts] = r.id
  BY <1>2 DEF HistoryOf
<1>8. QED
  BY <1>1, <1>5, <1>6, <1>7

\* In a settled state the register holds what was reported.
LEMMA RegisterHolds ==
  ASSUME Settled
  PROVE  /\ History \in Seq(Txn) /\ Len(History) = Top(replies) /\ Top(replies) \in Nat
         /\ \A v : Known(replies, v) =>
              v.ts \in 0..Len(History) /\ v.val = Abstract!ValueAt(v.ts)
<1>1. Numbered(replies) /\ \A r \in Written(replies) : r.id \in Txn /\ r.ts \in 1..Top(replies)
  BY Reported, ReportedNumbered DEF Settled, Versions
<1>2. /\ History \in Seq(Txn) /\ Len(History) = Top(replies) /\ Top(replies) \in Nat
      /\ \A r \in Written(replies) : History[r.ts] = r.id
  BY <1>1, HistoryIs, HistoryPlaces
<1>3. ASSUME NEW v, Known(replies, v)
      PROVE  v.ts \in 0..Len(History) /\ v.val = Abstract!ValueAt(v.ts)
  <2>1. CASE v = NoVersion
    BY <1>2, <2>1 DEF NoVersion, Abstract!ValueAt
  <2>2. CASE \E r \in Written(replies) : v = VersionOf(r)
    <3>1. PICK r \in Written(replies) : v = VersionOf(r)
      BY <2>2
    <3>2. v.ts = r.ts /\ v.val = r.id /\ r.ts # 0
      BY <1>1, <3>1 DEF VersionOf
    <3>3. QED
      BY <1>1, <1>2, <3>2 DEF Abstract!ValueAt
  <2>3. QED
    BY <1>3, <2>1, <2>2 DEF Known
<1>4. QED
  BY <1>2, <1>3

LEMMA NewestIsLength ==
  ASSUME Settled, NEW t \in Txn, Issue(t)
  PROVE  /\ t \notin issued /\ issued' = issued \cup {t}
         /\ floor' = [floor EXCEPT ![t] = Len(History)]
<1>1. PICK newest :
        /\ \A r \in replies : r.ok => r.ts <= newest
        /\ floor' = [floor EXCEPT ![t] = newest]
  BY DEF Issue
<1>2. floor'[t] = newest
  BY <1>1 DEF Settled, IInv, TypeOK
<1>3. newest \in Nat /\ newest <= Top(replies)
  BY <1>2, NewestFresh
<1>4. Top(replies) \in Nat /\ Len(History) = Top(replies)
  BY RegisterHolds
<1>5. Top(replies) > 0 => Top(replies) <= newest
  <2>1. Numbered(replies)
    BY DEF Settled, Versions
  <2>2. Top(replies) > 0 => \E r \in Written(replies) : r.ts = Top(replies)
    BY <1>4, <2>1 DEF Numbered
  <2>3. QED
    BY <1>1, <2>2 DEF Written
<1>6. newest = Len(History)
  BY <1>3, <1>4, <1>5
<1>7. QED
  BY <1>1, <1>6 DEF Issue

\* A request that a node works on, or has in its queue, is still to be answered.
LEMMA RequestInHand ==
  ASSUME Settled, NEW n \in Node, NEW e, FromClient(e), e = Request(e.id, n),
         \/ work[n].mode \in Coordinating /\ e = work[n].req
         \/ \E i \in 1..Len(queue[n]) : e = queue[n][i].msg
  PROVE  /\ e.id \in Txn /\ e.id \in issued /\ ~Abstract!Answered(e.id)
         /\ e.type = Kind[e.id] /\ e.ts = ExpectedTs[e.id] /\ e.val = e.id
         /\ Kind[e.id] \in ClientKinds /\ ReplyTo(e) = Abstract!ReplyType(e.id)
<1>1. /\ HandledOK /\ issued \in SUBSET Txn /\ UnissuedAbsent(work, queue, network, issued)
      /\ Answered(work, queue, replies, issued)
  BY DEF Settled, Calm, Consistent, AnsweredOnce, Sealed
<1>2. e.id \in Txn
  <2>1. CASE work[n].mode \in Coordinating /\ e = work[n].req
    BY <1>1, <2>1 DEF HandledOK, Work, ClientMessage
  <2>2. CASE \E i \in 1..Len(queue[n]) : e = queue[n][i].msg
    <3>1. PICK i \in 1..Len(queue[n]) : e = queue[n][i].msg
      BY <2>2
    <3>2. queue[n][i] \in Queued
      BY <1>1 DEF HandledOK
    <3>3. QED
      BY <3>1, <3>2 DEF Queued, ClientMessage, NodeMessage
  <2>3. QED
    BY <2>1, <2>2
<1>3. e.id \in issued
  BY <1>1, <1>2 DEF UnissuedAbsent, NotStarted, NeverQueued
<1>4. ~Abstract!Answered(e.id)
  BY <1>1 DEF Answered, Abstract!Answered
<1>5. e.type = Kind[e.id] /\ e.ts = ExpectedTs[e.id] /\ e.val = e.id
  BY DEF Request, Mail
<1>6. Kind[e.id] \in ClientKinds /\ ReplyTo(e) = Abstract!ReplyType(e.id)
  BY <1>2, <1>5, TxnAssumption DEF ReplyTo, Abstract!ReplyType
<1>7. QED
  BY <1>2, <1>3, <1>4, <1>5, <1>6

LEMMA CoordinatedRequest ==
  ASSUME Settled, NEW n \in Node, work[n].mode \in Coordinating
  PROVE  LET t == work[n].req.id IN
         /\ t \in Txn /\ t \in issued /\ ~Abstract!Answered(t)
         /\ work[n].req.type = Kind[t] /\ work[n].req.ts = ExpectedTs[t] /\ work[n].req.val = t
         /\ Kind[t] \in ClientKinds /\ ReplyTo(work[n].req) = Abstract!ReplyType(t)
         /\ work[n].mode \in WritePhases <=> Kind[t] \in WriteKinds
<1>1. /\ work[n].req = Request(work[n].req.id, n) /\ work[n] \in Work
      /\ work[n].mode \in WritePhases <=> work[n].req.type \in WriteKinds
  BY DEF Settled, AnsweredOnce, AsRequested, Calm, HandledOK, Sealed
<1>2. FromClient(work[n].req)
  BY <1>1 DEF Work, ClientMessage, FromClient
<1>3. QED
  BY <1>1, <1>2, RequestInHand

LEMMA Tells ==
  ASSUME NEW t, NEW v, NEW ok,
         replies' = replies \cup {Reply(Abstract!ReplyType(t), t, v, ok)}
  PROVE  Abstract!Tell(t, v.ts, v.val, ok)
BY DEF Reply, Abstract!Tell

LEMMA Refuses ==
  ASSUME Settled, NEW e, NEW ts, e.id \in Txn, e.id \in issued, ~Abstract!Answered(e.id),
         e.val = e.id, ReplyTo(e) = Abstract!ReplyType(e.id),
         replies' = replies \cup {Refusal(e, ts)}, History' = History,
         UNCHANGED <<issued, floor>>,
         ts \in {0, ExpectedTs[e.id], Len(History) + 1}
  PROVE  Abstract!Next
<1>1. Abstract!Tell(e.id, ts, e.id, FALSE)
  <2>1. Refusal(e, ts) = Reply(Abstract!ReplyType(e.id), e.id, [ts |-> ts, val |-> e.id], FALSE)
    BY DEF Refusal
  <2>2. Abstract!Tell(e.id, [ts |-> ts, val |-> e.id].ts, [ts |-> ts, val |-> e.id].val, FALSE)
    BY <2>1, Tells
  <2>3. QED
    BY <2>2
<1>2. Abstract!Refuse(e.id)
  BY <1>1 DEF Abstract!Refuse
<1>3. QED
  BY <1>2 DEF Abstract!Next

LEMMA HistoryGrows ==
  ASSUME Settled, NEW n \in Node, NEW r, NEW net, NEW wk, NEW qu, Commits(n, r, net, wk, qu)
  PROVE  History' = Append(History, r.id)
<1> DEFINE old == HistoryOf(replies)  new == HistoryOf(replies')
<1>1. /\ r.id \in Txn /\ r.ts = Top(replies) + 1 /\ r \in Written(replies')
      /\ Written(replies') = Written(replies) \cup {r} /\ r \notin Written(replies)
  BY DEF Commits, Reports
<1>2. /\ Numbered(replies) /\ Numbered(replies') /\ Top(replies) \in Nat
      /\ \A s \in Written(replies) : s.id \in Txn
  BY Reported, CommitNumbered DEF Settled, Versions
<1>3. Top(replies') = Top(replies) + 1
  BY <1>1, <1>2, FS_AddElement DEF Top, Numbered
<1>4. /\ old \in Seq(Txn) /\ Len(old) = Top(replies)
      /\ \A s \in Written(replies) : old[s.ts] = s.id
  BY <1>2, HistoryPlaces
<1>5. /\ new \in Seq(Txn) /\ Len(new) = Top(replies) + 1
      /\ \A s \in Written(replies') : new[s.ts] = s.id
  BY <1>1, <1>2, <1>3, HistoryPlaces
<1>6. ASSUME NEW k \in 1..Top(replies) PROVE new[k] = old[k]
  <2>1. PICK s \in Written(replies) : s.ts = k
    BY <1>2 DEF Numbered
  <2>2. QED
    BY <1>1, <1>4, <1>5, <2>1
<1>7. new[Top(replies) + 1] = r.id
  BY <1>1, <1>5
<1> HIDE DEF old, new
<1>8. Append(old, r.id) \in Seq(Txn) /\ Len(Append(old, r.id)) = Top(replies) + 1
      /\ \A k \in 1..(Top(replies) + 1) :
           Append(old, r.id)[k] = IF k = Top(replies) + 1 THEN r.id ELSE old[k]
  BY <1>1, <1>2, <1>4, AppendProperties
<1>9. new = Append(old, r.id)
  <2>1. \A k \in 1..Len(new) : new[k] = Append(old, r.id)[k]
    BY <1>2, <1>5, <1>6, <1>7, <1>8
  <2>2. QED
    BY <1>5, <1>8, <2>1, SeqEqual
<1>10. QED
  BY <1>9, HistoryIs DEF old, new

LEMMA HistoryStays ==
  ASSUME Written(replies') = Written(replies)
  PROVE  History' = History
<1>1. HistoryOf(replies') = HistoryOf(replies)
  BY DEF HistoryOf, Top
<1>2. QED
  BY <1>1, HistoryIs

LEMMA CommitRefines ==
  ASSUME Settled, resends' = 0, NEW n \in Node, NEW w, NEW q, NEW net, CommitEffect(n, w, q, net)
  PROVE  Abstract!Next
<1> DEFINE wk == [work EXCEPT ![n] = w]
           qu == [queue EXCEPT ![n] = q]
           t == work[n].req.id
<1>1. Leaves(n, w, q, wk, qu)
  BY DEF Leaves
<1>2. PICK r : Commits(n, r, net, wk, qu)
  BY <1>1, CommitForm
<1> HIDE DEF wk, qu
<1>3. History' = Append(History, t) /\ r.ts = Len(History) + 1
  <2>1. r.id = t /\ r.ts = Top(replies) + 1
    BY <1>2 DEF Commits, Reports
  <2>2. History' = Append(History, r.id) /\ Len(History) = Top(replies)
    BY <1>2, HistoryGrows, RegisterHolds
  <2>3. QED
    BY <2>1, <2>2
<1>4. PICK m, c, left :
        /\ LastAnswer(n, m, left, c)
        /\ c.mode = "coordinatingWrite" /\ c.step = "NodeUnlockRequest"
        /\ replies' = replies \cup {Reply("ClientWriteResponse", c.req.id,
                                          [ts |-> c.ts, val |-> c.req.val], TRUE)}
  BY DEF CommitEffect
<1>5. /\ work[n].mode = "coordinatingWrite" /\ work[n].step = "NodeUnlockRequest"
      /\ c.req = work[n].req /\ c.ts = work[n].ts /\ work[n].mode \in Coordinating
      /\ c.mode = work[n].mode /\ c.step = work[n].step
  BY <1>4, QuorumComplete, ZenonT(40) DEF Settled
<1>6. /\ work[n].ts = Len(History) + 1
      /\ work[n].req.type = "ClientStrongWriteRequest" => work[n].req.ts = work[n].ts
  <2>1. Putting(work, network, staged, replies)
    BY DEF Settled, Versions
  <2>2. QED
    BY <1>5, <2>1, RegisterHolds DEF Putting
<1>7. /\ t \in Txn /\ t \in issued /\ ~Abstract!Answered(t)
      /\ work[n].req.type = Kind[t] /\ work[n].req.ts = ExpectedTs[t] /\ work[n].req.val = t
      /\ Kind[t] # "ClientReadRequest"
      /\ Abstract!ReplyType(t) = "ClientWriteResponse"
  <2>1. Kind[t] \in WriteKinds
    BY <1>5, CoordinatedRequest DEF WritePhases
  <2>2. QED
    BY <1>5, <2>1, CoordinatedRequest DEF WriteKinds, Abstract!ReplyType
<1>8. Abstract!Tell(t, Len(History) + 1, t, TRUE)
  <2> DEFINE v == [ts |-> Len(History) + 1, val |-> t]
  <2>1. replies' = replies \cup {Reply(Abstract!ReplyType(t), t, v, TRUE)}
    BY <1>4, <1>5, <1>6, <1>7
  <2>2. Abstract!Tell(t, v.ts, v.val, TRUE)
    BY <2>1, Tells
  <2>3. QED
    BY <2>2
<1>9. UNCHANGED <<issued, floor>>
  BY DEF CommitEffect
<1>10. Abstract!Write(t)
  BY <1>3, <1>6, <1>7, <1>8, <1>9 DEF Abstract!Write
<1>11. QED
  BY <1>7, <1>10 DEF Abstract!Next

LEMMA LocalReadRefines ==
  ASSUME StrictQuorums, Settled, NEW n \in Node, NEW w, NEW q, NEW net,
         LocalReadEffect(n, w, q, net), History' = History
  PROVE  Abstract!Next
<1>1. PICK t \in Txn :
        /\ Issue(t) /\ Kind[t] = "ClientReadRequest" /\ ReadQuorumSize = 1
        /\ staged[n] = NoVersion
        /\ replies' = replies \cup {Reply("ClientReadResponse", t, store[n], TRUE)}
  BY DEF LocalReadEffect
<1>2. /\ t \notin issued /\ issued' = issued \cup {t}
      /\ floor' = [floor EXCEPT ![t] = Len(History)]
  BY <1>1, NewestIsLength
<1>3. store[n].ts = Len(History) /\ store[n].val = Abstract!ValueAt(Len(History))
  <2>1. floor'[t] = Len(History)
    BY <1>2 DEF Settled, IInv, TypeOK
  <2>2. store[n].ts >= Len(History)
    BY <1>1, <2>1, LocalReadInTime
  <2>3. Known(replies, store[n])
    BY DEF Settled, Versions, StoresKnown
  <2>4. store[n].ts \in 0..Len(History) /\ store[n].val = Abstract!ValueAt(store[n].ts)
        /\ Len(History) \in Nat
    BY <2>3, RegisterHolds
  <2>5. store[n].ts = Len(History)
    BY <2>2, <2>4
  <2>6. QED
    BY <2>4, <2>5
<1>4. Abstract!ReplyType(t) = "ClientReadResponse"
  BY <1>1 DEF Abstract!ReplyType
<1>5. Abstract!Tell(t, store[n].ts, store[n].val, TRUE)
  BY <1>1, <1>4, Tells
<1>6. Abstract!ReadAtOnce(t)
  BY <1>1, <1>2, <1>3, <1>5 DEF Abstract!ReadAtOnce
<1>7. QED
  BY <1>6 DEF Abstract!Next

LEMMA FinishReadRefines ==
  ASSUME StrictQuorums, Settled, resends' = 0,
         Reads(work, network, store, staged, replies, floor, issued),
         NEW n \in Node, NEW w, NEW q, NEW net,
         NEW wk, NEW qu, Handles(n, w, q, net, wk, qu),
         FinishReadEffect(n, w, q, net), History' = History
  PROVE  Abstract!Next
<1> DEFINE t == work[n].req.id
<1>1. PICK m, c : /\ LastAnswer(n, m, net, c) /\ c.mode = "coordinatingFastRead"
                  /\ \E v : /\ IsNewest(v, Heard(n, c))
                            /\ replies' = replies \cup {Reply("ClientReadResponse", c.req.id, v, TRUE)}
  BY DEF FinishReadEffect, Heard
<1>2. PICK v : /\ IsNewest(v, Heard(n, c))
               /\ replies' = replies \cup {Reply("ClientReadResponse", c.req.id, v, TRUE)}
  BY <1>1
<1>3. /\ c.mode = work[n].mode /\ c.req = work[n].req /\ work[n].mode \in Coordinating
  <2>1. Answering(n, m, net) /\ c = Counted(work[n], m) /\ Orderly
    BY <1>1 DEF LastAnswer, Settled, Sealed
  <2>2. QED
    BY <2>1, LastAnswerType
<1>4. /\ t \in Txn /\ t \in issued /\ ~Abstract!Answered(t) /\ Kind[t] = "ClientReadRequest"
  <2>1. work[n].mode \notin WritePhases
    BY <1>1, <1>3 DEF WritePhases
  <2>2. QED
    BY <1>3, <2>1, CoordinatedRequest DEF ClientKinds
<1>5. v.ts >= floor[t]
  <2> DEFINE k == floor[t]
  <2>1. k \in Nat /\ FreshFor(work, network, store, staged, k, t)
    BY <1>4 DEF Settled, IInv, TypeOK, Reads
  <2> HIDE DEF k
  <2>2. v.ts >= k
    BY <1>1, <1>2, <2>1, FinishReadInTime
  <2>3. QED
    BY <2>2 DEF k
<1>6. v.ts \in 0..Len(History) /\ v.val = Abstract!ValueAt(v.ts) /\ Len(History) \in Nat
  <2> DEFINE s == Reply("ClientReadResponse", c.req.id, v, TRUE)
  <2>1. s \in replies' /\ s.ok /\ s.ts = v.ts /\ s.val = v.val
    BY <1>2 DEF Reply
  <2> HIDE DEF s
  <2>2. Known(replies, [ts |-> s.ts, val |-> s.val])
    BY <2>1, HandledAnswers DEF Handles
  <2>3. QED
    BY <2>1, <2>2, RegisterHolds
<1>7. Abstract!Tell(t, v.ts, v.val, TRUE)
  <2>1. Abstract!ReplyType(t) = "ClientReadResponse"
    BY <1>4 DEF Abstract!ReplyType
  <2>2. QED
    BY <1>2, <1>3, <2>1, Tells
<1>8. floor[t] \in Nat /\ v.ts \in floor[t]..Len(History)
  BY <1>4, <1>5, <1>6 DEF Settled, IInv, TypeOK
<1>9. Abstract!Read(t)
  <2>1. \E k \in floor[t]..Len(History) : Abstract!Tell(t, k, Abstract!ValueAt(k), TRUE)
    BY <1>6, <1>7, <1>8
  <2>2. UNCHANGED <<issued, floor>>
    BY DEF FinishReadEffect
  <2>3. QED
    BY <1>4, <2>1, <2>2 DEF Abstract!Read
<1>10. QED
  BY <1>4, <1>9 DEF Abstract!Next

\* A coordinator of a write that gives up tells the timestamp that was demanded,
\* or the next of the history.
LEMMA QuitRefines ==
  ASSUME Settled, resends' = 0, NEW n \in Node, NEW w, NEW q, NEW net,
         QuitEffect(n, w, q, net), History' = History
  PROVE  Abstract!Next \/ UNCHANGED Abstract!registerVars
<1> DEFINE e == work[n].req
<1>1. PICK ts, left :
        /\ ts \in Nat /\ GiveUp(n, work[n], ts)
        /\ \/ ts = work[n].req.ts
           \/ \E m, c, k : AllDated(n, m, left, c, k) /\ ts = k + 1
  BY DEF QuitEffect
<1>2. work[n].mode \in Coordinating /\ UNCHANGED <<issued, floor>>
  BY DEF QuitEffect
<1>3. /\ e.id \in Txn /\ e.id \in issued /\ ~Abstract!Answered(e.id) /\ e.val = e.id
      /\ ReplyTo(e) = Abstract!ReplyType(e.id) /\ e.ts = ExpectedTs[e.id]
  BY <1>2, CoordinatedRequest
<1>4. CASE work[n].mode \in WritePhases
  <2>1. ts \in {0, ExpectedTs[e.id], Len(History) + 1}
    <3>1. CASE ts = work[n].req.ts
      BY <1>3, <3>1
    <3>2. ASSUME NEW m, NEW c, NEW k, AllDated(n, m, left, c, k), ts = k + 1
          PROVE  ts = Len(History) + 1
      BY <3>2, LatestIsTop, RegisterHolds
    <3>3. QED
      BY <1>1, <3>1, <3>2
  <2>2. replies' = replies \cup {Refusal(e, ts)}
    BY <1>1, <1>4 DEF GiveUp
  <2> HIDE DEF e
  <2>3. QED
    BY <1>2, <1>3, <2>1, <2>2, Refuses
<1>5. CASE work[n].mode \notin WritePhases
  BY <1>1, <1>2, <1>5 DEF GiveUp, Abstract!registerVars
<1>6. QED
  BY <1>4, <1>5

LEMMA ExpireRefines ==
  ASSUME Settled, NEW n \in Node, NEW w, NEW q, NEW net, ExpireEffect(n, w, q, net),
         History' = History
  PROVE  Abstract!Next \/ UNCHANGED Abstract!registerVars
<1>1. PICK i \in 1..Len(queue[n]) :
        \/ /\ FromClient(queue[n][i].msg)
           /\ replies' = replies \cup {Refusal(queue[n][i].msg, 0)}
        \/ replies' = replies
  BY DEF ExpireEffect
<1>2. UNCHANGED <<issued, floor>>
  BY DEF ExpireEffect
<1> DEFINE e == queue[n][i].msg
<1>3. CASE replies' = replies
  BY <1>2, <1>3 DEF Abstract!registerVars
<1>4. CASE FromClient(e) /\ replies' = replies \cup {Refusal(e, 0)}
  <2>1. e = Request(e.id, n)
    BY <1>4 DEF Settled, AnsweredOnce, AsRequested, Sealed
  <2>2. /\ e.id \in Txn /\ e.id \in issued /\ ~Abstract!Answered(e.id) /\ e.val = e.id
        /\ ReplyTo(e) = Abstract!ReplyType(e.id)
    BY <1>4, <2>1, RequestInHand
  <2> HIDE DEF e
  <2>3. QED
    BY <1>2, <1>4, <2>2, Refuses
<1>5. QED
  BY <1>1, <1>3, <1>4

LEMMA IssueRefines ==
  ASSUME Settled, NEW n \in Node, NEW w, NEW q, NEW net, IssueEffect(n, w, q, net),
         History' = History
  PROVE  Abstract!Next
<1>1. PICK t \in Txn : Issue(t) /\ UNCHANGED replies
  BY DEF IssueEffect
<1>2. Abstract!Ask(t)
  BY <1>1, NewestIsLength DEF Abstract!Ask
<1>3. QED
  BY <1>2 DEF Abstract!Next

LEMMA StepRefines ==
  ASSUME StrictQuorums, Settled, resends' = 0,
         Reads(work, network, store, staged, replies, floor, issued),
         NEW n \in Node, StepOf(n)
  PROVE  [Abstract!Next]_(Abstract!registerVars)
<1>1. PICK w, q, net : Effect(n, w, q, net)
  BY DEF StepOf
<1> DEFINE wk == [work EXCEPT ![n] = w]
           qu == [queue EXCEPT ![n] = q]
<1>2. Leaves(n, w, q, wk, qu)
  BY DEF Leaves
<1> HIDE DEF wk, qu
<1>3. CASE CommitEffect(n, w, q, net)
  BY <1>3, CommitRefines
<1>4. CASE ~CommitEffect(n, w, q, net)
  <2>1. Handles(n, w, q, net, wk, qu)
    BY <1>1, <1>2, <1>4 DEF Handles, Acts, Settled
  <2>2. History' = History
    BY <1>1, <1>4, WrittenKept, HistoryStays DEF Settled
  <2>3. CASE IssueEffect(n, w, q, net)
    BY <2>2, <2>3, IssueRefines
  <2>4. CASE LocalReadEffect(n, w, q, net)
    BY <2>2, <2>4, LocalReadRefines
  <2>5. CASE FinishReadEffect(n, w, q, net)
    BY <2>1, <2>2, <2>5, FinishReadRefines
  <2>6. CASE QuitEffect(n, w, q, net)
    BY <2>2, <2>6, QuitRefines
  <2>7. CASE ExpireEffect(n, w, q, net)
    BY <2>2, <2>7, ExpireRefines
  <2>8. CASE UNCHANGED <<replies, issued, floor>>
    BY <2>2, <2>8 DEF Abstract!registerVars
  <2>9. QED
    BY <1>1, <1>4, <2>3, <2>4, <2>5, <2>6, <2>7, <2>8 DEF Effect, PassEffect, LockEffect,
       GetEffect, TimestampEffect, PutEffect, UnlockEffect, GiveBackEffect, CountEffect,
       AskEffect, StageEffect, NothingWritten
<1>5. QED
  BY <1>3, <1>4

\* The nodes implement Register: with a strict quorum, as long as no message is
\* delivered twice, no node crashes and no queued request is overwritten, every
\* step is a step of one register, or changes nothing clients can tell.
THEOREM RegisterImplemented ==
  ASSUME StrictQuorums
  PROVE  Spec /\ []Unrepeated => Linearisable
<1>1. Init => Abstract!Init
  <2> SUFFICES ASSUME Init PROVE Abstract!Init
    OBVIOUS
  <2>1. replies = {} /\ issued = {} /\ floor = [t \in Txn |-> 0]
    BY DEF Init
  <2>2. Numbered(replies) /\ Written(replies) = {} /\ Top(replies) = 0
    BY <2>1, FS_EmptySet DEF Numbered, Top, Written
  <2>3. History \in Seq(Txn) /\ Len(History) = 0
    BY <2>2, HistoryIs, HistoryPlaces
  <2>4. History = <<>>
    BY <2>3, EmptySeq
  <2>5. QED
    BY <2>1, <2>4 DEF Abstract!Init
<1>2. OrderInv /\ Unrepeated' /\ [Next]_vars => [Abstract!Next]_(Abstract!registerVars)
  <2> SUFFICES ASSUME OrderInv, Unrepeated', [Next]_vars
               PROVE  [Abstract!Next]_(Abstract!registerVars)
    OBVIOUS
  <2>1. CASE Next
    BY <2>1, OrderSettled, StepRefines
  <2>2. CASE UNCHANGED vars
    BY <2>2 DEF vars, Abstract!registerVars, History, Writes, Successes
  <2>3. QED
    BY <2>1, <2>2
<1>3. QED
  BY <1>1, <1>2, OrderKept, PTL DEF Spec, Linearisable, Abstract!Spec

-----------------------------------------------------------------------------
(* However nodes crash, what is stored was reported *)

LEMMA OneHome ==
  ASSUME Sealed, NEW a \in Node, NEW b \in Node, work[a].mode \in Coordinating,
         work[b].mode \in Coordinating, work[a].req.id = work[b].req.id
  PROVE  a = b
BY DEF Sealed, Orderly, StartedOnce, OneCoordinator

\* Who serves a transaction after a handler served it before.
LEMMA ServedBefore ==
  ASSUME NEW n \in Node, NEW w, NEW q, NEW net, NEW wk, NEW qu, Acts(n, w, q, net, wk, qu),
         NEW p \in Node, NEW t, ServesIn(wk, p, t)
  PROVE  /\ Serves(p, t) /\ wk[p] = work[p]
         /\ \/ staged'[p] = staged[p]
            \/ \E m : m.id = t /\ Puts(n, w, m) /\ p = n
<1>1. /\ wk[n] = w /\ \A x \in Node : x # n => wk[x] = work[x]
      /\ Idle.mode = "idle"
  BY HandledNodes
<1>2. wk[p].mode = "processingWrite" /\ wk[p].req.id = t
  BY DEF ServesIn
<1>3. Effect(n, w, q, net)
  BY DEF Acts
<1>4. CountEffect(n, w, q, net) => w.mode # "processingWrite"
  <2>1. ASSUME NEW m, Answering(n, m, net), w = Counted(work[n], m)
        PROVE  w.mode # "processingWrite"
    BY <2>1 DEF Answering, Counted
  <2>2. QED
    BY <2>1 DEF CountEffect
<1>5. StageEffect(n, w, q, net) => w.mode # "processingWrite"
  BY StagePhase
<1>6. AskEffect(n, w, q, net) => w.mode # "processingWrite"
  BY DEF AskEffect, Awaiting
<1>7. wk[p] = work[p]
  BY <1>1, <1>2, <1>3, <1>4, <1>5, <1>6, EffectMode
<1>8. ASSUME staged'[p] # staged[p] PROVE \E m : m.id = t /\ Puts(n, w, m) /\ p = n
  <2>1. p = n /\ (w = Idle \/ (\E m : Puts(n, w, m)) \/ work[n].mode = "coordinatingWrite")
    BY <1>8, StagedMoves
  <2>2. PICK m : Puts(n, w, m)
    BY <1>1, <1>2, <1>7, <2>1
  <2>3. m.id = t
    BY <1>2, <1>7, <2>1, <2>2 DEF Puts, Serves
  <2>4. QED
    BY <2>1, <2>2, <2>3
<1>9. QED
  BY <1>2, <1>7, <1>8 DEF Serves

LEMMA HandledInstructed ==
  ASSUME NEW n \in Node, NEW w, NEW q, NEW net, NEW wk, NEW qu, Acts(n, w, q, net, wk, qu)
  PROVE  Instructed(wk, qu, net, staged', replies')
<1>1. Written(replies') = Written(replies)
  BY WrittenKept DEF Acts
<1>2. Instructed(work, queue, network, staged, replies)
  BY DEF Acts, Sealed, Truthful
<1> SUFFICES ASSUME NEW r \in Written(replies)
             PROVE  /\ r.val = r.id
                    /\ \A m \in net : m.id = r.id => m.type = "NodeUnlockRequest" /\ m.ok
                    /\ \A p \in Node : \A i \in 1..Len(qu[p]) : qu[p][i].msg.id # r.id
                    /\ \A p \in Node : ServesIn(wk, p, r.id) => staged'[p] = VersionOf(r)
  BY <1>1 DEF Instructed
<1>3. \A m \in net : m.id = r.id => m.type = "NodeUnlockRequest" /\ m.ok
  <2>1. ASSUME NEW m \in net, m.id = r.id PROVE m \in network
    BY <2>1, NewMailUnreported
  <2>2. QED
    BY <1>2, <2>1 DEF Instructed
<1>4. ASSUME NEW p \in Node, ServesIn(wk, p, r.id) PROVE staged'[p] = VersionOf(r)
  <2>1. Serves(p, r.id)
    BY <1>4, ServedBefore
  <2>2. staged[p] = VersionOf(r)
    BY <1>2, <2>1 DEF Instructed, ServesIn, Serves
  <2>3. ASSUME NEW m, m.id = r.id, Puts(n, w, m) PROVE FALSE
    BY <1>2, <2>3 DEF Instructed, Puts
  <2>4. QED
    BY <1>4, <2>2, <2>3, ServedBefore
<1>5. QED
  BY <1>2, <1>3, <1>4, HandledQueue DEF Instructed

LEMMA HandledStaging ==
  ASSUME NEW n \in Node, NEW w, NEW q, NEW net, NEW wk, NEW qu, Acts(n, w, q, net, wk, qu)
  PROVE  Staging(wk, net, staged')
<1> SUFFICES ASSUME NEW c \in Node, wk[c].mode = "coordinatingWrite",
                    wk[c].step = "NodeUnlockRequest"
             PROVE  /\ staged'[c] = Proposed(wk[c])
                    /\ \A m \in net : m.id = wk[c].req.id =>
                         /\ m.ts = wk[c].ts /\ m.val = wk[c].req.id
                         /\ m.type = "NodePutResponse" /\ m.ok /\ ServesIn(wk, m.src, m.id) =>
                              staged'[m.src] = Proposed(wk[c])
                    /\ \A p \in Members(wk[c]) :
                         /\ wk[c].members[p].type = "NodePutResponse"
                         /\ ServesIn(wk, p, wk[c].req.id)
                         => staged'[p] = Proposed(wk[c])
  BY DEF Staging
<1>1. /\ wk[n] = w /\ \A x \in Node : x # n => wk[x] = work[x]
      /\ Conversations(wk, qu, net) /\ wk[c].mode \in Coordinating
  BY HandledNodes DEF Coordinating, WritePhases
<1>2. Sealed /\ resends' = 0 /\ Staging(work, network, staged)
  BY DEF Acts, Sealed, Truthful
<1> DEFINE t == wk[c].req.id
<1>3. ASSUME NEW u \in net, u.id = t
      PROVE  u.type \in {"NodePutRequest", "NodePutResponse"}
  <2>1. u.type \in {Asks(wk[c]), Expects(wk[c])}
    BY <1>1, <1>3 DEF Conversations, Conversing
  <2>2. QED
    BY <2>1 DEF Asks, Expects
<1>4. ASSUME work[c].mode = "coordinatingWrite", work[c].req = wk[c].req,
             NEW u \in net, u.id = t, u \notin network
      PROVE  \/ u.type = "NodePutRequest" /\ u.ts = wk[c].ts /\ u.val = t
             \/ TellsStaged(n, w, u)
  <2>1. Coordinated(n, w, u) \/ TellsStaged(n, w, u)
    BY <1>3, <1>4, NewMail DEF TellsVersion, TellsTimestamp, GivesBack, Expired
  <2>2. ASSUME Coordinated(n, w, u)
        PROVE  u.type = "NodePutRequest" /\ u.ts = wk[c].ts /\ u.val = t
    <3>1. /\ u.type = "NodePutRequest" /\ u.ts = w.ts /\ u.val = u.id
          /\ work[n].mode \in Coordinating /\ work[n].req.id = t
      BY <1>3, <1>4, <2>2 DEF Coordinated
    <3>2. c = n
      BY <1>2, <1>4, <3>1, OneHome DEF Coordinating, WritePhases
    <3>3. QED
      BY <1>1, <1>4, <3>1, <3>2
  <2>3. QED
    BY <2>1, <2>2
<1>5. CASE /\ wk[c].req = work[c].req /\ wk[c].ts = work[c].ts
           /\ work[c].mode = "coordinatingWrite" /\ work[c].step = "NodeUnlockRequest"
           /\ wk[c] = work[c] \/ (c = n /\ Counts(n, w, net))
  <2>1. Proposed(wk[c]) = Proposed(work[c])
    BY <1>5 DEF Proposed
  <2>2. /\ staged[c] = Proposed(work[c])
        /\ \A m \in network : m.id = t =>
             /\ m.ts = work[c].ts /\ m.val = t
             /\ m.type = "NodePutResponse" /\ m.ok /\ ServesIn(work, m.src, m.id) =>
                  staged[m.src] = Proposed(work[c])
        /\ \A p \in Members(work[c]) :
             work[c].members[p].type = "NodePutResponse" /\ ServesIn(work, p, t) =>
               staged[p] = Proposed(work[c])
    BY <1>2, <1>5 DEF Staging
  <2>3. staged'[c] = Proposed(wk[c])
    <3>1. CASE staged'[c] = staged[c]
      BY <2>1, <2>2, <3>1
    <3>2. CASE staged'[c] # staged[c]
      <4>1. c = n /\ (w = Idle \/ (\E m : Puts(n, w, m)) \/ staged'[n] = Proposed(w))
        BY <3>2, StagedMoves
      <4>2. w # Idle
        BY <1>1, <4>1 DEF Idle
      <4>3. ~\E m : Puts(n, w, m)
        BY <1>5, <4>1 DEF Puts, Serves
      <4>4. QED
        BY <1>1, <4>1, <4>2, <4>3
    <3>3. QED
      BY <3>1, <3>2
  \* Who served and had staged the version still has it staged.
  <2>4. ASSUME NEW p \in Node, ServesIn(wk, p, t),
               ServesIn(work, p, t) => staged[p] = Proposed(work[c])
        PROVE  staged'[p] = Proposed(wk[c])
    <3>1. ServesIn(work, p, t)
      BY <2>4, ServedBefore DEF Serves, ServesIn
    <3>2. ASSUME NEW m, m.id = t, Puts(n, w, m), p = n
          PROVE  staged'[p] = Proposed(wk[c])
      <4>1. m \in network /\ staged'[p] = [ts |-> m.ts, val |-> m.val]
        BY <3>2 DEF Puts
      <4>2. m.ts = work[c].ts /\ m.val = t
        BY <2>2, <3>2, <4>1
      <4>3. QED
        BY <1>5, <4>1, <4>2 DEF Proposed
    <3>3. QED
      BY <2>1, <2>4, <3>1, <3>2, ServedBefore
  <2>5. ASSUME NEW u \in net, u.id = t
        PROVE  /\ u.ts = wk[c].ts /\ u.val = t
               /\ u.type = "NodePutResponse" /\ u.ok /\ ServesIn(wk, u.src, t) =>
                    staged'[u.src] = Proposed(wk[c])
    <3>1. CASE u \in network
      <4>1. u.src \in Node
        BY <1>2, <3>1 DEF Sealed, Orderly, HandledOK, NodeMessage
      <4>2. QED
        BY <1>5, <2>2, <2>4, <2>5, <3>1, <4>1
    <3>2. CASE TellsStaged(n, w, u)
      <4>1. PICK m \in network :
              /\ m.type = "NodePutRequest" /\ u.id = m.id /\ u.src = n
              /\ u.ts = m.ts /\ u.val = m.val /\ (u.ok => Puts(n, w, m))
        BY <3>2 DEF TellsStaged
      <4>2. m.ts = work[c].ts /\ m.val = t
        BY <2>2, <2>5, <4>1
      <4>3. u.ok => staged'[n] = Proposed(wk[c])
        BY <1>5, <4>1, <4>2 DEF Puts, Proposed
      <4>4. QED
        BY <1>5, <4>1, <4>2, <4>3
    <3>3. QED
      BY <1>4, <1>5, <2>5, <3>1, <3>2
  <2>6. ASSUME NEW p \in Members(wk[c]), wk[c].members[p].type = "NodePutResponse",
               ServesIn(wk, p, t)
        PROVE  staged'[p] = Proposed(wk[c])
    <3> p \in Node
      BY DEF Members
    <3>1. CASE wk[c] = work[c]
      BY <2>2, <2>4, <2>6, <3>1
    <3>2. CASE c = n /\ Counts(n, w, net)
      <4>1. p \in Members(work[n]) /\ p \in Members(w)
        BY <1>1, <2>6, <3>2, CountedEntry
      <4>2. \A y \in Members(w) :
              \/ w.members[y] = work[n].members[y]
              \/ \E m \in network :
                   /\ m.id = work[n].req.id /\ m.ok /\ m.src = y
                   /\ w.members[y] = [type |-> m.type, ts |-> m.ts, val |-> m.val]
        BY <3>2, CountedEntry
      <4>3. CASE w.members[p] = work[n].members[p]
        BY <1>1, <2>2, <2>4, <2>6, <3>2, <4>1, <4>3
      <4>4. CASE \E m \in network :
                   /\ m.id = work[n].req.id /\ m.ok /\ m.src = p
                   /\ w.members[p] = [type |-> m.type, ts |-> m.ts, val |-> m.val]
        <5>1. PICK m \in network :
                /\ m.id = t /\ m.ok /\ m.src = p
                /\ w.members[p] = [type |-> m.type, ts |-> m.ts, val |-> m.val]
          BY <1>5, <3>2, <4>4
        <5>2. m.type = "NodePutResponse"
          BY <1>1, <2>6, <3>2, <5>1
        <5>3. ServesIn(work, p, t) => staged[p] = Proposed(work[c])
          BY <2>2, <5>1, <5>2
        <5>4. QED
          BY <2>4, <2>6, <5>3
      <4>5. QED
        BY <4>1, <4>2, <4>3, <4>4
    <3>3. QED
      BY <1>5, <3>1, <3>2
  <2>7. QED
    BY <1>5, <2>3, <2>5, <2>6
<1>6. CASE c = n /\ StageEffect(n, w, q, net)
  <2>1. /\ work[n].mode = "coordinatingWrite" /\ work[n].step = "NodePutRequest"
        /\ w.req = work[n].req /\ staged'[n] = Proposed(w)
        /\ \A p \in Members(w) : w.members[p].type = "NodeGetResponse"
    BY <1>2, <1>6, ProposalForm
  <2>2. ASSUME NEW u \in network, u.id = t
        PROVE  u.type \notin {"NodePutRequest", "NodePutResponse"}
    <3>1. work[n].mode \in Coordinating
          /\ Asks(work[n]) = "NodeTimestampRequest" /\ Expects(work[n]) = "NodeGetResponse"
      BY <2>1 DEF Coordinating, WritePhases, Asks, Expects
    <3>2. u.type \in {Asks(work[n]), Expects(work[n])}
      BY <1>1, <1>2, <1>6, <2>1, <2>2, <3>1, MessageBetween
    <3>3. QED
      BY <3>1, <3>2
  <2>3. ASSUME NEW u \in net, u.id = t
        PROVE  u.type = "NodePutRequest" /\ u.ts = wk[c].ts /\ u.val = t
    <3>1. u \notin network
      BY <1>3, <2>2, <2>3
    <3>2. ~TellsStaged(n, w, u)
      BY <2>2, <2>3 DEF TellsStaged
    <3>3. QED
      BY <1>1, <1>4, <1>6, <2>1, <2>3, <3>1, <3>2
  <2>4. QED
    BY <1>1, <1>6, <2>1, <2>3
<1>7. QED
  <2>1. ASSUME AskEffect(n, w, q, net), c = n PROVE FALSE
    <3>1. PICK x : w = Awaiting(x, "NodePutRequest", 0)
      BY <2>1 DEF AskEffect
    <3>2. w.step = "NodePutRequest"
      BY <3>1 DEF Awaiting
    <3>3. QED
      BY <1>1, <2>1, <3>2
  <2>2. CASE c = n /\ Counts(n, w, net)
    BY <1>1, <1>5, <2>2, CountedEntry
  <2>3. QED
    BY <1>5, <1>6, <2>1, <2>2, WriterMoves

LEMMA HandledTruthful ==
  ASSUME NEW n \in Node, NEW w, NEW q, NEW net, NEW wk, NEW qu, Acts(n, w, q, net, wk, qu)
  PROVE  Truthful(wk, qu, net, store', staged', replies')
<1>1. \A v : Known(replies, v) => Known(replies', v)
  BY WrittenKept DEF Acts, Known
<1>2. ReadsKnown(wk, net, replies')
  <2>1. \A s \in replies' : s.ok => Known(replies', [ts |-> s.ts, val |-> s.val])
    BY <1>1, HandledAnswers
  <2>2. QED
    BY <1>1, <2>1, HandledReading DEF ReadsKnown
<1>3. QED
  BY <1>2, HandledStaging, HandledInstructed, HandledStores, HandledCommits DEF Truthful

\* Who still serves the transaction is one of the quorum: its lock was not forgotten,
\* and nobody has been told to unlock it yet (NoOrphanLock).
LEMMA ReportTruthful ==
  ASSUME Sealed, NoOrphanLock,
         NEW n \in Node, NEW r, NEW net, NEW wk, NEW qu, Reports(n, r, net, wk, qu)
  PROVE  Truthful(wk, qu, net, store', staged', replies')
<1>1. /\ work[n].mode = "coordinatingWrite" /\ work[n].mode \in Coordinating
      /\ r.id = work[n].req.id /\ wk[n].mode = "idle"
      /\ Written(replies') = Written(replies) \cup {r} /\ r.val = r.id
      /\ \A s \in Written(replies) : s.id # r.id
      /\ \A p \in Node : p # n => staged'[p] = staged[p] /\ wk[p] = work[p]
      /\ \A u \in net : \/ u \in network /\ u.id # r.id
                        \/ u.type = "NodeUnlockRequest" /\ u.ok /\ u.id = r.id
      /\ \A p \in Node : \A i \in 1..Len(qu[p]) :
           /\ qu[p][i].msg.id # r.id
           /\ \A s \in Written(replies) : qu[p][i].msg.id # s.id
  BY DEF Reports, Idle, Coordinating, WritePhases
<1>2. \A p \in Node : \A t : ServesIn(wk, p, t) => p # n /\ wk[p] = work[p] /\ Serves(p, t)
  BY <1>1 DEF ServesIn, Serves
<1>3. Staging(wk, net, staged')
  <2> SUFFICES ASSUME NEW c \in Node, wk[c].mode = "coordinatingWrite",
                      wk[c].step = "NodeUnlockRequest"
               PROVE  /\ staged'[c] = Proposed(wk[c])
                      /\ \A m \in net : m.id = wk[c].req.id =>
                           /\ m.ts = wk[c].ts /\ m.val = wk[c].req.id
                           /\ m.type = "NodePutResponse" /\ m.ok /\ ServesIn(wk, m.src, m.id) =>
                                staged'[m.src] = Proposed(wk[c])
                      /\ \A p \in Members(wk[c]) :
                           /\ wk[c].members[p].type = "NodePutResponse"
                           /\ ServesIn(wk, p, wk[c].req.id)
                           => staged'[p] = Proposed(wk[c])
    BY DEF Staging
  <2>1. Staging(work, network, staged)
    BY DEF Sealed, Truthful
  <2>2. c # n /\ wk[c] = work[c] /\ work[c].mode \in Coordinating
    BY <1>1 DEF Coordinating, WritePhases
  <2>3. work[c].req.id # r.id
    BY <1>1, <2>2, OneHome
  <2>4. staged'[c] = Proposed(work[c])
    BY <1>1, <2>1, <2>2 DEF Staging
  <2>5. ASSUME NEW m \in net, m.id = work[c].req.id
        PROVE  /\ m.ts = work[c].ts /\ m.val = work[c].req.id
               /\ m.type = "NodePutResponse" /\ m.ok /\ ServesIn(wk, m.src, m.id) =>
                    staged'[m.src] = Proposed(work[c])
    <3>1. m \in network
      BY <1>1, <2>3, <2>5
    <3>2. m.src \in Node
      BY <3>1 DEF Sealed, Orderly, HandledOK, NodeMessage
    <3>3. QED
      BY <1>1, <1>2, <2>1, <2>2, <2>5, <3>1, <3>2 DEF Staging, Serves, ServesIn
  <2>6. ASSUME NEW p \in Members(work[c]), work[c].members[p].type = "NodePutResponse",
               ServesIn(wk, p, work[c].req.id)
        PROVE  staged'[p] = Proposed(work[c])
    <3>1. p \in Node
      BY DEF Members
    <3>2. QED
      BY <1>1, <1>2, <2>1, <2>2, <2>6, <3>1 DEF Staging, Serves, ServesIn
  <2>7. QED
    BY <2>2, <2>4, <2>5, <2>6
<1>4. ASSUME NEW p \in Node, ServesIn(wk, p, r.id) PROVE staged'[p] = VersionOf(r)
  <2>1. p # n /\ Serves(p, r.id)
    BY <1>2, <1>4
  <2>2. ASSUME NEW m \in network, m.id = r.id
        PROVE  m.type \notin {"NodeUnlockRequest", "NodeLockResponse"}
    <3>1. m.type \in {Asks(work[n]), Expects(work[n])}
      BY <1>1, <2>2, MessageBetween
    <3>2. QED
      BY <1>1, <3>1 DEF Asks, Expects
  <2>3. PICK c \in Node : /\ work[c].mode \in WritePhases
                          /\ work[c].req.id = r.id /\ p \in Members(work[c])
    BY <2>1, <2>2 DEF NoOrphanLock, Serves
  <2>4. c = n
    BY <1>1, <2>3, OneHome DEF Coordinating
  <2>5. staged[p] = VersionOf(r)
    BY <2>1, <2>3, <2>4 DEF Reports
  <2>6. QED
    BY <1>1, <2>1, <2>5
<1>5. Instructed(wk, qu, net, staged', replies')
  <2>1. Instructed(work, queue, network, staged, replies)
    BY DEF Sealed, Truthful
  <2>2. ASSUME NEW s \in Written(replies)
        PROVE  /\ s.val = s.id
               /\ \A m \in net : m.id = s.id => m.type = "NodeUnlockRequest" /\ m.ok
               /\ \A p \in Node : ServesIn(wk, p, s.id) => staged'[p] = VersionOf(s)
    BY <1>1, <1>2, <2>1 DEF Instructed, Serves, ServesIn
  <2>3. QED
    BY <1>1, <1>4, <2>2 DEF Instructed
<1>6. QED
  BY <1>3, <1>5, ReportInstructed, ReportStores, ReportReads DEF Truthful

\* Crashes, recoveries and lost signals leave what is stored, staged and sent.
LEMMA FaultConversations ==
  ASSUME Sealed, NEW n \in Node, FaultOf(n)
  PROVE  Conversations(work', queue', network')
<1> SUFFICES ASSUME NEW c \in Node, work'[c].mode \in Coordinating
             PROVE  Conversing(work', queue', network', c)
  BY DEF Conversations
<1>1. /\ network' = network /\ Alike(work[c], work'[c])
      /\ \A p \in Node : /\ Len(queue'[p]) = Len(queue[p])
                         /\ \A i \in 1..Len(queue[p]) : queue'[p][i].msg = queue[p][i].msg
  BY FaultForm DEF Sealed, Orderly, FaultOf, Idle, Coordinating, WritePhases
<1>2. Conversing(work, queue, network, c)
  BY <1>1 DEF Alike, Sealed, Conversations
<1>3. /\ Members(work'[c]) = Members(work[c]) /\ Silent(work'[c]) = Silent(work[c])
      /\ Asks(work'[c]) = Asks(work[c]) /\ Expects(work'[c]) = Expects(work[c])
  BY <1>1 DEF Alike, Members, Silent, Asks, Expects
<1>4. QED
  BY <1>1, <1>2, <1>3 DEF Alike, Conversing

LEMMA FaultTruthful ==
  ASSUME Sealed, NEW n \in Node, FaultOf(n)
  PROVE  Truthful(work', queue', network', store', staged', replies')
<1>1. /\ network' = network /\ store' = store /\ staged' = staged /\ replies' = replies
      /\ \A p \in Node : work'[p].mode = "idle" \/ Alike(work[p], work'[p])
      /\ \A p \in Node : /\ Len(queue'[p]) = Len(queue[p])
                         /\ \A i \in 1..Len(queue[p]) : queue'[p][i].msg = queue[p][i].msg
  BY FaultForm DEF Sealed, Orderly, FaultOf, Idle
<1>2. Truthful(work, queue, network, store, staged, replies)
  BY DEF Sealed
<1>3. /\ \A p \in Node : \A t : ServesIn(work', p, t) => ServesIn(work, p, t)
      /\ \A p \in Node : Alike(work[p], work'[p]) =>
           Members(work'[p]) = Members(work[p]) /\ Proposed(work'[p]) = Proposed(work[p])
  BY <1>1 DEF ServesIn, Alike, Members, Proposed
<1>4. \A m \in network : m.src \in Node
  BY DEF Sealed, Orderly, HandledOK, NodeMessage
<1>5. Staging(work', network', staged')
  <2>1. Staging(work, network, staged)
    BY <1>2 DEF Truthful
  <2>2. ASSUME NEW c \in Node, work'[c].mode = "coordinatingWrite",
               work'[c].step = "NodeUnlockRequest"
        PROVE  /\ staged[c] = Proposed(work'[c])
               /\ \A m \in network : m.id = work'[c].req.id =>
                    /\ m.ts = work'[c].ts /\ m.val = work'[c].req.id
                    /\ m.type = "NodePutResponse" /\ m.ok /\ ServesIn(work', m.src, m.id) =>
                         staged[m.src] = Proposed(work'[c])
               /\ \A p \in Members(work'[c]) :
                    /\ work'[c].members[p].type = "NodePutResponse"
                    /\ ServesIn(work', p, work'[c].req.id)
                    => staged[p] = Proposed(work'[c])
    <3>1. Alike(work[c], work'[c])
      BY <1>1, <2>2
    <3>2. /\ work[c].mode = "coordinatingWrite" /\ work[c].step = "NodeUnlockRequest"
          /\ work'[c].req = work[c].req /\ work'[c].ts = work[c].ts
          /\ work'[c].members = work[c].members
          /\ Members(work'[c]) = Members(work[c]) /\ Proposed(work'[c]) = Proposed(work[c])
      BY <1>3, <2>2, <3>1 DEF Alike
    <3>3. Members(work[c]) \subseteq Node
      BY DEF Members
    <3>4. QED
      BY <1>3, <1>4, <2>1, <3>2, <3>3 DEF Staging
  <2>3. QED
    BY <1>1, <2>2 DEF Staging
<1>6. Instructed(work', queue', network', staged', replies')
  <2>1. Instructed(work, queue, network, staged, replies)
    BY <1>2 DEF Truthful
  <2>2. QED
    BY <1>1, <1>3, <2>1 DEF Instructed
<1>7. ReadsKnown(work', network', replies')
  <2>1. ReadsKnown(work, network, replies)
    BY <1>2 DEF Truthful
  <2>2. \A c \in Node : work'[c].mode = "coordinatingFastRead" =>
          /\ work[c].mode = "coordinatingFastRead" /\ work'[c].req = work[c].req
          /\ work'[c].members = work[c].members /\ Members(work'[c]) = Members(work[c])
    BY <1>1, <1>3 DEF Alike
  <2>3. QED
    BY <1>1, <2>1, <2>2 DEF ReadsKnown
<1>8. QED
  BY <1>1, <1>2, <1>5, <1>6, <1>7 DEF Truthful

LEMMA StepTruthful ==
  ASSUME Sealed, NoOrphanLock, resends' = 0, NEW n \in Node, StepOf(n)
  PROVE  Truthful(work', queue', network', store', staged', replies')
<1>1. PICK w, q, net : Effect(n, w, q, net) /\ Ends(n, w, q, net)
  BY DEF StepOf
<1> DEFINE wk == [work EXCEPT ![n] = w]
           qu == [queue EXCEPT ![n] = q]
<1>2. Orderly /\ HandledOK /\ Conversations(work, queue, network)
  BY DEF Orderly, Sealed
<1>3. w \in Work /\ q \in Seq(Queued) /\ net \in SUBSET NodeMessage /\ QueuedOnce(wk, qu, net)
  BY <1>1, <1>2, EffectWork, EffectQueuedOnce
<1>4. Leaves(n, w, q, wk, qu)
  BY DEF Leaves
<1> HIDE DEF wk, qu
<1>5. Conversations(wk, qu, net)
  BY <1>1, <1>2, <1>4, EffectConversations
<1>6. Truthful(wk, qu, net, store', staged', replies')
  <2>1. CASE CommitEffect(n, w, q, net)
    <3>1. PICK r : Reports(n, r, net, wk, qu)
      BY <1>4, <2>1, ReportForm
    <3>2. QED
      BY <3>1, ReportTruthful
  <2>2. CASE ~CommitEffect(n, w, q, net)
    <3>1. Acts(n, w, q, net, wk, qu)
      BY <1>1, <1>4, <2>2 DEF Acts
    <3>2. QED
      BY <3>1, HandledTruthful
  <2>3. QED
    BY <2>1, <2>2
<1>7. CASE work' = wk /\ queue' = qu /\ network' = net
  BY <1>6, <1>7
<1>8. CASE \E t : Takes(n, t, wk, qu, net)
  BY <1>3, <1>5, <1>6, <1>8, TakesTruthful
<1>9. QED
  BY <1>1, <1>2, <1>3, <1>4, <1>7, <1>8, EndsTakes

\* The inductive invariant is TruthInv of DbNodeOrder.
LEMMA TruthInductive ==
  ASSUME TruthInv, NoOrphanLock, [Next]_vars, RequestInv'
  PROVE  TruthInv'
<1> SUFFICES ASSUME overwrites' = 0, resends' = 0
             PROVE  /\ Conversations(work', queue', network')
                    /\ Truthful(work', queue', network', store', staged', replies')
  BY DEF TruthInv, Undoubled
<1>1. CASE Next
  <2>1. overwrites = 0 /\ resends = 0
    BY <1>1, CountersGrow DEF TruthInv, RequestInv
  <2>2. Sealed
    BY <2>1, OrderlyHolds DEF TruthInv, RequestInv, Undoubled, Sealed, AnsweredOnce
  <2>3. PICK n \in Node : StepOf(n) \/ FaultOf(n)
    BY <1>1, <2>2, AnyStepForm DEF Sealed
  <2>4. CASE StepOf(n)
    BY <2>2, <2>4, ConversationsStep, StepTruthful DEF Sealed
  <2>5. CASE FaultOf(n)
    BY <2>2, <2>5, FaultConversations, FaultTruthful
  <2>6. QED
    BY <2>3, <2>4, <2>5
<1>2. CASE UNCHANGED vars
  BY <1>2 DEF vars, TruthInv, Undoubled, Conversations, Conversing, Truthful, Staging,
     ServesIn, Instructed, StoresKnown, CommitsReported, ReadsKnown
<1>3. QED
  BY <1>1, <1>2

\* However nodes crash: who is told to commit has the lock of a reported write, and
\* what it stores, and what anyone reads, was reported.
THEOREM TruthKept == Spec => []TruthInv
<1>1. Init /\ RequestInv => TruthInv
  <2> SUFFICES ASSUME Init, RequestInv PROVE TruthInv
    OBVIOUS
  <2>1. OrderInv /\ Unrepeated
    BY OrderInit DEF Init, Unrepeated, Undisturbed
  <2>2. QED
    BY <2>1, VersionsTruthful DEF OrderInv, TruthInv
<1>2. TruthInv /\ NoOrphanLock /\ [Next]_vars /\ RequestInv' => TruthInv'
  BY TruthInductive
<1>3. QED
  BY <1>1, <1>2, RequestsInvariant, NoLockForgotten, PTL DEF Spec

\* As long as no message is delivered twice, and however nodes crash, a write that its
\* client was told has failed is stored nowhere and no read returns it: what
\* abortProcessing leaves staged at the quorum is never committed.
THEOREM RefusedNotSeen == Spec => [](resends = 0 => RefusedNeverVisible)
<1>1. TruthInv => (resends = 0 => RefusedNeverVisible)
  <2> SUFFICES ASSUME TruthInv, resends = 0, overwrites = 0,
                      NEW r \in replies, r.type = "ClientWriteResponse", ~r.ok
               PROVE  /\ \A n \in Node : store[n].val # r.id
                      /\ \A s \in Successes : s.val # r.id
    BY DEF RefusedNeverVisible
  <2>1. /\ AnsweredOnce /\ StoresKnown(store, replies) /\ ReadsKnown(work, network, replies)
    BY DEF TruthInv, RequestInv, Undoubled, AnsweredOnce, Truthful
  <2>2. r.id # 0
    BY TxnAssumption DEF TruthInv, RequestInv, TypeOK
  <2>3. \A s \in Written(replies) : s.id # r.id
    BY <2>1 DEF AnsweredOnce, Answered, Written
  <2>4. ASSUME NEW v, Known(replies, v) PROVE v.val # r.id
    BY <2>2, <2>3, <2>4 DEF Known, NoVersion, VersionOf
  <2>5. \A n \in Node : store[n].val # r.id
    BY <2>1, <2>4 DEF StoresKnown
  <2>6. ASSUME NEW s \in Successes PROVE s.val # r.id
    <3>1. Known(replies, [ts |-> s.ts, val |-> s.val])
      BY <2>1 DEF ReadsKnown, Successes
    <3>2. QED
      BY <2>4, <3>1
  <2>7. QED
    BY <2>5, <2>6
<1>2. QED
  BY <1>1, TruthKept, PTL

=============================================================================
