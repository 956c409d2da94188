-------------------------- MODULE DbNodeExclusion --------------------------
(***************************************************************************)
(* Proof that two write coordinators never run at the same time, for every *)
(* set of nodes and every majority write quorum.  Each lemma takes a       *)
(* consistent state (wk, qu, nt, is) through one thing a handler does: lose*)
(* or send a message, count an answer, quit, lock, take a request.         *)
(***************************************************************************)
EXTENDS DbNodeProofs

Typed(wk, qu, nt, is) ==
  /\ wk \in [Node -> Work \cup Complete] /\ qu \in [Node -> Seq(Queued)]
  /\ nt \in SUBSET NodeMessage /\ is \in SUBSET Txn

\* The request of transaction t has been received and taken from its queue.
Started(qu, is, t) ==
  /\ t \in is
  /\ \A n \in Node : \A i \in 1..Len(qu[n]) :
       FromClient(qu[n][i].msg) => qu[n][i].msg.id # t

LEMMA MessageStarted ==
  ASSUME NEW wk, NEW qu, NEW nt, NEW is, Typed(wk, qu, nt, is),
         UnissuedAbsent(wk, qu, nt, is), QueuedOnce(wk, qu, nt), NEW m \in nt
  PROVE  Started(qu, is, m.id)
BY DEF Started, Typed, UnissuedAbsent, QueuedOnce, NotStarted, NodeMessage

LEMMA WorkStarted ==
  ASSUME NEW wk, NEW qu, NEW nt, NEW is, Typed(wk, qu, nt, is),
         UnissuedAbsent(wk, qu, nt, is), QueuedOnce(wk, qu, nt),
         NEW n \in Node, wk[n].req.id \in Txn
  PROVE  Started(qu, is, wk[n].req.id)
BY DEF Started, Typed, UnissuedAbsent, QueuedOnce, NotStarted

-----------------------------------------------------------------------------
(* Losing messages and queued requests, learning of a new transaction *)

LEMMA LoseMessages ==
  ASSUME NEW wk, NEW qu, NEW nt, NEW is, Consistent(wk, qu, nt, is),
         NEW nt1 \in SUBSET nt, NEW is1, is \subseteq is1
  PROVE  Consistent(wk, qu, nt1, is1)
<1>1. UnissuedAbsent(wk, qu, nt1, is1)
  BY DEF Consistent, UnissuedAbsent, NotStarted
<1>2. QueuedOnce(wk, qu, nt1)
  BY DEF Consistent, QueuedOnce, NotStarted
<1>3. QuorumsHeld(wk, qu, nt1)
  <2>1. ASSUME NEW c \in Node, Surrounded(wk, qu, nt, c) PROVE Surrounded(wk, qu, nt1, c)
    BY <2>1 DEF Surrounded
  <2>2. ASSUME NEW c \in Node, Assembling(wk, nt, c) PROVE Assembling(wk, nt1, c)
    BY <2>2 DEF Assembling
  <2>3. ASSUME NEW c \in Node, Locked(wk, nt, c) PROVE Locked(wk, nt1, c)
    BY <2>3 DEF Locked
  <2>4. QED
    BY <2>1, <2>2, <2>3 DEF Consistent, QuorumsHeld
<1>4. BareLockResponses(nt1)
  BY DEF Consistent, BareLockResponses
<1>5. QED
  BY <1>1, <1>2, <1>3, <1>4 DEF Consistent

\* The queue of n keeps some of its requests, in any order: f tells where each was.
LEMMA LoseQueued ==
  ASSUME NEW wk, NEW qu, NEW nt, NEW is, Typed(wk, qu, nt, is), Consistent(wk, qu, nt, is),
         NEW n \in Node, NEW q \in Seq(Queued), NEW f \in [1..Len(q) -> 1..Len(qu[n])],
         \A i, j \in 1..Len(q) : f[i] = f[j] => i = j,
         \A i \in 1..Len(q) : q[i] = qu[n][f[i]]
  PROVE  Consistent(wk, [qu EXCEPT ![n] = q], nt, is)
<1> DEFINE qu1 == [qu EXCEPT ![n] = q]
<1>1. /\ qu1[n] = q
      /\ \A p \in Node : p # n => qu1[p] = qu[p]
  BY DEF Typed
<1> HIDE DEF qu1
<1>2. ASSUME NEW p \in Node, NEW i \in 1..Len(qu1[p])
      PROVE  \E j \in 1..Len(qu[p]) : qu[p][j] = qu1[p][i]
  BY <1>1, <1>2, SMTT(30)
<1>3. UnissuedAbsent(wk, qu1, nt, is)
  <2>1. ASSUME NEW t \in Txn \ is, NEW p \in Node, NEW i \in 1..Len(qu1[p])
        PROVE  qu1[p][i].msg.id # t
    <3>1. PICK j \in 1..Len(qu[p]) : qu[p][j] = qu1[p][i]
      BY <1>2
    <3>2. qu[p][j].msg.id # t
      BY <3>1 DEF Consistent, UnissuedAbsent, NeverQueued
    <3>3. QED
      BY <3>1, <3>2
  <2>2. QED
    BY <2>1 DEF Consistent, UnissuedAbsent, NeverQueued
<1>4. QueuedOnce(wk, qu1, nt)
  <2> SUFFICES ASSUME NEW p \in Node, NEW i \in 1..Len(qu1[p]), FromClient(qu1[p][i].msg)
               PROVE  /\ NotStarted(wk, nt, qu1[p][i].msg.id)
                      /\ \A r \in Node : \A j \in 1..Len(qu1[r]) :
                           qu1[r][j].msg.id = qu1[p][i].msg.id => r = p /\ j = i
    BY DEF QueuedOnce
  <2>1. NotStarted(wk, nt, qu1[p][i].msg.id)
    BY <1>2, SMTT(30) DEF Consistent, QueuedOnce
  <2>2. ASSUME NEW r \in Node, NEW j \in 1..Len(qu1[r]), qu1[r][j].msg.id = qu1[p][i].msg.id
        PROVE  r = p /\ j = i
    <3>1. r = p
      <4>1. PICK i0 \in 1..Len(qu[p]) : qu[p][i0] = qu1[p][i]
        BY <1>2
      <4>2. PICK j0 \in 1..Len(qu[r]) : qu[r][j0] = qu1[r][j]
        BY <1>2
      <4>3. FromClient(qu[p][i0].msg) /\ qu[r][j0].msg.id = qu[p][i0].msg.id
        BY <2>2, <4>1, <4>2
      <4>4. QED
        BY <4>3 DEF Consistent, QueuedOnce
    <3>2. CASE p # n
      BY <1>1, <2>2, <3>1, <3>2 DEF Consistent, QueuedOnce
    <3>3. CASE p = n
      <4>1. /\ i \in 1..Len(q) /\ j \in 1..Len(q)
            /\ qu1[p][i] = qu[n][f[i]] /\ qu1[r][j] = qu[n][f[j]]
            /\ f[i] \in 1..Len(qu[n]) /\ f[j] \in 1..Len(qu[n])
        BY <1>1, <3>1, <3>3
      <4>2. f[i] = f[j]
        BY <2>2, <4>1, SMTT(30) DEF Consistent, QueuedOnce
      <4>3. QED
        BY <3>1, <4>1, <4>2
    <3>4. QED
      BY <3>1, <3>2, <3>3
  <2>3. QED
    BY <2>1, <2>2
<1>5. QuorumsHeld(wk, qu1, nt)
  <2>1. ASSUME NEW c \in Node, Surrounded(wk, qu, nt, c) PROVE Surrounded(wk, qu1, nt, c)
    BY <1>2, <2>1 DEF Surrounded
  <2>2. QED
    BY <2>1 DEF Consistent, QuorumsHeld
<1>6. QED
  BY <1>3, <1>4, <1>5 DEF Consistent, qu1

LEMMA LoseHead ==
  ASSUME NEW wk, NEW qu, NEW nt, NEW is, Typed(wk, qu, nt, is), Consistent(wk, qu, nt, is),
         NEW n \in Node, qu[n] # <<>>
  PROVE  Consistent(wk, [qu EXCEPT ![n] = Tail(qu[n])], nt, is)
<1> DEFINE q == Tail(qu[n])
           f == [i \in 1..Len(q) |-> i + 1]
<1>1. qu[n] \in Seq(Queued) /\ qu[n] # <<>>
  BY DEF Typed
<1>2. q \in Seq(Queued) /\ Len(q) = Len(qu[n]) - 1 /\ \A i \in 1..Len(q) : q[i] = qu[n][i + 1]
  BY <1>1, HeadTailProperties
<1> HIDE DEF q
<1>3. Len(q) \in Nat /\ Len(qu[n]) \in Nat
  BY <1>1, <1>2
<1>4. f \in [1..Len(q) -> 1..Len(qu[n])] /\ \A i, j \in 1..Len(q) : f[i] = f[j] => i = j
  BY <1>2, <1>3
<1>5. \A i \in 1..Len(q) : q[i] = qu[n][f[i]]
  BY <1>2
<1> HIDE DEF f
<1>6. Consistent(wk, [qu EXCEPT ![n] = q], nt, is)
  BY <1>2, <1>4, <1>5, LoseQueued
<1>7. QED
  BY <1>6 DEF q

-----------------------------------------------------------------------------
(* Sending *)

\* A message that is no surprise: its transaction is known, it grants no lock,
\* and it is between the transaction's coordinator, if any, and its quorum.
Welcome(wk, qu, is, u) ==
  /\ u \in NodeMessage /\ Started(qu, is, u.id)
  /\ u.type = "NodeLockResponse" => ~u.ok /\ u.ts = 0 /\ u.val = 0
  /\ \A c \in Node : wk[c].mode \in WritePhases /\ wk[c].req.id = u.id =>
       /\ u.type # "NodeUnlockRequest"
       /\ u.type \in RequestKinds => u.src = c /\ u.dest \in Members(wk[c])
       /\ u.type \notin RequestKinds => u.dest = c /\ u.src \in Members(wk[c])

LEMMA Send ==
  ASSUME NEW wk, NEW qu, NEW nt, NEW is, Typed(wk, qu, nt, is), Consistent(wk, qu, nt, is),
         NEW U, \A u \in U : Welcome(wk, qu, is, u)
  PROVE  Consistent(wk, qu, nt \cup U, is)
<1>1. UnissuedAbsent(wk, qu, nt \cup U, is)
  BY DEF Consistent, UnissuedAbsent, NotStarted, Welcome, Started
<1>2. QueuedOnce(wk, qu, nt \cup U)
  BY DEF Consistent, QueuedOnce, NotStarted, Welcome, Started
<1>3. \A u \in U : ~OkLockResponse(u)
  BY DEF Welcome, OkLockResponse
<1>4. QuorumsHeld(wk, qu, nt \cup U)
  <2>1. ASSUME NEW c \in Node, wk[c].mode \in WritePhases, Surrounded(wk, qu, nt, c)
        PROVE  Surrounded(wk, qu, nt \cup U, c)
    BY <2>1 DEF Surrounded, Welcome
  <2>2. ASSUME NEW c \in Node, Assembling(wk, nt, c) PROVE Assembling(wk, nt \cup U, c)
    BY <1>3, <2>2 DEF Assembling
  <2>3. ASSUME NEW c \in Node, Locked(wk, nt, c) PROVE Locked(wk, nt \cup U, c)
    BY <1>3, <2>3 DEF Locked
  <2>4. QED
    BY <2>1, <2>2, <2>3 DEF Consistent, QuorumsHeld
<1>5. BareLockResponses(nt \cup U)
  BY DEF Consistent, BareLockResponses, Welcome
<1>6. QED
  BY <1>1, <1>2, <1>4, <1>5 DEF Consistent

-----------------------------------------------------------------------------
(* Changing what a node works on *)

\* A coordinator that goes on with its transaction.
LEMMA GoOn ==
  ASSUME NEW wk, NEW qu, NEW nt, NEW is, Typed(wk, qu, nt, is), Consistent(wk, qu, nt, is),
         NEW n \in Node, wk[n].mode \in Coordinating,
         NEW w, w.mode \in Coordinating, w.req = wk[n].req,
         w.mode \in WritePhases => wk[n].mode \in WritePhases /\ Members(w) = Members(wk[n]),
         NEW wk1, wk1 = [wk EXCEPT ![n] = w],
         w.mode = "assemblingQuorum" => Assembling(wk1, nt, n),
         w.mode = "coordinatingWrite" => Locked(wk1, nt, n)
  PROVE  Consistent(wk1, qu, nt, is)
<1>1. wk1[n] = w /\ \A p \in Node : p # n => wk1[p] = wk[p]
  BY DEF Typed
<1>2. \A p \in Node : wk1[p].req = wk[p].req
  BY <1>1
<1>3. \A p \in Node : /\ wk1[p].mode \in Coordinating <=> wk[p].mode \in Coordinating
                      /\ wk1[p].mode \in WritePhases => wk[p].mode \in WritePhases
  BY <1>1
<1>4. \A p \in Node : wk1[p].mode = "processingWrite" <=> wk[p].mode = "processingWrite"
  BY <1>1 DEF Coordinating, WritePhases
<1>5. \A m, c \in Node : Holds(wk1, m, c) <=> Holds(wk, m, c)
  BY <1>2, <1>4 DEF Holds
<1>6. \A c \in Node : wk1[c].mode \in WritePhases => Members(wk1[c]) = Members(wk[c])
  BY <1>1
<1>7. UnissuedAbsent(wk1, qu, nt, is)
  BY <1>2 DEF Consistent, UnissuedAbsent, NotStarted
<1>8. QueuedOnce(wk1, qu, nt)
  BY <1>2 DEF Consistent, QueuedOnce, NotStarted
<1>9. OneCoordinator(wk1)
  BY <1>2, <1>3 DEF Consistent, OneCoordinator
<1>10. QuorumsHeld(wk1, qu, nt)
  <2>1. ASSUME NEW c \in Node, wk1[c].mode \in WritePhases PROVE Surrounded(wk1, qu, nt, c)
    <3>1. Surrounded(wk, qu, nt, c)
      BY <1>3, <2>1 DEF Consistent, QuorumsHeld
    <3>2. QED
      BY <1>2, <1>4, <1>6, <2>1, <3>1 DEF Surrounded
  <2>2. ASSUME NEW c \in Node, c # n, wk1[c].mode = "assemblingQuorum"
        PROVE  Assembling(wk1, nt, c)
    <3>1. Assembling(wk, nt, c) /\ wk1[c] = wk[c] /\ Surrounded(wk, qu, nt, c)
      BY <1>1, <2>2 DEF Consistent, QuorumsHeld, WritePhases
    <3>2. \A m \in nt : m.src \in Node
      BY DEF Typed, NodeMessage
    <3>3. QED
      BY <1>5, <3>1, <3>2, ZenonT(40) DEF Assembling, Members
  <2>3. ASSUME NEW c \in Node, c # n, wk1[c].mode = "coordinatingWrite"
        PROVE  Locked(wk1, nt, c)
    <3>1. Locked(wk, nt, c) /\ wk1[c] = wk[c]
      BY <1>1, <2>3 DEF Consistent, QuorumsHeld
    <3>2. QED
      BY <1>5, <3>1 DEF Locked, Members
  <2>4. QED
    BY <1>1, <2>1, <2>2, <2>3 DEF QuorumsHeld
<1>11. QED
  BY <1>7, <1>8, <1>9, <1>10 DEF Consistent

\* A node that forgets a transaction no other node coordinates.
LEMMA Forget ==
  ASSUME NEW wk, NEW qu, NEW nt, NEW is, Typed(wk, qu, nt, is), Consistent(wk, qu, nt, is),
         NEW n \in Node,
         \A c \in Node \ {n} : wk[c].mode \in WritePhases => wk[c].req.id # wk[n].req.id
  PROVE  Consistent([wk EXCEPT ![n] = Idle], qu, nt, is)
<1> DEFINE wk1 == [wk EXCEPT ![n] = Idle]
<1>1. wk1[n] = Idle /\ \A p \in Node : p # n => wk1[p] = wk[p]
  BY DEF Typed
<1> HIDE DEF wk1
<1>2. wk1[n].mode = "idle" /\ wk1[n].req.id = 0 /\ 0 \notin Txn
  BY <1>1, TxnAssumption DEF Idle, NoRequest
<1>3. ASSUME NEW t \in Txn, NotStarted(wk, nt, t) PROVE NotStarted(wk1, nt, t)
  BY <1>1, <1>2, <1>3 DEF NotStarted
<1>4. UnissuedAbsent(wk1, qu, nt, is)
  BY <1>3 DEF Consistent, UnissuedAbsent
<1>5. QueuedOnce(wk1, qu, nt)
  <2>1. ASSUME NEW p \in Node, NEW i \in 1..Len(qu[p]) PROVE qu[p][i].msg.id \in Txn
    <3>1. qu[p] \in Seq(Queued)
      BY DEF Typed
    <3>2. qu[p][i] \in Queued
      BY <2>1, <3>1
    <3>3. QED
      BY <3>2 DEF Queued, ClientMessage, NodeMessage
  <2>2. QED
    BY <1>3, <2>1 DEF Consistent, QueuedOnce
<1>6. OneCoordinator(wk1)
  BY <1>1, <1>2 DEF Consistent, OneCoordinator, Coordinating, WritePhases
<1>7. ASSUME NEW c \in Node, wk1[c].mode \in WritePhases
      PROVE  /\ c # n /\ wk1[c] = wk[c]
             /\ \A m \in Node : Holds(wk, m, c) => Holds(wk1, m, c)
  <2>1. c # n /\ wk1[c] = wk[c]
    BY <1>1, <1>2, <1>7 DEF WritePhases
  <2>2. ASSUME NEW m \in Node, Holds(wk, m, c) PROVE Holds(wk1, m, c)
    <3>1. m # n
      BY <1>7, <2>1, <2>2 DEF Holds
    <3>2. QED
      BY <1>1, <2>1, <2>2, <3>1 DEF Holds
  <2>3. QED
    BY <2>1, <2>2
<1>8. QuorumsHeld(wk1, qu, nt)
  <2>1. ASSUME NEW c \in Node, wk1[c].mode \in WritePhases PROVE Surrounded(wk1, qu, nt, c)
    <3>1. Surrounded(wk, qu, nt, c) /\ wk1[c] = wk[c]
      BY <1>7, <2>1 DEF Consistent, QuorumsHeld
    <3>2. QED
      BY <1>1, <1>2, <3>1 DEF Surrounded
  <2>2. ASSUME NEW c \in Node, wk1[c].mode = "assemblingQuorum" PROVE Assembling(wk1, nt, c)
    <3>1. Assembling(wk, nt, c) /\ wk1[c] = wk[c]
      BY <1>7, <2>2 DEF Consistent, QuorumsHeld, WritePhases
    <3>2. \A m \in nt : m.src \in Node
      BY DEF Typed, NodeMessage
    <3>3. QED
      BY <1>7, <2>2, <3>1, <3>2 DEF Assembling, Members, WritePhases
  <2>3. ASSUME NEW c \in Node, wk1[c].mode = "coordinatingWrite" PROVE Locked(wk1, nt, c)
    <3>1. Locked(wk, nt, c) /\ wk1[c] = wk[c]
      BY <1>7, <2>3 DEF Consistent, QuorumsHeld, WritePhases
    <3>2. QED
      BY <1>7, <2>3, <3>1 DEF Locked, Members, WritePhases
  <2>4. QED
    BY <2>1, <2>2, <2>3 DEF QuorumsHeld
<1>9. QED
  BY <1>4, <1>5, <1>6, <1>8 DEF Consistent, wk1

\* A node that grants its lock, and says so.
LEMMA Grant ==
  ASSUME NEW wk, NEW qu, NEW nt, NEW is, Typed(wk, qu, nt, is), Consistent(wk, qu, nt, is),
         NEW n \in Node, wk[n].mode = "idle",
         NEW e, e.msg \in NodeMessage, Started(qu, is, e.msg.id),
         \A c \in Node : wk[c].mode \in WritePhases /\ wk[c].req.id = e.msg.id =>
           e.msg.src = c /\ n \in Members(wk[c]),
         NEW r, r = Mail("NodeLockResponse", e.msg.id, n, e.msg.src, NoVersion, TRUE)
  PROVE  Consistent([wk EXCEPT ![n] = Serving(e)], qu, nt \cup {r}, is)
<1> DEFINE wk1 == [wk EXCEPT ![n] = Serving(e)]
           nt1 == nt \cup {r}
<1>1. wk1[n] = Serving(e) /\ \A p \in Node : p # n => wk1[p] = wk[p]
  BY DEF Typed
<1>2. Serving(e).mode = "processingWrite" /\ Serving(e).req = e.msg
  BY DEF Serving, Idle
<1>3. /\ r.type = "NodeLockResponse" /\ r.id = e.msg.id /\ r.src = n /\ r.dest = e.msg.src
      /\ r.ts = 0 /\ r.val = 0
  BY DEF Mail, NoVersion
<1> HIDE DEF wk1
<1>4. ASSUME NEW t, t # e.msg.id, NotStarted(wk, nt, t) PROVE NotStarted(wk1, nt1, t)
  BY <1>1, <1>2, <1>3, <1>4 DEF NotStarted
<1>5. UnissuedAbsent(wk1, qu, nt1, is)
  BY <1>4 DEF Consistent, UnissuedAbsent, Started
<1>6. QueuedOnce(wk1, qu, nt1)
  BY <1>4, ZenonT(40) DEF Consistent, QueuedOnce, Started
<1>7. OneCoordinator(wk1)
  BY <1>1, <1>2 DEF Consistent, OneCoordinator, Coordinating, WritePhases
<1>8. ASSUME NEW c \in Node, wk1[c].mode \in WritePhases
      PROVE  /\ c # n /\ wk1[c] = wk[c]
             /\ \A m \in Node : Holds(wk, m, c) => Holds(wk1, m, c)
  <2>1. c # n /\ wk1[c] = wk[c]
    BY <1>1, <1>2, <1>8 DEF WritePhases
  <2>2. ASSUME NEW m \in Node, Holds(wk, m, c) PROVE Holds(wk1, m, c)
    <3>1. m # n
      BY <2>2 DEF Holds
    <3>2. QED
      BY <1>1, <2>1, <2>2, <3>1 DEF Holds
  <2>3. QED
    BY <2>1, <2>2
<1>9. QuorumsHeld(wk1, qu, nt1)
  <2>1. ASSUME NEW c \in Node, wk1[c].mode \in WritePhases PROVE Surrounded(wk1, qu, nt1, c)
    <3>1. Surrounded(wk, qu, nt, c) /\ wk1[c] = wk[c]
      BY <1>8, <2>1 DEF Consistent, QuorumsHeld
    <3>2. r.id = wk[c].req.id => r.dest = c /\ r.src \in Members(wk[c])
      BY <1>3, <2>1, <3>1
    <3>3. \A m \in nt1 : m.id = wk[c].req.id =>
            /\ m.type # "NodeUnlockRequest"
            /\ m.type \in RequestKinds => m.src = c /\ m.dest \in Members(wk[c])
            /\ m.type \notin RequestKinds => m.dest = c /\ m.src \in Members(wk[c])
      BY <1>3, <3>1, <3>2 DEF Surrounded, RequestKinds
    <3>4. wk1[n].req.id = wk[c].req.id => wk1[n].req.src = c /\ n \in Members(wk[c])
      BY <1>1, <1>2, <2>1, <3>1
    <3>5. \A p \in Node : wk1[p].mode = "processingWrite" /\ wk1[p].req.id = wk[c].req.id
                            => wk1[p].req.src = c /\ p \in Members(wk[c])
      BY <1>1, <3>1, <3>4 DEF Surrounded
    <3> HIDE DEF nt1
    <3>6. QED
      BY <3>1, <3>3, <3>5 DEF Surrounded
  <2>2. ASSUME NEW c \in Node, wk1[c].mode = "assemblingQuorum" PROVE Assembling(wk1, nt1, c)
    <3>1. /\ Assembling(wk, nt, c) /\ Surrounded(wk, qu, nt, c)
          /\ wk1[c] = wk[c] /\ wk[c].mode \in WritePhases
      BY <1>8, <2>2 DEF Consistent, QuorumsHeld, WritePhases
    <3>2. \A m \in nt : m.src \in Node
      BY DEF Typed, NodeMessage
    <3>3. \A m \in Node : Holds(wk, m, c) => Holds(wk1, m, c)
      BY <1>8, <3>1
    <3>4. r.id = wk[c].req.id => Holds(wk1, n, c) /\ n \in Members(wk[c])
      BY <1>1, <1>2, <1>3, <3>1 DEF Holds
    <3>5. wk[c].members[n].type = "NodeLockResponse" => n \notin Members(wk[c])
      BY <3>1 DEF Assembling, Holds
    <3>6. \A m \in nt1 : m.id = wk1[c].req.id /\ OkLockResponse(m) =>
            Holds(wk1, m.src, c) /\ wk1[c].members[m.src].type # "NodeLockResponse"
      BY <1>3, <3>1, <3>2, <3>3, <3>4, <3>5 DEF Assembling
    <3>7. QED
      BY <3>1, <3>3, <3>6 DEF Assembling, Members
  <2>3. ASSUME NEW c \in Node, wk1[c].mode = "coordinatingWrite" PROVE Locked(wk1, nt1, c)
    <3>1. Locked(wk, nt, c) /\ wk1[c] = wk[c] /\ wk[c].mode \in WritePhases
      BY <1>8, <2>3 DEF Consistent, QuorumsHeld, WritePhases
    <3>2. r.id # wk[c].req.id
      BY <1>3, <3>1 DEF Locked, Holds
    <3>3. QED
      BY <1>8, <3>1, <3>2 DEF Locked, Members
  <2>4. QED
    BY <2>1, <2>2, <2>3 DEF QuorumsHeld
<1>10. BareLockResponses(nt1)
  BY <1>3 DEF Consistent, BareLockResponses
<1>11. QED
  BY <1>5, <1>6, <1>7, <1>9, <1>10 DEF Consistent, wk1

\* A node that starts to coordinate the request it has taken from its queue.
LEMMA Begin ==
  ASSUME NEW wk, NEW qu, NEW nt, NEW is, Typed(wk, qu, nt, is), Consistent(wk, qu, nt, is),
         NEW n \in Node, wk[n].mode = "idle",
         NEW e, e.msg.id \in is, NotStarted(wk, nt, e.msg.id), NeverQueued(qu, e.msg.id),
         NEW k \in Nat, NEW peers \in Peers(n, k), NEW mode, NEW type, NEW step,
         \/ mode = "coordinatingFastRead"
         \/ /\ mode = "assemblingQuorum" /\ k = WriteQuorumSize
            /\ type = "NodeLockRequestNoTimeout"
  PROVE  Consistent([wk EXCEPT ![n] = Assembled(mode, e, peers, type, step)], qu, nt, is)
<1> DEFINE w == Assembled(mode, e, peers, type, step)
           wk1 == [wk EXCEPT ![n] = w]
<1>1. wk1[n] = w /\ \A p \in Node : p # n => wk1[p] = wk[p]
  BY DEF Typed
<1>2. w.mode = mode /\ w.req = e.msg /\ w.waiting = Cardinality(peers)
  BY DEF Assembled
<1>3. mode = "assemblingQuorum" => Members(w) = peers /\ Asked(w) = peers
  BY DEF Assembled, Members, Asked, NoAnswer, Peers
<1> HIDE DEF wk1, w
<1>4. ASSUME NEW t, t # e.msg.id, NotStarted(wk, nt, t) PROVE NotStarted(wk1, nt, t)
  BY <1>1, <1>2, <1>4 DEF NotStarted
<1>5. UnissuedAbsent(wk1, qu, nt, is)
  BY <1>4 DEF Consistent, UnissuedAbsent
<1>6. QueuedOnce(wk1, qu, nt)
  BY <1>4 DEF Consistent, QueuedOnce, NeverQueued
<1>7. OneCoordinator(wk1)
  BY <1>1, <1>2 DEF Consistent, OneCoordinator, NotStarted
<1>8. ASSUME NEW c \in Node, c # n
      PROVE  wk1[c] = wk[c] /\ \A m \in Node : Holds(wk, m, c) => Holds(wk1, m, c)
  <2>1. ASSUME NEW m \in Node, Holds(wk, m, c) PROVE Holds(wk1, m, c)
    <3>1. m # n
      BY <2>1 DEF Holds
    <3>2. QED
      BY <1>1, <1>8, <2>1, <3>1 DEF Holds
  <2>2. QED
    BY <1>1, <1>8, <2>1
<1>9. QuorumsHeld(wk1, qu, nt)
  <2>1. ASSUME NEW c \in Node, c # n, wk1[c].mode \in WritePhases
        PROVE  Surrounded(wk1, qu, nt, c)
    <3>1. Surrounded(wk, qu, nt, c) /\ wk1[c] = wk[c]
      BY <1>8, <2>1 DEF Consistent, QuorumsHeld
    <3>2. QED
      BY <1>1, <1>2, <3>1 DEF Surrounded
  <2>2. ASSUME NEW c \in Node, c # n, wk1[c].mode = "assemblingQuorum"
        PROVE  Assembling(wk1, nt, c)
    <3>1. Assembling(wk, nt, c) /\ wk1[c] = wk[c]
      BY <1>8, <2>2 DEF Consistent, QuorumsHeld
    <3>2. \A m \in nt : m.src \in Node
      BY DEF Typed, NodeMessage
    <3>3. QED
      BY <1>8, <2>2, <3>1, <3>2 DEF Assembling, Members
  <2>3. ASSUME NEW c \in Node, c # n, wk1[c].mode = "coordinatingWrite"
        PROVE  Locked(wk1, nt, c)
    <3>1. Locked(wk, nt, c) /\ wk1[c] = wk[c]
      BY <1>8, <2>3 DEF Consistent, QuorumsHeld
    <3>2. QED
      BY <1>8, <2>3, <3>1 DEF Locked, Members
  <2>4. ASSUME mode = "assemblingQuorum"
        PROVE  Surrounded(wk1, qu, nt, n) /\ Assembling(wk1, nt, n)
    <3>1. n \notin peers /\ Cardinality(peers) = WriteQuorumSize - 1
      BY <2>4 DEF Peers
    <3>2. Surrounded(wk1, qu, nt, n)
      BY <1>1, <1>2, <1>3, <2>4, <3>1 DEF Surrounded, NotStarted, NeverQueued
    <3>3. \A m \in peers : w.members[m].type = "NodeLockRequestNoTimeout"
      BY <1>3, <2>4 DEF Asked
    <3>4. Assembling(wk1, nt, n)
      BY <1>1, <1>2, <1>3, <2>4, <3>3 DEF Assembling, NotStarted
    <3>5. QED
      BY <3>2, <3>4
  <2>5. QED
    BY <1>1, <1>2, <2>1, <2>2, <2>3, <2>4 DEF QuorumsHeld, WritePhases
<1>10. QED
  BY <1>5, <1>6, <1>7, <1>9 DEF Consistent, wk1, w

-----------------------------------------------------------------------------
(* Queueing requests and taking them *)

\* A request that may wait in the queue of n: a client's, of which there is no
\* trace elsewhere, or a lock request of the transaction's coordinator, if any.
MayWait(wk, qu, nt, is, n, m) ==
  /\ m.id \in is
  /\ FromClient(m) => NotStarted(wk, nt, m.id) /\ NeverQueued(qu, m.id)
  /\ ~FromClient(m) => Started(qu, is, m.id)
  /\ \A c \in Node : wk[c].mode \in WritePhases /\ wk[c].req.id = m.id =>
       m.src = c /\ n \in Members(wk[c])

LEMMA Wait ==
  ASSUME NEW wk, NEW qu, NEW nt, NEW is, Typed(wk, qu, nt, is), Consistent(wk, qu, nt, is),
         NEW n \in Node, NEW e \in Queued, MayWait(wk, qu, nt, is, n, e.msg)
  PROVE  Consistent(wk, [qu EXCEPT ![n] = Append(qu[n], e)], nt, is)
<1> DEFINE q == Append(qu[n], e)
           qu1 == [qu EXCEPT ![n] = q]
           last == Len(qu[n]) + 1
<1>1. qu[n] \in Seq(Queued) /\ Len(qu[n]) \in Nat
  BY DEF Typed
<1>2. Len(q) = last /\ q[last] = e /\ \A i \in 1..Len(qu[n]) : q[i] = qu[n][i]
  BY <1>1, AppendProperties
<1>3. qu1[n] = q /\ \A p \in Node : p # n => qu1[p] = qu[p]
  BY DEF Typed
<1> HIDE DEF q, qu1
<1>4. ASSUME NEW p \in Node, NEW i \in 1..Len(qu1[p]), ~(p = n /\ i = last)
      PROVE  i \in 1..Len(qu[p]) /\ qu1[p][i] = qu[p][i]
  BY <1>1, <1>2, <1>3, <1>4
<1> HIDE DEF last
<1>5. ASSUME NEW p \in Node, NEW i \in 1..Len(qu1[p]), p = n, i = last PROVE qu1[p][i] = e
  BY <1>2, <1>3, <1>5
<1>6. UnissuedAbsent(wk, qu1, nt, is)
  <2>1. ASSUME NEW t \in Txn \ is, NEW p \in Node, NEW i \in 1..Len(qu1[p])
        PROVE  qu1[p][i].msg.id # t
    BY <1>4, <1>5, <2>1 DEF Consistent, UnissuedAbsent, NeverQueued, MayWait
  <2>2. QED
    BY <2>1 DEF Consistent, UnissuedAbsent, NeverQueued
<1>7. QueuedOnce(wk, qu1, nt)
  <2> SUFFICES ASSUME NEW p \in Node, NEW i \in 1..Len(qu1[p]), FromClient(qu1[p][i].msg)
               PROVE  /\ NotStarted(wk, nt, qu1[p][i].msg.id)
                      /\ \A r \in Node : \A j \in 1..Len(qu1[r]) :
                           qu1[r][j].msg.id = qu1[p][i].msg.id => r = p /\ j = i
    BY DEF QueuedOnce
  <2>1. CASE p = n /\ i = last
    <3>1. qu1[p][i] = e
      BY <1>5, <2>1
    <3>2. NotStarted(wk, nt, e.msg.id) /\ NeverQueued(qu, e.msg.id)
      BY <3>1 DEF MayWait
    <3>3. ASSUME NEW r \in Node, NEW j \in 1..Len(qu1[r]), qu1[r][j].msg.id = e.msg.id
          PROVE  r = p /\ j = i
      BY <1>4, <2>1, <3>2, <3>3 DEF NeverQueued
    <3>4. QED
      BY <3>1, <3>2, <3>3
  <2>2. CASE ~(p = n /\ i = last)
    <3>1. i \in 1..Len(qu[p]) /\ qu1[p][i] = qu[p][i]
      BY <1>4, <2>2
    <3>2. NotStarted(wk, nt, qu[p][i].msg.id)
      BY <3>1 DEF Consistent, QueuedOnce
    <3>3. e.msg.id # qu[p][i].msg.id
      BY <3>1 DEF MayWait, NeverQueued, Started
    <3>4. ASSUME NEW r \in Node, NEW j \in 1..Len(qu1[r]), qu1[r][j].msg.id = qu[p][i].msg.id
          PROVE  r = p /\ j = i
      <4>1. j \in 1..Len(qu[r]) /\ qu1[r][j] = qu[r][j]
        BY <1>4, <1>5, <3>3, <3>4
      <4>2. QED
        BY <3>1, <3>4, <4>1 DEF Consistent, QueuedOnce
    <3>5. QED
      BY <3>1, <3>2, <3>4
  <2>3. QED
    BY <2>1, <2>2
<1>8. QuorumsHeld(wk, qu1, nt)
  <2>1. ASSUME NEW c \in Node, wk[c].mode \in WritePhases, Surrounded(wk, qu, nt, c)
        PROVE  Surrounded(wk, qu1, nt, c)
    <3>1. ASSUME NEW p \in Node, NEW i \in 1..Len(qu1[p]), qu1[p][i].msg.id = wk[c].req.id
          PROVE  qu1[p][i].msg.src = c /\ p \in Members(wk[c])
      <4>1. CASE p = n /\ i = last
        BY <1>5, <2>1, <3>1, <4>1 DEF MayWait
      <4>2. CASE ~(p = n /\ i = last)
        BY <1>4, <2>1, <3>1, <4>2 DEF Surrounded
      <4>3. QED
        BY <4>1, <4>2
    <3>2. QED
      BY <2>1, <3>1 DEF Surrounded
  <2>2. QED
    BY <2>1 DEF Consistent, QuorumsHeld
<1>9. QED
  BY <1>6, <1>7, <1>8 DEF Consistent, qu1, q

\* What is known of the request at the head of a queue once it is taken.
LEMMA TakeHead ==
  ASSUME NEW wk, NEW qu, NEW nt, NEW is, Typed(wk, qu, nt, is), Consistent(wk, qu, nt, is),
         NEW n \in Node, qu[n] # <<>>, NEW qu1, qu1 = [qu EXCEPT ![n] = Tail(qu[n])]
  PROVE  /\ Head(qu[n]) \in Queued /\ qu1 \in [Node -> Seq(Queued)]
         /\ Consistent(wk, qu1, nt, is) /\ MayWait(wk, qu1, nt, is, n, Head(qu[n]).msg)
<1> DEFINE e == Head(qu[n])
<1>1. qu[n] \in Seq(Queued) /\ Len(qu[n]) \in Nat /\ 1 \in 1..Len(qu[n])
  BY DEF Typed
<1>2. /\ e \in Queued /\ e = qu[n][1] /\ Tail(qu[n]) \in Seq(Queued)
      /\ Len(Tail(qu[n])) = Len(qu[n]) - 1
      /\ \A i \in 1..Len(Tail(qu[n])) : Tail(qu[n])[i] = qu[n][i + 1]
  BY <1>1, HeadTailProperties
<1> HIDE DEF e
<1>3. qu1 \in [Node -> Seq(Queued)] /\ qu1[n] = Tail(qu[n])
      /\ \A p \in Node : p # n => qu1[p] = qu[p]
  BY <1>2 DEF Typed
<1>4. Consistent(wk, qu1, nt, is)
  BY LoseHead
<1>5. ASSUME NEW p \in Node, NEW i \in 1..Len(qu1[p])
      PROVE  \E j \in 1..Len(qu[p]) : qu1[p][i] = qu[p][j] /\ ~(p = n /\ j = 1)
  <2>1. CASE p = n
    <3>1. i + 1 \in 1..Len(qu[p]) /\ qu1[p][i] = qu[p][i + 1] /\ i + 1 # 1
      BY <1>1, <1>2, <1>3, <2>1
    <3>2. QED
      BY <3>1
  <2>2. CASE p # n
    BY <1>3, <2>2
  <2>3. QED
    BY <2>1, <2>2
<1>6. e.msg.id \in Txn /\ e.msg.id \in is
  <2>1. e.msg.id \in Txn
    BY <1>2 DEF Queued, ClientMessage, NodeMessage
  <2>2. QED
    BY <1>1, <1>2, <2>1 DEF Consistent, UnissuedAbsent, NeverQueued
<1>7. ASSUME FromClient(e.msg) PROVE NotStarted(wk, nt, e.msg.id) /\ NeverQueued(qu1, e.msg.id)
  <2>1. NotStarted(wk, nt, e.msg.id)
    BY <1>1, <1>2, <1>7 DEF Consistent, QueuedOnce
  <2>2. ASSUME NEW p \in Node, NEW i \in 1..Len(qu1[p]), qu1[p][i].msg.id = e.msg.id
        PROVE  FALSE
    <3>1. PICK j \in 1..Len(qu[p]) : qu1[p][i] = qu[p][j] /\ ~(p = n /\ j = 1)
      BY <1>5
    <3>2. QED
      BY <1>1, <1>2, <1>7, <2>2, <3>1 DEF Consistent, QueuedOnce
  <2>3. QED
    BY <2>1, <2>2 DEF NeverQueued
<1>8. ASSUME ~FromClient(e.msg) PROVE Started(qu1, is, e.msg.id)
  <2>1. ASSUME NEW p \in Node, NEW i \in 1..Len(qu1[p]), FromClient(qu1[p][i].msg),
               qu1[p][i].msg.id = e.msg.id
        PROVE  FALSE
    <3>1. PICK j \in 1..Len(qu[p]) : qu1[p][i] = qu[p][j] /\ ~(p = n /\ j = 1)
      BY <1>5
    <3>2. FromClient(qu[p][j].msg) /\ qu[n][1].msg.id = qu[p][j].msg.id
      BY <1>2, <2>1, <3>1
    <3>3. n = p /\ 1 = j
      BY <1>1, <3>2 DEF Consistent, QueuedOnce
    <3>4. QED
      BY <3>1, <3>3
  <2>2. QED
    BY <1>6, <2>1 DEF Started
<1>9. ASSUME NEW c \in Node, wk[c].mode \in WritePhases, wk[c].req.id = e.msg.id
      PROVE  e.msg.src = c /\ n \in Members(wk[c])
  BY <1>1, <1>2, <1>9 DEF Consistent, QuorumsHeld, Surrounded
<1>10. QED
  BY <1>2, <1>3, <1>4, <1>6, <1>7, <1>8, <1>9 DEF MayWait, e

-----------------------------------------------------------------------------
(* The end of the main loop *)

\* A new coordinator sends a request to every peer it has chosen.
LEMMA BeginAndAsk ==
  ASSUME NEW wk, NEW qu, NEW nt, NEW is, Typed(wk, qu, nt, is), Consistent(wk, qu, nt, is),
         NEW n \in Node, wk[n].mode = "idle",
         NEW e \in Queued, FromClient(e.msg), MayWait(wk, qu, nt, is, n, e.msg),
         NEW k \in Nat, k > 1, NEW peers \in Peers(n, k),
         NEW mode, NEW type, NEW step \in Steps,
         \/ mode = "coordinatingFastRead" /\ type = "NodeGetRequest"
         \/ /\ mode = "assemblingQuorum" /\ k = WriteQuorumSize
            /\ type = "NodeLockRequestNoTimeout",
         NEW w, w = Assembled(mode, e, peers, type, step)
  PROVE  Consistent([wk EXCEPT ![n] = w], qu,
                    nt \cup ToMembers(type, n, w, NoVersion, TRUE), is)
<1> DEFINE wk1 == [wk EXCEPT ![n] = w]
<1>1. e.msg \in ClientMessage
  BY DEF Queued, NodeMessage, NodeKinds, FromClient, ClientKinds, WriteKinds
<1>2. /\ mode \in Coordinating /\ type \in NodeKinds /\ type \in RequestKinds
      /\ type \notin {"NodeLockResponse", "NodeUnlockRequest"}
  BY DEF Coordinating, WritePhases, NodeKinds, RequestKinds
<1>3. w \in Work /\ w.req = e.msg /\ w.mode = mode
  <2>1. Assembled(mode, e, peers, type, step) \in Work
    BY <1>1, <1>2, AssembledType
  <2>2. QED
    BY <2>1 DEF Assembled
<1>4. Consistent(wk1, qu, nt, is)
  BY Begin DEF MayWait
<1>5. Typed(wk1, qu, nt, is)
  BY <1>3 DEF Typed
<1>6. wk1[n] = w /\ \A p \in Node : p # n => wk1[p] = wk[p]
  BY DEF Typed
<1> HIDE DEF wk1
<1>7. Started(qu, is, e.msg.id)
  BY DEF MayWait, Started, NeverQueued
<1>8. ASSUME NEW c \in Node, wk1[c].mode \in WritePhases, wk1[c].req.id = e.msg.id
      PROVE  c = n
  BY <1>6, <1>8 DEF MayWait, NotStarted
<1>9. ASSUME NEW u \in ToMembers(type, n, w, NoVersion, TRUE) PROVE Welcome(wk1, qu, is, u)
  <2>1. PICK m \in Members(w) : u = Mail(type, e.msg.id, n, m, NoVersion, TRUE)
    BY <1>3 DEF ToMembers
  <2>2. u \in NodeMessage
    BY <1>1, <1>2, <2>1 DEF Mail, NodeMessage, ClientMessage, NoVersion, Members
  <2>3. u.type = type /\ u.id = e.msg.id /\ u.src = n /\ u.dest = m
    BY <2>1 DEF Mail
  <2>4. QED
    BY <1>2, <1>6, <1>7, <1>8, <2>2, <2>3 DEF Welcome
<1>10. Consistent(wk1, qu, nt \cup ToMembers(type, n, w, NoVersion, TRUE), is)
  BY <1>4, <1>5, <1>9, Send
<1>11. QED
  BY <1>10 DEF wk1

\* A handler that leaves a consistent state is followed by a consistent end of loop.
LEMMA EndLoopConsistent ==
  ASSUME work \in [Node -> Work], queue \in [Node -> Seq(Queued)],
         NEW n \in Node, NEW w \in Work, NEW q \in Seq(Queued), NEW done,
         NEW net \in SUBSET NodeMessage, NEW is \in SUBSET Txn,
         EndLoop(n, w, q, done, net),
         Consistent([work EXCEPT ![n] = w], [queue EXCEPT ![n] = q], net, is)
  PROVE  Consistent(work', queue', network', is)
<1> DEFINE wk == [work EXCEPT ![n] = w]
           qu == [queue EXCEPT ![n] = q]
           qu1 == [queue EXCEPT ![n] = Tail(q)]
<1>1. CASE w.mode # "idle" \/ q = <<>>
  BY <1>1 DEF EndLoop
<1>2. CASE w.mode = "idle" /\ q # <<>>
  <2> DEFINE e == Head(q)
  <2>1. /\ wk[n] = w /\ qu[n] = q /\ qu1 = [qu EXCEPT ![n] = Tail(qu[n])]
        /\ Typed(wk, qu, net, is) /\ Consistent(wk, qu, net, is)
    BY DEF Typed
  <2> HIDE DEF wk, qu, qu1
  <2>2. /\ e \in Queued /\ qu1 \in [Node -> Seq(Queued)]
        /\ Consistent(wk, qu1, net, is) /\ MayWait(wk, qu1, net, is, n, e.msg)
    BY <1>2, <2>1, TakeHead
  <2>3. Typed(wk, qu1, net, is)
    BY <2>1, <2>2 DEF Typed
  <2> HIDE DEF e
  <2>4. CASE work' = wk /\ queue' = qu1 /\ network' = net
    BY <2>2, <2>4
  <2>5. CASE BeginWrite(n, e, net) /\ queue' = qu1
    <3>1. FromClient(e.msg)
      BY <2>5 DEF BeginWrite, FromClient, ClientKinds
    <3>2. PICK peers \in Peers(n, WriteQuorumSize) :
            LET x == Assembled("assemblingQuorum", e, peers,
                               "NodeLockRequestNoTimeout", "NodeTimestampRequest") IN
            /\ work' = [work EXCEPT ![n] = x]
            /\ network' = net \cup ToMembers("NodeLockRequestNoTimeout", n, x, NoVersion, TRUE)
      BY <2>5 DEF BeginWrite
    <3> DEFINE x == Assembled("assemblingQuorum", e, peers,
                              "NodeLockRequestNoTimeout", "NodeTimestampRequest")
    <3> HIDE DEF x
    <3>3. Consistent([wk EXCEPT ![n] = x], qu1,
                     net \cup ToMembers("NodeLockRequestNoTimeout", n, x, NoVersion, TRUE), is)
      BY <1>2, <2>1, <2>2, <2>3, <3>1, BeginAndAsk, QuorumSizes DEF x, Steps
    <3>4. [wk EXCEPT ![n] = x] = [work EXCEPT ![n] = x]
      BY DEF wk
    <3>5. QED
      BY <2>5, <3>2, <3>3, <3>4 DEF x
  <2>6. CASE BeginRead(n, e, net) /\ queue' = qu1
    <3>1. FromClient(e.msg) /\ ReadQuorumSize > 1
      BY <2>2, <2>6 DEF BeginRead, FromClient, ClientKinds, Queued, NodeMessage, NodeKinds
    <3>2. PICK peers \in Peers(n, ReadQuorumSize) :
            LET x == Assembled("coordinatingFastRead", e, peers, "NodeGetRequest", "none") IN
            /\ work' = [work EXCEPT ![n] = x]
            /\ network' = net \cup ToMembers("NodeGetRequest", n, x, NoVersion, TRUE)
      BY <2>6 DEF BeginRead
    <3> DEFINE x == Assembled("coordinatingFastRead", e, peers, "NodeGetRequest", "none")
    <3> HIDE DEF x
    <3>3. Consistent([wk EXCEPT ![n] = x], qu1,
                     net \cup ToMembers("NodeGetRequest", n, x, NoVersion, TRUE), is)
      BY <1>2, <2>1, <2>2, <2>3, <3>1, BeginAndAsk, QuorumSizes DEF x, Steps
    <3>4. [wk EXCEPT ![n] = x] = [work EXCEPT ![n] = x]
      BY DEF wk
    <3>5. QED
      BY <2>6, <3>2, <3>3, <3>4 DEF x
  <2>7. CASE BeginLock(n, e, net) /\ queue' = qu1
    <3> DEFINE r == Mail("NodeLockResponse", e.msg.id, n, e.msg.src, NoVersion, TRUE)
    <3>1. ~FromClient(e.msg) /\ e.msg \in NodeMessage
      BY <2>2, <2>7 DEF BeginLock, FromClient, ClientKinds, WriteKinds, Queued, ClientMessage
    <3> HIDE DEF r
    <3>2. Consistent([wk EXCEPT ![n] = Serving(e)], qu1, net \cup {r}, is)
      BY <1>2, <2>1, <2>2, <2>3, <3>1, Grant DEF r, MayWait
    <3>3. [wk EXCEPT ![n] = Serving(e)] = [work EXCEPT ![n] = Serving(e)]
      BY DEF wk
    <3>4. QED
      BY <2>7, <3>2, <3>3 DEF BeginLock, r
  <2>8. QED
    BY <1>2, <2>4, <2>5, <2>6, <2>7 DEF EndLoop, wk, qu1, e
<1>3. QED
  BY <1>1, <1>2

LEMMA ProceedConsistent ==
  ASSUME HandledOK, NEW n \in Node, NEW w \in Work, NEW net \in SUBSET NodeMessage,
         NEW is \in SUBSET Txn, Proceed(n, w, net),
         Consistent([work EXCEPT ![n] = w], queue, net, is)
  PROVE  Consistent(work', queue', network', is)
<1>1. [queue EXCEPT ![n] = queue[n]] = queue /\ queue[n] \in Seq(Queued)
  BY DEF HandledOK
<1>2. QED
  BY <1>1, EndLoopConsistent DEF HandledOK, Proceed

-----------------------------------------------------------------------------
(* Quitting, counting answers, and going on *)

\* A coordinator that quits tells its quorum to unlock.
LEMMA Quit ==
  ASSUME NEW wk, NEW qu, NEW nt, NEW is, Typed(wk, qu, nt, is), Consistent(wk, qu, nt, is),
         NEW n \in Node, wk[n].mode \in Coordinating, NEW ok \in BOOLEAN
  PROVE  Consistent([wk EXCEPT ![n] = Idle], qu, nt \cup Unlocks(n, wk[n], ok), is)
<1> DEFINE wk1 == [wk EXCEPT ![n] = Idle]
           t == wk[n].req.id
<1>1. wk1[n] = Idle /\ \A p \in Node : p # n => wk1[p] = wk[p]
  BY DEF Typed
<1>2. wk[n].req \in ClientMessage /\ t \in Txn
  BY DEF Typed, Work, Complete, ClientMessage
<1>3. ASSUME NEW c \in Node \ {n}, wk[c].mode \in WritePhases PROVE wk[c].req.id # t
  BY <1>3 DEF Consistent, OneCoordinator, Coordinating
<1>4. Consistent(wk1, qu, nt, is)
  BY <1>3, Forget
<1>5. Typed(wk1, qu, nt, is)
  BY IdleType DEF Typed
<1>6. Started(qu, is, t)
  BY <1>2, WorkStarted DEF Consistent
<1> HIDE DEF wk1
<1>7. \A c \in Node : wk1[c].mode \in WritePhases => wk1[c].req.id # t
  BY <1>1, <1>3 DEF Idle, WritePhases
<1>8. ASSUME NEW u \in Unlocks(n, wk[n], ok) PROVE Welcome(wk1, qu, is, u)
  <2>1. PICK m \in Members(wk[n]) : u = Mail("NodeUnlockRequest", t, n, m, NoVersion, ok)
    BY DEF Unlocks, ToMembers
  <2>2. u \in NodeMessage
    BY <1>2, <2>1 DEF Mail, NodeMessage, NodeKinds, NoVersion, Members
  <2>3. u.type = "NodeUnlockRequest" /\ u.id = t
    BY <2>1 DEF Mail
  <2>4. QED
    BY <1>6, <1>7, <2>2, <2>3 DEF Welcome
<1>9. Consistent(wk1, qu, nt \cup Unlocks(n, wk[n], ok), is)
  BY <1>4, <1>5, <1>8, Send
<1>10. QED
  BY <1>9 DEF wk1

\* One more member of a quorum has granted its lock, and its response is gone.
LEMMA CountLock ==
  ASSUME NEW wk, NEW qu, NEW nt, NEW is, Typed(wk, qu, nt, is), Consistent(wk, qu, nt, is),
         NEW n \in Node, wk[n].mode = "assemblingQuorum",
         NEW m \in nt, m.id = wk[n].req.id, OkLockResponse(m)
  PROVE  Consistent([wk EXCEPT ![n] = Counted(wk[n], m)], qu, nt \ {m}, is)
<1> DEFINE w == Counted(wk[n], m)
           wk1 == [wk EXCEPT ![n] = w]
           nt1 == nt \ {m}
           one == [type |-> m.type, ts |-> m.ts, val |-> m.val]
<1>1. wk1[n] = w /\ \A p \in Node : p # n => wk1[p] = wk[p]
  BY DEF Typed
<1>2. Assembling(wk, nt, n) /\ Surrounded(wk, qu, nt, n)
  BY DEF Consistent, QuorumsHeld, WritePhases
<1>3. m.type = "NodeLockResponse" /\ m.ok /\ m \in NodeMessage /\ m.src \in Node
  BY DEF OkLockResponse, Typed, NodeMessage
<1>4. /\ m.src \in Members(wk[n]) /\ wk[n].members[m.src].type = "NodeLockRequestNoTimeout"
      /\ Holds(wk, m.src, n)
  BY <1>2, <1>3 DEF Assembling, Surrounded, RequestKinds
<1>5. w.mode = "assemblingQuorum" /\ w.req = wk[n].req /\ w.waiting = wk[n].waiting - 1
      /\ w.members = [wk[n].members EXCEPT ![m.src] = one]
  BY DEF Counted
<1>6. wk[n].members \in [Node -> Answer]
  BY DEF Typed, Work, Complete
<1> HIDE DEF w, wk1
<1>7. \A p \in Node : w.members[p] = IF p = m.src THEN one ELSE wk[n].members[p]
  BY <1>5, <1>6
<1>8. one.type = "NodeLockResponse" /\ one # NoAnswer
  BY <1>3 DEF NoAnswer
<1> HIDE DEF one
<1>9. Members(w) = Members(wk[n])
  BY <1>4, <1>7, <1>8 DEF Members
<1>10. Asked(w) = Asked(wk[n]) \ {m.src} /\ m.src \in Asked(wk[n])
  BY <1>3, <1>4, <1>7, <1>8 DEF Asked
<1>11. w.waiting = Cardinality(Asked(w))
  <2>1. IsFiniteSet(Asked(wk[n]))
    BY NodeAssumption, FS_Subset DEF Asked
  <2>2. Cardinality(Asked(w)) = Cardinality(Asked(wk[n])) - 1
    BY <1>10, <2>1, FS_RemoveElement
  <2>3. wk[n].waiting = Cardinality(Asked(wk[n]))
    BY <1>2 DEF Assembling
  <2>4. QED
    BY <1>5, <2>2, <2>3
<1>12. \A p \in Node : Holds(wk1, p, n) <=> Holds(wk, p, n)
  BY <1>1, <1>5 DEF Holds
<1>13. ASSUME NEW x \in nt1, x.id = w.req.id, OkLockResponse(x)
       PROVE  Holds(wk, x.src, n) /\ w.members[x.src].type # "NodeLockResponse"
  <2>1. x \in NodeMessage /\ x \in nt /\ x # m
    BY <1>13 DEF Typed
  <2>2. /\ Holds(wk, x.src, n) /\ wk[n].members[x.src].type # "NodeLockResponse"
        /\ x.dest = n /\ m.dest = n
    BY <1>2, <1>3, <1>5, <1>13, <2>1 DEF Assembling, Surrounded, RequestKinds, OkLockResponse
  <2>3. x.ts = 0 /\ x.val = 0 /\ m.ts = 0 /\ m.val = 0
    BY <1>3, <1>13, <2>1 DEF Consistent, BareLockResponses, OkLockResponse
  <2>4. x.src # m.src
    BY <1>3, <1>5, <1>13, <2>1, <2>2, <2>3 DEF NodeMessage, OkLockResponse
  <2>5. x.src \in Node
    BY <2>1 DEF NodeMessage
  <2>6. QED
    BY <1>7, <2>2, <2>4, <2>5
<1>14. Assembling(wk1, nt1, n)
  <2>1. \A p \in Members(w) :
          /\ w.members[p].type \in {"NodeLockRequestNoTimeout", "NodeLockResponse"}
          /\ w.members[p].type = "NodeLockResponse" => Holds(wk1, p, n)
    BY <1>2, <1>4, <1>7, <1>8, <1>9, <1>12 DEF Assembling, Members
  <2>2. \A x \in nt1 : x.src \in Node
    BY DEF Typed, NodeMessage
  <2>3. QED
    BY <1>1, <1>11, <1>12, <1>13, <2>1, <2>2 DEF Assembling
<1>15. Typed(wk, qu, nt1, is) /\ Consistent(wk, qu, nt1, is)
  BY LoseMessages DEF Typed
<1>16. Consistent(wk1, qu, nt1, is)
  <2> HIDE DEF nt1
  <2>1. w.mode \in WritePhases /\ wk[n].mode \in WritePhases
    BY <1>5 DEF WritePhases
  <2>2. wk1 = [wk EXCEPT ![n] = w]
    BY DEF wk1
  <2>3. QED
    BY <1>5, <1>9, <1>14, <1>15, <2>1, <2>2, GoOn DEF Coordinating
<1>17. QED
  BY <1>16 DEF wk1, w

\* The last lock: from now on the whole quorum is held.
LEMMA LastLock ==
  ASSUME NEW wk, NEW qu, NEW nt, NEW is, Typed(wk, qu, nt, is), Consistent(wk, qu, nt, is),
         NEW n \in Node, wk[n].mode = "assemblingQuorum", wk[n].waiting = 0,
         NEW step, NEW ts
  PROVE  Consistent([wk EXCEPT ![n] = Awaiting(wk[n], step, ts)], qu, nt, is)
<1> DEFINE w == Awaiting(wk[n], step, ts)
           wk1 == [wk EXCEPT ![n] = w]
<1>1. wk1[n] = w /\ \A p \in Node : p # n => wk1[p] = wk[p]
  BY DEF Typed
<1>2. w.mode = "coordinatingWrite" /\ w.req = wk[n].req /\ w.members = wk[n].members
  BY DEF Awaiting
<1> HIDE DEF w, wk1
<1>3. Assembling(wk, nt, n) /\ Surrounded(wk, qu, nt, n)
  BY DEF Consistent, QuorumsHeld, WritePhases
<1>4. Asked(wk[n]) = {}
  <2>1. IsFiniteSet(Asked(wk[n]))
    BY NodeAssumption, FS_Subset DEF Asked
  <2>2. QED
    BY <1>3, <2>1, FS_EmptySet DEF Assembling
<1>5. \A p \in Members(wk[n]) : wk[n].members[p].type = "NodeLockResponse"
  BY <1>3, <1>4 DEF Assembling, Asked, Members
<1>6. \A p \in Node : Holds(wk1, p, n) <=> Holds(wk, p, n)
  BY <1>1, <1>2 DEF Holds
<1>7. Members(w) = Members(wk[n])
  BY <1>2 DEF Members
<1>8. Locked(wk1, nt, n)
  <2>1. \A p \in Members(w) : Holds(wk1, p, n)
    BY <1>3, <1>5, <1>6, <1>7 DEF Assembling, Members
  <2>2. \A m \in nt : m.id = w.req.id => ~OkLockResponse(m)
    BY <1>2, <1>3, <1>5 DEF Assembling, Surrounded, OkLockResponse, RequestKinds
  <2>3. QED
    BY <1>1, <2>1, <2>2 DEF Locked
<1>9. w.mode \in Coordinating /\ wk[n].mode \in Coordinating /\ wk[n].mode \in WritePhases
  BY <1>2 DEF Coordinating, WritePhases
<1>10. Consistent(wk1, qu, nt, is)
  <2>1. wk1 = [wk EXCEPT ![n] = w]
    BY DEF wk1
  <2>2. QED
    BY <1>2, <1>7, <1>8, <1>9, <2>1, GoOn
<1>11. QED
  BY <1>10 DEF wk1, w

\* A coordinator, whose record is w, sends one more request to its whole quorum.
LEMMA AskQuorum ==
  ASSUME NEW wk, NEW qu, NEW nt, NEW is, Typed(wk, qu, nt, is), Consistent(wk, qu, nt, is),
         NEW n \in Node, wk[n].mode = "coordinatingWrite",
         NEW type \in {"NodeTimestampRequest", "NodePutRequest"}, NEW v \in Version,
         NEW w, Members(w) = Members(wk[n]), w.req = wk[n].req
  PROVE  Consistent(wk, qu, nt \cup ToMembers(type, n, w, v, TRUE), is)
<1>1. wk[n].req.id \in Txn /\ type \in NodeKinds /\ type \in RequestKinds
  BY DEF Typed, Work, Complete, ClientMessage, Coordinating, WritePhases, NodeKinds, RequestKinds
<1>2. Started(qu, is, wk[n].req.id)
  BY <1>1, WorkStarted DEF Consistent
<1>3. \A c \in Node : wk[c].mode \in WritePhases /\ wk[c].req.id = wk[n].req.id => c = n
  BY DEF Consistent, OneCoordinator, Coordinating, WritePhases
<1>4. ASSUME NEW u \in ToMembers(type, n, w, v, TRUE) PROVE Welcome(wk, qu, is, u)
  <2>1. PICK m \in Members(wk[n]) : u = Mail(type, wk[n].req.id, n, m, v, TRUE)
    BY DEF ToMembers
  <2>2. u \in NodeMessage
    BY <1>1, <2>1 DEF Mail, NodeMessage, Version, Members
  <2>3. u.type = type /\ u.id = wk[n].req.id /\ u.src = n /\ u.dest = m
    BY <2>1 DEF Mail
  <2>4. QED
    BY <1>1, <1>2, <1>3, <2>1, <2>2, <2>3 DEF Welcome
<1>5. QED
  BY <1>4, Send

\* A quorum that is held stays held in the next phase of its coordinator.
LEMMA StayLocked ==
  ASSUME NEW wk, NEW qu, NEW nt, NEW is, Typed(wk, qu, nt, is), Consistent(wk, qu, nt, is),
         NEW n \in Node, wk[n].mode \in {"coordinatingWrite", "coordinatingFastRead"},
         NEW w, w.mode = wk[n].mode, w.req = wk[n].req,
         w.mode = "coordinatingWrite" => Members(w) = Members(wk[n])
  PROVE  Consistent([wk EXCEPT ![n] = w], qu, nt, is)
<1> DEFINE wk1 == [wk EXCEPT ![n] = w]
<1>1. wk1[n] = w /\ \A p \in Node : p # n => wk1[p] = wk[p]
  BY DEF Typed
<1>2. wk1 = [wk EXCEPT ![n] = w]
  OBVIOUS
<1> HIDE DEF wk1
<1>3. /\ w.mode \in Coordinating /\ wk[n].mode \in Coordinating /\ w.mode # "assemblingQuorum"
      /\ w.mode \in WritePhases => w.mode = "coordinatingWrite"
  BY DEF Coordinating, WritePhases
<1>4. w.mode = "coordinatingWrite" => Locked(wk1, nt, n)
  <2>1. ASSUME w.mode = "coordinatingWrite" PROVE Locked(wk1, nt, n)
    <3>1. Locked(wk, nt, n)
      BY <2>1 DEF Consistent, QuorumsHeld
    <3>2. \A m \in Node : Holds(wk, m, n) => Holds(wk1, m, n)
      BY <1>1, <2>1 DEF Holds
    <3>3. QED
      BY <1>1, <2>1, <3>1, <3>2 DEF Locked, Members
  <2>2. QED
    BY <2>1
<1>5. Consistent(wk1, qu, nt, is)
  BY <1>2, <1>3, <1>4, GoOn
<1>6. QED
  BY <1>5 DEF wk1

LEMMA AbortConsistent ==
  ASSUME HandledOK, NEW n \in Node, NEW w, NEW ts, NEW net \in SUBSET NodeMessage,
         NEW is \in SUBSET Txn, NEW wk, wk = [work EXCEPT ![n] = w],
         Typed(wk, queue, net, is), Consistent(wk, queue, net, is),
         w.mode \in Coordinating, Abort(n, w, ts, net)
  PROVE  Consistent(work', queue', network', is)
<1>1. wk[n] = w /\ [wk EXCEPT ![n] = Idle] = [work EXCEPT ![n] = Idle]
  BY DEF HandledOK
<1>2. Consistent([work EXCEPT ![n] = Idle], queue, net \cup Unlocks(n, w, FALSE), is)
  BY <1>1, Quit
<1>3. w.req.id \in Txn
  BY <1>1 DEF Typed, Work, Complete, ClientMessage
<1>4. (net \cup Unlocks(n, w, FALSE)) \in SUBSET NodeMessage
  BY <1>3, UnlocksType
<1>5. QED
  BY <1>2, <1>4, IdleType, ProceedConsistent DEF Abort

\* continueProcessing, once the last answer is counted in the record w.
LEMMA ContinueConsistent ==
  ASSUME HandledOK, NEW n \in Node, NEW w \in Complete, NEW net \in SUBSET NodeMessage,
         NEW is \in SUBSET Txn, NEW wk, wk = [work EXCEPT ![n] = w],
         Typed(wk, queue, net, is), Consistent(wk, queue, net, is),
         w.waiting = 0, ContinueProcessing(n, w, net)
  PROVE  Consistent(work', queue', network', is)
<1>1. wk[n] = w /\ \A x : [wk EXCEPT ![n] = x] = [work EXCEPT ![n] = x]
  BY DEF HandledOK
<1>2. /\ w.mode \in Coordinating /\ w.req \in ClientMessage /\ w.req.id \in Txn
      /\ w.timed \in BOOLEAN /\ w.members \in [Node -> Answer]
  BY DEF Complete, ClientMessage
<1>3. CASE FinishRead(n, w, net)
  <2>1. Consistent([wk EXCEPT ![n] = Idle], queue, net, is)
    <3>1. \A c \in Node \ {n} : wk[c].mode \in WritePhases => wk[c].req.id # wk[n].req.id
      BY <1>1, <1>2 DEF Consistent, OneCoordinator, Coordinating
    <3>2. QED
      BY <3>1, Forget
  <2>2. Proceed(n, Idle, net)
    BY <1>3 DEF FinishRead
  <2>3. QED
    BY <1>1, <2>1, <2>2, IdleType, ProceedConsistent
<1>4. CASE AskTimestamps(n, w, net)
  <2> DEFINE x == Awaiting(w, "NodePutRequest", 0)
             wk1 == [wk EXCEPT ![n] = x]
             asks == ToMembers("NodeTimestampRequest", n, w, NoVersion, TRUE)
  <2>1. x \in Work /\ x.mode = "coordinatingWrite" /\ x.req = w.req /\ x.members = w.members
    <3>1. x \in Work
      BY <1>2, AwaitingType DEF Steps
    <3>2. QED
      BY <3>1 DEF Awaiting
  <2>2. Consistent(wk1, queue, net, is)
    <3>1. wk[n].mode = "assemblingQuorum" /\ wk[n].waiting = 0
      BY <1>1, <1>4 DEF AskTimestamps
    <3>2. Consistent([wk EXCEPT ![n] = Awaiting(wk[n], "NodePutRequest", 0)], queue, net, is)
      BY <3>1, LastLock
    <3>3. Awaiting(wk[n], "NodePutRequest", 0) = x
      BY <1>1
    <3>4. QED
      BY <3>2, <3>3
  <2>3. Typed(wk1, queue, net, is) /\ wk1[n] = x
    BY <2>1 DEF Typed
  <2>4. wk1 = [work EXCEPT ![n] = x]
    BY <1>1
  <2>5. Proceed(n, x, net \cup asks)
    BY <1>4 DEF AskTimestamps
  <2> HIDE DEF x, wk1
  <2>6. Consistent(wk1, queue, net \cup asks, is)
    BY <2>1, <2>2, <2>3, AskQuorum, NoVersionType DEF Members
  <2>7. (net \cup asks) \in SUBSET NodeMessage
    BY <1>2, ToMembersType, NoVersionType DEF NodeKinds
  <2> HIDE DEF asks
  <2>8. QED
    BY <2>1, <2>4, <2>5, <2>6, <2>7, ProceedConsistent
<1>5. CASE Stage(n, w, net)
  <2>1. PICK latest \in {store[n].ts} \cup {w.members[m].ts : m \in Members(w)} :
          LET v == [ts |-> latest + 1, val |-> w.req.id] IN
          \/ Abort(n, w, v.ts, net)
          \/ Proceed(n, Awaiting(w, "NodeUnlockRequest", v.ts),
                     net \cup ToMembers("NodePutRequest", n, w, v, TRUE))
    BY <1>5 DEF Stage
  <2> DEFINE v == [ts |-> latest + 1, val |-> w.req.id]
             x == Awaiting(w, "NodeUnlockRequest", v.ts)
             wk1 == [wk EXCEPT ![n] = x]
             puts == ToMembers("NodePutRequest", n, w, v, TRUE)
  <2>2. latest \in Nat
    BY <1>2, <2>1 DEF HandledOK, Version, Answer, Members
  <2>3. v.ts \in Nat /\ v \in Version
    BY <1>2, <2>2 DEF Version
  <2> HIDE DEF v
  <2>4. CASE Abort(n, w, v.ts, net)
    BY <1>2, <2>4, AbortConsistent
  <2>5. CASE Proceed(n, x, net \cup puts)
    <3>1. x \in Work /\ x.mode = "coordinatingWrite" /\ x.req = w.req /\ x.members = w.members
      <4>1. x \in Work
        BY <1>2, <2>3, AwaitingType DEF Steps
      <4>2. QED
        BY <4>1 DEF Awaiting
    <3>2. w.mode = "coordinatingWrite"
      BY <1>5 DEF Stage
    <3> HIDE DEF x
    <3>3. Consistent(wk1, queue, net, is)
      <4>1. /\ wk[n].mode \in {"coordinatingWrite", "coordinatingFastRead"}
            /\ x.mode = wk[n].mode /\ x.req = wk[n].req /\ Members(x) = Members(wk[n])
        BY <1>1, <3>1, <3>2 DEF Members
      <4>2. QED
        BY <4>1, StayLocked
    <3>4. Typed(wk1, queue, net, is) /\ wk1[n] = x
      BY <3>1 DEF Typed
    <3>5. wk1 = [work EXCEPT ![n] = x]
      BY <1>1
    <3> HIDE DEF wk1
    <3>6. Consistent(wk1, queue, net \cup puts, is)
      BY <2>3, <3>1, <3>3, <3>4, AskQuorum DEF Members
    <3>7. (net \cup puts) \in SUBSET NodeMessage
      BY <1>2, <2>3, ToMembersType DEF NodeKinds
    <3> HIDE DEF puts
    <3>8. QED
      BY <2>5, <3>1, <3>5, <3>6, <3>7, ProceedConsistent
  <2>6. QED
    BY <2>1, <2>4, <2>5 DEF v
<1>6. CASE Commit(n, w, net)
  <2>1. Consistent([wk EXCEPT ![n] = Idle], queue, net \cup Unlocks(n, w, TRUE), is)
    BY <1>1, <1>2, Quit
  <2>2. (net \cup Unlocks(n, w, TRUE)) \in SUBSET NodeMessage
    BY <1>2, UnlocksType
  <2>3. Proceed(n, Idle, net \cup Unlocks(n, w, TRUE))
    BY <1>6 DEF Commit
  <2>4. QED
    BY <1>1, <2>1, <2>2, <2>3, IdleType, ProceedConsistent
<1>7. QED
  BY <1>3, <1>4, <1>5, <1>6 DEF ContinueProcessing

-----------------------------------------------------------------------------
(* The handlers *)

LEMMA CollectConsistent ==
  ASSUME HandledOK, NEW n \in Node, NEW m \in network,
         NEW net \in {network, network \ {m}}, NEW is \in SUBSET Txn,
         Consistent(work, queue, network, is), m.id = work[n].req.id,
         \/ /\ work[n].mode = "assemblingQuorum" /\ m.type = "NodeLockResponse"
            /\ net = network \ {m}
         \/ /\ work[n].mode \in {"coordinatingWrite", "coordinatingFastRead"}
            /\ m.type \in {"NodeGetResponse", "NodePutResponse"},
         Collect(n, m, net)
  PROVE  Consistent(work', queue', network', is)
<1> DEFINE w == Counted(work[n], m)
           wk1 == [work EXCEPT ![n] = w]
<1>1. /\ Typed(work, queue, network, is) /\ Typed(work, queue, net, is)
      /\ net \in SUBSET NodeMessage /\ work[n] \in Work /\ m \in NodeMessage
  BY DEF Typed, HandledOK
<1>2. Consistent(work, queue, net, is)
  BY LoseMessages
<1>3. [work EXCEPT ![n] = work[n]] = work
  BY DEF HandledOK
<1>4. work[n].mode \in Coordinating
  BY DEF Coordinating, WritePhases
<1>5. w \in Complete /\ (w.waiting # 0 => w \in Work)
  BY <1>1, <1>4, CountedType DEF Complete
<1>6. w.mode = work[n].mode /\ w.req = work[n].req
  BY DEF Counted
<1>7. ASSUME m.ok PROVE Consistent(wk1, queue, net, is)
  <2>1. CASE work[n].mode = "assemblingQuorum"
    <3>1. OkLockResponse(m) /\ net = network \ {m}
      BY <1>7, <2>1 DEF OkLockResponse
    <3>2. QED
      BY <1>1, <2>1, <3>1, CountLock
  <2>2. CASE work[n].mode \in {"coordinatingWrite", "coordinatingFastRead"}
    <3>1. ASSUME work[n].mode = "coordinatingWrite" PROVE Members(w) = Members(work[n])
      <4>1. Surrounded(work, queue, network, n)
        BY <3>1 DEF Consistent, QuorumsHeld, WritePhases
      <4>2. m.src \in Members(work[n])
        BY <2>2, <4>1 DEF Surrounded, RequestKinds
      <4> DEFINE one == [type |-> m.type, ts |-> m.ts, val |-> m.val]
      <4>3. one # NoAnswer
        BY <2>2 DEF NoAnswer
      <4> HIDE DEF one
      <4>4. w.members = [work[n].members EXCEPT ![m.src] = one]
        BY DEF Counted, one
      <4>5. work[n].members \in [Node -> Answer]
        BY <1>1 DEF Work
      <4>6. QED
        BY <4>2, <4>3, <4>4, <4>5 DEF Members
    <3> HIDE DEF w
    <3>2. QED
      BY <1>1, <1>2, <1>6, <2>2, <3>1, StayLocked
  <2>3. QED
    BY <2>1, <2>2
<1>8. CASE ~m.ok /\ Abort(n, work[n], work[n].req.ts, net)
  BY <1>1, <1>2, <1>3, <1>4, <1>8, AbortConsistent
<1>9. CASE Proceed(n, work[n], net)
  BY <1>1, <1>2, <1>3, <1>9, ProceedConsistent
<1>10. CASE m.ok /\ w.waiting # 0 /\ Proceed(n, w, net)
  BY <1>1, <1>5, <1>7, <1>10, ProceedConsistent
<1>11. CASE m.ok /\ w.waiting = 0 /\ ContinueProcessing(n, w, net)
  <2> HIDE DEF w
  <2>1. Typed(wk1, queue, net, is)
    BY <1>1, <1>5 DEF Typed
  <2>2. QED
    BY <1>1, <1>5, <1>7, <1>11, <2>1, ContinueConsistent
<1>12. QED
  BY <1>8, <1>9, <1>10, <1>11 DEF Collect

\* A node answers a request with r, and does not change what it works on.
LEMMA AnswerConsistent ==
  ASSUME HandledOK, NEW n \in Node, NEW m \in network,
         NEW net \in {network, network \ {m}}, NEW is \in SUBSET Txn,
         Consistent(work, queue, network, is), m.type \in RequestKinds, m.dest = n,
         NEW r \in NodeMessage, r.type \in {"NodeGetResponse", "NodePutResponse"},
         r.id = m.id, r.src = n, r.dest = m.src,
         Proceed(n, work[n], net \cup {r})
  PROVE  Consistent(work', queue', network', is)
<1>1. /\ Typed(work, queue, network, is) /\ Typed(work, queue, net, is)
      /\ net \in SUBSET NodeMessage /\ work[n] \in Work
  BY DEF Typed, HandledOK
<1>2. Consistent(work, queue, net, is)
  BY LoseMessages
<1>3. Started(queue, is, m.id)
  BY <1>1, MessageStarted DEF Consistent
<1>4. ASSUME NEW c \in Node, work[c].mode \in WritePhases, work[c].req.id = m.id
      PROVE  m.src = c /\ n \in Members(work[c])
  BY <1>4 DEF Consistent, QuorumsHeld, Surrounded
<1>5. Welcome(work, queue, is, r)
  BY <1>3, <1>4 DEF Welcome, RequestKinds
<1>6. Consistent(work, queue, net \cup {r}, is)
  BY <1>1, <1>2, <1>5, Send
<1>7. [work EXCEPT ![n] = work[n]] = work
  BY DEF HandledOK
<1>8. QED
  BY <1>1, <1>6, <1>7, ProceedConsistent

LEMMA LockRequestConsistent ==
  ASSUME HandledOK, NEW n \in Node, NEW m \in network,
         NEW net \in {network, network \ {m}}, NEW is \in SUBSET Txn,
         Consistent(work, queue, network, is), m.dest = n,
         overwrites \in Nat, overwrites' = 0, LockRequest(n, m, net)
  PROVE  Consistent(work', queue', network', is)
<1> DEFINE q == Append(queue[n], Entry(m))
<1>1. /\ Typed(work, queue, net, is) /\ net \in SUBSET NodeMessage /\ m \in NodeMessage
      /\ Typed(work, queue, network, is)
      /\ m.type = "NodeLockRequestNoTimeout"
      /\ work[n] \in Work /\ queue[n] \in Seq(Queued)
  BY DEF Typed, HandledOK, LockRequest
<1>2. Consistent(work, queue, net, is)
  BY LoseMessages
<1>3. Entry(m) \in Queued /\ Entry(m).msg = m
  BY <1>1 DEF Entry, Queued
<1>4. MayWait(work, queue, net, is, n, m)
  <2>1. ~FromClient(m) /\ Started(queue, is, m.id)
    BY <1>1, MessageStarted DEF Consistent, FromClient, ClientKinds, WriteKinds
  <2>2. ASSUME NEW c \in Node, work[c].mode \in WritePhases, work[c].req.id = m.id
        PROVE  m.src = c /\ n \in Members(work[c])
    BY <1>1, <2>2 DEF Consistent, QuorumsHeld, Surrounded, RequestKinds
  <2>3. QED
    BY <2>1, <2>2 DEF MayWait, Started
<1>5. Consistent(work, [queue EXCEPT ![n] = q], net, is)
  BY <1>1, <1>2, <1>3, <1>4, Wait
<1>6. q \in Seq(Queued)
  BY <1>1, <1>3, AppendProperties
<1>7. EndLoop(n, work[n], q, unlocked[n], net)
  <2> DEFINE held == IF work[n].mode = "idle" /\ queue[n] # <<>>
                     THEN Head(queue[n]).msg ELSE m
  <2>1. /\ EndLoop(n, work[n], Append(queue[n], Entry(held)), unlocked[n], net)
        /\ \/ held = m
           \/ overwrites' = overwrites + 1
    BY DEF LockRequest, Enqueue
  <2> HIDE DEF held
  <2>2. overwrites' # overwrites + 1
    OBVIOUS
  <2>3. QED
    BY <2>1, <2>2
<1>8. [work EXCEPT ![n] = work[n]] = work
  BY DEF HandledOK
<1> HIDE DEF q
<1>9. QED
  BY <1>1, <1>5, <1>6, <1>7, <1>8, EndLoopConsistent, ZenonT(40) DEF HandledOK

LEMMA LockResponseConsistent ==
  ASSUME HandledOK, NEW n \in Node, NEW m \in network, NEW net, net = network \ {m},
         NEW is \in SUBSET Txn,
         Consistent(work, queue, network, is), m.dest = n, LockResponse(n, m, net)
  PROVE  Consistent(work', queue', network', is)
<1>1. /\ Typed(work, queue, network, is) /\ Typed(work, queue, net, is)
      /\ net \in SUBSET NodeMessage /\ m \in NodeMessage
      /\ work[n] \in Work /\ m.type = "NodeLockResponse"
  BY DEF Typed, HandledOK, LockResponse
<1>2. CASE work[n].req.id = m.id /\ work[n].mode = "assemblingQuorum" /\ Collect(n, m, net)
  BY <1>1, <1>2, CollectConsistent
<1>3. CASE /\ work[n].req.id # m.id \/ work[n].mode # "assemblingQuorum"
           /\ Proceed(n, work[n], net \cup Unlock(m, n))
  <2>1. Consistent(work, queue, net, is)
    BY LoseMessages
  <2>2. Started(queue, is, m.id)
    BY <1>1, MessageStarted DEF Consistent
  <2>3. ASSUME m.ok, NEW c \in Node, work[c].mode \in WritePhases, work[c].req.id = m.id
        PROVE  FALSE
    <3>1. c = n
      BY <1>1, <2>3 DEF Consistent, QuorumsHeld, Surrounded, RequestKinds
    <3>2. work[n].mode = "coordinatingWrite"
      BY <1>3, <2>3, <3>1 DEF WritePhases
    <3>3. QED
      BY <1>1, <2>3, <3>1, <3>2 DEF Consistent, QuorumsHeld, Locked, OkLockResponse
  <2>4. ASSUME NEW u \in Unlock(m, n) PROVE Welcome(work, queue, is, u)
    <3>1. m.ok /\ u = Mail("NodeUnlockRequest", m.id, n, m.src, NoVersion, FALSE)
      BY DEF Unlock
    <3>2. u \in NodeMessage /\ u.type = "NodeUnlockRequest" /\ u.id = m.id
      BY <1>1, <3>1 DEF Mail, NodeMessage, NodeKinds, NoVersion
    <3>3. QED
      BY <2>2, <2>3, <3>1, <3>2 DEF Welcome
  <2>5. Consistent(work, queue, net \cup Unlock(m, n), is)
    BY <1>1, <2>1, <2>4, Send
  <2>6. (net \cup Unlock(m, n)) \in SUBSET NodeMessage
    BY <1>1, <2>4 DEF Welcome
  <2>7. [work EXCEPT ![n] = work[n]] = work
    BY DEF HandledOK
  <2>8. QED
    BY <1>1, <1>3, <2>5, <2>6, <2>7, ProceedConsistent
<1>4. QED
  BY <1>2, <1>3 DEF LockResponse

LEMMA UnlockRequestConsistent ==
  ASSUME HandledOK, NEW n \in Node, NEW m \in network,
         NEW net \in {network, network \ {m}}, NEW is \in SUBSET Txn,
         Consistent(work, queue, network, is), UnlockRequest(n, m, net)
  PROVE  Consistent(work', queue', network', is)
<1>1. /\ Typed(work, queue, net, is) /\ net \in SUBSET NodeMessage
      /\ work[n] \in Work /\ queue[n] \in Seq(Queued) /\ m.type = "NodeUnlockRequest"
  BY DEF Typed, HandledOK, UnlockRequest
<1>2. Consistent(work, queue, net, is)
  BY LoseMessages
<1> DEFINE w == IF work[n].req.id = m.id THEN Idle ELSE work[n]
<1>3. EndLoop(n, w, queue[n], unlocked'[n], net)
  BY DEF UnlockRequest
<1>4. Consistent([work EXCEPT ![n] = w], queue, net, is)
  <2>1. CASE work[n].req.id = m.id
    <3>1. \A c \in Node \ {n} : work[c].mode \in WritePhases => work[c].req.id # work[n].req.id
      BY <1>1, <2>1 DEF Consistent, QuorumsHeld, Surrounded
    <3>2. QED
      BY <1>1, <1>2, <2>1, <3>1, Forget
  <2>2. CASE work[n].req.id # m.id
    <3>1. [work EXCEPT ![n] = w] = work
      BY <2>2 DEF HandledOK
    <3>2. QED
      BY <1>2, <3>1
  <2>3. QED
    BY <2>1, <2>2
<1>5. w \in Work
  BY <1>1, IdleType
<1>6. [queue EXCEPT ![n] = queue[n]] = queue
  BY DEF HandledOK
<1> HIDE DEF w
<1>7. QED
  BY <1>1, <1>3, <1>4, <1>5, <1>6, EndLoopConsistent DEF HandledOK

LEMMA RequestConsistent ==
  ASSUME HandledOK, NEW n \in Node, NEW m \in network,
         NEW net \in {network, network \ {m}}, NEW is \in SUBSET Txn,
         Consistent(work, queue, network, is), m.dest = n,
         GetRequest(n, m, net) \/ TimestampRequest(n, m, net) \/ PutRequest(n, m, net)
  PROVE  Consistent(work', queue', network', is)
<1>1. m \in NodeMessage /\ store[n] \in Version
  BY DEF HandledOK
<1>2. \E type \in {"NodeGetResponse", "NodePutResponse"}, v \in Version, ok \in BOOLEAN :
        Proceed(n, work[n], net \cup {Mail(type, m.id, n, m.src, v, ok)})
  <2>1. CASE GetRequest(n, m, net)
    <3>1. (IF staged[n] = NoVersion THEN store[n] ELSE NoVersion) \in Version
          /\ (staged[n] = NoVersion) \in BOOLEAN
      BY <1>1, NoVersionType
    <3>2. Proceed(n, work[n], net \cup {Mail("NodeGetResponse", m.id, n, m.src,
                    IF staged[n] = NoVersion THEN store[n] ELSE NoVersion,
                    staged[n] = NoVersion)})
      BY <2>1 DEF GetRequest
    <3>3. QED
      BY <3>1, <3>2
  <2>2. CASE TimestampRequest(n, m, net)
    <3> DEFINE held == work[n].mode = "processingWrite" /\ work[n].req.id = m.id
               v == [ts |-> IF held THEN store[n].ts ELSE 0, val |-> 0]
    <3>1. v \in Version
      BY <1>1 DEF Version
    <3>2. Proceed(n, work[n], net \cup {Mail("NodeGetResponse", m.id, n, m.src, v, TRUE)})
      BY <2>2 DEF TimestampRequest
    <3> HIDE DEF v
    <3>3. QED
      BY <3>1, <3>2
  <2>3. CASE PutRequest(n, m, net)
    <3> DEFINE held == work[n].mode = "processingWrite" /\ work[n].req.id = m.id
               v == [ts |-> m.ts, val |-> m.val]
    <3>1. v \in Version /\ held \in BOOLEAN
      BY <1>1 DEF Version, NodeMessage
    <3>2. Proceed(n, work[n], net \cup {Mail("NodePutResponse", m.id, n, m.src, v, held)})
      BY <2>3 DEF PutRequest
    <3> HIDE DEF v, held
    <3>3. QED
      BY <3>1, <3>2
  <2>4. QED
    BY <2>1, <2>2, <2>3
<1>3. PICK type \in {"NodeGetResponse", "NodePutResponse"}, v \in Version, ok \in BOOLEAN :
        Proceed(n, work[n], net \cup {Mail(type, m.id, n, m.src, v, ok)})
  BY <1>2
<1> DEFINE r == Mail(type, m.id, n, m.src, v, ok)
<1>4. r \in NodeMessage /\ r.type = type /\ r.id = m.id /\ r.src = n /\ r.dest = m.src
  BY <1>1, <1>3 DEF Mail, NodeMessage, NodeKinds, Version
<1>5. m.type \in RequestKinds
  BY DEF GetRequest, TimestampRequest, PutRequest, RequestKinds
<1> HIDE DEF r
<1>6. Proceed(n, work[n], net \cup {r})
  BY <1>3 DEF r
<1>7. QED
  BY <1>3, <1>4, <1>5, <1>6, AnswerConsistent

LEMMA ResponseConsistent ==
  ASSUME HandledOK, NEW n \in Node, NEW m \in network,
         NEW net \in {network, network \ {m}}, NEW is \in SUBSET Txn,
         Consistent(work, queue, network, is),
         GetResponse(n, m, net) \/ PutResponse(n, m, net)
  PROVE  Consistent(work', queue', network', is)
<1>1. /\ m.type \in {"NodeGetResponse", "NodePutResponse"}
      /\ \/ /\ m.id = work[n].req.id /\ Collect(n, m, net)
            /\ work[n].mode \in {"coordinatingWrite", "coordinatingFastRead"}
         \/ Proceed(n, work[n], net)
  BY DEF GetResponse, PutResponse
<1>2. CASE /\ m.id = work[n].req.id /\ Collect(n, m, net)
           /\ work[n].mode \in {"coordinatingWrite", "coordinatingFastRead"}
  BY <1>1, <1>2, CollectConsistent
<1>3. CASE Proceed(n, work[n], net)
  <2>1. Consistent(work, queue, net, is)
    BY LoseMessages
  <2>2. /\ [work EXCEPT ![n] = work[n]] = work /\ work[n] \in Work
        /\ net \in SUBSET NodeMessage
    BY DEF HandledOK
  <2>3. QED
    BY <1>3, <2>1, <2>2, ProceedConsistent
<1>4. QED
  BY <1>1, <1>2, <1>3

-----------------------------------------------------------------------------
(* The actions *)

\* What the invariant says of an undisturbed state.
Calm == /\ HandledOK /\ RestOK /\ issued \in SUBSET Txn /\ Undisturbed
        /\ \A n \in Node : ~down[n]
        /\ Typed(work, queue, network, issued)
        /\ Consistent(work, queue, network, issued)

LEMMA CalmHolds ==
  ASSUME IInv, Undisturbed
  PROVE  Calm
<1>1. HandledOK /\ RestOK
  BY TypeParts DEF IInv
<1>2. QED
  BY <1>1 DEF IInv, Calm, Typed, HandledOK, RestOK

LEMMA DeliverConsistent ==
  ASSUME Calm, overwrites' = 0, NEW m \in network, NEW net \in {network, network \ {m}},
         Deliver(m, net)
  PROVE  Consistent(work', queue', network', issued')
<1>1. HandledOK /\ Consistent(work, queue, network, issued) /\ m \in NodeMessage
      /\ m.dest \in Node /\ overwrites \in Nat /\ issued \in SUBSET Txn
  BY DEF Calm, HandledOK, RestOK, NodeMessage
<1>2. issued' = issued
  BY DEF Deliver
<1>3. m.type = "NodeLockResponse" => net = network \ {m}
  BY DEF Deliver, Receive
<1> DEFINE n == m.dest
<1>4. CASE LockRequest(n, m, net)
  BY <1>1, <1>2, <1>4, LockRequestConsistent
<1>5. CASE LockResponse(n, m, net)
  BY <1>1, <1>2, <1>3, <1>5, LockResponseConsistent DEF LockResponse
<1>6. CASE UnlockRequest(n, m, net)
  BY <1>1, <1>2, <1>6, UnlockRequestConsistent
<1>7. CASE GetRequest(n, m, net) \/ TimestampRequest(n, m, net) \/ PutRequest(n, m, net)
  BY <1>1, <1>2, <1>7, RequestConsistent
<1>8. CASE GetResponse(n, m, net) \/ PutResponse(n, m, net)
  BY <1>1, <1>2, <1>8, ResponseConsistent
<1>9. QED
  BY <1>4, <1>5, <1>6, <1>7, <1>8 DEF Deliver

LEMMA ClientConsistent ==
  ASSUME Calm, overwrites' = 0, NEW n \in Node, NEW t \in Txn,
         ClientRequest(n, t) \/ LocalRead(n, t)
  PROVE  Consistent(work', queue', network', issued')
<1> DEFINE is == issued \cup {t}
<1>1. /\ HandledOK /\ is \in SUBSET Txn /\ issued' = is /\ t \notin issued
      /\ overwrites \in Nat /\ network \in SUBSET NodeMessage
      /\ work[n] \in Work /\ queue[n] \in Seq(Queued)
  BY DEF Calm, RestOK, HandledOK, ClientRequest, LocalRead, Issue
<1>2. /\ Consistent(work, queue, network, is) /\ Typed(work, queue, network, is)
      /\ [work EXCEPT ![n] = work[n]] = work
  BY <1>1, LoseMessages DEF Calm, Typed, HandledOK
<1>3. NotStarted(work, network, t) /\ NeverQueued(queue, t)
  BY <1>1 DEF Calm, Consistent, UnissuedAbsent
<1>4. CASE LocalRead(n, t)
  BY <1>1, <1>2, <1>4, ProceedConsistent DEF LocalRead
<1>5. CASE ClientRequest(n, t)
  <2> DEFINE m == Request(t, n)
             q == Append(queue[n], Entry(m))
             held == IF work[n].mode = "idle" /\ queue[n] # <<>> THEN Head(queue[n]).msg ELSE m
  <2>1. Entry(m) \in Queued /\ Entry(m).msg = m /\ m.id = t
    <3>1. Entry(m) \in Queued
      BY <1>5, RequestType DEF ClientRequest
    <3>2. QED
      BY <3>1 DEF Entry, Request, Mail
  <2>2. FromClient(m)
    BY TxnAssumption DEF FromClient, Request, Mail
  <2> HIDE DEF m
  <2>3. MayWait(work, queue, network, is, n, m)
    BY <1>3, <2>1, <2>2 DEF MayWait, NotStarted
  <2>4. Consistent(work, [queue EXCEPT ![n] = q], network, is)
    BY <1>2, <2>1, <2>3, Wait
  <2>5. q \in Seq(Queued)
    BY <1>1, <2>1, AppendProperties
  <2>6. EndLoop(n, work[n], q, unlocked[n], network)
    <3>1. /\ EndLoop(n, work[n], Append(queue[n], Entry(held)), unlocked[n], network)
          /\ held = m \/ overwrites' = overwrites + 1
      BY <1>5 DEF ClientRequest, Enqueue, m
    <3> HIDE DEF held
    <3>2. overwrites' # overwrites + 1
      BY <1>1
    <3>3. QED
      BY <3>1, <3>2
  <2> HIDE DEF q
  <2>7. QED
    BY <1>1, <1>2, <2>4, <2>5, <2>6, EndLoopConsistent DEF HandledOK
<1>6. QED
  BY <1>4, <1>5

LEMMA TimerConsistent ==
  ASSUME Calm, NEW n \in Node, InternalTimer(n) \/ RequestTimeout(n)
  PROVE  Consistent(work', queue', network', issued')
<1>1. /\ HandledOK /\ network \in SUBSET NodeMessage /\ issued \in SUBSET Txn
      /\ work = [work EXCEPT ![n] = work[n]] /\ issued' = issued
      /\ Typed(work, queue, network, issued) /\ Consistent(work, queue, network, issued)
  BY DEF Calm, HandledOK, InternalTimer, RequestTimeout
<1>2. work[n].mode \in Coordinating
  BY DEF InternalTimer, RequestTimeout, Coordinating
<1>3. CASE InternalTimer(n)
  <2>1. Abort(n, work[n], work[n].req.ts, network)
    BY <1>3 DEF InternalTimer
  <2>2. QED
    BY <1>1, <1>2, <2>1, AbortConsistent
<1>4. CASE RequestTimeout(n)
  <2>1. Consistent([work EXCEPT ![n] = Idle], queue,
                   network \cup Unlocks(n, work[n], FALSE), issued)
    BY <1>1, <1>2, Quit
  <2>2. QED
    BY <1>1, <1>4, <2>1 DEF RequestTimeout
<1>5. QED
  BY <1>3, <1>4

LEMMA LoopConsistent ==
  ASSUME Calm, NEW n \in Node, Loop(n) \/ Elect(n)
  PROVE  Consistent(work', queue', network', issued')
<1>1. /\ HandledOK /\ network \in SUBSET NodeMessage /\ issued \in SUBSET Txn
      /\ work = [work EXCEPT ![n] = work[n]] /\ queue = [queue EXCEPT ![n] = queue[n]]
      /\ work[n] \in Work /\ queue[n] \in Seq(Queued)
      /\ Consistent(work, queue, network, issued)
  BY DEF Calm, HandledOK
<1>2. /\ \E done : EndLoop(n, work[n], queue[n], done, network)
      /\ issued' = issued
  BY DEF Loop, Elect, Proceed, others
<1>3. QED
  BY <1>1, <1>2, EndLoopConsistent DEF HandledOK

LEMMA QueueTimeoutConsistent ==
  ASSUME Calm, NEW n \in Node, NEW i \in DOMAIN queue[n], QueueTimeout(n, i)
  PROVE  Consistent(work', queue', network', issued')
<1> DEFINE req == queue[n][i].msg
           q == Without(queue[n], i)
           f == [j \in 1..Len(q) |-> IF j < i THEN j ELSE j + 1]
<1>1. /\ HandledOK /\ queue[n] \in Seq(Queued) /\ i \in 1..Len(queue[n])
      /\ queue[n][i] \in Queued /\ Len(queue[n]) \in Nat
      /\ Typed(work, queue, network, issued) /\ Consistent(work, queue, network, issued)
  BY DEF Calm, HandledOK
<1>2. q \in Seq(Queued) /\ Len(q) = Len(queue[n]) - 1
      /\ \A j \in 1..(Len(queue[n]) - 1) : q[j] = queue[n][IF j < i THEN j ELSE j + 1]
  BY <1>1, WithoutProperties
<1>3. queue' = [queue EXCEPT ![n] = q] /\ work' = work /\ issued' = issued
  BY <1>1 DEF QueueTimeout, Without, HandledOK, others
<1> HIDE DEF q
<1>4. f \in [1..Len(q) -> 1..Len(queue[n])] /\ \A j, k \in 1..Len(q) : f[j] = f[k] => j = k
  BY <1>1, <1>2
<1>5. \A j \in 1..Len(q) : q[j] = queue[n][f[j]]
  BY <1>2
<1> HIDE DEF f
<1>6. Consistent(work, queue', network, issued) /\ Typed(work, queue', network, issued)
  <2>1. Consistent(work, queue', network, issued)
    BY <1>1, <1>2, <1>3, <1>4, <1>5, LoseQueued
  <2>2. QED
    BY <1>1, <1>2, <1>3, <2>1 DEF Typed
<1>7. CASE network' = network
  BY <1>3, <1>6, <1>7
<1>8. CASE network' # network
  <2> DEFINE r == Mail("NodeLockResponse", req.id, n, req.src, NoVersion, FALSE)
  <2>1. network' = network \cup {r} /\ ~FromClient(req)
    BY <1>8 DEF QueueTimeout, FromClient
  <2>2. req \in NodeMessage
    BY <1>1, <2>1 DEF Queued, ClientMessage, FromClient
  <2>3. r \in NodeMessage /\ r.type = "NodeLockResponse" /\ r.id = req.id /\ r.src = n
        /\ r.dest = req.src /\ ~r.ok /\ r.ts = 0 /\ r.val = 0
    BY <2>2 DEF Mail, NodeMessage, NodeKinds, NoVersion
  <2>4. req.id \in issued
    BY <1>1, <2>2 DEF Consistent, UnissuedAbsent, NeverQueued, NodeMessage
  <2>5. ASSUME NEW p \in Node, NEW j \in 1..Len(queue'[p]), FromClient(queue'[p][j].msg)
        PROVE  queue'[p][j].msg.id # req.id
    <3>1. \E k \in 1..Len(queue[p]) : queue[p][k] = queue'[p][j]
      BY <1>1, <1>3, <1>4, <1>5, <2>5 DEF HandledOK
    <3>2. PICK k \in 1..Len(queue[p]) : queue[p][k] = queue'[p][j]
      BY <3>1
    <3>3. SUFFICES ASSUME queue[n][i].msg.id = queue[p][k].msg.id PROVE FALSE
      BY <3>2
    <3>4. QueuedOnce(work, queue, network) /\ FromClient(queue[p][k].msg) /\ i \in 1..Len(queue[n])
      BY <1>1, <2>5, <3>2 DEF Consistent
    <3>5. n = p /\ i = k
      BY <3>2, <3>3, <3>4 DEF QueuedOnce
    <3>6. QED
      BY <2>1, <2>5, <3>2, <3>5
  <2>6. ASSUME NEW c \in Node, work[c].mode \in WritePhases, work[c].req.id = req.id
        PROVE  req.src = c /\ n \in Members(work[c])
    BY <1>1, <2>6 DEF Consistent, QuorumsHeld, Surrounded
  <2>7. Welcome(work, queue', issued, r)
    BY <2>3, <2>4, <2>5, <2>6 DEF Welcome, Started, RequestKinds
  <2> HIDE DEF r
  <2>8. Consistent(work, queue', network \cup {r}, issued)
    BY <1>6, <2>7, Send
  <2>9. QED
    BY <1>3, <2>1, <2>8
<1>9. QED
  BY <1>7, <1>8

-----------------------------------------------------------------------------
(* The invariant and what follows from it *)

LEMMA InitConsistent ==
  ASSUME Init
  PROVE  IInv
<1>1. TypeOK
  BY IdleType, NoVersionType DEF Init, TypeOK
<1>2. \A n \in Node : work[n] = Idle /\ queue[n] = <<>> /\ ~down[n]
  BY DEF Init
<1>3. network = {} /\ 0 \notin Txn
  BY TxnAssumption DEF Init
<1>4. \A n \in Node : work[n].req.id = 0 /\ work[n].mode = "idle"
  BY <1>2 DEF Idle, NoRequest
<1>5. \A n \in Node : 1..Len(queue[n]) = {}
  BY <1>2
<1>6. UnissuedAbsent(work, queue, network, issued)
  BY <1>3, <1>4, <1>5 DEF UnissuedAbsent, NotStarted, NeverQueued
<1>7. QueuedOnce(work, queue, network)
  BY <1>5 DEF QueuedOnce
<1>8. OneCoordinator(work) /\ QuorumsHeld(work, queue, network)
  BY <1>4 DEF OneCoordinator, QuorumsHeld, Coordinating, WritePhases
<1>9. BareLockResponses(network)
  BY <1>3 DEF BareLockResponses
<1>10. QED
  BY <1>1, <1>2, <1>6, <1>7, <1>8, <1>9 DEF IInv, Consistent

\* A step overwrites one request of a queue at most.
LEMMA OverwritesGrow ==
  ASSUME TypeOK, Next
  PROVE  overwrites' = overwrites \/ overwrites' = overwrites + 1
<1>1. ASSUME NEW n, NEW m, NEW net, Enqueue(n, m, net)
      PROVE  overwrites' = overwrites \/ overwrites' = overwrites + 1
  BY <1>1 DEF Enqueue
<1>2. ASSUME NEW n \in Node, NEW t \in Txn, ClientRequest(n, t) \/ LocalRead(n, t)
      PROVE  overwrites' = overwrites \/ overwrites' = overwrites + 1
  BY <1>1, <1>2 DEF ClientRequest, LocalRead
<1>3. ASSUME NEW m, NEW net, Deliver(m, net)
      PROVE  overwrites' = overwrites \/ overwrites' = overwrites + 1
  BY <1>1, <1>3 DEF Deliver, LockRequest, LockResponse, UnlockRequest, GetRequest,
       GetResponse, TimestampRequest, PutRequest, PutResponse
<1>4. CASE \/ \E n \in Node : InternalTimer(n) \/ Loop(n) \/ Elect(n) \/ RequestTimeout(n)
                              \/ SignalLost(n) \/ Fail(n) \/ Recover(n)
           \/ \E n \in Node : \E i \in DOMAIN queue[n] : QueueTimeout(n, i)
  BY <1>4 DEF InternalTimer, Loop, Elect, RequestTimeout, SignalLost, Fail, Recover,
       QueueTimeout, others
<1>5. QED
  BY <1>2, <1>3, <1>4 DEF Next

\* The counters of crashes and of overwritten requests never decrease.
LEMMA StaysDisturbed ==
  ASSUME TypeOK, Next, Undisturbed'
  PROVE  Undisturbed /\ crashes' = 0 /\ overwrites' = 0
<1>1. crashes \in Nat /\ overwrites \in Nat /\ crashes' = 0 /\ overwrites' = 0
  BY DEF TypeOK, Undisturbed
<1>2. crashes' = crashes \/ crashes' = crashes + 1
  BY DEF Next, ClientRequest, LocalRead, Deliver, InternalTimer, Loop, Elect, RequestTimeout,
         SignalLost, Fail, Recover, QueueTimeout, others
<1>3. QED
  BY <1>1, <1>2, OverwritesGrow DEF Undisturbed

LEMMA NextConsistent ==
  ASSUME IInv, Next, Undisturbed'
  PROVE  (\A n \in Node : ~down'[n]) /\ Consistent(work', queue', network', issued')
<1>1. Undisturbed /\ crashes' = 0 /\ overwrites' = 0 /\ Calm
  BY StaysDisturbed, CalmHolds DEF IInv
<1>2. ASSUME NEW n \in Node PROVE ~SignalLost(n) /\ ~Recover(n) /\ ~Fail(n)
  BY <1>1 DEF Calm, RestOK, Undisturbed, SignalLost, Recover, Fail
<1>3. ASSUME NEW n \in Node, NEW t \in Txn, ClientRequest(n, t) \/ LocalRead(n, t)
      PROVE  down' = down /\ Consistent(work', queue', network', issued')
  BY <1>1, <1>3, ClientConsistent DEF ClientRequest, LocalRead
<1>4. ASSUME NEW m \in network, NEW net \in {network, network \ {m}}, Deliver(m, net)
      PROVE  down' = down /\ Consistent(work', queue', network', issued')
  BY <1>1, <1>4, DeliverConsistent DEF Deliver
<1>5. ASSUME NEW n \in Node, InternalTimer(n) \/ RequestTimeout(n)
      PROVE  down' = down /\ Consistent(work', queue', network', issued')
  BY <1>1, <1>5, TimerConsistent DEF InternalTimer, RequestTimeout
<1>6. ASSUME NEW n \in Node, Loop(n) \/ Elect(n)
      PROVE  down' = down /\ Consistent(work', queue', network', issued')
  BY <1>1, <1>6, LoopConsistent DEF Loop, Elect, others
<1>7. ASSUME NEW n \in Node, NEW i \in DOMAIN queue[n], QueueTimeout(n, i)
      PROVE  down' = down /\ Consistent(work', queue', network', issued')
  BY <1>1, <1>7, QueueTimeoutConsistent DEF QueueTimeout, others
<1>8. down' = down /\ Consistent(work', queue', network', issued')
  BY <1>2, <1>3, <1>4, <1>5, <1>6, <1>7 DEF Next
<1>9. QED
  BY <1>1, <1>8 DEF Calm

\* In undisturbed behaviours a coordinator's messages and locks stay between it
\* and its quorum, of which every member it has heard from serves nobody else.
THEOREM QuorumsStayHeld == Spec => []IInv
<1>1. Init => IInv
  BY InitConsistent
<1>2. IInv /\ [Next]_vars /\ TypeOK' => IInv'
  <2> SUFFICES ASSUME IInv, [Next]_vars, TypeOK' PROVE IInv'
    OBVIOUS
  <2>1. CASE Next
    BY <2>1, NextConsistent DEF IInv
  <2>2. CASE UNCHANGED vars
    BY <2>2 DEF IInv, vars, Undisturbed, Consistent, UnissuedAbsent, QueuedOnce, NotStarted,
       NeverQueued, OneCoordinator, QuorumsHeld, Surrounded, Assembling, Locked, Holds,
       BareLockResponses
  <2>3. QED
    BY <2>1, <2>2
<1>3. QED
  BY <1>1, <1>2, TypeCorrect, PTL DEF Spec

\* Two quorums that are held have a member in common, and it serves one of them.
LEMMA HeldQuorumsExclude ==
  ASSUME IInv, Undisturbed, NEW a \in Node, NEW b \in Node,
         work[a].mode = "coordinatingWrite", work[b].mode = "coordinatingWrite"
  PROVE  a = b
<1> DEFINE Quorum(c) == Members(work[c]) \cup {c}
<1>1. ASSUME NEW c \in Node, work[c].mode = "coordinatingWrite"
      PROVE  /\ Locked(work, network, c)
             /\ Quorum(c) \subseteq Node /\ Cardinality(Quorum(c)) = WriteQuorumSize
  <2>1. Locked(work, network, c) /\ Surrounded(work, queue, network, c)
    BY <1>1 DEF IInv, Consistent, QuorumsHeld, WritePhases
  <2>2. Members(work[c]) \subseteq Node
    BY DEF Members
  <2>3. IsFiniteSet(Members(work[c]))
    BY <2>2, NodeAssumption, FS_Subset
  <2>4. Cardinality(Quorum(c)) = Cardinality(Members(work[c])) + 1
    BY <2>1, <2>3, FS_AddElement DEF Surrounded
  <2>5. Cardinality(Quorum(c)) = WriteQuorumSize
    BY <2>1, <2>4, QuorumSizes DEF Surrounded
  <2>6. QED
    BY <2>1, <2>2, <2>5
<1>2. Quorum(a) \cap Quorum(b) # {}
  <2>1. Cardinality(Quorum(a)) + Cardinality(Quorum(b)) > Cardinality(Node)
    <3>1. Cardinality(Node) \in Nat
      BY NodeAssumption, FS_CardinalityType
    <3>2. QED
      BY <1>1, <3>1, QuorumAssumption, QuorumSizes
  <2> HIDE DEF Quorum
  <2>2. Quorum(a) \subseteq Node /\ Quorum(b) \subseteq Node
    BY <1>1
  <2>3. QED
    BY <2>1, <2>2, NodeAssumption, FS_MajoritiesIntersect
<1>3. PICK x \in Node : x \in Quorum(a) /\ x \in Quorum(b)
  BY <1>1, <1>2
<1>4. ASSUME NEW c \in Node, work[c].mode = "coordinatingWrite", x \in Quorum(c)
      PROVE  x = c \/ (work[x].mode = "processingWrite" /\ work[x].req.src = c)
  BY <1>1, <1>4 DEF Locked, Holds
<1>5. QED
  BY <1>3, <1>4

\* At most one node coordinates a write past the assembly of its quorum, for any
\* nodes and any majority quorum, however messages are delayed, lost or resent.
THEOREM MutualExclusion == Spec => []WriteMutualExclusion
<1>1. IInv => WriteMutualExclusion
  BY HeldQuorumsExclude DEF WriteMutualExclusion
<1>2. QED
  BY <1>1, QuorumsStayHeld, PTL

=============================================================================
