--------------------------- MODULE PropagaterProofs ---------------------------
(***************************************************************************)
(* Proofs about Propagater, for any number of nodes, writes, failures and  *)
(* lost messages and any quorum sizes in which two write quorums meet:     *)
(* PropInv is an invariant, so two committed writes share a timestamp only *)
(* if a node of both quorums failed and forgot its lock, what the          *)
(* propagater counts as spread is spread, and the main loop of a node is   *)
(* stuck only behind commits that came faster than they were confirmed.    *)
(***************************************************************************)
EXTENDS Propagater, SequenceTheorems, FiniteSetTheorems, TLAPS

\* The fields of the transactions.
LEMMA Fields ==
  ASSUME writes \in Seq(WriteRecord), NEW t \in Txs
  PROVE  /\ writes[t].coordinator \in Member /\ Coordinator(t) = writes[t].coordinator
         /\ writes[t].quorum \subseteq Member
         /\ writes[t].asked \subseteq Member
         /\ writes[t].ts \in Nat \ {0}
         /\ writes[t].state \in {"open", "committed", "aborted"}
         /\ t \in Nat \ {0}
<1>1. writes[t] \in WriteRecord /\ t \in Nat \ {0}
  BY DEF Txs
<1>. QED  BY <1>1 DEF WriteRecord, Coordinator

\* Two full quorums have a member in common.
LEMMA QuorumsMeet ==
  ASSUME PropInv, NEW t \in Txs, NEW u \in Txs, Full(t), Full(u)
  PROVE  writes[t].quorum \cap writes[u].quorum # {}
<1>. DEFINE P == writes[t].quorum
            Q == writes[u].quorum
<1>1. P \subseteq Member /\ Q \subseteq Member
  BY Fields DEF PropInv, PropTypeOK
<1>2. IsFiniteSet(P) /\ IsFiniteSet(Q) /\ IsFiniteSet(P \cup Q) /\ P \cup Q \subseteq Member
  BY <1>1, FS_Subset, PropagaterAssumption DEF PropagaterAssumption
<1>3. Cardinality(P \cup Q) <= Cardinality(Member)
  BY <1>2, FS_Subset, PropagaterAssumption DEF PropagaterAssumption
<1>4. /\ Cardinality(P \cup Q) = Cardinality(P) + Cardinality(Q) - Cardinality(P \cap Q)
      /\ Cardinality(P) \in Nat /\ Cardinality(Q) \in Nat
  BY <1>2, FS_Union, FS_CardinalityType
<1>5. Cardinality(P) = WriteQuorumSize /\ Cardinality(Q) = WriteQuorumSize
  BY DEF Full
<1>6. Cardinality({}) = 0 /\ Cardinality(Member) \in Nat
  BY FS_EmptySet, FS_CardinalityType, PropagaterAssumption DEF PropagaterAssumption
<1>. HIDE DEF P, Q
<1>7. P \cap Q # {}
  <2>. SUFFICES ASSUME P \cap Q = {} PROVE FALSE
    OBVIOUS
  <2>1. Cardinality(P \cap Q) = 0
    BY <1>6
  <2>. QED  BY <2>1, <1>3, <1>4, <1>5, <1>6, PropagaterAssumption DEF PropagaterAssumption
<1>. QED  BY <1>7 DEF P, Q

-----------------------------------------------------------------------------
(* What a step does to the transactions.                                    *)

\* Only transaction t changes, to the given fields.
Changed(t, q, a, ts, state) ==
  /\ Len(writes') = Len(writes)
  /\ writes' \in Seq(WriteRecord)
  /\ \A u \in Txs : u # t => writes'[u] = writes[u]
  /\ writes'[t].coordinator = writes[t].coordinator
  /\ writes'[t].quorum = q
  /\ writes'[t].asked = a
  /\ writes'[t].ts = ts
  /\ writes'[t].state = state

\* A peer joins the quorum (dbnode.go:300-308).
LEMMA LockPeerChanges ==
  ASSUME PropTypeOK, NEW t \in Txs, NEW m \in Member, LockPeer(t, m)
  PROVE  Changed(t, writes[t].quorum \cup {m}, writes[t].asked, writes[t].ts, "open")
<1>. DEFINE r == [writes[t] EXCEPT !.quorum = @ \cup {m}]
<1>1. writes \in Seq(WriteRecord) /\ writes[t] \in WriteRecord /\ writes[t].state = "open"
  BY DEF PropTypeOK, Txs, LockPeer
<1>2. writes' = [writes EXCEPT ![t] = r]
  BY <1>1 DEF LockPeer
<1>3. /\ r \in WriteRecord /\ r.coordinator = writes[t].coordinator
      /\ r.quorum = writes[t].quorum \cup {m}
      /\ r.asked = writes[t].asked /\ r.ts = writes[t].ts /\ r.state = "open"
  BY <1>1 DEF WriteRecord
<1>. HIDE DEF r
<1>4. writes' \in Seq(WriteRecord) /\ Len(writes') = Len(writes)
  BY <1>1, <1>2, <1>3, ExceptSeq DEF Txs
<1>5. writes'[t] = r /\ \A u \in Txs : u # t => writes'[u] = writes[u]
  BY <1>1, <1>2 DEF Txs
<1>. QED  BY <1>3, <1>4, <1>5 DEF Changed

\* The timestamp of t after m has answered.
Told(t, m) == IF lockedBy[m] = t THEN Larger(writes[t].ts, store[m] + 1) ELSE writes[t].ts

\* A member of the quorum is asked for its timestamp (dbnode.go:613-633).
LEMMA ReadTimestampChanges ==
  ASSUME PropTypeOK, NEW t \in Txs, NEW m \in Member, ReadTimestamp(t, m)
  PROVE  Changed(t, writes[t].quorum, writes[t].asked \cup {m}, Told(t, m), "open")
<1>. DEFINE r == [writes[t] EXCEPT !.asked = @ \cup {m}, !.ts = Told(t, m)]
<1>1. writes \in Seq(WriteRecord) /\ writes[t] \in WriteRecord /\ writes[t].state = "open"
  BY DEF PropTypeOK, Txs, ReadTimestamp, MayRead
<1>2. writes' = [writes EXCEPT ![t] = r]
  BY <1>1 DEF ReadTimestamp, Told
<1>3. Told(t, m) \in Nat \ {0}
  BY <1>1 DEF PropTypeOK, WriteRecord, Larger, Told
<1>4. /\ r \in WriteRecord /\ r.coordinator = writes[t].coordinator
      /\ r.quorum = writes[t].quorum /\ r.asked = writes[t].asked \cup {m}
      /\ r.ts = Told(t, m) /\ r.state = "open"
  BY <1>1, <1>3 DEF WriteRecord
<1>. HIDE DEF r
<1>5. writes' \in Seq(WriteRecord) /\ Len(writes') = Len(writes)
  BY <1>1, <1>2, <1>4, ExceptSeq DEF Txs
<1>6. writes'[t] = r /\ \A u \in Txs : u # t => writes'[u] = writes[u]
  BY <1>1, <1>2 DEF Txs
<1>. QED  BY <1>4, <1>5, <1>6 DEF Changed

\* A member of the quorum stages the version (dbnode.go:569-592).
LEMMA StageChanges ==
  ASSUME PropTypeOK, NEW t \in Txs, NEW m \in Member, Stage(t, m)
  PROVE  Changed(t, writes[t].quorum, writes[t].asked, writes[t].ts, "open")
<1>. DEFINE r == [writes[t] EXCEPT !.staged = @ \cup {m}]
<1>1. writes \in Seq(WriteRecord) /\ writes[t] \in WriteRecord /\ writes[t].state = "open"
  BY DEF PropTypeOK, Txs, Stage
<1>2. writes' = [writes EXCEPT ![t] = r]
  BY <1>1 DEF Stage
<1>3. /\ r \in WriteRecord /\ r.coordinator = writes[t].coordinator
      /\ r.quorum = writes[t].quorum /\ r.asked = writes[t].asked
      /\ r.ts = writes[t].ts /\ r.state = "open"
  BY <1>1 DEF WriteRecord
<1>. HIDE DEF r
<1>4. writes' \in Seq(WriteRecord) /\ Len(writes') = Len(writes)
  BY <1>1, <1>2, <1>3, ExceptSeq DEF Txs
<1>5. writes'[t] = r /\ \A u \in Txs : u # t => writes'[u] = writes[u]
  BY <1>1, <1>2 DEF Txs
<1>. QED  BY <1>3, <1>4, <1>5 DEF Changed

\* The coordinator decides (dbnode.go:892-943, 955-1011).
LEMMA DecidedChanges ==
  ASSUME PropTypeOK, NEW t \in Txs, NEW state \in {"committed", "aborted"}, Decided(t, state)
  PROVE  Changed(t, writes[t].quorum, writes[t].asked, writes[t].ts, state)
<1>. DEFINE r == [writes[t] EXCEPT !.state = state]
<1>1. writes \in Seq(WriteRecord) /\ writes[t] \in WriteRecord
  BY DEF PropTypeOK, Txs
<1>2. writes' = [writes EXCEPT ![t] = r]
  BY <1>1 DEF Decided
<1>3. /\ r \in WriteRecord /\ r.coordinator = writes[t].coordinator
      /\ r.quorum = writes[t].quorum /\ r.asked = writes[t].asked
      /\ r.ts = writes[t].ts /\ r.state = state
  BY <1>1 DEF WriteRecord
<1>. HIDE DEF r
<1>4. writes' \in Seq(WriteRecord) /\ Len(writes') = Len(writes)
  BY <1>1, <1>2, <1>3, ExceptSeq DEF Txs
<1>5. writes'[t] = r /\ \A u \in Txs : u # t => writes'[u] = writes[u]
  BY <1>1, <1>2 DEF Txs
<1>. QED  BY <1>3, <1>4, <1>5 DEF Changed

-----------------------------------------------------------------------------
(* Steps that leave the transactions alone.                                 *)

\* A member commits what it has staged or leaves it aside: what it commits is
\* newer than what its earlier quorums left with it (dbnode.go:495-516).
LEMMA EndWriteKeeps ==
  ASSUME PropInv, NEW m \in Member, EndWrite(m)
  PROVE  PropInv'
<1>. DEFINE u == lockedBy[m]
<1>1. u \in Txs /\ m \in writes[u].quorum /\ writes[u].ts \in Nat \ {0}
  <2>1. u \in Txs
    BY DEF PropInv, PropTypeOK, EndWrite
  <2>2. writes[u].ts \in Nat \ {0}
    BY <2>1, Fields DEF PropInv, PropTypeOK
  <2>. QED  BY <2>1, <2>2 DEF PropInv, LocksMatch, EndWrite
<1>2. /\ Txs' = Txs /\ Committed' = Committed /\ writes' = writes
      /\ lockedBy' = [lockedBy EXCEPT ![m] = 0] /\ forgotten' = forgotten
      /\ lockedBy \in [Member -> {0} \cup Txs]
      /\ store' = [store EXCEPT ![m] = IF writes[u].state = "committed" THEN writes[u].ts ELSE @]
      /\ store \in [Member -> Nat]
  BY DEF EndWrite, nodeVars, Txs, Committed, PropInv, PropTypeOK
<1>. HIDE DEF u
<1>3. PropTypeOK'
  <2>1. store' \in [Member -> Nat]
    BY <1>1, <1>2
  <2>2. lockedBy' \in [Member -> {0} \cup Txs]
    BY <1>2
  <2>. QED  BY <1>2, <2>1, <2>2 DEF EndWrite, nodeVars, PropInv, PropTypeOK
<1>4. QuorumKeeps'
  <2>1. ASSUME NEW t \in Committed, NEW k \in writes[t].quorum, ~Forgot(k, t)
        PROVE  Has(k, t)'
    <3>1. k \in Member /\ Has(k, t) /\ t \in Txs /\ writes[t].ts \in Nat \ {0}
      BY <2>1, Fields DEF PropInv, QuorumKeeps, PropTypeOK, Committed
    <3>2. CASE k # m
      BY <3>1, <3>2, <1>2 DEF Has
    <3>3. CASE k = m /\ t = u
      <4>1. store'[m] = writes[t].ts
        BY <1>2, <3>3, <2>1 DEF Committed
      <4>. QED  BY <4>1, <3>1, <3>3, <1>2 DEF Has
    <3>4. CASE k = m /\ t # u
      <4>1. store[m] >= writes[t].ts
        BY <3>1, <3>4 DEF Has, u
      <4>2. CASE writes[u].state = "committed"
        <5>1. m \in writes[u].asked /\ lockedBy[m] = u
          BY <1>1, <4>2 DEF PropInv, AskedQuorum, Committed, u
        <5>2. writes[t].ts < writes[u].ts
          BY <5>1, <3>4, <1>1, <2>1 DEF PropInv, LaterLarger, Forgot
        <5>3. store'[m] = writes[u].ts
          BY <1>2, <4>2
        <5>. QED  BY <5>2, <5>3, <3>1, <3>4, <1>1, <1>2 DEF Has
      <4>3. CASE writes[u].state # "committed"
        BY <4>1, <4>3, <3>4, <1>2 DEF Has
      <4>. QED  BY <4>2, <4>3
    <3>. QED  BY <3>2, <3>3, <3>4
  <2>. QED  BY <2>1, <1>2 DEF QuorumKeeps, Forgot
<1>5. LocksMatch'
  <2>1. \A k \in Member : lockedBy'[k] # 0 => lockedBy'[k] = lockedBy[k]
    BY <1>2
  <2>2. ASSUME NEW t \in Txs, writes[t].state = "open", NEW k \in writes[t].quorum, ~Forgot(k, t)
        PROVE  lockedBy'[k] = t
    <3>1. k \in Member /\ lockedBy[k] = t
      BY <2>2, Fields DEF PropInv, PropTypeOK, LocksMatch
    <3>2. k # m
      BY <3>1, <2>2 DEF EndWrite
    <3>. QED  BY <3>1, <3>2, <1>2
  <2>. QED  BY <1>2, <2>1, <2>2 DEF PropInv, LocksMatch, Forgot
<1>6. LaterLarger'
  <2>1. ASSUME NEW t \in Committed, NEW k \in writes[t].quorum, lockedBy'[k] # 0
        PROVE  lockedBy'[k] = lockedBy[k]
    <3>1. k \in Member
      BY <2>1, Fields DEF PropInv, PropTypeOK, Committed
    <3>. QED  BY <2>1, <3>1, <1>2
  <2>2. 0 \notin Txs
    BY DEF Txs
  <2>. QED  BY <1>2, <2>1, <2>2 DEF PropInv, LaterLarger, Forgot
<1>7. (AskedQuorum /\ SharedMember /\ MailHonest)'
  BY <1>2 DEF EndWrite, PropInv, AskedQuorum, SharedMember, MailHonest, Full, Forgot
<1>. QED  BY <1>3, <1>4, <1>5, <1>6, <1>7 DEF PropInv

\* Steps that leave the transactions and the locks alone, and take no version
\* away from a node.
LEMMA StoreGrows ==
  ASSUME PropInv, UNCHANGED <<writes, lockedBy, forgotten>>, store' \in [Member -> Nat],
         \A m \in Member : store'[m] >= store[m]
  PROVE  /\ (QuorumKeeps /\ LocksMatch /\ LaterLarger /\ AskedQuorum /\ SharedMember)'
         /\ Txs' = Txs /\ Committed' = Committed
<1>1. Txs' = Txs /\ Committed' = Committed
  BY DEF Txs, Committed
<1>2. ASSUME NEW t \in Committed, NEW m \in writes[t].quorum, ~Forgot(m, t)
      PROVE  Has(m, t)'
  <2>1. m \in Member /\ Has(m, t) /\ writes[t].ts \in Nat /\ store \in [Member -> Nat]
    BY <1>2, Fields DEF PropInv, QuorumKeeps, PropTypeOK, Committed
  <2>2. CASE lockedBy[m] = t
    BY <2>2 DEF Has
  <2>3. CASE store[m] >= writes[t].ts
    <3>1. store'[m] >= store[m] /\ store'[m] \in Nat /\ store[m] \in Nat
      BY <2>1
    <3>. QED  BY <3>1, <2>1, <2>3 DEF Has
  <2>. QED  BY <2>1, <2>2, <2>3 DEF Has
<1>3. QuorumKeeps'
  BY <1>1, <1>2 DEF QuorumKeeps, Forgot
<1>4. (LocksMatch /\ LaterLarger /\ AskedQuorum /\ SharedMember)'
  BY <1>1 DEF PropInv, LocksMatch, LaterLarger, AskedQuorum, SharedMember, Full, Forgot
<1>. QED  BY <1>1, <1>3, <1>4

\* The larger of two timestamps.
LEMMA LargerOf ==
  ASSUME NEW a \in Nat, NEW b \in Nat
  PROVE  /\ Larger(a, b) \in {a, b} /\ Larger(a, b) \in Nat
         /\ Larger(a, b) >= a /\ Larger(a, b) >= b
  BY DEF Larger

\* The streamer sends committed versions only (backgroundWriter.go:69-101).
LEMMA StreamWritesKeeps ==
  ASSUME PropInv, NEW c \in Member, StreamWrites(c)
  PROVE  PropInv'
<1>1. (QuorumKeeps /\ LocksMatch /\ LaterLarger /\ AskedQuorum /\ SharedMember)'
      /\ Txs' = Txs /\ Committed' = Committed
  BY StoreGrows DEF StreamWrites, nodeVars, PropInv, PropTypeOK
<1>2. ASSUME NEW b \in mail', b \notin mail
      PROVE  \E t \in Committed : \E m \in Member : b = Asks(t, m)
  BY <1>2 DEF StreamWrites, Own, PropInv, MailHonest
<1>3. ASSUME NEW t \in Committed, NEW m \in Member
      PROVE  /\ Asks(t, m) \in Mailing /\ Asks(t, m).tx = t /\ Asks(t, m).kind # "answer"
  BY <1>3 DEF Asks, Mailing, Own, Committed, Txs
<1>4. PropTypeOK'
  <2>1. mail' \subseteq Mailing
    BY <1>2, <1>3 DEF PropInv, PropTypeOK
  <2>2. active' \subseteq Txs
    BY DEF StreamWrites, PropInv, PropTypeOK
  <2>. QED  BY <1>1, <2>1, <2>2 DEF StreamWrites, nodeVars, PropInv, PropTypeOK
<1>5. MailHonest'
  <2>1. active' \subseteq Committed
    BY DEF StreamWrites, PropInv, MailHonest
  <2>2. ASSUME NEW b \in mail'
        PROVE  b.tx \in Committed /\ (b.kind = "answer" /\ ~b.ok => b.ts > writes[b.tx].ts)
    <3>1. CASE b \in mail
      BY <3>1 DEF PropInv, MailHonest
    <3>2. CASE b \notin mail
      BY <3>2, <1>2, <1>3, <2>2
    <3>. QED  BY <3>1, <3>2
  <2>. QED  BY <1>1, <2>1, <2>2 DEF StreamWrites, MailHonest
<1>. QED  BY <1>1, <1>4, <1>5 DEF PropInv

\* The fields of the messages.
LEMMA MailFields ==
  ASSUME PropInv, NEW b \in mail
  PROVE  /\ b \in Mailing /\ b.node \in Member /\ b.tx \in Txs /\ b.tx \in Committed
         /\ writes[b.tx].ts \in Nat \ {0} /\ writes[b.tx].coordinator \in Member
         /\ b.kind = "answer" => b.ts \in Nat /\ b.ok \in BOOLEAN
<1>1. b \in Mailing /\ b.tx \in Committed /\ b.tx \in Txs
  BY DEF PropInv, PropTypeOK, MailHonest, Committed
<1>2. writes[b.tx].ts \in Nat \ {0} /\ writes[b.tx].coordinator \in Member
  BY <1>1, Fields DEF PropInv, PropTypeOK
<1>3. b.node \in Member /\ (b.kind = "answer" => b.ts \in Nat /\ b.ok \in BOOLEAN)
  BY <1>1 DEF Mailing
<1>. QED  BY <1>1, <1>2, <1>3

\* A node stores what is newer and answers with what is newest
\* (dbnode.go:635-674).
LEMMA BackgroundWriteReqKeeps ==
  ASSUME PropInv, NEW b \in mail, BackgroundWriteReq(b)
  PROVE  PropInv'
<1>. DEFINE v == writes[b.tx].ts
            newest == Larger(v, store[b.node])
            answer == Answers(b, newest = v, newest)
<1>1. b.node \in Member /\ b.tx \in Txs /\ b.tx \in Committed /\ v \in Nat
      /\ store \in [Member -> Nat] /\ b.tx \in Nat \ {0}
  BY MailFields, Fields DEF PropInv, PropTypeOK
<1>2. newest \in Nat /\ newest >= v /\ newest >= store[b.node]
  BY <1>1, LargerOf
<1>3. store' = [store EXCEPT ![b.node] = newest] /\ mail' = (mail \ {b}) \cup {answer}
      /\ UNCHANGED <<writes, lockedBy, active, confirmed, streamer, stuck, lost, up, crashed, forgotten, overwritten>>
  BY DEF BackgroundWriteReq, nodeVars
<1>4. /\ answer.tx = b.tx /\ answer.ts = newest /\ answer.ok = (newest = v)
      /\ answer.node = b.node /\ answer \in Mailing
  <2>1. (newest = v) \in BOOLEAN
    OBVIOUS
  <2>2. b.round \in SUBSET Nat
    BY MailFields DEF Mailing
  <2>. HIDE DEF newest, v
  <2>. QED  BY <1>1, <1>2, <2>1, <2>2 DEF Answers, Mailing
<1>. HIDE DEF newest, answer
<1>5. store' \in [Member -> Nat] /\ \A m \in Member : store'[m] >= store[m]
  BY <1>1, <1>2, <1>3
<1>6. (QuorumKeeps /\ LocksMatch /\ LaterLarger /\ AskedQuorum /\ SharedMember)'
      /\ Txs' = Txs /\ Committed' = Committed
  BY <1>3, <1>5, StoreGrows
<1>7. PropTypeOK'
  BY <1>3, <1>4, <1>5, <1>6 DEF PropInv, PropTypeOK
<1>8. MailHonest'
  <2>1. ~answer.ok => answer.ts > v
    <3>1. newest # v => newest > v
      BY <1>1, <1>2
    <3>2. ~answer.ok => newest # v
      BY <1>4
    <3>. QED  BY <3>1, <3>2, <1>4
  <2>. QED  BY <2>1, <1>1, <1>3, <1>4, <1>6 DEF PropInv, MailHonest
<1>. QED  BY <1>6, <1>7, <1>8 DEF PropInv

\* An answer counts, or brings a newer version (dbnode.go:676-692,
\* backgroundWriter.go:127-159).
LEMMA BackgroundWriteResKeeps ==
  ASSUME PropInv, NEW b \in mail, BackgroundWriteRes(b)
  PROVE  PropInv'
<1>. DEFINE c == writes[b.tx].coordinator
<1>1. /\ b.node \in Member /\ b.tx \in Txs /\ c \in Member /\ b.ts \in Nat
      /\ store \in [Member -> Nat] /\ confirmed \in [1..MaxWrites -> SUBSET Member]
  BY MailFields DEF PropInv, PropTypeOK, BackgroundWriteRes
<1>2. UNCHANGED <<writes, lockedBy, streamer, stuck, lost, up, crashed, forgotten, overwritten>>
      /\ mail' \subseteq mail
  BY DEF BackgroundWriteRes, nodeVars
<1>3. store' \in [Member -> Nat] /\ \A m \in Member : store'[m] >= store[m]
  <2>1. CASE b.ok
    BY <1>1, <2>1 DEF BackgroundWriteRes
  <2>2. CASE ~b.ok
    <3>1. store' = [store EXCEPT ![c] = Larger(store[c], b.ts)]
      BY <2>2 DEF BackgroundWriteRes, Coordinator
    <3>2. Larger(store[c], b.ts) \in Nat /\ Larger(store[c], b.ts) >= store[c]
      BY <1>1, LargerOf
    <3>. HIDE DEF c
    <3>. QED  BY <3>1, <3>2, <1>1
  <2>. QED  BY <2>1, <2>2
<1>4. (QuorumKeeps /\ LocksMatch /\ LaterLarger /\ AskedQuorum /\ SharedMember)'
      /\ Txs' = Txs /\ Committed' = Committed
  BY <1>2, <1>3, StoreGrows
<1>5. active' \subseteq active
  BY DEF BackgroundWriteRes
<1>6. confirmed' \in [1..MaxWrites -> SUBSET Member]
  <2>1. confirmed' = confirmed \/ confirmed' = [confirmed EXCEPT ![b.tx] = confirmed[b.tx] \cup {b.node}]
    BY DEF BackgroundWriteRes
  <2>. QED  BY <1>1, <2>1
<1>7. PropTypeOK'
  BY <1>2, <1>3, <1>4, <1>5, <1>6 DEF PropInv, PropTypeOK
<1>8. MailHonest'
  BY <1>2, <1>4, <1>5 DEF PropInv, MailHonest
<1>. QED  BY <1>4, <1>7, <1>8 DEF PropInv

\* A background message is lost.
LEMMA LoseKeeps ==
  ASSUME PropInv, NEW b \in mail, Lose(b)
  PROVE  PropInv'
<1>1. (QuorumKeeps /\ LocksMatch /\ LaterLarger /\ AskedQuorum /\ SharedMember)'
      /\ Txs' = Txs /\ Committed' = Committed
  BY StoreGrows DEF Lose, nodeVars, PropInv, PropTypeOK
<1>2. PropTypeOK'
  BY <1>1, PropagaterAssumption DEF PropagaterAssumption, Lose, nodeVars, PropInv, PropTypeOK
<1>3. MailHonest'
  BY <1>1 DEF Lose, PropInv, MailHonest
<1>. QED  BY <1>1, <1>2, <1>3 DEF PropInv

\* A failed node discards a background message (dbnode.go:150-165).
LEMMA MissKeeps ==
  ASSUME PropInv, NEW b \in mail, Miss(b)
  PROVE  PropInv'
<1>1. (QuorumKeeps /\ LocksMatch /\ LaterLarger /\ AskedQuorum /\ SharedMember)'
      /\ Txs' = Txs /\ Committed' = Committed
  BY StoreGrows DEF Miss, nodeVars, PropInv, PropTypeOK
<1>2. PropTypeOK'
  BY <1>1 DEF Miss, nodeVars, PropInv, PropTypeOK
<1>3. MailHonest'
  BY <1>1 DEF Miss, PropInv, MailHonest
<1>. QED  BY <1>1, <1>2, <1>3 DEF PropInv

\* A participant of a write fails and forgets its lock; a coordinator keeps it
\* (dbnode.go:167-187).
LEMMA ControlFailKeeps ==
  ASSUME PropInv, NEW m \in Member, ControlFail(m)
  PROVE  PropInv'
<1>. DEFINE u == lockedBy[m]
<1>1. /\ Txs' = Txs /\ Committed' = Committed
      /\ UNCHANGED <<writes, store, active, confirmed, streamer, stuck, mail, lost, overwritten>>
      /\ lockedBy \in [Member -> {0} \cup Txs] /\ 0 \notin Txs
      /\ up' \in [Member -> BOOLEAN] /\ crashed' \in 0..MaxCrashed
  BY PropagaterAssumption DEF PropagaterAssumption, ControlFail, Txs, Committed, PropInv, PropTypeOK
<1>2. CASE UNCHANGED <<lockedBy, forgotten>>
  <2>1. PropTypeOK'
    BY <1>1, <1>2 DEF PropInv, PropTypeOK
  <2>2. MailHonest'
    BY <1>1 DEF PropInv, MailHonest
  <2>3. store \in [Member -> Nat] /\ \A k \in Member : store[k] >= store[k]
    BY DEF PropInv, PropTypeOK
  <2>. QED  BY <1>1, <1>2, <2>1, <2>2, <2>3, StoreGrows DEF PropInv
<1>3. CASE u # 0 /\ lockedBy' = [lockedBy EXCEPT ![m] = 0] /\ forgotten' = forgotten \cup {<<u, m>>}
  <2>1. u \in Txs /\ m \in writes[u].quorum
    BY <1>1, <1>3 DEF PropInv, LocksMatch
  <2>2. \A k \in Member : lockedBy'[k] # 0 => k # m /\ lockedBy'[k] = lockedBy[k]
    BY <1>1, <1>3
  <2>3. \A k \in Member : lockedBy'[k] = lockedBy[k] \/ k = m
    BY <1>1, <1>3
  <2>4. \A t, k : Forgot(k, t)' <=> Forgot(k, t) \/ (t = u /\ k = m)
    BY <1>3 DEF Forgot
  <2>. HIDE DEF u
  <2>5. PropTypeOK'
    <3>1. lockedBy' \in [Member -> {0} \cup Txs] /\ forgotten' \subseteq Txs \X Member
      BY <1>1, <1>3, <2>1 DEF PropInv, PropTypeOK
    <3>. QED  BY <1>1, <3>1 DEF PropInv, PropTypeOK
  <2>6. QuorumKeeps'
    <3>1. ASSUME NEW t \in Committed, NEW k \in writes[t].quorum, ~Forgot(k, t)'
          PROVE  Has(k, t)'
      <4>1. k \in Member /\ Has(k, t)
        BY <3>1, <2>4, Fields DEF PropInv, PropTypeOK, QuorumKeeps, Committed
      <4>2. k = m => lockedBy[k] # t
        BY <3>1, <2>4 DEF u
      <4>. QED  BY <4>1, <4>2, <2>3, <1>1 DEF Has
    <3>. QED  BY <3>1, <1>1 DEF QuorumKeeps
  <2>7. LocksMatch'
    <3>1. ASSUME NEW k \in Member, lockedBy'[k] # 0
          PROVE  k \in writes'[lockedBy'[k]].quorum /\ <<lockedBy'[k], k>> \notin forgotten'
      BY <3>1, <2>2, <1>3, <1>1 DEF PropInv, LocksMatch, Forgot
    <3>2. ASSUME NEW t \in Txs, NEW k \in Member, Forgot(k, t)'
          PROVE  k \in writes'[t].quorum
      BY <3>2, <2>1, <2>4, <1>1 DEF PropInv, LocksMatch
    <3>3. ASSUME NEW t \in Txs, writes'[t].state = "open", NEW k \in writes'[t].quorum
          PROVE  lockedBy'[k] = t \/ Forgot(k, t)'
      <4>1. k \in Member /\ (lockedBy[k] = t \/ Forgot(k, t))
        BY <3>3, <1>1, Fields DEF PropInv, PropTypeOK, LocksMatch
      <4>. QED  BY <4>1, <2>3, <2>4 DEF u
    <3>. QED  BY <3>1, <3>2, <3>3, <1>1 DEF LocksMatch, Forgot
  <2>8. LaterLarger'
    <3>1. ASSUME NEW t \in Committed, NEW v \in Txs, v # t,
                 NEW k \in writes[t].quorum \cap writes[v].asked, lockedBy'[k] = v
          PROVE  writes[t].ts < writes[v].ts \/ Forgot(k, t)'
      <4>1. k \in Member /\ v # 0
        BY <3>1, <1>1, Fields DEF PropInv, PropTypeOK
      <4>2. lockedBy[k] = v
        BY <4>1, <3>1, <2>2
      <4>. QED  BY <4>2, <3>1, <2>4 DEF PropInv, LaterLarger
    <3>. QED  BY <3>1, <1>1 DEF LaterLarger
  <2>9. (AskedQuorum /\ SharedMember /\ MailHonest)'
    BY <1>1, <2>4 DEF PropInv, AskedQuorum, SharedMember, MailHonest, Full
  <2>. QED  BY <2>5, <2>6, <2>7, <2>8, <2>9 DEF PropInv
<1>. QED  BY <1>2, <1>3 DEF ControlFail

\* A node recovers as it was (dbnode.go:150-165).
LEMMA ControlRecoverKeeps ==
  ASSUME PropInv, NEW m \in Member, ControlRecover(m)
  PROVE  PropInv'
<1>1. store \in [Member -> Nat] /\ \A k \in Member : store[k] >= store[k]
  BY DEF PropInv, PropTypeOK
<1>2. UNCHANGED <<writes, store, lockedBy, forgotten, active, confirmed, streamer, stuck, mail, lost,
                  crashed, overwritten>>
  BY DEF ControlRecover
<1>3. (QuorumKeeps /\ LocksMatch /\ LaterLarger /\ AskedQuorum /\ SharedMember)'
      /\ Txs' = Txs /\ Committed' = Committed
  BY <1>1, <1>2, StoreGrows
<1>4. PropTypeOK'
  BY <1>2, <1>3 DEF ControlRecover, PropInv, PropTypeOK
<1>5. MailHonest'
  BY <1>2, <1>3 DEF PropInv, MailHonest
<1>. QED  BY <1>3, <1>4, <1>5 DEF PropInv

-----------------------------------------------------------------------------
(* Steps of a transaction.                                                  *)

\* A step that changes transaction t to one of the same state, and leaves the
\* stores alone, keeps what is said of the committed ones.
LEMMA SameState ==
  ASSUME PropInv, NEW t \in Txs, NEW q, NEW a, NEW ts, Changed(t, q, a, ts, "open"),
         writes[t].state = "open", UNCHANGED forgotten
  PROVE  /\ Txs' = Txs /\ Committed' = Committed /\ t \notin Committed
         /\ \A u \in Txs : u # t => writes'[u] = writes[u]
         /\ \A u \in Txs : writes'[u].coordinator = writes[u].coordinator
         /\ writes'[t].quorum = q /\ writes'[t].asked = a /\ writes'[t].ts = ts
         /\ writes'[t].state = "open"
         /\ SharedMember'
<1>1. Txs' = Txs /\ Committed' = Committed /\ t \notin Committed
  BY DEF Changed, Txs, Committed
<1>. QED  BY <1>1 DEF Changed, PropInv, SharedMember, Committed, Forgot

\* A node begins a write and locks itself (dbnode.go:288-290).
LEMMA LockOwnKeeps ==
  ASSUME PropInv, NEW c \in Member, LockOwn(c)
  PROVE  PropInv'
<1>. DEFINE n == Len(writes) + 1
            r == [coordinator |-> c, quorum |-> {c}, asked |-> {}, staged |-> {}, ts |-> 1, state |-> "open"]
<1>1. /\ writes' = Append(writes, r) /\ writes \in Seq(WriteRecord)
      /\ lockedBy' = [lockedBy EXCEPT ![c] = n] /\ lockedBy[c] = 0
      /\ lockedBy \in [Member -> {0} \cup Txs] /\ Len(writes) < MaxWrites
      /\ UNCHANGED <<store, active, confirmed, streamer, stuck, mail, lost, up, crashed, forgotten, overwritten>>
  BY DEF LockOwn, nodeVars, PropInv, PropTypeOK
<1>2. r \in WriteRecord
  BY DEF WriteRecord
<1>3. /\ writes' \in Seq(WriteRecord) /\ Len(writes') = n
      /\ writes'[n] = r /\ \A u \in Txs : writes'[u] = writes[u]
  BY <1>1, <1>2, AppendProperties DEF Txs
<1>4. Txs' = Txs \cup {n} /\ n \notin Txs /\ n # 0 /\ 0 \notin Txs
      /\ \A m : ~Forgot(m, n)
  BY <1>1, <1>3 DEF Txs, Forgot, PropInv, PropTypeOK
<1>5. r.state = "open" /\ r.quorum = {c} /\ r.asked = {}
  OBVIOUS
<1>. HIDE DEF n, r
<1>6. Committed' = Committed /\ n \notin Committed
  BY <1>3, <1>4, <1>5 DEF Committed
<1>7. PropTypeOK'
  <2>1. Len(writes') <= MaxWrites
    BY <1>1, <1>3, PropagaterAssumption DEF PropagaterAssumption, n
  <2>2. lockedBy' \in [Member -> {0} \cup Txs']
    BY <1>1, <1>4
  <2>3. active \subseteq Txs' /\ forgotten \subseteq Txs' \X Member
    BY <1>4 DEF PropInv, PropTypeOK
  <2>. QED  BY <1>1, <1>3, <2>1, <2>2, <2>3 DEF PropInv, PropTypeOK
<1>8. \A t \in Committed : writes'[t] = writes[t] /\ t \in Txs
  BY <1>3 DEF Committed
<1>9. QuorumKeeps'
  <2>1. ASSUME NEW t \in Committed, NEW m \in writes[t].quorum, ~Forgot(m, t)
        PROVE  Has(m, t)'
    <3>1. m \in Member /\ Has(m, t) /\ t # 0
      BY <2>1, <1>4, <1>8, Fields DEF PropInv, QuorumKeeps, PropTypeOK
    <3>2. lockedBy'[m] = lockedBy[m] \/ lockedBy[m] = 0
      BY <3>1, <1>1
    <3>. QED  BY <3>1, <3>2, <1>1, <1>8 DEF Has
  <2>. QED  BY <2>1, <1>1, <1>6, <1>8 DEF QuorumKeeps, Forgot
<1>10. LocksMatch'
  <2>1. ASSUME NEW m \in Member, lockedBy'[m] # 0
        PROVE  m \in writes'[lockedBy'[m]].quorum /\ ~Forgot(m, lockedBy'[m])
    <3>1. CASE m = c
      BY <3>1, <1>1, <1>3, <1>4, <1>5
    <3>2. CASE m # c
      <4>1. lockedBy'[m] = lockedBy[m] /\ lockedBy[m] \in Txs
        BY <3>2, <2>1, <1>1
      <4>. QED  BY <4>1, <2>1, <1>3 DEF PropInv, LocksMatch
    <3>. QED  BY <3>1, <3>2
  <2>2. ASSUME NEW t \in Txs', writes'[t].state = "open", NEW m \in writes'[t].quorum,
               ~Forgot(m, t)
        PROVE  lockedBy'[m] = t
    <3>1. CASE t = n
      BY <3>1, <2>2, <1>1, <1>3, <1>5
    <3>2. CASE t \in Txs
      <4>1. m \in Member /\ lockedBy[m] = t
        BY <3>2, <2>2, <1>3, <1>1, Fields DEF PropInv, LocksMatch
      <4>. QED  BY <4>1, <3>2, <1>1, <1>4
    <3>. QED  BY <3>1, <3>2, <1>4
  <2>3. ASSUME NEW t \in Txs', NEW m \in Member, Forgot(m, t)
        PROVE  m \in writes'[t].quorum
    BY <2>3, <1>3, <1>4 DEF PropInv, LocksMatch
  <2>. QED  BY <2>1, <2>2, <2>3, <1>1 DEF LocksMatch, Forgot
<1>11. LaterLarger'
  <2>1. ASSUME NEW t \in Committed, NEW u \in Txs', u # t,
               NEW m \in writes'[t].quorum \cap writes'[u].asked, lockedBy'[m] = u,
               ~Forgot(m, t)
        PROVE  writes'[t].ts < writes'[u].ts
    <3>1. u \in Txs
      BY <2>1, <1>3, <1>4, <1>5
    <3>2. m \in Member
      BY <3>1, <2>1, <1>1, <1>8, Fields
    <3>3. lockedBy[m] = u
      BY <3>1, <3>2, <2>1, <1>1, <1>4
    <3>. QED  BY <2>1, <3>1, <3>3, <1>3, <1>8 DEF PropInv, LaterLarger
  <2>. QED  BY <2>1, <1>1, <1>6 DEF LaterLarger, Forgot
<1>12. AskedQuorum'
  <2>1. \A t \in Txs' : writes'[t].asked \subseteq writes'[t].quorum
    BY <1>3, <1>4, <1>5 DEF PropInv, AskedQuorum
  <2>. QED  BY <2>1, <1>6, <1>8 DEF PropInv, AskedQuorum, Full
<1>13. (SharedMember /\ MailHonest)'
  <2>1. SharedMember'
    <3>1. forgotten' = forgotten
      BY <1>1
    <3>2. \A u \in Committed : writes'[u].quorum = writes[u].quorum /\ writes'[u].ts = writes[u].ts
      BY <1>8
    <3>. QED  BY <3>1, <3>2, <1>6 DEF PropInv, SharedMember, Forgot
  <2>2. \A b \in mail : b.tx \in Committed /\ writes'[b.tx].ts = writes[b.tx].ts
    BY <1>8 DEF PropInv, MailHonest
  <2>. QED  BY <2>1, <2>2, <1>1, <1>6 DEF PropInv, MailHonest
<1>. QED  BY <1>7, <1>9, <1>10, <1>11, <1>12, <1>13 DEF PropInv

\* A peer that nobody has locked joins the quorum (dbnode.go:300-308, 467-493).
LEMMA LockPeerKeeps ==
  ASSUME PropInv, NEW t \in Txs, NEW m \in Member, LockPeer(t, m)
  PROVE  PropInv'
<1>1. /\ lockedBy' = [lockedBy EXCEPT ![m] = t] /\ lockedBy[m] = 0
      /\ lockedBy \in [Member -> {0} \cup Txs] /\ writes[t].state = "open"
      /\ UNCHANGED <<store, active, confirmed, streamer, stuck, mail, lost, up, crashed, forgotten, overwritten>>
      /\ writes \in Seq(WriteRecord) /\ 0 \notin Txs
  BY DEF LockPeer, nodeVars, PropInv, PropTypeOK, Txs
<1>2. Changed(t, writes[t].quorum \cup {m}, writes[t].asked, writes[t].ts, "open")
  BY LockPeerChanges DEF PropInv
<1>3. /\ Txs' = Txs /\ Committed' = Committed /\ t \notin Committed
      /\ \A u \in Txs : u # t => writes'[u] = writes[u]
      /\ writes'[t].quorum = writes[t].quorum \cup {m} /\ writes'[t].asked = writes[t].asked
      /\ writes'[t].ts = writes[t].ts /\ writes'[t].state = "open"
      /\ SharedMember'
  BY <1>1, <1>2, SameState
<1>4. PropTypeOK'
  BY <1>1, <1>2, <1>3 DEF Changed, PropInv, PropTypeOK
<1>5. \A u \in Committed : writes'[u] = writes[u] /\ u \in Txs
  BY <1>3 DEF Committed
<1>6. QuorumKeeps'
  <2>1. ASSUME NEW u \in Committed, NEW k \in writes[u].quorum, ~Forgot(k, u)
        PROVE  Has(k, u)'
    <3>1. k \in Member /\ Has(k, u) /\ u # 0
      BY <2>1, <1>1, <1>5, Fields DEF PropInv, QuorumKeeps
    <3>2. lockedBy'[k] = lockedBy[k] \/ lockedBy[k] = 0
      BY <3>1, <1>1
    <3>. QED  BY <3>1, <3>2, <1>1, <1>5 DEF Has
  <2>. QED  BY <2>1, <1>1, <1>3, <1>5 DEF QuorumKeeps, Forgot
<1>7. LocksMatch'
  <2>1. ASSUME NEW k \in Member, lockedBy'[k] # 0
        PROVE  k \in writes'[lockedBy'[k]].quorum /\ ~Forgot(k, lockedBy'[k])
    <3>1. CASE k = m
      <4>1. m \notin writes[t].quorum
        BY DEF LockPeer
      <4>. QED  BY <3>1, <4>1, <1>1, <1>3 DEF PropInv, LocksMatch
    <3>2. CASE k # m
      <4>1. lockedBy'[k] = lockedBy[k] /\ lockedBy[k] \in Txs
        BY <3>2, <2>1, <1>1
      <4>. QED  BY <4>1, <2>1, <1>3 DEF PropInv, LocksMatch
    <3>. QED  BY <3>1, <3>2
  <2>2. ASSUME NEW u \in Txs, writes'[u].state = "open", NEW k \in writes'[u].quorum,
               ~Forgot(k, u)
        PROVE  lockedBy'[k] = u
    <3>1. CASE k = m /\ u = t
      BY <3>1, <1>1
    <3>2. CASE k # m \/ u # t
      <4>1. k \in writes[u].quorum /\ writes[u].state = "open"
        BY <3>2, <2>2, <1>1, <1>3
      <4>2. k \in Member /\ lockedBy[k] = u
        BY <2>2, <4>1, <1>1, Fields DEF PropInv, LocksMatch
      <4>. QED  BY <4>2, <1>1
    <3>. QED  BY <3>1, <3>2
  <2>3. \A u \in Txs : \A k \in Member : Forgot(k, u) => k \in writes'[u].quorum
    BY <1>3 DEF PropInv, LocksMatch
  <2>. QED  BY <2>1, <2>2, <2>3, <1>1, <1>3 DEF LocksMatch, Forgot
<1>8. LaterLarger'
  <2>1. ASSUME NEW u \in Committed, NEW v \in Txs, u # v,
               NEW k \in writes'[u].quorum \cap writes'[v].asked, lockedBy'[k] = v,
               ~Forgot(k, u)
        PROVE  writes'[u].ts < writes'[v].ts
    <3>1. k \in writes[u].quorum /\ k \in writes[v].asked /\ k \in writes[v].quorum /\ k \in Member
      BY <2>1, <1>1, <1>3, <1>5, Fields DEF PropInv, AskedQuorum
    <3>2. lockedBy[k] = v
      <4>1. CASE k = m
        \* Then t has asked m before m has joined its quorum.
        <5>1. v = t /\ m \notin writes[t].quorum
          BY <4>1, <2>1, <1>1 DEF LockPeer
        <5>. QED  BY <5>1, <4>1, <3>1
      <4>. QED  BY <4>1, <3>1, <2>1, <1>1
    <3>3. writes[u].ts < writes[v].ts
      BY <2>1, <3>1, <3>2 DEF PropInv, LaterLarger
    <3>. QED  BY <3>3, <1>3, <1>5, <2>1
  <2>. QED  BY <2>1, <1>1, <1>3 DEF LaterLarger, Forgot
<1>9. (AskedQuorum /\ MailHonest)'
  BY <1>1, <1>3, <1>5 DEF PropInv, AskedQuorum, MailHonest, Full
<1>. QED  BY <1>3, <1>4, <1>6, <1>7, <1>8, <1>9 DEF PropInv

\* A member tells the timestamp of what it has, so the new timestamp is larger
\* than any that was committed there (dbnode.go:613-633).
LEMMA ReadTimestampKeeps ==
  ASSUME PropInv, NEW t \in Txs, NEW m \in Member, ReadTimestamp(t, m)
  PROVE  PropInv'
<1>. DEFINE ts == Told(t, m)
<1>1. /\ writes[t].state = "open" /\ m \in writes[t].quorum
      /\ UNCHANGED <<store, lockedBy, active, confirmed, streamer, stuck, mail, lost, up, crashed, forgotten, overwritten>>
      /\ writes \in Seq(WriteRecord) /\ store \in [Member -> Nat]
  BY DEF ReadTimestamp, MayRead, nodeVars, PropInv, PropTypeOK
<1>2. Changed(t, writes[t].quorum, writes[t].asked \cup {m}, ts, "open")
  BY ReadTimestampChanges DEF PropInv
<1>3. /\ ts \in Nat /\ ts >= writes[t].ts /\ writes[t].ts \in Nat
      /\ lockedBy[m] = t => ts >= store[m] + 1
  <2>1. writes[t].ts \in Nat /\ store[m] + 1 \in Nat
    BY <1>1, Fields
  <2>2. /\ Larger(writes[t].ts, store[m] + 1) \in Nat
        /\ Larger(writes[t].ts, store[m] + 1) >= writes[t].ts
        /\ Larger(writes[t].ts, store[m] + 1) >= store[m] + 1
    BY <2>1, LargerOf
  <2>. QED  BY <2>1, <2>2 DEF Told
<1>. HIDE DEF ts
<1>4. /\ Txs' = Txs /\ Committed' = Committed /\ t \notin Committed
      /\ \A u \in Txs : u # t => writes'[u] = writes[u]
      /\ writes'[t].quorum = writes[t].quorum /\ writes'[t].asked = writes[t].asked \cup {m}
      /\ writes'[t].ts = ts /\ writes'[t].state = "open"
      /\ SharedMember'
  BY <1>1, <1>2, SameState
<1>5. PropTypeOK'
  BY <1>1, <1>2, <1>4 DEF Changed, PropInv, PropTypeOK
<1>6. \A u \in Committed : writes'[u] = writes[u] /\ u \in Txs
  BY <1>4 DEF Committed
<1>7. QuorumKeeps'
  BY <1>1, <1>4, <1>6 DEF PropInv, QuorumKeeps, Has, Forgot
<1>8. LocksMatch'
  <2>1. \A u \in Txs : writes'[u].quorum = writes[u].quorum /\ writes'[u].state = writes[u].state
    BY <1>1, <1>4
  <2>2. lockedBy \in [Member -> {0} \cup Txs]
    BY DEF PropInv, PropTypeOK
  <2>. QED  BY <2>1, <2>2, <1>1, <1>4 DEF PropInv, LocksMatch, Forgot
<1>9. LaterLarger'
  <2>1. ASSUME NEW u \in Committed, NEW v \in Txs, u # v,
               NEW k \in writes'[u].quorum \cap writes'[v].asked, lockedBy[k] = v,
               ~Forgot(k, u)
        PROVE  writes'[u].ts < writes'[v].ts
    <3>0. writes'[u] = writes[u] /\ u \in Txs /\ writes[u].ts \in Nat
      BY <1>1, <1>6, Fields
    <3>1. CASE v # t
      BY <3>0, <3>1, <2>1, <1>4 DEF PropInv, LaterLarger
    <3>2. CASE v = t /\ k \in writes[t].asked
      <4>1. writes[u].ts < writes[t].ts
        BY <3>0, <3>2, <2>1 DEF PropInv, LaterLarger
      <4>. QED  BY <4>1, <3>0, <3>2, <1>3, <1>4
    <3>3. CASE v = t /\ k = m
      <4>1. Has(m, u) /\ lockedBy[m] # u
        BY <3>0, <3>3, <2>1 DEF PropInv, QuorumKeeps
      <4>2. store[m] >= writes[u].ts
        BY <4>1 DEF Has
      <4>3. store[m] \in Nat /\ writes'[u].ts = writes[u].ts /\ writes'[v].ts = ts
        BY <3>0, <3>3, <1>1, <1>4
      <4>4. lockedBy[m] = t
        BY <2>1, <3>3
      <4>. QED  BY <4>2, <4>3, <4>4, <3>0, <1>3
    <3>. QED  BY <3>1, <3>2, <3>3, <2>1, <1>4
  <2>. QED  BY <2>1, <1>1, <1>4 DEF LaterLarger, Forgot
<1>10. (AskedQuorum /\ MailHonest)'
  BY <1>1, <1>4, <1>6 DEF PropInv, AskedQuorum, MailHonest, Full
<1>. QED  BY <1>4, <1>5, <1>7, <1>8, <1>9, <1>10 DEF PropInv

\* A member stages the version and tells nobody but the coordinator
\* (dbnode.go:569-592).
LEMMA StageKeeps ==
  ASSUME PropInv, NEW t \in Txs, NEW m \in Member, Stage(t, m)
  PROVE  PropInv'
<1>1. /\ writes[t].state = "open"
      /\ UNCHANGED <<store, lockedBy, active, confirmed, streamer, stuck, mail, lost, up, crashed, forgotten, overwritten>>
  BY DEF Stage, nodeVars
<1>2. Changed(t, writes[t].quorum, writes[t].asked, writes[t].ts, "open")
  BY StageChanges DEF PropInv
<1>3. Txs' = Txs /\ Committed' = Committed /\ SharedMember'
  BY <1>1, <1>2, SameState
<1>4. \A u \in Txs : /\ writes'[u].quorum = writes[u].quorum
                     /\ writes'[u].asked = writes[u].asked
                     /\ writes'[u].ts = writes[u].ts
                     /\ writes'[u].state = writes[u].state
  BY <1>1, <1>2 DEF Changed
<1>5. Committed \subseteq Txs /\ 0 \notin Txs /\ lockedBy \in [Member -> {0} \cup Txs]
  BY DEF Committed, Txs, PropInv, PropTypeOK
<1>6. PropTypeOK'
  BY <1>1, <1>2, <1>3 DEF Changed, PropInv, PropTypeOK
<1>7. QuorumKeeps'
  BY <1>1, <1>3, <1>4, <1>5 DEF PropInv, QuorumKeeps, Has, Forgot
<1>8. LocksMatch'
  BY <1>1, <1>3, <1>4, <1>5 DEF PropInv, LocksMatch, Forgot
<1>9. LaterLarger'
  BY <1>1, <1>3, <1>4, <1>5 DEF PropInv, LaterLarger, Forgot
<1>10. (AskedQuorum /\ MailHonest)'
  BY <1>1, <1>3, <1>4, <1>5 DEF PropInv, AskedQuorum, MailHonest, Full
<1>. QED  BY <1>3, <1>6, <1>7, <1>8, <1>9, <1>10 DEF PropInv

\* A coordinator that gives up frees itself (dbnode.go:955-1011).
LEMMA AbortWriteKeeps ==
  ASSUME PropInv, NEW t \in Txs, AbortWrite(t)
  PROVE  PropInv'
<1>. DEFINE c == writes[t].coordinator
<1>1. /\ writes[t].state = "open" /\ lockedBy[c] = t /\ Decided(t, "aborted")
      /\ lockedBy' = [lockedBy EXCEPT ![c] = 0] /\ lockedBy \in [Member -> {0} \cup Txs]
      /\ UNCHANGED <<store, active, confirmed, streamer, stuck, mail, lost, up, crashed, forgotten, overwritten>>
      /\ writes \in Seq(WriteRecord) /\ 0 \notin Txs
  BY DEF AbortWrite, Coordinator, nodeVars, PropInv, PropTypeOK, Txs
<1>2. Changed(t, writes[t].quorum, writes[t].asked, writes[t].ts, "aborted")
  BY <1>1, DecidedChanges DEF PropInv
<1>3. /\ Txs' = Txs /\ \A u \in Txs : u # t => writes'[u] = writes[u]
      /\ writes'[t].quorum = writes[t].quorum /\ writes'[t].asked = writes[t].asked
      /\ writes'[t].ts = writes[t].ts /\ writes'[t].state = "aborted"
  BY <1>2 DEF Changed, Txs
<1>4. Committed' = Committed /\ t \notin Committed
  BY <1>1, <1>3 DEF Committed
<1>5. \A u \in Committed : writes'[u] = writes[u] /\ u \in Txs
  BY <1>3, <1>4 DEF Committed
<1>6. c \in Member
  BY <1>1, Fields
<1>. HIDE DEF c
<1>7. PropTypeOK'
  <2>1. lockedBy' \in [Member -> {0} \cup Txs]
    BY <1>1
  <2>. QED  BY <1>1, <1>2, <1>3, <2>1 DEF Changed, PropInv, PropTypeOK
<1>8. QuorumKeeps'
  <2>1. ASSUME NEW u \in Committed, NEW m \in writes[u].quorum, ~Forgot(m, u)
        PROVE  Has(m, u)'
    <3>1. m \in Member /\ Has(m, u) /\ u # t
      BY <2>1, <1>1, <1>4, <1>5, Fields DEF PropInv, QuorumKeeps
    <3>. QED  BY <3>1, <1>1, <1>5 DEF Has
  <2>. QED  BY <2>1, <1>1, <1>4, <1>5 DEF QuorumKeeps, Forgot
<1>9. LocksMatch'
  <2>1. \A u \in Txs : writes'[u].quorum = writes[u].quorum
    BY <1>3
  <2>2. \A m \in Member : lockedBy'[m] # 0 => lockedBy'[m] = lockedBy[m] /\ lockedBy[m] \in Txs
    BY <1>1
  <2>3. ASSUME NEW u \in Txs, writes'[u].state = "open", NEW m \in writes'[u].quorum,
               ~Forgot(m, u)
        PROVE  lockedBy'[m] = u
    <3>1. u # t
      BY <2>3, <1>3
    <3>2. m \in Member /\ lockedBy[m] = u
      BY <3>1, <2>3, <1>1, <1>3, Fields DEF PropInv, LocksMatch
    <3>. QED  BY <3>1, <3>2, <1>1
  <2>. QED  BY <2>1, <2>2, <2>3, <1>1, <1>3 DEF PropInv, LocksMatch, Forgot
<1>10. LaterLarger'
  <2>1. \A u \in Txs : writes'[u].asked = writes[u].asked /\ writes'[u].ts = writes[u].ts
    BY <1>3
  <2>2. ASSUME NEW u \in Committed, NEW m \in writes[u].quorum, lockedBy'[m] # 0
        PROVE  lockedBy'[m] = lockedBy[m]
    BY <2>2, <1>1, <1>5, Fields
  <2>. QED  BY <2>1, <2>2, <1>1, <1>3, <1>4, <1>5 DEF PropInv, LaterLarger, Forgot
<1>11. (AskedQuorum /\ SharedMember /\ MailHonest)'
  <2>1. \A b \in mail : b.tx \in Committed /\ writes'[b.tx].ts = writes[b.tx].ts
    BY <1>5 DEF PropInv, MailHonest
  <2>2. MailHonest'
    BY <2>1, <1>1, <1>4 DEF PropInv, MailHonest
  <2>. QED  BY <2>2, <1>1, <1>3, <1>4, <1>5 DEF PropInv, AskedQuorum, SharedMember, Full, Forgot
<1>. QED  BY <1>7, <1>8, <1>9, <1>10, <1>11 DEF PropInv

\* A write commits with its whole quorum locked and asked: whatever was committed
\* before met that quorum and is older (dbnode.go:892-943).
LEMMA CommitWriteKeeps ==
  ASSUME PropInv, NEW t \in Txs, CommitWrite(t)
  PROVE  PropInv'
<1>. DEFINE c == writes[t].coordinator
<1>1. /\ writes[t].state = "open" /\ lockedBy[c] = t /\ Decided(t, "committed")
      /\ Full(t) /\ writes[t].asked = writes[t].quorum
      /\ lockedBy' = [lockedBy EXCEPT ![c] = 0] /\ lockedBy \in [Member -> {0} \cup Txs]
      /\ store' = [store EXCEPT ![c] = writes[t].ts] /\ store \in [Member -> Nat]
      /\ UNCHANGED <<mail, lost, up, crashed, forgotten>>
      /\ writes \in Seq(WriteRecord) /\ 0 \notin Txs
  BY DEF CommitWrite, Coordinator, nodeVars, PropInv, PropTypeOK, Txs
<1>2. Changed(t, writes[t].quorum, writes[t].asked, writes[t].ts, "committed")
  BY <1>1, DecidedChanges DEF PropInv
<1>3. /\ Txs' = Txs /\ \A u \in Txs : u # t => writes'[u] = writes[u]
      /\ writes'[t].quorum = writes[t].quorum /\ writes'[t].asked = writes[t].asked
      /\ writes'[t].ts = writes[t].ts /\ writes'[t].state = "committed"
  BY <1>2 DEF Changed, Txs
<1>4. Committed' = Committed \cup {t} /\ t \notin Committed
  BY <1>1, <1>3 DEF Committed
<1>5. /\ \A u \in Txs : /\ writes'[u].quorum = writes[u].quorum
                        /\ writes'[u].asked = writes[u].asked
                        /\ writes'[u].ts = writes[u].ts
      /\ Committed \subseteq Txs
  BY <1>3 DEF Committed
<1>6. c \in Member /\ writes[t].ts \in Nat \ {0} /\ c \in writes[t].quorum
      /\ writes[t].quorum \subseteq Member
  BY <1>1, Fields DEF PropInv, LocksMatch
\* Members of the new quorum are locked by it, or have forgotten it.
<1>7. \A m \in writes[t].quorum : lockedBy[m] = t \/ Forgot(m, t)
  BY <1>1 DEF PropInv, LocksMatch
\* What was committed before and left a version with a member of the new quorum
\* is older.
<1>8. ASSUME NEW u \in Committed, NEW m \in writes[u].quorum \cap writes[t].quorum,
             ~Forgot(m, u), ~Forgot(m, t)
      PROVE  writes[u].ts < writes[t].ts
  BY <1>1, <1>4, <1>7, <1>8 DEF PropInv, LaterLarger
\* The coordinator is locked by it.
<1>16. ~Forgot(c, t)
  BY <1>1, <1>6 DEF PropInv, LocksMatch
<1>. HIDE DEF c
<1>9. PropTypeOK'
  <2>1. lockedBy' \in [Member -> {0} \cup Txs] /\ store' \in [Member -> Nat]
    BY <1>1, <1>6
  <2>2. /\ active' \subseteq Txs
        /\ confirmed' \in [1..MaxWrites -> SUBSET Member]
        /\ streamer' \in [Member -> {"receiving", "signalled"}]
        /\ stuck' \in [Member -> BOOLEAN]
        /\ overwritten' \subseteq Member
    <3>1. overwritten' = overwritten \cup {c} \/ overwritten' = overwritten
      BY DEF CommitWrite, Coordinator, c
    <3>2. /\ active' = active \cup {t}
          /\ confirmed' = [confirmed EXCEPT ![t] = writes[t].quorum]
          /\ streamer' = [streamer EXCEPT ![c] = "signalled"]
          /\ stuck' = [stuck EXCEPT ![c] = (streamer[c] = "signalled")]
      BY DEF CommitWrite, PropagateTransaction, Coordinator, c
    <3>. QED  BY <3>1, <3>2, <1>6 DEF PropInv, PropTypeOK
  <2>. QED  BY <1>1, <1>2, <1>3, <2>1, <2>2 DEF Changed, PropInv, PropTypeOK
<1>10. QuorumKeeps'
  <2>1. ASSUME NEW m \in writes[t].quorum, ~Forgot(m, t)
        PROVE  Has(m, t)'
    <3>1. CASE m = c
      BY <3>1, <1>1, <1>3, <1>6 DEF Has
    <3>2. CASE m # c
      BY <2>1, <3>2, <1>1, <1>6, <1>7 DEF Has
    <3>. QED  BY <3>1, <3>2
  <2>2. ASSUME NEW u \in Committed, NEW m \in writes[u].quorum, ~Forgot(m, u)
        PROVE  Has(m, u)'
    <3>1. m \in Member /\ Has(m, u) /\ u # t /\ writes[u].ts \in Nat
      BY <2>2, <1>1, <1>4, <1>5, Fields DEF PropInv, QuorumKeeps
    <3>2. CASE m = c
      <4>1. writes[u].ts < writes[t].ts /\ store'[m] = writes[t].ts
        BY <3>2, <2>2, <1>1, <1>6, <1>8, <1>16
      <4>. QED  BY <4>1, <3>1, <1>5, <1>6, <2>2 DEF Has
    <3>3. CASE m # c
      BY <3>1, <3>3, <2>2, <1>1, <1>5 DEF Has
    <3>. QED  BY <3>2, <3>3
  <2>. QED  BY <2>1, <2>2, <1>1, <1>3, <1>4, <1>5 DEF QuorumKeeps, Forgot
<1>11. LocksMatch'
  <2>1. \A m \in Member : lockedBy'[m] # 0 => lockedBy'[m] = lockedBy[m] /\ lockedBy[m] \in Txs
    BY <1>1
  <2>2. ASSUME NEW u \in Txs, writes'[u].state = "open", NEW m \in writes'[u].quorum,
               ~Forgot(m, u)
        PROVE  lockedBy'[m] = u
    <3>1. u # t
      BY <2>2, <1>3
    <3>2. m \in Member /\ lockedBy[m] = u
      BY <3>1, <2>2, <1>1, <1>3, Fields DEF PropInv, LocksMatch
    <3>. QED  BY <3>1, <3>2, <1>1
  <2>. QED  BY <2>1, <2>2, <1>1, <1>3, <1>5 DEF PropInv, LocksMatch, Forgot
<1>12. LaterLarger'
  <2>1. ASSUME NEW u \in Committed', NEW v \in Txs, u # v,
               NEW m \in writes[u].quorum \cap writes[v].asked, lockedBy'[m] = v,
               ~Forgot(m, u)
        PROVE  writes[u].ts < writes[v].ts
    <3>1. u \in Txs /\ m \in Member
      BY <2>1, <1>1, <1>4, <1>5, Fields
    <3>2. lockedBy[m] = v
      BY <3>1, <2>1, <1>1
    <3>3. u # t
      BY <3>2, <2>1, <1>7
    <3>. QED  BY <3>2, <3>3, <2>1, <1>4 DEF PropInv, LaterLarger
  <2>. QED  BY <2>1, <1>1, <1>3, <1>4, <1>5 DEF LaterLarger, Forgot
<1>13. AskedQuorum'
  BY <1>1, <1>3, <1>4, <1>5, SMTT(30) DEF PropInv, AskedQuorum, Full
<1>14. SharedMember'
  <2>1. ASSUME NEW u \in Committed, NEW m \in writes[u].quorum \cap writes[t].quorum,
               ~Forgot(m, u), ~Forgot(m, t)
        PROVE  writes[u].ts # writes[t].ts
    <3>1. writes[u].ts \in Nat
      BY <1>1, <1>5, Fields
    <3>. QED  BY <3>1, <2>1, <1>6, <1>8
  <2>2. ASSUME NEW u \in Committed', NEW v \in Committed', u # v,
               NEW m \in writes[u].quorum \cap writes[v].quorum, ~Forgot(m, u), ~Forgot(m, v)
        PROVE  writes[u].ts # writes[v].ts
    BY <2>1, <2>2, <1>4 DEF PropInv, SharedMember
  <2>. QED  BY <2>2, <1>1, <1>3, <1>4, <1>5 DEF SharedMember, Forgot
<1>15. MailHonest'
  <2>1. \A b \in mail : b.tx \in Committed /\ writes'[b.tx].ts = writes[b.tx].ts
    BY <1>5 DEF PropInv, MailHonest
  <2>2. active' \subseteq Committed'
    BY <1>4 DEF CommitWrite, PropagateTransaction, PropInv, MailHonest
  <2>. QED  BY <2>1, <2>2, <1>1, <1>4 DEF PropInv, MailHonest
<1>. QED  BY <1>9, <1>10, <1>11, <1>12, <1>13, <1>14, <1>15 DEF PropInv

-----------------------------------------------------------------------------
(* The invariant, and what follows from it.                                 *)

\* Nothing is written, locked or sent (backgroundWriter.go:42-58).
LEMMA PropInitHolds == PropInit => PropInv
<1>1. ASSUME PropInit
      PROVE  Txs = {} /\ Committed = {} /\ writes \in Seq(WriteRecord)
  BY <1>1 DEF PropInit, Txs, Committed
<1>2. ASSUME PropInit
      PROVE  PropTypeOK
  BY <1>1, <1>2, PropagaterAssumption DEF PropagaterAssumption, PropInit, PropTypeOK
<1>. QED  BY <1>1, <1>2 DEF PropInit, PropInv, QuorumKeeps, LocksMatch, LaterLarger, AskedQuorum,
                         SharedMember, MailHonest, Forgot

\* Every action keeps the invariant.
LEMMA PropStepKeeps == PropInv /\ [PropNext]_propVars => PropInv'
<1>. SUFFICES ASSUME PropInv, [PropNext]_propVars
     PROVE  PropInv'
  OBVIOUS
<1>1. CASE UNCHANGED propVars
  <2>1. (QuorumKeeps /\ LocksMatch /\ LaterLarger /\ AskedQuorum /\ SharedMember)'
        /\ Txs' = Txs /\ Committed' = Committed
    BY <1>1, StoreGrows DEF propVars, nodeVars, PropInv, PropTypeOK
  <2>2. PropTypeOK' /\ MailHonest'
    BY <1>1, <2>1 DEF propVars, nodeVars, PropInv, PropTypeOK, MailHonest
  <2>. QED  BY <2>1, <2>2 DEF PropInv
<1>2. ASSUME NEW t \in Txs, NEW m \in Member, LockPeer(t, m) \/ ReadTimestamp(t, m) \/ Stage(t, m)
      PROVE  PropInv'
  BY <1>2, LockPeerKeeps, ReadTimestampKeeps, StageKeeps
<1>3. ASSUME NEW t \in Txs, Decide(t)
      PROVE  PropInv'
  BY <1>3, CommitWriteKeeps, AbortWriteKeeps DEF Decide
<1>4. ASSUME NEW m \in Member, LockOwn(m) \/ EndWrite(m) \/ StreamWrites(m)
      PROVE  PropInv'
  BY <1>4, LockOwnKeeps, EndWriteKeeps, StreamWritesKeeps
<1>5. ASSUME NEW b \in mail, Handle(b) \/ Lose(b)
      PROVE  PropInv'
  BY <1>5, BackgroundWriteReqKeeps, BackgroundWriteResKeeps, MissKeeps, LoseKeeps DEF Handle
<1>6. ASSUME NEW m \in Member, ControlFail(m) \/ ControlRecover(m)
      PROVE  PropInv'
  BY <1>6, ControlFailKeeps, ControlRecoverKeeps
<1>. QED  BY <1>1, <1>2, <1>3, <1>4, <1>5, <1>6 DEF PropNext

\* The quorum of a committed write keeps it, although background writes bypass
\* every lock (dbnode.go:635-692).
THEOREM PropInvariant == PropSpec => []PropInv
  BY PropInitHolds, PropStepKeeps, PTL DEF PropSpec

\* Two committed writes have one timestamp only if a node that was in both quorums
\* failed and forgot that it was locked: any two quorums meet, and a node that has
\* forgotten neither tells the second coordinator what it has of the first
\* (dbnode.go:178-184, 613-633, 836-857).
THEOREM TimestampsClash == PropSpec => []ClashOnlyIfForgotten
<1>1. ASSUME PropInv, NEW t \in Committed, NEW u \in Committed, t # u,
             writes[t].ts = writes[u].ts
      PROVE  \E m \in writes[t].quorum \cap writes[u].quorum : Forgot(m, t) \/ Forgot(m, u)
  <2>1. t \in Txs /\ u \in Txs /\ Full(t) /\ Full(u)
    BY <1>1 DEF PropInv, AskedQuorum, Committed
  <2>2. PICK m : m \in writes[t].quorum \cap writes[u].quorum
    BY <1>1, <2>1, QuorumsMeet
  <2>. QED  BY <1>1, <2>2 DEF PropInv, SharedMember
<1>2. PropInv => ClashOnlyIfForgotten
  BY <1>1 DEF ClashOnlyIfForgotten
<1>. QED  BY <1>2, PropInvariant, PTL

-----------------------------------------------------------------------------
(* What the propagater counts is there.                                     *)

\* A node loses a version to a late commit of an older one or to its own failure,
\* and in no other way (dbnode.go:178-184, 495-516).
LEMMA KeepsOn ==
  ASSUME PropInv, [PropNext]_propVars, NEW t \in Committed, NEW m \in Member, Keeps(m, t)
  PROVE  Keeps(m, t)'
<1>. DEFINE v == writes[t].ts
<1>1. t \in Txs /\ t # 0 /\ writes[t].state = "committed" /\ v \in Nat /\ writes \in Seq(WriteRecord)
      /\ store \in [Member -> Nat] /\ lockedBy \in [Member -> {0} \cup Txs]
  BY Fields DEF PropInv, PropTypeOK, Committed
<1>2. CASE m \in overwritten \/ Forgot(m, t)
  BY <1>2 DEF Keeps, Forgot, PropNext, propVars, nodeVars, LockPeer, ReadTimestamp, Stage, Decide, CommitWrite, AbortWrite,
              LockOwn, EndWrite, StreamWrites, Handle, BackgroundWriteReq, BackgroundWriteRes, Lose,
              Miss, ControlFail, ControlRecover
<1>3. CASE Has(m, t)
  <2>1. CASE UNCHANGED propVars
    BY <1>3, <2>1 DEF propVars, Keeps, Has
  <2>2. ASSUME NEW u \in Txs, NEW k \in Member, LockPeer(u, k) \/ ReadTimestamp(u, k) \/ Stage(u, k)
        PROVE  Has(m, t)'
    <3>1. writes'[t] = writes[t] /\ UNCHANGED store
      BY <2>2, <1>1 DEF LockPeer, ReadTimestamp, MayRead, Stage, Txs
    <3>2. lockedBy[m] = t => lockedBy'[m] = t
      BY <2>2, <1>1 DEF LockPeer, ReadTimestamp, Stage
    <3>. QED  BY <1>3, <3>1, <3>2 DEF Has
  <2>3. ASSUME NEW u \in Txs, CommitWrite(u)
        PROVE  Keeps(m, t)'
    <3>. DEFINE c == writes[u].coordinator
    <3>1. /\ writes[u].state = "open" /\ lockedBy[c] = u /\ writes'[t] = writes[t]
          /\ lockedBy' = [lockedBy EXCEPT ![c] = 0]
          /\ store' = [store EXCEPT ![c] = writes[u].ts]
          /\ store[c] > writes[u].ts => c \in overwritten'
      BY <2>3, <1>1 DEF CommitWrite, Decided, Coordinator, Txs
    <3>2. c \in Member /\ writes[u].ts \in Nat
      BY <1>1, Fields
    <3>. HIDE DEF c
    <3>3. CASE m # c
      BY <1>1, <1>3, <3>1, <3>3 DEF Keeps, Has
    <3>4. CASE m = c
      <4>1. store[m] >= v
        BY <1>1, <1>3, <3>1, <3>4 DEF Has
      <4>2. store'[m] = writes[u].ts
        BY <1>1, <3>1, <3>4
      <4>. QED  BY <4>1, <4>2, <1>1, <3>1, <3>2, <3>4 DEF Keeps, Has
    <3>. QED  BY <3>3, <3>4
  <2>4. ASSUME NEW u \in Txs, AbortWrite(u)
        PROVE  Has(m, t)'
    <3>1. writes[u].state = "open" /\ lockedBy[writes[u].coordinator] = u
          /\ writes'[t] = writes[t] /\ UNCHANGED store
          /\ lockedBy' = [lockedBy EXCEPT ![writes[u].coordinator] = 0]
      BY <2>4, <1>1 DEF AbortWrite, Decided, Coordinator, Txs
    <3>. QED  BY <1>1, <1>3, <3>1 DEF Has
  <2>5. ASSUME NEW k \in Member, LockOwn(k)
        PROVE  Has(m, t)'
    <3>1. writes'[t] = writes[t] /\ UNCHANGED store
      BY <2>5, <1>1 DEF LockOwn, Txs
    <3>2. lockedBy[m] = t => lockedBy'[m] = t
      BY <2>5, <1>1 DEF LockOwn
    <3>. QED  BY <1>3, <3>1, <3>2 DEF Has
  <2>6. ASSUME NEW k \in Member, EndWrite(k)
        PROVE  Keeps(m, t)'
    <3>. DEFINE u == lockedBy[k]
    <3>1. /\ writes' = writes /\ lockedBy' = [lockedBy EXCEPT ![k] = 0] /\ u \in Txs
          /\ store' = [store EXCEPT ![k] = IF writes[u].state = "committed"
                                           THEN writes[u].ts ELSE store[k]]
          /\ writes[u].state = "committed" /\ store[k] > writes[u].ts => k \in overwritten'
      BY <2>6, <1>1 DEF EndWrite
    <3>2. writes[u].ts \in Nat
      BY <1>1, <3>1, Fields
    <3>. HIDE DEF u
    <3>3. CASE m # k
      BY <1>1, <1>3, <3>1, <3>3 DEF Keeps, Has
    <3>4. CASE m = k /\ u = t
      <4>1. store'[m] = v
        BY <1>1, <3>1, <3>4
      <4>. QED  BY <4>1, <1>1, <3>1 DEF Keeps, Has
    <3>5. CASE m = k /\ u # t
      <4>1. store[m] >= v
        BY <1>3, <3>5 DEF Has, u
      <4>2. store'[m] = IF writes[u].state = "committed" THEN writes[u].ts ELSE store[m]
        BY <1>1, <3>1, <3>5
      <4>3. CASE writes[u].state = "committed"
        BY <4>1, <4>2, <4>3, <1>1, <3>1, <3>2, <3>5 DEF Keeps, Has
      <4>4. CASE writes[u].state # "committed"
        BY <4>1, <4>2, <4>4, <3>1 DEF Keeps, Has
      <4>. QED  BY <4>3, <4>4
    <3>. QED  BY <3>3, <3>4, <3>5
  <2>7. ASSUME NEW k \in Member, StreamWrites(k)
        PROVE  Has(m, t)'
    BY <1>3, <2>7 DEF StreamWrites, Has
  <2>8. ASSUME NEW b \in mail, Handle(b) \/ Lose(b)
        PROVE  Has(m, t)'
    <3>1. UNCHANGED <<writes, lockedBy>>
      BY <2>8 DEF Handle, Lose, Miss, BackgroundWriteReq, BackgroundWriteRes
    <3>2. store'[m] >= store[m] /\ store'[m] \in Nat
      <4>1. CASE BackgroundWriteReq(b)
        <5>1. Larger(writes[b.tx].ts, store[b.node]) \in Nat
              /\ Larger(writes[b.tx].ts, store[b.node]) >= store[b.node]
          BY <1>1, MailFields, LargerOf
        <5>2. store' = [store EXCEPT ![b.node] = Larger(writes[b.tx].ts, store[b.node])]
          BY <4>1 DEF BackgroundWriteReq
        <5>. QED  BY <5>1, <5>2, <1>1, MailFields
      <4>2. CASE BackgroundWriteRes(b)
        <5>. DEFINE c == writes[b.tx].coordinator
        <5>1. c \in Member /\ b.ts \in Nat
          BY <4>2, MailFields DEF BackgroundWriteRes
        <5>2. Larger(store[c], b.ts) \in Nat /\ Larger(store[c], b.ts) >= store[c]
          BY <5>1, <1>1, LargerOf
        <5>3. store' = store \/ store' = [store EXCEPT ![c] = Larger(store[c], b.ts)]
          BY <4>2 DEF BackgroundWriteRes, Coordinator
        <5>. HIDE DEF c
        <5>. QED  BY <5>1, <5>2, <5>3, <1>1, SMTT(30)
      <4>3. CASE Lose(b) \/ Miss(b)
        BY <4>3, <1>1 DEF Lose, Miss
      <4>. QED  BY <2>8, <4>1, <4>2, <4>3 DEF Handle
    <3>. QED  BY <1>1, <1>3, <3>1, <3>2 DEF Has
  <2>9. ASSUME NEW k \in Member, ControlFail(k)
        PROVE  Keeps(m, t)'
    <3>1. UNCHANGED <<writes, store>>
      BY <2>9 DEF ControlFail
    <3>2. CASE lockedBy[m] = t /\ lockedBy'[m] # t
      BY <3>2, <2>9, <1>1 DEF ControlFail, Keeps, Forgot
    <3>3. CASE lockedBy[m] = t => lockedBy'[m] = t
      BY <3>1, <3>3, <1>3 DEF Keeps, Has
    <3>. QED  BY <3>2, <3>3
  <2>10. ASSUME NEW k \in Member, ControlRecover(k)
        PROVE  Has(m, t)'
    BY <1>3, <2>10 DEF ControlRecover, Has
  <2>11. Has(m, t)' => Keeps(m, t)'
    BY DEF Keeps
  <2>. QED  BY <2>1, <2>2, <2>3, <2>4, <2>5, <2>6, <2>7, <2>8, <2>9, <2>10, <2>11 DEF PropNext, Decide
<1>. QED  BY <1>2, <1>3 DEF Keeps

\* A node enters the count with its quorum's commit or with its own answer.
LEMMA ConfirmedStep ==
  ASSUME PropInv, PropInv', ConfirmedHold, [PropNext]_propVars
  PROVE  ConfirmedHold'
<1>0. Txs \subseteq 1..MaxWrites
  <2>1. Len(writes) \in Nat /\ Len(writes) <= MaxWrites /\ MaxWrites \in Nat
    BY PropagaterAssumption DEF PropagaterAssumption, PropInv, PropTypeOK
  <2>. QED  BY <2>1 DEF Txs
<1>1. \A t \in Txs : confirmed[t] \subseteq Member
  BY <1>0 DEF PropInv, PropTypeOK
<1>2. ASSUME NEW t \in Committed', NEW m \in confirmed'[t]
      PROVE  Keeps(m, t)'
  <2>1. CASE t \in Committed /\ m \in confirmed[t]
    BY <2>1, <1>1, KeepsOn DEF ConfirmedHold, Committed
  <2>2. CASE \E u \in Txs : CommitWrite(u)
    <3>1. PICK u \in Txs : CommitWrite(u)
      BY <2>2
    <3>2. /\ u \in 1..MaxWrites /\ confirmed \in [1..MaxWrites -> SUBSET Member]
          /\ confirmed' = [confirmed EXCEPT ![u] = writes[u].quorum]
          /\ t # u => t \in Committed
      BY <3>1 DEF CommitWrite, PropagateTransaction, Decided, PropInv, PropTypeOK, Txs, Committed
    <3>3. CASE t = u
      <4>1. Changed(u, writes[u].quorum, writes[u].asked, writes[u].ts, "committed")
        BY <3>1, DecidedChanges DEF CommitWrite, PropInv
      <4>2. m \in writes'[u].quorum
        BY <4>1, <3>2, <3>3 DEF Changed
      <4>. QED  BY <4>2, <3>3 DEF PropInv, QuorumKeeps, Keeps
    <3>. QED  BY <3>2, <3>3, <2>1
  <2>3. CASE \E b \in mail : BackgroundWriteRes(b)
    <3>1. PICK b \in mail : BackgroundWriteRes(b)
      BY <2>3
    <3>2. /\ confirmed' = confirmed \/ (b.ok /\ confirmed' = [confirmed EXCEPT ![b.tx] = confirmed[b.tx] \cup {b.node}])
          /\ writes' = writes /\ b.kind = "answer"
      BY <3>1 DEF BackgroundWriteRes
    <3>3. t \in Committed
      BY <3>2 DEF Committed, Txs
    <3>4. CASE b.ok /\ t = b.tx /\ m = b.node
      BY <3>2, <3>3, <3>4, KeepsOn, MailFields DEF ConfirmedHold
    <3>5. m \in confirmed[t] \/ (b.ok /\ t = b.tx /\ m = b.node)
      <4>1. t \in 1..MaxWrites /\ confirmed \in [1..MaxWrites -> SUBSET Member]
        BY <3>3, <1>0 DEF PropInv, PropTypeOK, Committed
      <4>. QED  BY <3>2, <4>1, ZenonT(40)
    <3>. QED  BY <3>3, <3>4, <3>5, <2>1
  <2>4. CASE UNCHANGED confirmed /\ t \in Committed
    BY <2>1, <2>4
  <2>5. \/ \E u \in Txs : CommitWrite(u)
        \/ \E b \in mail : BackgroundWriteRes(b)
        \/ UNCHANGED confirmed /\ ~(\E u \in Txs : CommitWrite(u))
    BY DEF PropNext, propVars, Decide, Handle, LockPeer, ReadTimestamp, Stage, AbortWrite, LockOwn,
           EndWrite, StreamWrites, BackgroundWriteReq, Lose, Miss, ControlFail, ControlRecover
  <2>6. CASE ~(\E u \in Txs : CommitWrite(u))
    <3>1. Committed' = Committed
      <4>0. writes \in Seq(WriteRecord) /\ PropTypeOK
        BY DEF PropInv, PropTypeOK
      <4>1. ASSUME NEW u \in Txs, NEW k \in Member, LockPeer(u, k)
            PROVE  Committed' = Committed
        <5>1. writes[u].state = "open" /\ UNCHANGED forgotten
          BY <4>1 DEF LockPeer, nodeVars
        <5>2. Changed(u, writes[u].quorum \cup {k}, writes[u].asked, writes[u].ts, "open")
          BY <4>0, <4>1, LockPeerChanges
        <5>. QED  BY <5>1, <5>2, SameState
      <4>2. ASSUME NEW u \in Txs, NEW k \in Member, ReadTimestamp(u, k)
            PROVE  Committed' = Committed
        <5>1. writes[u].state = "open" /\ UNCHANGED forgotten
          BY <4>2 DEF ReadTimestamp, MayRead, nodeVars
        <5>2. Changed(u, writes[u].quorum, writes[u].asked \cup {k}, Told(u, k), "open")
          BY <4>0, <4>2, ReadTimestampChanges
        <5>. QED  BY <5>1, <5>2, SameState
      <4>6. ASSUME NEW u \in Txs, NEW k \in Member, Stage(u, k)
            PROVE  Committed' = Committed
        <5>1. writes[u].state = "open" /\ UNCHANGED forgotten
          BY <4>6 DEF Stage, nodeVars
        <5>2. Changed(u, writes[u].quorum, writes[u].asked, writes[u].ts, "open")
          BY <4>0, <4>6, StageChanges
        <5>. QED  BY <5>1, <5>2, SameState
      <4>3. ASSUME NEW u \in Txs, AbortWrite(u)
            PROVE  Committed' = Committed
        <5>1. writes[u].state = "open"
          BY <4>3 DEF AbortWrite
        <5>2. Changed(u, writes[u].quorum, writes[u].asked, writes[u].ts, "aborted")
          BY <4>0, <4>3, DecidedChanges DEF AbortWrite
        <5>. QED  BY <5>1, <5>2 DEF Changed, Committed, Txs
      <4>4. ASSUME NEW k \in Member, LockOwn(k)
            PROVE  Committed' = Committed
        <5>. DEFINE r == [coordinator |-> k, quorum |-> {k}, asked |-> {}, staged |-> {}, ts |-> 1, state |-> "open"]
        <5>1. writes' = Append(writes, r) /\ r \in WriteRecord /\ r.state = "open"
          BY <4>4 DEF LockOwn, WriteRecord
        <5>. HIDE DEF r
        <5>2. /\ Len(writes') = Len(writes) + 1 /\ writes'[Len(writes) + 1] = r
              /\ \A u \in Txs : writes'[u] = writes[u]
          BY <4>0, <5>1, AppendProperties DEF Txs
        <5>. QED  BY <5>1, <5>2 DEF Committed, Txs
      <4>5. CASE UNCHANGED writes
        BY <4>5 DEF Committed, Txs
      <4>. QED  BY <4>1, <4>2, <4>3, <4>4, <4>5, <4>6, <2>6
                DEF PropNext, propVars, Decide, Handle, EndWrite, StreamWrites, BackgroundWriteReq,
                    BackgroundWriteRes, Lose, Miss, ControlFail, ControlRecover
    <3>. QED  BY <3>1, <2>3, <2>4, <2>5, <2>6
  <2>. QED  BY <2>2, <2>6
<1>3. ASSUME NEW b \in mail', b.kind = "answer", b.ok
      PROVE  Keeps(b.node, b.tx)'
  <2>1. CASE b \in mail
    BY <1>3, <2>1, KeepsOn, MailFields DEF ConfirmedHold
  <2>2. CASE b \notin mail
    <3>1. ASSUME NEW c \in Member, StreamWrites(c)
          PROVE  b.kind # "answer"
      BY <3>1, <2>2 DEF StreamWrites, Asks
    <3>2. ASSUME NEW a \in mail, BackgroundWriteReq(a)
          PROVE  Has(b.node, b.tx)'
      <4>. DEFINE v == writes[a.tx].ts
                  newest == Larger(v, store[a.node])
      <4>1. a.node \in Member /\ a.tx \in Txs /\ v \in Nat /\ store \in [Member -> Nat]
        BY MailFields DEF PropInv, PropTypeOK
      <4>2. b = Answers(a, newest = v, newest) /\ writes' = writes
            /\ store' = [store EXCEPT ![a.node] = newest]
        BY <3>2, <2>2 DEF BackgroundWriteReq
      <4>3. newest \in Nat /\ newest >= v
        BY <4>1, LargerOf
      <4>. HIDE DEF v, newest
      <4>4. b.node = a.node /\ b.tx = a.tx
        BY <4>2 DEF Answers
      <4>5. store'[a.node] = newest
        BY <4>1, <4>2
      <4>6. store'[b.node] >= writes'[b.tx].ts
        BY <4>2, <4>3, <4>4, <4>5 DEF v
      <4>. QED  BY <4>6 DEF Has
    <3>3. (\E c \in Member : StreamWrites(c)) \/ (\E a \in mail : BackgroundWriteReq(a))
      BY <2>2, <1>3 DEF PropNext, propVars, Decide, Handle, LockPeer, ReadTimestamp, Stage, AbortWrite,
             CommitWrite, LockOwn, EndWrite, BackgroundWriteRes, Lose, Miss, ControlFail, ControlRecover
    <3>. QED  BY <3>1, <3>2, <3>3, <1>3 DEF Keeps
  <2>. QED  BY <2>1, <2>2
<1>. QED  BY <1>2, <1>3 DEF ConfirmedHold

\* What the propagater counts as spread is spread, unless a late commit of an
\* older version takes it away (backgroundWriter.go:141-148) or the node has failed
\* after it had staged the version.
THEOREM CountedIsThere == PropSpec => []ConfirmedHold
<1>1. PropInit => ConfirmedHold
  BY DEF PropInit, ConfirmedHold, Committed, Txs
<1>2. PropInv /\ PropInv' /\ ConfirmedHold /\ [PropNext]_propVars => ConfirmedHold'
  BY ConfirmedStep
<1>. QED  BY <1>1, <1>2, PropInvariant, PTL DEF PropSpec
-----------------------------------------------------------------------------
(* When the main loop is stuck.                                             *)

\* Of a signalled streamer: a write of its node has been committed since it last
\* sent anything, and waits for its first background message.
Streaming(c) ==
  /\ streamer[c] = "signalled" => \E t \in Own(active, c) : \A b \in mail : b.tx # t
  /\ stuck[c] => streamer[c] = "signalled" /\ \E t, u \in Own(active, c) : t # u

\* Nodes keep the writes they coordinate.
LEMMA CoordinatorsStay ==
  ASSUME PropInv, [PropNext]_propVars, NEW t \in Txs
  PROVE  t \in Txs' /\ writes'[t].coordinator = writes[t].coordinator
<1>1. writes \in Seq(WriteRecord) /\ PropTypeOK
  BY DEF PropInv, PropTypeOK
<1>2. ASSUME NEW v \in Txs, NEW q, NEW a, NEW ts, NEW state, Changed(v, q, a, ts, state)
      PROVE  t \in Txs' /\ writes'[t].coordinator = writes[t].coordinator
  BY <1>2 DEF Changed, Txs
<1>3. CASE writes' = writes
  BY <1>3 DEF Txs
<1>4. ASSUME NEW v \in Txs, NEW m \in Member, LockPeer(v, m) \/ ReadTimestamp(v, m) \/ Stage(v, m)
      PROVE  t \in Txs' /\ writes'[t].coordinator = writes[t].coordinator
  BY <1>1, <1>2, <1>4, LockPeerChanges, ReadTimestampChanges, StageChanges
<1>5. ASSUME NEW v \in Txs, Decide(v)
      PROVE  t \in Txs' /\ writes'[t].coordinator = writes[t].coordinator
  BY <1>1, <1>2, <1>5, DecidedChanges DEF Decide, CommitWrite, AbortWrite
<1>6. ASSUME NEW c \in Member, LockOwn(c)
      PROVE  t \in Txs' /\ writes'[t].coordinator = writes[t].coordinator
  <2>. DEFINE r == [coordinator |-> c, quorum |-> {c}, asked |-> {}, staged |-> {}, ts |-> 1, state |-> "open"]
  <2>1. writes' = Append(writes, r) /\ r \in WriteRecord
    BY <1>6 DEF LockOwn, WriteRecord
  <2>. HIDE DEF r
  <2>2. Len(writes') = Len(writes) + 1 /\ Len(writes) \in Nat
        /\ \A i \in 1..Len(writes) : writes'[i] = writes[i]
    BY <2>1, <1>1, AppendProperties
  <2>. QED  BY <2>2 DEF Txs
<1>7. ASSUME NEW m \in Member,
             EndWrite(m) \/ StreamWrites(m) \/ ControlFail(m) \/ ControlRecover(m)
      PROVE  writes' = writes
  BY <1>7 DEF EndWrite, StreamWrites, ControlFail, ControlRecover
<1>8. ASSUME NEW b \in mail, Handle(b) \/ Lose(b)
      PROVE  writes' = writes
  BY <1>8 DEF Handle, BackgroundWriteReq, BackgroundWriteRes, Lose, Miss
<1>. QED  BY <1>3, <1>4, <1>5, <1>6, <1>7, <1>8 DEF PropNext, propVars

\* A step that neither signals the streamer of c nor drops or sends the first
\* message of a write of c, and leaves them all alone while c is stuck.
LEMMA StreamingStays ==
  ASSUME PropInv, [PropNext]_propVars, NEW c \in Member, Streaming(c),
         streamer'[c] = streamer[c], stuck'[c] = stuck[c],
         \A t \in Own(active, c) : t \in active' \/ (~stuck[c] /\ \E b \in mail : b.tx = t),
         \A x \in mail' : x.tx \in Own(active, c) => \E b \in mail : b.tx = x.tx
  PROVE  Streaming(c)'
<1>1. \A t \in Own(active, c) : t \in active' => t \in Own(active, c)'
  BY CoordinatorsStay DEF Own, Coordinator, PropInv, PropTypeOK
<1>2. ASSUME streamer[c] = "signalled"
      PROVE  \E t \in Own(active, c)' : \A b \in mail' : b.tx # t
  <2>1. PICK t \in Own(active, c) : \A b \in mail : b.tx # t
    BY <1>2 DEF Streaming
  <2>2. t \in Own(active, c)' /\ \A b \in mail' : b.tx # t
    BY <1>1, <2>1
  <2>. QED  BY <2>2
<1>3. ASSUME stuck[c]
      PROVE  streamer[c] = "signalled" /\ \E t, u \in Own(active, c)' : t # u
  BY <1>1, <1>3 DEF Streaming
<1>. QED  BY <1>2, <1>3 DEF Streaming

\* A node commits a write and signals its streamer (backgroundWriter.go:104-121).
LEMMA CommitStreams ==
  ASSUME PropInv, [PropNext]_propVars, NEW t \in Txs, CommitWrite(t), NEW c \in Member, Streaming(c)
  PROVE  Streaming(c)'
<1>. DEFINE d == writes[t].coordinator
<1>1. /\ active' = active \cup {t} /\ mail' = mail /\ ~stuck[d]
      /\ streamer' = [streamer EXCEPT ![d] = "signalled"]
      /\ stuck' = [stuck EXCEPT ![d] = streamer[d] = "signalled"]
      /\ streamer \in [Member -> {"receiving", "signalled"}] /\ stuck \in [Member -> BOOLEAN]
  BY DEF CommitWrite, PropagateTransaction, Runs, Coordinator, PropInv, PropTypeOK
<1>2. CASE c # d
  BY <1>1, <1>2, StreamingStays DEF Own
<1>3. CASE c = d
  <2>1. t \notin active /\ \A b \in mail : b.tx # t
    BY DEF CommitWrite, PropInv, MailHonest, Committed
  <2>2. t \in Own(active, c)'
    BY <1>1, <1>3, CoordinatorsStay DEF Own, Coordinator
  <2>3. streamer'[c] = "signalled" /\ stuck'[c] = (streamer[c] = "signalled")
    BY <1>1, <1>3
  <2>4. ASSUME streamer[c] = "signalled"
        PROVE  \E v, u \in Own(active, c)' : v # u
    <3>1. PICK u \in Own(active, c) : TRUE
      BY <2>4 DEF Streaming
    <3>2. u \in Own(active, c)' /\ u # t
      BY <1>1, <2>1, <3>1, CoordinatorsStay DEF Own, Coordinator, PropInv, PropTypeOK
    <3>. QED  BY <2>2, <3>2
  <2>. QED  BY <1>1, <2>1, <2>2, <2>3, <2>4 DEF Streaming
<1>. QED  BY <1>2, <1>3

\* A streamer sends what its node has committed and waits for the next signal
\* (backgroundWriter.go:69-101); that of a node that is stuck cannot.
LEMMA StreamStreams ==
  ASSUME PropInv, [PropNext]_propVars, NEW d \in Member, StreamWrites(d), NEW c \in Member, Streaming(c)
  PROVE  Streaming(c)'
<1>1. /\ streamer' = [streamer EXCEPT ![d] = "receiving"] /\ stuck' = stuck /\ ~stuck[d]
      /\ active' = active \ {t \in Own(active, d) : Enough(t)}
      /\ streamer \in [Member -> {"receiving", "signalled"}]
  BY DEF StreamWrites, PropInv, PropTypeOK
<1>2. CASE c = d
  BY <1>1, <1>2 DEF Streaming
<1>3. CASE c # d
  <2>1. \A t \in Own(active, c) : t \notin Own(active, d)
    BY <1>3 DEF Own
  <2>2. \A t \in Own(active, c) : t \in active'
    BY <1>1, <2>1 DEF Own
  <2>3. ASSUME NEW x \in mail', x.tx \in Own(active, c)
        PROVE  \E b \in mail : b.tx = x.tx
    <3>1. CASE x \in mail
      BY <3>1
    <3>2. CASE x \notin mail
      <4>1. PICK t \in Own(active, d) : \E m \in Member : x = Asks(t, m)
        BY <2>3, <3>2 DEF StreamWrites
      <4>2. x.tx = t
        BY <4>1 DEF Asks
      <4>. QED  BY <2>1, <2>3, <4>1, <4>2
    <3>. QED  BY <3>1, <3>2
  <2>. QED  BY <1>1, <1>3, <2>2, <2>3, StreamingStays
<1>. QED  BY <1>2, <1>3

\* A background message is handled or lost (dbnode.go:635-692).
LEMMA HandleStreams ==
  ASSUME PropInv, [PropNext]_propVars, NEW a \in mail, Handle(a) \/ Lose(a), NEW c \in Member, Streaming(c)
  PROVE  Streaming(c)'
<1>1. streamer' = streamer /\ stuck' = stuck
  BY DEF Handle, BackgroundWriteReq, BackgroundWriteRes, Lose, Miss
<1>2. ASSUME NEW x \in mail'
      PROVE  \E b \in mail : b.tx = x.tx
  <2>1. CASE BackgroundWriteReq(a)
    BY <1>2, <2>1 DEF BackgroundWriteReq, Answers
  <2>2. CASE ~BackgroundWriteReq(a)
    BY <1>2, <2>2 DEF Handle, BackgroundWriteRes, Lose, Miss
  <2>. QED  BY <2>1, <2>2
<1>3. ASSUME NEW t \in Own(active, c)
      PROVE  t \in active' \/ (~stuck[c] /\ \E b \in mail : b.tx = t)
  <2>1. CASE active' = active
    BY <1>3, <2>1 DEF Own
  <2>2. CASE BackgroundWriteRes(a)
    BY <1>3, <2>2 DEF BackgroundWriteRes, Own, Runs, Coordinator
  <2>. QED  BY <2>1, <2>2 DEF Handle, BackgroundWriteReq, Lose, Miss
<1>. QED  BY <1>1, <1>2, <1>3, StreamingStays

\* The main loop is stuck only if its node committed two writes before its
\* streamer took the lock (backgroundWriter.go:104, 120, against 71).
THEOREM StuckIfHurried == PropSpec => []StuckOnlyIfHurried
<1>. DEFINE SInv == \A c \in Member : Streaming(c)
<1>1. PropInit => SInv
  BY DEF PropInit, Streaming
<1>2. PropInv /\ SInv /\ [PropNext]_propVars => SInv'
  <2>. SUFFICES ASSUME PropInv, SInv, [PropNext]_propVars, NEW c \in Member
       PROVE  Streaming(c)'
    OBVIOUS
  <2>1. CASE UNCHANGED <<active, streamer, stuck, mail>>
    BY <2>1, StreamingStays DEF Own
  <2>2. ASSUME NEW t \in Txs, NEW m \in Member, LockPeer(t, m) \/ ReadTimestamp(t, m) \/ Stage(t, m)
        PROVE  Streaming(c)'
    BY <2>1, <2>2 DEF LockPeer, ReadTimestamp, Stage
  <2>3. ASSUME NEW t \in Txs, Decide(t)
        PROVE  Streaming(c)'
    BY <2>1, <2>3, CommitStreams DEF Decide, AbortWrite
  <2>4. ASSUME NEW m \in Member, LockOwn(m) \/ EndWrite(m) \/ StreamWrites(m)
        PROVE  Streaming(c)'
    BY <2>1, <2>4, StreamStreams DEF LockOwn, EndWrite
  <2>5. ASSUME NEW b \in mail, Handle(b) \/ Lose(b)
        PROVE  Streaming(c)'
    BY <2>5, HandleStreams
  <2>6. CASE UNCHANGED propVars
    BY <2>1, <2>6 DEF propVars
  <2>7. ASSUME NEW m \in Member, ControlFail(m) \/ ControlRecover(m)
        PROVE  Streaming(c)'
    BY <2>1, <2>7 DEF ControlFail, ControlRecover
  <2>. QED  BY <2>2, <2>3, <2>4, <2>5, <2>6, <2>7 DEF PropNext
<1>3. SInv => StuckOnlyIfHurried
  BY DEF Streaming, StuckOnlyIfHurried
<1>. QED  BY <1>1, <1>2, <1>3, PropInvariant, PTL DEF PropSpec
=============================================================================
