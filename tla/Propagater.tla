----------------------------- MODULE Propagater -----------------------------
(***************************************************************************)
(* Background propagation with sloppy quorums (dbnode/backgroundWriter.go  *)
(* and its handlers in dbnode.go).  The coordinator of a committed write   *)
(* sends it to the nodes outside its quorum until ReadQuorumSize nodes     *)
(* cannot miss it.  Each node has two goroutines here: the main loop,      *)
(* which commits and handles messages, and streamWrites, which sends.      *)
(*                                                                         *)
(* One key.  A version is known by its timestamp.  The write transactions  *)
(* themselves are those of module DbNode, abridged to the steps that the   *)
(* propagater can tell apart: their messages arrive once and in order,     *)
(* since the repeater delivers what it sends; what late copies of them do  *)
(* is module DbNode's.  Background messages do not go through the          *)
(* repeater, so each is received at most once, but a later round of        *)
(* streamWrites may send one again while an earlier one is on its way.     *)
(* Nodes fail and recover: a participant of a write forgets its lock then, *)
(* a coordinator does not, and streamWrites runs on meanwhile.             *)
(***************************************************************************)
EXTENDS Naturals, Sequences, FiniteSets, FiniteSetsExt

CONSTANTS
  Member,             \* the database nodes
  ReadQuorumSize,     \* rqs
  WriteQuorumSize,    \* wqs
  MaxWrites,          \* bound: write transactions
  MaxLost,            \* bound: background messages lost
  MaxCrashed          \* bound: failures

ASSUME PropagaterAssumption ==
  /\ IsFiniteSet(Member)
  /\ ReadQuorumSize \in 1..Cardinality(Member)
  /\ WriteQuorumSize \in 2..Cardinality(Member)
  /\ 2 * WriteQuorumSize > Cardinality(Member)
  /\ MaxWrites \in Nat /\ MaxLost \in Nat /\ MaxCrashed \in Nat

VARIABLES
  writes,      \* the write transactions, in the order they began
  store,       \* the timestamp of each node's committed version
  lockedBy,    \* the transaction that has locked a node, or 0
  active,      \* propagater.transactions of all coordinators
  confirmed,   \* transaction.nodes; its size is numConfirmedNodes
  streamer,    \* where streamWrites is: at its receive, or before taking the lock
  stuck,       \* whether the main loop waits in propagateTransaction, with the lock
  mail,        \* background messages in flight
  lost,        \* background messages lost
  up,          \* ~n.disabled
  crashed,     \* failures so far
  forgotten,   \* history: pairs <<t, m>>, m failed while it was locked by t
  overwritten  \* history: nodes where a commit replaced a newer version

nodeVars  == <<up, crashed, forgotten>>
propVars  == <<writes, store, lockedBy, active, confirmed, streamer, stuck, mail, lost,
               nodeVars, overwritten>>

Txs == 1..Len(writes)
CriticalSize == Cardinality(Member) - ReadQuorumSize + 1
Larger(a, b) == IF a > b THEN a ELSE b

Coordinator(t) == writes[t].coordinator
Committed == {t \in Txs : writes[t].state = "committed"}
Own(ts, c) == {t \in ts : Coordinator(t) = c}

\* round tells copies apart: the writes that the coordinator had committed when
\* streamWrites sent the message.
Asks(t, m) ==
  [kind |-> "ask", tx |-> t, node |-> m, round |-> Own(Committed, Coordinator(t))]
Answers(b, ok, ts) ==
  [kind |-> "answer", tx |-> b.tx, node |-> b.node, round |-> b.round, ok |-> ok, ts |-> ts]

WriteRecord == [coordinator : Member, quorum : SUBSET Member, asked : SUBSET Member,
                staged : SUBSET Member, ts : Nat \ {0},
                state : {"open", "committed", "aborted"}]
Mailing ==
  [kind : {"ask"}, tx : Nat \ {0}, node : Member, round : SUBSET Nat]
    \cup [kind : {"answer"}, tx : Nat \ {0}, node : Member, round : SUBSET Nat,
          ok : BOOLEAN, ts : Nat]

PropTypeOK ==
  /\ writes \in Seq(WriteRecord) /\ Len(writes) <= MaxWrites
  /\ store \in [Member -> Nat]
  /\ lockedBy \in [Member -> {0} \cup Txs]
  /\ active \subseteq Txs
  /\ confirmed \in [1..MaxWrites -> SUBSET Member]
  /\ streamer \in [Member -> {"receiving", "signalled"}]
  /\ stuck \in [Member -> BOOLEAN]
  /\ mail \subseteq Mailing
  /\ lost \in 0..MaxLost
  /\ up \in [Member -> BOOLEAN] /\ crashed \in 0..MaxCrashed
  /\ forgotten \subseteq Txs \X Member
  /\ overwritten \subseteq Member

\* The main loop of a node takes the next message.
Runs(m) == up[m] /\ ~stuck[m]

-----------------------------------------------------------------------------
(* Write transactions: a coordinator locks a quorum, reads the timestamps   *)
(* of its members, its own at last, and has them stage the version; then it *)
(* commits or aborts.                                                       *)

LockOwn(c) ==
  /\ Len(writes) < MaxWrites
  /\ lockedBy[c] = 0 /\ Runs(c)
  /\ writes' = Append(writes, [coordinator |-> c, quorum |-> {c}, asked |-> {},
                               staged |-> {}, ts |-> 1, state |-> "open"])
  /\ lockedBy' = [lockedBy EXCEPT ![c] = Len(writes) + 1]
  /\ UNCHANGED <<store, active, confirmed, streamer, stuck, mail, lost, nodeVars, overwritten>>

LockPeer(t, m) ==
  /\ writes[t].state = "open" /\ Cardinality(writes[t].quorum) < WriteQuorumSize
  /\ m \notin writes[t].quorum
  /\ lockedBy[m] = 0 /\ Runs(m)
  /\ writes' = [writes EXCEPT ![t].quorum = @ \cup {m}]
  /\ lockedBy' = [lockedBy EXCEPT ![m] = t]
  /\ UNCHANGED <<store, active, confirmed, streamer, stuck, mail, lost, nodeVars, overwritten>>

Full(t) == Cardinality(writes[t].quorum) = WriteQuorumSize

\* The coordinator asks the others and reads its own store when they have answered.
MayRead(t, m) ==
  /\ writes[t].state = "open" /\ Full(t) /\ m \in writes[t].quorum \ writes[t].asked
  /\ m = Coordinator(t) => writes[t].asked = writes[t].quorum \ {m}
  /\ Runs(m)

\* A member that is not locked for t any more answers without a timestamp.
ReadLast(t, m) ==     \* a mutant: the last answer counts, not the largest
  /\ MayRead(t, m)
  /\ writes' = [writes EXCEPT ![t].asked = @ \cup {m},
                              ![t].ts = IF lockedBy[m] = t THEN store[m] + 1 ELSE 1]
  /\ UNCHANGED <<store, lockedBy, active, confirmed, streamer, stuck, mail, lost, nodeVars, overwritten>>
ReadTimestamp(t, m) ==
  /\ MayRead(t, m)
  /\ writes' = [writes EXCEPT ![t].asked = @ \cup {m},
                              ![t].ts = IF lockedBy[m] = t THEN Larger(@, store[m] + 1) ELSE @]
  /\ UNCHANGED <<store, lockedBy, active, confirmed, streamer, stuck, mail, lost, nodeVars, overwritten>>

\* A member stages the version if it is still locked for t; otherwise its answer
\* is negative, and the write can only be aborted.
Stage(t, m) ==
  /\ writes[t].state = "open" /\ writes[t].asked = writes[t].quorum
  /\ m \in writes[t].quorum \ (writes[t].staged \cup {Coordinator(t)})
  /\ lockedBy[m] = t /\ Runs(m)
  /\ writes' = [writes EXCEPT ![t].staged = @ \cup {m}]
  /\ UNCHANGED <<store, lockedBy, active, confirmed, streamer, stuck, mail, lost, nodeVars, overwritten>>

Decided(t, state) == writes' = [writes EXCEPT ![t].state = state]

\* propagateTransaction takes the propagater's lock, adds the transaction and
\* signals the streamer, which can only receive the signal at its receive.
\* A mutant: the streamer is not signalled.
PropagateQuietly(c, t) ==
  /\ active' = active \cup {t}
  /\ confirmed' = [confirmed EXCEPT ![t] = writes[t].quorum]
  /\ UNCHANGED <<streamer, stuck>>
PropagateTransaction(c, t) ==
  /\ active' = active \cup {t}
  /\ confirmed' = [confirmed EXCEPT ![t] = writes[t].quorum]
  /\ streamer' = [streamer EXCEPT ![c] = "signalled"]
  /\ stuck' = [stuck EXCEPT ![c] = streamer[c] = "signalled"]

\* The coordinator commits its own copy and hands the write to its propagater.
CommitWrite(t) ==
  LET c == Coordinator(t) IN
  /\ writes[t].state = "open" /\ Full(t) /\ writes[t].asked = writes[t].quorum
  /\ writes[t].staged = writes[t].quorum \ {c}
  /\ lockedBy[c] = t /\ Runs(c)
  /\ Decided(t, "committed")
  /\ store' = [store EXCEPT ![c] = writes[t].ts]
  /\ overwritten' = IF store[c] > writes[t].ts THEN overwritten \cup {c} ELSE overwritten
  /\ lockedBy' = [lockedBy EXCEPT ![c] = 0]
  /\ PropagateTransaction(c, t)
  /\ UNCHANGED <<mail, lost, nodeVars>>

AbortWrite(t) ==
  LET c == Coordinator(t) IN
  /\ writes[t].state = "open" /\ lockedBy[c] = t /\ Runs(c)
  /\ Decided(t, "aborted")
  /\ lockedBy' = [lockedBy EXCEPT ![c] = 0]
  /\ UNCHANGED <<store, active, confirmed, streamer, stuck, mail, lost, nodeVars, overwritten>>

\* Another member receives the unlock request, which is sent until it arrives:
\* it commits what it has staged or leaves it aside, whatever it has received since.
\* (A member that has forgotten its lock does nothing.)
EndRolledBack(m) ==     \* a mutant: it rolls back
  /\ lockedBy[m] # 0 /\ writes[lockedBy[m]].state # "open" /\ Runs(m)
  /\ lockedBy' = [lockedBy EXCEPT ![m] = 0]
  /\ UNCHANGED <<writes, store, active, confirmed, streamer, stuck, mail, lost, nodeVars, overwritten>>
EndWrite(m) ==
  LET w == writes[lockedBy[m]] IN
  /\ lockedBy[m] # 0 /\ w.state # "open" /\ Runs(m)
  /\ store' = [store EXCEPT ![m] = IF w.state = "committed" THEN w.ts ELSE @]
  /\ overwritten' = IF w.state = "committed" /\ store[m] > w.ts
                    THEN overwritten \cup {m} ELSE overwritten
  /\ lockedBy' = [lockedBy EXCEPT ![m] = 0]
  /\ UNCHANGED <<writes, active, confirmed, streamer, stuck, mail, lost, nodeVars>>

\* A failure: a coordinator stays locked for its write; any other node is idle and
\* has no request any more.  What it has staged stays in its store, uncommitted, and
\* nothing brings it back: only a committed write unlocks with Ok, and that has first
\* put its own version over what was staged (dbnode.go:496, 575).
ControlFail(m) ==
  LET t == lockedBy[m] IN
  /\ Runs(m) /\ crashed < MaxCrashed
  /\ crashed' = crashed + 1
  /\ up' = [up EXCEPT ![m] = FALSE]
  /\ IF t # 0 /\ Coordinator(t) # m
     THEN lockedBy' = [lockedBy EXCEPT ![m] = 0] /\ forgotten' = forgotten \cup {<<t, m>>}
     ELSE UNCHANGED <<lockedBy, forgotten>>
  /\ UNCHANGED <<writes, store, active, confirmed, streamer, stuck, mail, lost, overwritten>>

ControlRecover(m) ==
  /\ ~up[m]
  /\ up' = [up EXCEPT ![m] = TRUE]
  /\ UNCHANGED <<writes, store, lockedBy, active, confirmed, streamer, stuck, mail, lost,
                 crashed, forgotten, overwritten>>
-----------------------------------------------------------------------------
(* The propagater.                                                          *)

Enough(t) == Cardinality(confirmed[t]) >= CriticalSize

\* streamWrites takes the lock, drops what is spread and sends the rest to
\* every node not known to have it.
StreamWritesOnce(c) ==     \* a mutant: it does not return to its receive
  /\ streamer[c] = "signalled" /\ ~stuck[c]
  /\ active' = active \ {t \in Own(active, c) : Enough(t)}
  /\ mail' = mail \cup UNION { {Asks(t, m) : m \in Member \ confirmed[t]} :
                               t \in {u \in Own(active, c) : ~Enough(u)} }
  /\ UNCHANGED <<writes, store, lockedBy, confirmed, streamer, stuck, lost, nodeVars, overwritten>>
StreamWrites(c) ==
  /\ streamer[c] = "signalled" /\ ~stuck[c]
  /\ streamer' = [streamer EXCEPT ![c] = "receiving"]
  /\ active' = active \ {t \in Own(active, c) : Enough(t)}
  /\ mail' = mail \cup UNION { {Asks(t, m) : m \in Member \ confirmed[t]} :
                               t \in {u \in Own(active, c) : ~Enough(u)} }
  /\ UNCHANGED <<writes, store, lockedBy, confirmed, stuck, lost, nodeVars, overwritten>>

\* handleBackgroundWriteReq: store what is newer, and answer with what is newest.
AnswerBlindly(b) ==     \* a mutant: it answers before it stores
  /\ b.kind = "ask" /\ Runs(b.node)
  /\ store' = store
  /\ mail' = (mail \ {b}) \cup {Answers(b, TRUE, writes[b.tx].ts)}
  /\ UNCHANGED <<writes, lockedBy, active, confirmed, streamer, stuck, lost, nodeVars, overwritten>>
BackgroundWriteReq(b) ==
  LET newest == Larger(writes[b.tx].ts, store[b.node]) IN
  /\ b.kind = "ask" /\ Runs(b.node)
  /\ store' = [store EXCEPT ![b.node] = newest]
  /\ mail' = (mail \ {b}) \cup {Answers(b, newest = writes[b.tx].ts, newest)}
  /\ UNCHANGED <<writes, lockedBy, active, confirmed, streamer, stuck, lost, nodeVars, overwritten>>

\* handleBackgroundWriteRes with propagater.response: a positive answer counts
\* towards CriticalSize; a negative one brings a newer version, which ends the
\* propagation of the older and is stored.
BackgroundWriteRes(b) ==
  LET c == Coordinator(b.tx) IN
  /\ b.kind = "answer" /\ Runs(c)
  /\ mail' = mail \ {b}
  /\ confirmed' = IF b.tx \in active /\ b.ok
                  THEN [confirmed EXCEPT ![b.tx] = @ \cup {b.node}] ELSE confirmed
  /\ active' = IF b.ok /\ Cardinality(confirmed'[b.tx]) < CriticalSize
               THEN active ELSE active \ {b.tx}
  /\ store' = IF b.ok THEN store ELSE [store EXCEPT ![c] = Larger(@, b.ts)]
  /\ UNCHANGED <<writes, lockedBy, streamer, stuck, lost, nodeVars, overwritten>>

Lose(b) ==
  /\ lost < MaxLost
  /\ lost' = lost + 1
  /\ mail' = mail \ {b}
  /\ UNCHANGED <<writes, store, lockedBy, active, confirmed, streamer, stuck, nodeVars, overwritten>>

\* A failed node discards what arrives.
Miss(b) ==
  /\ ~up[IF b.kind = "ask" THEN b.node ELSE Coordinator(b.tx)]
  /\ mail' = mail \ {b}
  /\ UNCHANGED <<writes, store, lockedBy, active, confirmed, streamer, stuck, lost, nodeVars, overwritten>>

-----------------------------------------------------------------------------
PropInit ==
  /\ writes = <<>>
  /\ store = [m \in Member |-> 0]
  /\ lockedBy = [m \in Member |-> 0]
  /\ active = {}
  /\ confirmed = [t \in 1..MaxWrites |-> {}]
  /\ streamer = [m \in Member |-> "receiving"]
  /\ stuck = [m \in Member |-> FALSE]
  /\ mail = {}
  /\ lost = 0
  /\ up = [m \in Member |-> TRUE] /\ crashed = 0 /\ forgotten = {}
  /\ overwritten = {}

Decide(t) == CommitWrite(t) \/ AbortWrite(t)
Handle(b) == BackgroundWriteReq(b) \/ BackgroundWriteRes(b) \/ Miss(b)

PropNext ==
  \/ \E t \in Txs : \E m \in Member : LockPeer(t, m) \/ ReadTimestamp(t, m) \/ Stage(t, m)
  \/ \E t \in Txs : Decide(t)
  \/ \E m \in Member : LockOwn(m) \/ EndWrite(m) \/ StreamWrites(m)
  \/ \E m \in Member : ControlFail(m) \/ ControlRecover(m)
  \/ \E b \in mail : Handle(b) \/ Lose(b)

\* Goroutines that can go on do; a message that is not lost arrives; a
\* transaction is decided; an unlock request is sent until it arrives.
PropFairness ==
  /\ \A m \in Member : WF_propVars(EndWrite(m)) /\ WF_propVars(StreamWrites(m))
  /\ WF_propVars(\E b \in mail : Handle(b))
  /\ WF_propVars(\E t \in Txs : Decide(t))

PropSpec == PropInit /\ [][PropNext]_propVars
FairPropSpec == PropSpec /\ PropFairness
-----------------------------------------------------------------------------
(* Properties.                                                              *)

Has(m, t) == store[m] >= writes[t].ts \/ lockedBy[m] = t
Forgot(m, t) == <<t, m>> \in forgotten

\* The background path, with its stores that bypass every lock, never takes a
\* committed version away from the quorum that wrote it: each member has it, a
\* newer one, or has still to commit it, unless it failed before it did
\* (dbnode.go:635-692, 495-520).
QuorumKeeps == \A t \in Committed : \A m \in writes[t].quorum : Has(m, t) \/ Forgot(m, t)

\* Since any two quorums meet, two committed writes have one timestamp only if a
\* node that was in both failed and forgot that it was locked (dbnode.go:178-184),
\* although the nodes from which timestamps are computed receive versions behind the
\* coordinator's back (dbnode.go:613-633, 642, 836-857).  With such a failure they may,
\* and the log.Fatal of dbnode.go:639 and 683 can be reached.
ClashOnlyIfForgotten == \A t, u \in Committed :
  t # u /\ writes[t].ts = writes[u].ts =>
    \E m \in writes[t].quorum \cap writes[u].quorum : Forgot(m, t) \/ Forgot(m, u)

\* A node that the propagater counts as having a version, or will count when the
\* answer arrives, has it or a newer one, or is about to commit it, unless a late
\* commit of an older version has taken it away (backgroundWriter.go:141-148) or
\* the node failed after it had staged the version.
Keeps(m, t) == Has(m, t) \/ m \in overwritten \/ Forgot(m, t)
ConfirmedHold ==
  /\ \A t \in Committed : \A m \in confirmed[t] : Keeps(m, t)
  /\ \A b \in mail : b.kind = "answer" /\ b.ok => Keeps(b.node, b.tx)

\* A node is locked by a transaction that counts it in its quorum and that it has
\* not forgotten, and an open transaction has the rest of its quorum locked.
LocksMatch ==
  /\ \A m \in Member : lockedBy[m] # 0 =>
       m \in writes[lockedBy[m]].quorum /\ ~Forgot(m, lockedBy[m])
  /\ \A t \in Txs : \A m \in Member : Forgot(m, t) => m \in writes[t].quorum
  /\ \A t \in Txs : writes[t].state = "open" =>
       \A m \in writes[t].quorum : lockedBy[m] = t \/ Forgot(m, t)

\* A transaction that holds a member of an earlier quorum, and has asked it, has
\* a larger timestamp, if the member has not forgotten the earlier one.
LaterLarger == \A t \in Committed : \A u \in Txs \ {t} :
  \A m \in writes[t].quorum \cap writes[u].asked :
    lockedBy[m] = u => writes[t].ts < writes[u].ts \/ Forgot(m, t)

\* A node that has forgotten neither of two committed writes tells them apart.
SharedMember == \A t, u \in Committed : \A m \in writes[t].quorum \cap writes[u].quorum :
  t # u /\ ~Forgot(m, t) /\ ~Forgot(m, u) => writes[t].ts # writes[u].ts

\* A transaction commits when it has asked its whole quorum.
AskedQuorum ==
  /\ \A t \in Txs : writes[t].asked \subseteq writes[t].quorum
  /\ \A t \in Committed : writes[t].asked = writes[t].quorum /\ Full(t)

\* Only committed versions are propagated, and an answer that brings a newer
\* version is newer.
MailHonest ==
  /\ active \subseteq Committed
  /\ \A b \in mail : b.tx \in Committed
  /\ \A b \in mail : b.kind = "answer" /\ ~b.ok => b.ts > writes[b.tx].ts

\* The inductive invariant: a quorum keeps what it has staged or committed, a
\* later write that meets it has a larger timestamp, and an answer that brings a
\* newer version is newer (backgroundWriter.go:154 does not end the program).
PropInv ==
  /\ PropTypeOK
  /\ QuorumKeeps /\ LocksMatch /\ LaterLarger /\ AskedQuorum
  /\ SharedMember
  /\ MailHonest

\* The main loop waits in propagateTransaction only while the streamer has not
\* yet taken the lock for an earlier write of the same node, and then for ever
\* (backgroundWriter.go:104, 120, against 71).
StuckOnlyIfHurried == \A c \in Member : stuck[c] =>
  /\ streamer[c] = "signalled"
  /\ \E t, u \in Own(active, c) : t # u

Spread(t) == Cardinality({m \in Member : store[m] >= writes[t].ts}) >= CriticalSize

\* A committed write reaches CriticalSize nodes in the end, if no background
\* message is lost, no node fails, no main loop is stuck and no late commit takes it
\* away (backgroundWriter.go:69-97, 127-160).  A message that is lost is sent again
\* only after another commit, since startClock never runs (backgroundWriter.go:53-65).
SpreadsUnlessLost == \A t \in 1..MaxWrites :
  t \in Committed ~>
    \/ t \in {u \in Txs : Spread(u)}
    \/ lost > 0 \/ crashed > 0 \/ overwritten # {} \/ \E c \in Member : stuck[c]
=============================================================================
