---------------------------- MODULE RingElector ----------------------------
(***************************************************************************)
(* Leader election on a ring (dbnode/elector/ring.go).  A token with a     *)
(* list of node ids goes round the ring; each node adds its id, follows    *)
(* the highest and sends the token on.  A node that hears nothing between  *)
(* two ticks of its timer sends the token it had last to the node after    *)
(* the one it tried last.                                                  *)
(*                                                                         *)
(* A token's ids are a set here: the list may hold an id several times,    *)
(* and removing one copy may leave another.  What disturbs the token's     *)
(* round is bounded as a whole: a tick handled while messages are still on *)
(* their way, a token discarded by the rate limiter, a token or an ack     *)
(* lost, a failure.                                                        *)
(***************************************************************************)
EXTENDS Integers, FiniteSetsExt

CONSTANTS
  N,             \* the number of nodes, r.n
  MaxDisturbed,  \* bound: disturbances
  MaxRequests    \* bound: client requests for the leader

ASSUME RingAssumption ==
  /\ N \in Nat /\ N > 1
  /\ MaxDisturbed \in Nat /\ MaxRequests \in Nat

Id == 0..(N - 1)
NoLeader == -1

VARIABLES
  leader,      \* r.leader
  nextInRing,  \* r.nextInRing
  token,       \* the ids of r.token
  up,          \* ~r.disabled
  heard,       \* whether timeoutCounter has grown since the timer was armed
  buffered,    \* whether requestsToForward holds a request
  tokens,      \* tokens in flight
  acks,        \* nodes to which an ack is in flight
  disturbed,   \* disturbances so far
  requests     \* client requests so far

ringVars ==
  <<leader, nextInRing, token, up, heard, buffered, tokens, acks, disturbed, requests>>

Token == [src : Id, dest : Id, ids : SUBSET Id]

RingTypeOK ==
  /\ leader \in [Id -> Id \cup {NoLeader}]
  /\ nextInRing \in [Id -> Id]
  /\ token \in [Id -> SUBSET Id]
  /\ up \in [Id -> BOOLEAN]
  /\ heard \in [Id -> BOOLEAN]
  /\ buffered \in [Id -> BOOLEAN]
  /\ tokens \subseteq Token
  /\ acks \subseteq Id
  /\ disturbed \in 0..MaxDisturbed
  /\ requests \in 0..MaxRequests

Disturbance ==
  /\ disturbed < MaxDisturbed
  /\ disturbed' = disturbed + 1
Undisturbed == disturbed' = disturbed

HighestId(ids) == IF ids = {} THEN NoLeader ELSE Max(ids)
AfterUnwrapped(i) == i + 1     \* a mutant of After
After(i) == (i + 1) % N

\* forwardRequests: buffered requests leave once there is a leader.
StillBuffered(i, newLeader) ==
  [buffered EXCEPT ![i] = @ /\ newLeader = NoLeader]

-----------------------------------------------------------------------------
\* A tick after other messages: the timer is armed again.
TickHeard(i) ==
  /\ up[i] /\ heard[i]
  /\ heard' = [heard EXCEPT ![i] = FALSE]
  /\ buffered' = StillBuffered(i, leader[i])
  /\ UNCHANGED <<leader, nextInRing, token, up, tokens, acks, disturbed, requests>>

InFlight == tokens # {} \/ acks # {}

\* What may be left of the list when the leader is struck off it.
Struck(ids, id) == IF id \in ids THEN {ids, ids \ {id}} ELSE {ids}

\* Mutants of ReceiveToken: the ids of the token are forgotten; a node that follows
\* a leader keeps it.
ReceiveTokenAlone(t) ==
  LET i == t.dest IN
  /\ up[i]
  /\ acks' = acks \cup {t.src}
  /\ token' = [token EXCEPT ![i] = {i}]
  /\ leader' = [leader EXCEPT ![i] = i]
  /\ tokens' = (tokens \ {t}) \cup {[src |-> i, dest |-> nextInRing[i], ids |-> {i}]}
  /\ nextInRing' = [nextInRing EXCEPT ![i] = After(i)]
  /\ heard' = [heard EXCEPT ![i] = TRUE]
  /\ buffered' = [buffered EXCEPT ![i] = FALSE]
  /\ UNCHANGED <<up, disturbed, requests>>
ReceiveTokenOnce(t) ==
  LET i == t.dest
      ids == t.ids \cup {i}
  IN
  /\ up[i]
  /\ acks' = acks \cup {t.src}
  /\ token' = [token EXCEPT ![i] = ids]
  /\ leader' = [leader EXCEPT ![i] = IF @ = NoLeader THEN HighestId(ids) ELSE @]
  /\ \/ /\ tokens' = (tokens \ {t}) \cup {[src |-> i, dest |-> nextInRing[i], ids |-> ids]}
        /\ Undisturbed
     \/ tokens' = tokens \ {t} /\ Disturbance
  /\ nextInRing' = [nextInRing EXCEPT ![i] = After(i)]
  /\ heard' = [heard EXCEPT ![i] = TRUE]
  /\ buffered' = [buffered EXCEPT ![i] = FALSE]
  /\ UNCHANGED <<up, requests>>

\* Mutants of TickSilent: the token is not sent again; it goes to the same node.
TickSilentQuiet(i) ==
  /\ up[i] /\ ~heard[i]
  /\ buffered' = StillBuffered(i, leader[i])
  /\ UNCHANGED <<leader, nextInRing, token, up, heard, tokens, acks, disturbed, requests>>
TickSilentStays(i) ==
  /\ up[i] /\ ~heard[i]
  /\ IF InFlight THEN Disturbance ELSE Undisturbed
  /\ tokens' = tokens \cup {[src |-> i, dest |-> nextInRing[i], ids |-> token[i]]}
  /\ buffered' = StillBuffered(i, leader[i])
  /\ UNCHANGED <<leader, nextInRing, token, up, heard, acks, requests>>

\* A tick after silence: the leader is given up if it is the node before the
\* next one to try, and the token goes to the next one.
TickSilent(i) ==
  /\ up[i] /\ ~heard[i]
  /\ IF InFlight THEN Disturbance ELSE Undisturbed
  /\ IF leader[i] = nextInRing[i] - 1
     THEN \E ids \in Struck(token[i], leader[i]) :
            /\ token' = [token EXCEPT ![i] = ids]
            /\ leader' = [leader EXCEPT ![i] = HighestId(ids)]
     ELSE UNCHANGED <<token, leader>>
  /\ tokens' = tokens \cup {[src |-> i, dest |-> nextInRing[i], ids |-> token'[i]]}
  /\ nextInRing' = [nextInRing EXCEPT ![i] = After(@)]
  /\ buffered' = StillBuffered(i, leader'[i])
  /\ UNCHANGED <<up, heard, acks, requests>>

\* ElectionElect: acknowledge, add the own id, follow the highest, and send the
\* token to the node that was next, unless one was sent just before.
ReceiveToken(t) ==
  LET i == t.dest
      ids == t.ids \cup {i}
  IN
  /\ up[i]
  /\ acks' = acks \cup {t.src}
  /\ token' = [token EXCEPT ![i] = ids]
  /\ leader' = [leader EXCEPT ![i] = HighestId(ids)]
  /\ \/ /\ tokens' = (tokens \ {t}) \cup {[src |-> i, dest |-> nextInRing[i], ids |-> ids]}
        /\ Undisturbed
     \/ tokens' = tokens \ {t} /\ Disturbance
  /\ nextInRing' = [nextInRing EXCEPT ![i] = After(i)]
  /\ heard' = [heard EXCEPT ![i] = TRUE]
  /\ buffered' = [buffered EXCEPT ![i] = FALSE]
  /\ UNCHANGED <<up, requests>>

\* ElectionAck, which is heard and nothing else.
ReceiveAck(i) ==
  /\ i \in acks /\ up[i]
  /\ acks' = acks \ {i}
  /\ heard' = [heard EXCEPT ![i] = TRUE]
  /\ UNCHANGED <<leader, nextInRing, token, up, buffered, tokens, disturbed, requests>>

\* The node asks Leader() and hands a request of which it is not the leader to
\* ForwardToLeader, which leaves it in the buffer.
Request(i) ==
  /\ up[i] /\ leader[i] # i /\ requests < MaxRequests
  /\ requests' = requests + 1
  /\ heard' = [heard EXCEPT ![i] = TRUE]
  /\ buffered' = [buffered EXCEPT ![i] = TRUE]
  /\ UNCHANGED <<leader, nextInRing, token, up, tokens, acks, disturbed>>

-----------------------------------------------------------------------------
(* Failures.  A failed node drops what arrives.                             *)

ControlFail(i) ==
  /\ up[i] /\ Disturbance
  /\ up' = [up EXCEPT ![i] = FALSE]
  /\ leader' = [leader EXCEPT ![i] = NoLeader]
  /\ UNCHANGED <<nextInRing, token, heard, buffered, tokens, acks, requests>>

ControlRecover(i) ==
  /\ ~up[i]
  /\ up' = [up EXCEPT ![i] = TRUE]
  /\ heard' = [heard EXCEPT ![i] = FALSE]
  /\ UNCHANGED <<leader, nextInRing, token, buffered, tokens, acks, disturbed, requests>>

DropToken(t) ==
  /\ IF up[t.dest] THEN Disturbance ELSE Undisturbed
  /\ tokens' = tokens \ {t}
  /\ UNCHANGED <<leader, nextInRing, token, up, heard, buffered, acks, requests>>

DropAck(i) ==
  /\ i \in acks
  /\ IF up[i] THEN Disturbance ELSE Undisturbed
  /\ acks' = acks \ {i}
  /\ UNCHANGED <<leader, nextInRing, token, up, heard, buffered, tokens, requests>>

-----------------------------------------------------------------------------
\* Before the first message: node N-1 has sent a token with its id to node 0.
RingInit ==
  /\ leader = [i \in Id |-> NoLeader]
  /\ nextInRing = [i \in Id |-> After(i)]
  /\ token = [i \in Id |-> IF i = N - 1 THEN {i} ELSE {}]
  /\ up = [i \in Id |-> TRUE]
  /\ heard = [i \in Id |-> FALSE]
  /\ buffered = [i \in Id |-> FALSE]
  /\ tokens = {[src |-> N - 1, dest |-> 0, ids |-> {N - 1}]}
  /\ acks = {}
  /\ disturbed = 0 /\ requests = 0

RingNext ==
  \/ \E i \in Id : TickHeard(i) \/ TickSilent(i) \/ Request(i) \/ ControlFail(i) \/ ControlRecover(i)
  \/ \E t \in tokens : ReceiveToken(t) \/ DropToken(t)
  \/ \E i \in Id : ReceiveAck(i) \/ DropAck(i)

TokenGone(d) == \E t \in tokens : t.dest = d /\ (ReceiveToken(t) \/ DropToken(t))
AckGone(d) == ReceiveAck(d) \/ DropAck(d)

\* The timers tick, and what is in flight arrives or is lost.
RingFairness == \A i \in Id :
  /\ WF_ringVars(TickHeard(i)) /\ WF_ringVars(TickSilent(i))
  /\ WF_ringVars(TokenGone(i)) /\ WF_ringVars(AckGone(i))

RingSpec == RingInit /\ [][RingNext]_ringVars
FairRingSpec == RingSpec /\ RingFairness
-----------------------------------------------------------------------------
(* Properties.                                                              *)

\* As long as no tick comes too early and nothing fails or is lost, no two nodes
\* take themselves for the leader: whichever of them has heard of a leader, they
\* all follow the same node (ring.go, ElectionElect; diss.tex:632).
OneLeader ==
  disturbed = 0 => \A i, j \in Id :
    leader[i] # NoLeader /\ leader[j] # NoLeader => leader[i] = leader[j]

\* "nodes will disagree on the current leader, but will reach consensus after one
\* traversal" (docs/diss/diss.tex:647): tokens that were lost, failures and ticks that
\* came too early, each of which may have left several tokens with different ids on
\* the ring (ring.go:103), do not keep the nodes apart.  If from some time on no node
\* is down, then from some time on they all follow the same one.
AllFollowOne == \E l \in Id : \A i \in Id : leader[i] = l
LeaderAgreed == []<>(\E i \in Id : ~up[i]) \/ <>[]AllFollowOne

\* "returns the current elected leader, or -1 if an election is in progress":
\* an election ends.  A node without a leader gets one, whichever tokens are
\* lost and whichever nodes fail, unless it fails itself (elector.go:8).
ElectionEnds == \A i \in Id :
  up[i] /\ leader[i] = NoLeader ~> ~up[i] \/ leader[i] # NoLeader

\* "it buffers messages and forwards them once a leader is elected"
\* (elector.go:10-11).
RequestsForwarded == \A i \in Id : up[i] /\ buffered[i] ~> ~up[i] \/ ~buffered[i]

\* "an unreachable node will be detected by all nodes" (docs/diss/diss.tex:645):
\* no node follows node N-1 for ever after it has failed.
FailedLeaderDetected == \A i \in Id :
  up[i] /\ leader[i] = N - 1 /\ ~up[N - 1] ~> ~up[i] \/ leader[i] # N - 1 \/ up[N - 1]
=============================================================================
