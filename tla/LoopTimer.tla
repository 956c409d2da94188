----------------------------- MODULE LoopTimer -----------------------------
(***************************************************************************)
(* A main loop and its timer goroutine, as in dbnode.go (handleRequests    *)
(* and setInternalTimer) and in elector/ring.go (mainLoop and              *)
(* startInternalTimer).  The loop arms the timer with its timeoutCounter   *)
(* over an unbuffered channel; after a while the timer posts a tick with   *)
(* that number to the inbox of the loop, which arms it again when it has   *)
(* handled the tick.  A tick that still has the loop's number means that   *)
(* nothing was heard meanwhile: a timeout.                                 *)
(***************************************************************************)
EXTENDS Naturals, Sequences, SequencesExt

CONSTANTS
  Capacity,      \* room in the inbox
  MaxArrivals    \* bound: messages and control signals that arrive

ASSUME LoopAssumption == Capacity \in Nat \ {0} /\ MaxArrivals \in Nat

VARIABLES
  inbox,      \* n.Incoming, r.messageQueue
  loop,       \* "ready" for the next message, or "arming" the timer
  counter,    \* timeoutCounter
  timer,      \* what the timer goroutine is about to post, or Unarmed
  disabled,   \* whether the node has failed
  arrivals,   \* messages and control signals so far
  hasty       \* history: a node recovered before the tick armed earlier had gone

loopVars == <<inbox, loop, counter, timer, disabled, arrivals, hasty>>

\* History of a tick: whether the loop has handled nothing that counts since it
\* was armed, and whether the node has recovered from a failure since then.
Tick == [kind : {"tick"}, number : Nat, silent : BOOLEAN, stale : BOOLEAN]
Unarmed == [kind |-> "unarmed"]
\* An election message is counted in the elector and not in the database node.
Arrivals == [kind : {"counted", "uncounted", "fail", "recover"}]

LoopTypeOK ==
  /\ inbox \in Seq(Tick \cup Arrivals) /\ Len(inbox) <= Capacity
  /\ loop \in {"ready", "arming"}
  /\ counter \in Nat
  /\ timer \in Tick \cup {Unarmed}
  /\ disabled \in BOOLEAN
  /\ arrivals \in 0..MaxArrivals
  /\ hasty \in BOOLEAN

Ticks == {i \in DOMAIN inbox : inbox[i].kind = "tick"}
Outstanding == timer # Unarmed \/ Ticks # {}

-----------------------------------------------------------------------------
(* What arrives, and the timer goroutine.                                   *)

\* The network discards a message that finds the inbox full; control signals
\* and the ring's messages wait for room.
ArriveAnyway(m) ==     \* a mutant of Arrive
  /\ arrivals < MaxArrivals
  /\ arrivals' = arrivals + 1
  /\ inbox' = Append(inbox, m)
  /\ UNCHANGED <<loop, counter, timer, disabled, hasty>>
Arrive(m) ==
  /\ arrivals < MaxArrivals /\ Len(inbox) < Capacity
  /\ arrivals' = arrivals + 1
  /\ inbox' = Append(inbox, m)
  /\ UNCHANGED <<loop, counter, timer, disabled, hasty>>

\* The loop's send on internalTimer meets the goroutine's receive.
Arm ==
  /\ loop = "arming" /\ timer = Unarmed
  /\ timer' = [kind |-> "tick", number |-> counter, silent |-> TRUE, stale |-> FALSE]
  /\ loop' = "ready"
  /\ UNCHANGED <<inbox, counter, disabled, arrivals, hasty>>

\* The goroutine has slept and finds room in the inbox.
Post ==
  /\ timer # Unarmed /\ Len(inbox) < Capacity
  /\ inbox' = Append(inbox, timer)
  /\ timer' = Unarmed
  /\ UNCHANGED <<loop, counter, disabled, arrivals, hasty>>

-----------------------------------------------------------------------------
(* The loop.                                                                *)

Receives(kind) == loop = "ready" /\ inbox # <<>> /\ Head(inbox).kind = kind

\* Every outstanding tick has ceased to mean silence.
Noise(t) == IF t.kind = "tick" THEN [t EXCEPT !.silent = FALSE] ELSE t

CountNothing ==     \* a mutant of Count
  /\ Receives("counted")
  /\ inbox' = [i \in 1..(Len(inbox) - 1) |-> Noise(inbox[i + 1])]
  /\ timer' = Noise(timer)
  /\ UNCHANGED <<loop, counter, disabled, arrivals, hasty>>
Count ==
  /\ Receives("counted")
  /\ IF disabled
     THEN inbox' = Tail(inbox) /\ UNCHANGED <<counter, timer>>
     ELSE /\ counter' = counter + 1
          /\ inbox' = [i \in 1..(Len(inbox) - 1) |-> Noise(inbox[i + 1])]
          /\ timer' = Noise(timer)
  /\ UNCHANGED <<loop, disabled, arrivals, hasty>>

\* timeoutCounter++ and then timeoutCounter-- .
Uncounted ==
  /\ Receives("uncounted")
  /\ inbox' = Tail(inbox)
  /\ UNCHANGED <<loop, counter, timer, disabled, arrivals, hasty>>

TimedOut == Receives("tick") /\ ~disabled /\ Head(inbox).number = counter

\* The timer is armed again, whether the tick was a timeout or not.
HandleTickOnce ==     \* a mutant of HandleTick
  /\ Receives("tick")
  /\ inbox' = Tail(inbox)
  /\ loop' = IF TimedOut THEN "arming" ELSE "ready"
  /\ UNCHANGED <<counter, timer, disabled, arrivals, hasty>>
HandleTick ==
  /\ Receives("tick")
  /\ inbox' = Tail(inbox)
  /\ loop' = IF disabled THEN "ready" ELSE "arming"
  /\ UNCHANGED <<counter, timer, disabled, arrivals, hasty>>

Fail ==
  /\ Receives("fail")
  /\ inbox' = Tail(inbox)
  /\ disabled' = TRUE
  /\ UNCHANGED <<loop, counter, timer, arrivals, hasty>>

\* Every outstanding tick was armed before the recovery.
Outdated(t) == IF t.kind = "tick" THEN [t EXCEPT !.stale = TRUE] ELSE t

RecoverAnyway ==     \* a mutant of Recover
  /\ Receives("recover")
  /\ inbox' = Tail(inbox)
  /\ disabled' = FALSE
  /\ counter' = 0
  /\ loop' = "arming"
  /\ hasty' = (hasty \/ (disabled /\ Outstanding))
  /\ UNCHANGED <<timer, arrivals>>
Recover ==
  /\ Receives("recover")
  /\ IF disabled
     THEN /\ counter' = 0 /\ loop' = "arming"
          /\ inbox' = [i \in 1..(Len(inbox) - 1) |-> Outdated(inbox[i + 1])]
          /\ timer' = Outdated(timer)
          /\ hasty' = (hasty \/ Outstanding)
     ELSE inbox' = Tail(inbox) /\ UNCHANGED <<counter, loop, timer, hasty>>
  /\ disabled' = FALSE
  /\ UNCHANGED arrivals

LoopStep == Count \/ Uncounted \/ HandleTick \/ Fail \/ Recover

LoopInit ==
  /\ inbox = <<>>
  /\ loop = "arming" /\ counter = 0
  /\ timer = Unarmed
  /\ disabled = FALSE
  /\ arrivals = 0 /\ hasty = FALSE

LoopNext == (\E m \in Arrivals : Arrive(m)) \/ Arm \/ Post \/ LoopStep

\* Goroutines that can go on do.
LoopFairness == WF_loopVars(Arm) /\ WF_loopVars(Post) /\ WF_loopVars(LoopStep)
LoopSpec == LoopInit /\ [][LoopNext]_loopVars
FairLoopSpec == LoopSpec /\ LoopFairness
-----------------------------------------------------------------------------
(* Properties.                                                              *)

\* "This goroutine must not block" (dbnode.go:136-138): unless the node
\* recovered hastily, the loop finds the timer ready to be armed, and there is
\* never a second tick.  After a hasty recovery it waits at every tick, and for
\* ever if the inbox is full.
NeverBlocks == ~hasty =>
  /\ loop = "arming" => timer = Unarmed
  /\ \A i, j \in Ticks : i = j
  /\ Ticks # {} => timer = Unarmed /\ loop = "ready"

\* A transaction or a leader is given up only after silence, or on account of a
\* tick from before the node's last recovery: a tick with the loop's number that was
\* armed since then was also armed since the last message that counts, whichever
\* old ticks come between (dbnode.go:194, 208; ring.go:96, 111).  The exception is
\* real: the counter starts again from 0 at a recovery (dbnode.go:153), and when it
\* reaches the number of an old tick, that tick is a timeout without silence.
FalseTimeoutsAreStale == TimedOut => Head(inbox).silent \/ Head(inbox).stale

\* While a node is up it can time out: a tick is handled again and again.
TicksGoOn == loop = "ready" ~> loop = "arming" \/ disabled \/ hasty
=============================================================================
