------------------------------ MODULE LoopProofs ------------------------------
(***************************************************************************)
(* Proofs about LoopTimer, for any capacity of the inbox and any number of *)
(* arrivals: the inbox keeps to its capacity; unless a node recovered      *)
(* hastily, there is one tick at most, so the loop never waits to arm its  *)
(* timer; and a timeout means silence since the tick was armed, or the     *)
(* tick is from before the last recovery.  Then about RingElector, for a   *)
(* ring of any size and any number of disturbances: nodes and tokens name  *)
(* nodes of the ring, and nodes that nothing disturbs follow one leader.   *)
(***************************************************************************)
EXTENDS LoopTimer, RingElector, SequenceTheorems, WellFoundedInduction, TLAPS

\* What a tick that is still to be handled says about the loop.
Fresh(k) == k.stale \/ (k.number <= counter /\ (k.number = counter => k.silent))

\* The inductive invariant: a tick with the loop's number was armed after the
\* last message that counts, and no tick has a number from the future, unless the
\* node has recovered since it was armed.
LoopInv ==
  /\ LoopTypeOK
  /\ NeverBlocks
  /\ timer # Unarmed => Fresh(timer)
  /\ \A i \in Ticks : Fresh(inbox[i])

Message == Tick \cup Arrivals

\* The kinds of what is in the inbox.
LEMMA Kinds ==
  ASSUME NEW m \in Message
  PROVE  /\ m.kind = "tick" => m \in Tick
         /\ m.kind # "tick" => m \in Arrivals
  BY DEF Message, Tick, Arrivals

\* The timer is armed or not.
LEMMA Armed == Unarmed \notin Tick /\ \A k \in Tick : k.kind = "tick" /\ k.number \in Nat /\ k.silent \in BOOLEAN /\ k.stale \in BOOLEAN
  BY DEF Tick, Unarmed

\* The oldest message leaves the inbox (dbnode.go:149).
LEMMA Removed ==
  ASSUME inbox \in Seq(Message), inbox # <<>>, inbox' = Tail(inbox)
  PROVE  /\ inbox' \in Seq(Message) /\ Len(inbox') <= Len(inbox)
         /\ DOMAIN inbox' = 1..(Len(inbox) - 1) /\ Len(inbox) \in Nat \ {0}
         /\ \A i \in Ticks' : i + 1 \in Ticks /\ inbox'[i] = inbox[i + 1]
         /\ Head(inbox) = inbox[1]
<1>1. /\ inbox' \in Seq(Message) /\ Len(inbox') = Len(inbox) - 1
      /\ \A i \in 1..Len(inbox') : inbox'[i] = inbox[i + 1]
      /\ Head(inbox) = inbox[1] /\ Len(inbox) \in Nat \ {0}
  BY HeadTailProperties, EmptySeq
<1>2. DOMAIN inbox' = 1..(Len(inbox) - 1) /\ DOMAIN inbox = 1..Len(inbox)
  BY <1>1
<1>. QED  BY <1>1, <1>2 DEF Ticks

\* A message joins the inbox.
LEMMA Added ==
  ASSUME inbox \in Seq(Message), NEW m \in Message, inbox' = Append(inbox, m), Len(inbox) < Capacity
  PROVE  /\ inbox' \in Seq(Message) /\ Len(inbox') <= Capacity
         /\ \A i \in DOMAIN inbox : inbox'[i] = inbox[i]
         /\ DOMAIN inbox' = DOMAIN inbox \cup {Len(inbox) + 1} /\ Len(inbox) + 1 \notin DOMAIN inbox
         /\ inbox'[Len(inbox) + 1] = m
         /\ m.kind # "tick" => Ticks' = Ticks
         /\ m.kind = "tick" => Ticks' = Ticks \cup {Len(inbox) + 1}
<1>1. /\ inbox' \in Seq(Message) /\ Len(inbox') = Len(inbox) + 1
      /\ \A i \in 1..Len(inbox) : inbox'[i] = inbox[i]
      /\ inbox'[Len(inbox) + 1] = m /\ Len(inbox) \in Nat
  BY AppendProperties
<1>2. DOMAIN inbox' = 1..(Len(inbox) + 1) /\ DOMAIN inbox = 1..Len(inbox)
  BY <1>1
<1>3. Len(inbox') <= Capacity
  BY <1>1, LoopAssumption DEF LoopAssumption
<1>4. DOMAIN inbox' = DOMAIN inbox \cup {Len(inbox) + 1} /\ Len(inbox) + 1 \notin DOMAIN inbox
  BY <1>1, <1>2
<1>. QED  BY <1>1, <1>2, <1>3, <1>4 DEF Ticks

\* What counts is heard by every tick that is still to be handled.
LEMMA Heard ==
  ASSUME NEW m \in Message
  PROVE  Noise(m) \in Message /\ Noise(m).kind = m.kind
         /\ (m.kind = "tick" => Noise(m).number = m.number /\ Noise(m).stale = m.stale)
<1>1. CASE m.kind = "tick"
  BY <1>1, Kinds DEF Noise, Message, Tick
<1>2. CASE m.kind # "tick"
  BY <1>2 DEF Noise
<1>. QED  BY <1>1, <1>2

\* A recovery makes every tick that is still to be handled an old one.
LEMMA Aged ==
  ASSUME NEW m \in Message
  PROVE  Outdated(m) \in Message /\ Outdated(m).kind = m.kind
         /\ (m.kind = "tick" => Outdated(m) \in Tick /\ Outdated(m).stale)
<1>1. CASE m.kind = "tick"
  BY <1>1, Kinds DEF Outdated, Message, Tick
<1>2. CASE m.kind # "tick"
  BY <1>2 DEF Outdated
<1>. QED  BY <1>1, <1>2

-----------------------------------------------------------------------------
\* A message arrives; only the timer's goroutine posts ticks (manager.go:155-164).
LEMMA ArriveKeeps ==
  ASSUME LoopInv, NEW m \in Arrivals, Arrive(m)
  PROVE  LoopInv'
<1>. USE DEF LoopInv, LoopTypeOK, Arrive
<1>1. m \in Message /\ m.kind # "tick" /\ inbox \in Seq(Message)
  BY DEF Message, Arrivals
<1>2. /\ inbox' \in Seq(Message) /\ Len(inbox') <= Capacity /\ Ticks' = Ticks
      /\ \A i \in DOMAIN inbox : inbox'[i] = inbox[i]
  BY <1>1, Added
<1>3. LoopTypeOK'
  BY <1>2, LoopAssumption DEF LoopAssumption, Message
<1>4. NeverBlocks'
  BY <1>2 DEF NeverBlocks
<1>5. (timer # Unarmed => Fresh(timer)) /\ \A i \in Ticks' : Fresh(inbox'[i])
  BY <1>2 DEF Fresh, Ticks
<1>. QED  BY <1>3, <1>4, <1>5 DEF Fresh

\* The loop arms the timer (dbnode.go:206).
LEMMA ArmKeeps ==
  ASSUME LoopInv, Arm
  PROVE  LoopInv'
<1>. USE DEF LoopInv, LoopTypeOK, Arm
<1>1. timer' \in Tick /\ timer'.number = counter /\ timer'.silent = TRUE
  BY DEF Tick
<1>2. LoopTypeOK'
  BY <1>1
<1>3. NeverBlocks'
  BY DEF NeverBlocks, Ticks
<1>4. Fresh(timer)' /\ \A i \in Ticks' : Fresh(inbox[i])'
  BY <1>1 DEF Fresh, Ticks
<1>. QED  BY <1>2, <1>3, <1>4

\* The timer's goroutine posts the tick (dbnode.go:351-356).
LEMMA PostKeeps ==
  ASSUME LoopInv, Post
  PROVE  LoopInv'
<1>. USE DEF LoopInv, LoopTypeOK, Post
<1>1. timer \in Tick /\ timer.kind = "tick" /\ timer \in Message /\ inbox \in Seq(Message)
  BY Armed DEF Message
<1>2. /\ inbox' \in Seq(Message) /\ Len(inbox') <= Capacity /\ Ticks' = Ticks \cup {Len(inbox) + 1}
      /\ inbox'[Len(inbox) + 1] = timer
      /\ \A i \in DOMAIN inbox : inbox'[i] = inbox[i]
  BY <1>1, Added
<1>3. LoopTypeOK'
  BY <1>2 DEF Message
<1>4. ~hasty => Ticks = {} /\ loop = "ready"
  BY DEF NeverBlocks
<1>5. NeverBlocks'
  BY <1>2, <1>4 DEF NeverBlocks
<1>6. \A i \in Ticks' : Fresh(inbox[i])'
  BY <1>2, <1>1, Armed DEF Fresh, Ticks
<1>. QED  BY <1>3, <1>5, <1>6

\* The loop handles a message that leaves the counter and the timer alone.
LEMMA Taken ==
  ASSUME LoopInv, inbox # <<>>, inbox' = Tail(inbox), UNCHANGED <<counter, timer>>
  PROVE  /\ inbox' \in Seq(Tick \cup Arrivals) /\ Len(inbox') <= Capacity
         /\ \A i \in Ticks' : i + 1 \in Ticks
         /\ timer # Unarmed => Fresh(timer)'
         /\ \A i \in Ticks' : Fresh(inbox[i])'
         /\ ~hasty => \A i, j \in Ticks' : i = j
<1>1. /\ inbox' \in Seq(Message) /\ Len(inbox') <= Len(inbox) /\ Len(inbox) \in Nat
      /\ \A i \in Ticks' : i + 1 \in Ticks /\ inbox'[i] = inbox[i + 1]
      /\ DOMAIN inbox' = 1..(Len(inbox) - 1)
  BY Removed DEF LoopInv, LoopTypeOK, Message
<1>2. Len(inbox') <= Capacity
  <2>1. Len(inbox') \in Nat /\ Capacity \in Nat /\ Len(inbox) <= Capacity
    BY <1>1, LoopAssumption DEF LoopAssumption, LoopInv, LoopTypeOK
  <2>. QED  BY <2>1, <1>1
<1>3. ASSUME ~hasty, NEW i \in Ticks', NEW j \in Ticks'
      PROVE  i = j
  <2>1. i + 1 = j + 1 /\ i \in Nat /\ j \in Nat
    BY <1>1, <1>3 DEF LoopInv, NeverBlocks, Ticks
  <2>. QED  BY <2>1
<1>4. /\ timer # Unarmed => Fresh(timer)'
      /\ \A i \in Ticks' : Fresh(inbox[i])'
  BY <1>1 DEF LoopInv, Fresh
<1>. QED  BY <1>1, <1>2, <1>3, <1>4 DEF Message

\* A message that counts makes every tick that is outstanding an old one
\* (ring.go:110-112, dbnode.go:207-209).
LEMMA CountKeeps ==
  ASSUME LoopInv, Count
  PROVE  LoopInv'
<1>1. inbox # <<>> /\ loop' = loop /\ disabled' = disabled /\ arrivals' = arrivals /\ hasty' = hasty
  BY DEF Count, Receives
<1>2. CASE disabled
  <2>1. inbox' = Tail(inbox) /\ UNCHANGED <<counter, timer>>
    BY <1>2 DEF Count
  <2>2. /\ inbox' \in Seq(Tick \cup Arrivals) /\ Len(inbox') <= Capacity
        /\ \A i \in Ticks' : i + 1 \in Ticks
        /\ timer # Unarmed => Fresh(timer)'
        /\ \A i \in Ticks' : Fresh(inbox[i])'
        /\ ~hasty => \A i, j \in Ticks' : i = j
    BY <1>1, <2>1, Taken
  <2>. QED  BY <1>1, <2>1, <2>2 DEF LoopInv, LoopTypeOK, NeverBlocks
<1>3. CASE ~disabled
  <2>0. inbox \in Seq(Message) /\ Len(inbox) \in Nat \ {0} /\ counter \in Nat
        /\ timer \in Tick \cup {Unarmed} /\ Len(inbox) <= Capacity
    BY <1>1, EmptySeq DEF LoopInv, LoopTypeOK, Message
  <2>1. /\ counter' = counter + 1 /\ timer' = Noise(timer)
        /\ inbox' = [i \in 1..(Len(inbox) - 1) |-> Noise(inbox[i + 1])]
    BY <1>3 DEF Count
  <2>2. \A i \in 1..(Len(inbox) - 1) :
          /\ inbox[i + 1] \in Message /\ i + 1 \in DOMAIN inbox
          /\ inbox'[i] \in Message /\ inbox'[i].kind = inbox[i + 1].kind
          /\ inbox'[i].kind = "tick" => /\ inbox'[i].number = inbox[i + 1].number
                                        /\ inbox'[i].stale = inbox[i + 1].stale
    BY <2>0, <2>1, Heard
  <2>3. inbox' \in Seq(Message) /\ Len(inbox') = Len(inbox) - 1 /\ DOMAIN inbox' = 1..(Len(inbox) - 1)
    <3> DEFINE left == Len(inbox) - 1
    <3>1. left \in Nat
      BY <2>0
    <3>2. inbox' = [i \in 1..left |-> Noise(inbox[i + 1])]
      BY <2>1
    <3>3. \A i \in 1..left : inbox'[i] \in Message
      BY <2>2
    <3> HIDE DEF left
    <3>4. inbox' \in [1..left -> Message]
      BY <3>2, <3>3
    <3>5. inbox' \in Seq(Message) /\ Len(inbox') = left /\ DOMAIN inbox' = 1..left
      BY <3>1, <3>4
    <3>. QED  BY <3>5 DEF left
  <2>4. \A i \in Ticks' : /\ i + 1 \in Ticks /\ i \in Nat
                           /\ inbox'[i].number = inbox[i + 1].number
                           /\ inbox'[i].stale = inbox[i + 1].stale
    BY <2>2, <2>3 DEF Ticks
  <2>5. timer' \in Tick \cup {Unarmed} /\ (timer' = Unarmed <=> timer = Unarmed)
        /\ (timer # Unarmed => timer'.number = timer.number /\ timer'.stale = timer.stale)
    <3>1. CASE timer = Unarmed
      BY <3>1, <2>1 DEF Noise, Unarmed
    <3>2. CASE timer \in Tick
      <4>1. timer.kind = "tick" /\ Unarmed.kind # "tick" /\ timer \in Message
        BY <3>2, Armed DEF Unarmed, Message
      <4>2. timer' \in Message /\ timer'.kind = "tick" /\ timer'.number = timer.number
            /\ timer'.stale = timer.stale
        BY <4>1, <2>1, Heard
      <4>. QED  BY <4>1, <4>2, Kinds
    <3>. QED  BY <3>1, <3>2, <2>0
  <2>6. LoopTypeOK'
    <3>1. Len(inbox') <= Capacity
      BY <2>0, <2>3, LoopAssumption DEF LoopAssumption
    <3>. QED  BY <3>1, <1>1, <2>0, <2>1, <2>3, <2>5 DEF LoopInv, LoopTypeOK, Message
  <2>7. NeverBlocks'
    <3>1. ASSUME ~hasty, NEW i \in Ticks', NEW j \in Ticks'
          PROVE  i = j
      <4>1. i + 1 = j + 1
        BY <2>4, <3>1 DEF LoopInv, NeverBlocks
      <4>. QED  BY <4>1, <2>4
    <3>. QED  BY <3>1, <1>1, <2>4, <2>5 DEF LoopInv, NeverBlocks
  <2>8. timer' # Unarmed => Fresh(timer)'
    <3>. SUFFICES ASSUME timer' # Unarmed, ~timer'.stale
         PROVE  timer'.number <= counter' /\ timer'.number # counter'
      BY DEF Fresh
    <3>1. timer'.number <= counter /\ timer'.number \in Nat
      BY <2>5, Armed DEF LoopInv, Fresh
    <3>. QED  BY <3>1, <2>0, <2>1
  <2>9. ASSUME NEW i \in Ticks'
        PROVE  Fresh(inbox[i])'
    <3>. SUFFICES ASSUME ~inbox'[i].stale
         PROVE  inbox'[i].number <= counter' /\ inbox'[i].number # counter'
      BY DEF Fresh
    <3>1. inbox'[i].number <= counter
      BY <2>4, <2>9 DEF LoopInv, Fresh
    <3>2. inbox'[i].number \in Nat
      BY <2>3, <2>2, <2>9, Kinds, Armed DEF Ticks
    <3>. QED  BY <3>1, <3>2, <2>0, <2>1
  <2>. QED  BY <1>1, <2>6, <2>7, <2>8, <2>9 DEF LoopInv
<1>. QED  BY <1>2, <1>3

\* Other messages and failures touch neither the counter nor the timer
\* (dbnode.go:167-187, 261-263).
LEMMA UncountedFailKeep ==
  ASSUME LoopInv, Uncounted \/ Fail
  PROVE  LoopInv'
<1>1. /\ inbox # <<>> /\ inbox' = Tail(inbox) /\ UNCHANGED <<loop, counter, timer, arrivals, hasty>>
      /\ disabled' \in BOOLEAN
  BY DEF Uncounted, Fail, Receives, LoopInv, LoopTypeOK
<1>2. /\ inbox' \in Seq(Tick \cup Arrivals) /\ Len(inbox') <= Capacity
      /\ \A i \in Ticks' : i + 1 \in Ticks
      /\ timer # Unarmed => Fresh(timer)'
      /\ \A i \in Ticks' : Fresh(inbox[i])'
      /\ ~hasty => \A i, j \in Ticks' : i = j
  BY <1>1, Taken
<1>. QED  BY <1>1, <1>2 DEF LoopInv, LoopTypeOK, NeverBlocks

\* The only tick is handled, and the timer can be armed again (dbnode.go:193-206).
LEMMA HandleTickKeeps ==
  ASSUME LoopInv, HandleTick
  PROVE  LoopInv'
<1>1. /\ inbox # <<>> /\ Head(inbox).kind = "tick" /\ loop' \in {"ready", "arming"}
      /\ inbox' = Tail(inbox) /\ UNCHANGED <<counter, timer, disabled, arrivals, hasty>>
  BY DEF HandleTick, Receives
<1>2. /\ inbox' \in Seq(Tick \cup Arrivals) /\ Len(inbox') <= Capacity
      /\ \A i \in Ticks' : i + 1 \in Ticks
      /\ timer # Unarmed => Fresh(timer)'
      /\ \A i \in Ticks' : Fresh(inbox[i])'
      /\ ~hasty => \A i, j \in Ticks' : i = j
  BY <1>1, Taken
<1>3. 1 \in Ticks /\ \A i \in Ticks' : i \in Nat \ {0}
  BY <1>1, Removed DEF LoopInv, LoopTypeOK, Ticks, Message
<1>4. ~hasty => Ticks' = {} /\ timer = Unarmed
  <2>1. ASSUME ~hasty, NEW i \in Ticks'
        PROVE  FALSE
    <3>1. i + 1 = 1 /\ i \in Nat \ {0}
      BY <1>2, <1>3, <2>1 DEF LoopInv, NeverBlocks
    <3>. QED  BY <3>1
  <2>. QED  BY <1>3, <2>1 DEF LoopInv, NeverBlocks
<1>. QED  BY <1>1, <1>2, <1>4 DEF LoopInv, LoopTypeOK, NeverBlocks

\* A node recovers: it finds the timer ready to be armed, unless it recovers
\* hastily, and the ticks that are outstanding are old ones (dbnode.go:150-165).
LEMMA RecoverKeeps ==
  ASSUME LoopInv, Recover
  PROVE  LoopInv'
<1>1. inbox # <<>> /\ Head(inbox).kind # "tick" /\ arrivals' = arrivals /\ disabled' = FALSE
      /\ loop = "ready"
  BY DEF Recover, Receives
<1>2. CASE disabled
  <2>1. /\ counter' = 0 /\ loop' = "arming" /\ timer' = Outdated(timer)
        /\ hasty' = (hasty \/ Outstanding)
        /\ inbox' = [i \in 1..(Len(inbox) - 1) |-> Outdated(inbox[i + 1])]
    BY <1>2 DEF Recover
  <2>2. inbox \in Seq(Message) /\ Len(inbox) \in Nat \ {0} /\ timer \in Tick \cup {Unarmed}
        /\ Len(inbox) <= Capacity
    BY <1>1, EmptySeq DEF LoopInv, LoopTypeOK, Message
  <2>3. \A i \in 1..(Len(inbox) - 1) :
          /\ inbox[i + 1] \in Message /\ i + 1 \in DOMAIN inbox
          /\ inbox'[i] \in Message /\ inbox'[i].kind = inbox[i + 1].kind
          /\ inbox'[i].kind = "tick" => inbox'[i].stale
    BY <2>1, <2>2, Aged
  <2>4. inbox' \in Seq(Message) /\ Len(inbox') = Len(inbox) - 1 /\ DOMAIN inbox' = 1..(Len(inbox) - 1)
    <3> DEFINE left == Len(inbox) - 1
    <3>1. left \in Nat
      BY <2>2
    <3>2. inbox' = [i \in 1..left |-> Outdated(inbox[i + 1])]
      BY <2>1
    <3>3. \A i \in 1..left : inbox'[i] \in Message
      BY <2>3
    <3> HIDE DEF left
    <3>4. inbox' \in [1..left -> Message]
      BY <3>2, <3>3
    <3>5. inbox' \in Seq(Message) /\ Len(inbox') = left /\ DOMAIN inbox' = 1..left
      BY <3>1, <3>4
    <3>. QED  BY <3>5 DEF left
  <2>5. timer' \in Tick \cup {Unarmed} /\ (timer' = Unarmed <=> timer = Unarmed)
        /\ (timer' # Unarmed => timer'.stale)
    <3>1. CASE timer = Unarmed
      BY <3>1, <2>1 DEF Outdated, Unarmed
    <3>2. CASE timer \in Tick
      <4>1. timer.kind = "tick" /\ Unarmed.kind # "tick" /\ timer \in Message
        BY <3>2, Armed DEF Unarmed, Message
      <4>2. timer' \in Tick /\ timer'.kind = "tick" /\ timer'.stale
        BY <4>1, <2>1, Aged
      <4>. QED  BY <4>1, <4>2
    <3>. QED  BY <3>1, <3>2, <2>2
  <2>6. \A i \in Ticks' : i + 1 \in Ticks /\ inbox'[i].stale
    BY <2>3, <2>4 DEF Ticks
  <2>7. LoopTypeOK'
    <3>1. Len(inbox') <= Capacity
      BY <2>2, <2>4, LoopAssumption DEF LoopAssumption
    <3>2. hasty' \in BOOLEAN
      BY <2>1 DEF LoopInv, LoopTypeOK
    <3>. QED  BY <3>1, <3>2, <1>1, <2>1, <2>4, <2>5 DEF LoopInv, LoopTypeOK, Message
  <2>8. ~hasty' => timer' = Unarmed /\ Ticks' = {}
    BY <2>1, <2>5, <2>6 DEF Outstanding, LoopInv, LoopTypeOK
  <2>. QED  BY <2>5, <2>6, <2>7, <2>8 DEF LoopInv, NeverBlocks, Fresh
<1>3. CASE ~disabled
  <2>1. inbox' = Tail(inbox) /\ UNCHANGED <<counter, loop, timer, hasty>>
    BY <1>3 DEF Recover
  <2>2. /\ inbox' \in Seq(Tick \cup Arrivals) /\ Len(inbox') <= Capacity
        /\ \A i \in Ticks' : i + 1 \in Ticks
        /\ timer # Unarmed => Fresh(timer)'
        /\ \A i \in Ticks' : Fresh(inbox[i])'
        /\ ~hasty => \A i, j \in Ticks' : i = j
    BY <1>1, <2>1, Taken
  <2>. QED  BY <1>1, <2>1, <2>2 DEF LoopInv, LoopTypeOK, NeverBlocks
<1>. QED  BY <1>2, <1>3

-----------------------------------------------------------------------------
\* The invariant holds at the start and is kept by every action.
THEOREM LoopInvariant == LoopSpec => []LoopInv
<1>1. LoopInit => LoopInv
  <2>. SUFFICES ASSUME LoopInit PROVE LoopInv
    OBVIOUS
  <2>1. inbox = <<>> /\ Len(inbox) = 0 /\ DOMAIN inbox = {}
    BY DEF LoopInit
  <2>2. Ticks = {}
    BY <2>1 DEF Ticks
  <2>3. inbox \in Seq(Tick \cup Arrivals) /\ Len(inbox) <= Capacity
    BY <2>1, LoopAssumption DEF LoopAssumption
  <2>4. LoopTypeOK
    <3>1. 0 \in 0..MaxArrivals /\ 0 \in Nat
      BY LoopAssumption DEF LoopAssumption
    <3>2. timer \in Tick \cup {Unarmed} /\ loop \in {"ready", "arming"}
      BY DEF LoopInit
    <3>3. arrivals \in 0..MaxArrivals /\ counter \in Nat
      BY <3>1 DEF LoopInit
    <3>4. disabled \in BOOLEAN /\ hasty \in BOOLEAN
      BY DEF LoopInit
    <3>. QED  BY <2>3, <3>2, <3>3, <3>4 DEF LoopTypeOK
  <2>5. timer = Unarmed /\ NeverBlocks
    BY <2>2 DEF LoopInit, NeverBlocks
  <2>. QED  BY <2>2, <2>4, <2>5 DEF LoopInv, LoopInit
<1>2. LoopInv /\ [LoopNext]_loopVars => LoopInv'
  <2>. SUFFICES ASSUME LoopInv, [LoopNext]_loopVars
       PROVE  LoopInv'
    OBVIOUS
  <2>1. CASE UNCHANGED loopVars
    BY <2>1 DEF loopVars, LoopInv, LoopTypeOK, NeverBlocks, Ticks, Fresh
  <2>. QED  BY <2>1, ArriveKeeps, ArmKeeps, PostKeeps, CountKeeps, UncountedFailKeep,
               HandleTickKeeps, RecoverKeeps DEF LoopNext, LoopStep
<1>. QED  BY <1>1, <1>2, PTL DEF LoopSpec

\* The inbox never holds more than it has room for, though control signals and
\* the ring's messages wait for room instead of being discarded (manager.go).
THEOREM InboxBounded == LoopSpec => []LoopTypeOK
<1>1. LoopInv => LoopTypeOK
  BY DEF LoopInv
<1>. QED  BY <1>1, LoopInvariant, PTL

\* The loop never waits to arm its timer, unless a node recovered hastily
\* (dbnode.go:136-138, 206).
THEOREM LoopNeverBlocks == LoopSpec => []NeverBlocks
<1>1. LoopInv => NeverBlocks
  BY DEF LoopInv
<1>. QED  BY <1>1, LoopInvariant, PTL

\* A transaction or a leader is given up only after silence, or on account of a tick
\* from before the last recovery (dbnode.go:194, ring.go:96).
THEOREM FalseTimeouts == LoopSpec => []FalseTimeoutsAreStale
<1>1. LoopInv => FalseTimeoutsAreStale
  <2>. SUFFICES ASSUME LoopInv, TimedOut
       PROVE  Head(inbox).silent \/ Head(inbox).stale
    BY DEF FalseTimeoutsAreStale
  <2>1. Head(inbox) = inbox[1] /\ 1 \in Ticks
    BY EmptySeq, HeadTailProperties DEF LoopInv, LoopTypeOK, TimedOut, Receives, Ticks
  <2>. QED  BY <2>1 DEF LoopInv, TimedOut, Fresh
<1>. QED  BY <1>1, LoopInvariant, PTL
-----------------------------------------------------------------------------
(* The ring of electors                                                     *)

\* N - 1 names a node, and the node after one is one (ring.go, newRing).
LEMMA OnRing ==
  /\ N \in Nat /\ N - 1 \in Id /\ N - 1 \in Nat
  /\ NoLeader \notin Id
  /\ \A i \in Id : After(i) \in Id /\ i \in Nat
<1>1. N \in Nat /\ N > 1
  BY RingAssumption DEF RingAssumption
<1>2. ASSUME NEW i \in Id
      PROVE  After(i) \in Id /\ i \in Nat
  <2>1. i + 1 \in Nat /\ i \in Nat
    BY <1>1 DEF Id
  <2>2. (i + 1) % N \in 0..(N - 1)
    BY <1>1, <2>1
  <2>. QED  BY <2>1, <2>2 DEF After, Id
<1>. QED  BY <1>1, <1>2 DEF Id, NoLeader

\* The highest id of a token is one of its ids, and node N - 1 if that is one
\* (ring.go, highestId).
LEMMA Highest ==
  ASSUME NEW ids, ids \subseteq Id, ids # {}
  PROVE  /\ HighestId(ids) \in ids
         /\ \A i \in ids : i <= HighestId(ids)
<1>. DEFINE R == OpToRel(<, Nat)
            Below == {N - 1 - i : i \in ids}
<1>1. \A i \in ids : i \in Nat /\ N - 1 - i \in Nat
  BY OnRing DEF Id
<1>2. Below \subseteq Nat /\ Below # {}
  BY <1>1
<1>3. IsWellFoundedOn(R, Nat)
  BY NatLessThanWellFounded
<1>. HIDE DEF R
<1>4. PICK x \in Below : \A y \in Below : ~(<<y, x>> \in R)
  <2>. HIDE DEF Below
  <2>. QED  BY <1>2, <1>3, WFMin
<1>5. \A y \in Below : ~(y < x)
  <2>1. ASSUME NEW y \in Below, y < x
        PROVE  <<y, x>> \in R
    BY <2>1, <1>2 DEF R, OpToRel
  <2>. QED  BY <2>1, <1>4
<1>6. PICK h \in ids : x = N - 1 - h
  OBVIOUS
<1>7. ASSUME NEW i \in ids
      PROVE  h >= i
  <2>1. N - 1 - i \in Below
    OBVIOUS
  <2>2. ~(N - 1 - i < N - 1 - h)
    BY <2>1, <1>5, <1>6
  <2>. QED  BY <2>2, <1>1, OnRing
<1>. QED  BY <1>7, <1>1 DEF HighestId, Max

LEMMA HighestOf ==
  ASSUME NEW ids, ids \subseteq Id
  PROVE  /\ HighestId(ids) \in Id \cup {NoLeader}
         /\ N - 1 \in ids => HighestId(ids) = N - 1
<1>1. CASE ids = {}
  BY <1>1 DEF HighestId
<1>2. CASE ids # {}
  <2>1. HighestId(ids) \in ids /\ \A i \in ids : i <= HighestId(ids)
    BY <1>2, Highest
  <2>2. HighestId(ids) <= N - 1 /\ HighestId(ids) \in Nat
    <3>1. HighestId(ids) \in 0..(N - 1)
      BY <2>1 DEF Id
    <3>. QED  BY <3>1, OnRing
  <2>. QED  BY <2>1, <2>2, OnRing
<1>. QED  BY <1>1, <1>2

\* Why nobody follows another leader than node N - 1 before the first disturbance:
\* there is one token, which holds that id.
Calmly ==
  disturbed = 0 => /\ \A i \in Id : up[i] /\ leader[i] \in {NoLeader, N - 1}
                   /\ \E t \in tokens : tokens = {t} /\ N - 1 \in t.ids

\* The inductive invariant of the ring.
RingInv == RingTypeOK /\ Calmly

LEMMA Disturbed ==
  ASSUME RingTypeOK
  PROVE  /\ disturbed \in Nat
         /\ Disturbance => disturbed' = disturbed + 1 /\ disturbed' \in 0..MaxDisturbed
  BY RingAssumption DEF RingAssumption, RingTypeOK, Disturbance

\* A tick after silence: unless something is in flight, no token was left, and the
\* leader that is struck off is never N - 1 (ring.go, InternalTimerSignal).
LEMMA TickSilentKeeps ==
  ASSUME RingInv, NEW i \in Id, TickSilent(i)
  PROVE  RingInv'
<1>. DEFINE t == [src |-> i, dest |-> nextInRing[i], ids |-> token'[i]]
<1>. USE DEF RingInv
<1>1. RingTypeOK
  OBVIOUS
<1>2. token' \in [Id -> SUBSET Id] /\ leader' \in [Id -> Id \cup {NoLeader}]
  <2>1. CASE leader[i] = nextInRing[i] - 1
    <3>1. PICK ids \in Struck(token[i], leader[i]) :
            /\ token' = [token EXCEPT ![i] = ids]
            /\ leader' = [leader EXCEPT ![i] = HighestId(ids)]
      BY <2>1 DEF TickSilent
    <3>2. ids \subseteq Id
      BY <1>1 DEF RingTypeOK, Struck
    <3>. QED  BY <1>1, <3>1, <3>2, HighestOf DEF RingTypeOK
  <2>2. CASE leader[i] # nextInRing[i] - 1
    BY <1>1, <2>2 DEF TickSilent, RingTypeOK
  <2>. QED  BY <2>1, <2>2
<1>3. t \in Token /\ tokens' = tokens \cup {t}
  BY <1>1, <1>2 DEF TickSilent, RingTypeOK, Token
<1>4. buffered' \in [Id -> BOOLEAN] /\ nextInRing' \in [Id -> Id]
  BY <1>1, OnRing DEF TickSilent, RingTypeOK, StillBuffered
<1>5. disturbed' = disturbed + (IF InFlight THEN 1 ELSE 0) /\ disturbed' \in 0..MaxDisturbed
  BY <1>1, Disturbed DEF TickSilent, Undisturbed, RingTypeOK
<1>6. RingTypeOK'
  BY <1>1, <1>2, <1>3, <1>4, <1>5 DEF TickSilent, RingTypeOK
<1>7. Calmly'
  <2>1. disturbed' = 0 => disturbed = 0 /\ ~InFlight
    BY <1>1, <1>5, Disturbed
  <2>. QED  BY <2>1 DEF Calmly, InFlight
<1>. QED  BY <1>6, <1>7

\* The token goes round, or the rate limiter discards it (ring.go, ElectionElect,
\* forwardToken).
LEMMA ReceiveTokenKeeps ==
  ASSUME RingInv, NEW t \in tokens, ReceiveToken(t)
  PROVE  RingInv'
<1>. DEFINE i == t.dest
            ids == t.ids \cup {i}
            s == [src |-> i, dest |-> nextInRing[i], ids |-> ids]
<1>. USE DEF RingInv
<1>1. RingTypeOK /\ i \in Id /\ ids \subseteq Id /\ t.src \in Id
  BY DEF RingTypeOK, Token
<1>2. /\ up[i] /\ UNCHANGED <<up, requests>>
      /\ acks' = acks \cup {t.src}
      /\ token' = [token EXCEPT ![i] = ids]
      /\ leader' = [leader EXCEPT ![i] = HighestId(ids)]
      /\ nextInRing' = [nextInRing EXCEPT ![i] = After(i)]
      /\ heard' = [heard EXCEPT ![i] = TRUE]
      /\ buffered' = [buffered EXCEPT ![i] = FALSE]
  BY DEF ReceiveToken
<1>3. \/ tokens' = (tokens \ {t}) \cup {s} /\ disturbed' = disturbed
      \/ tokens' = tokens \ {t} /\ Disturbance
  BY DEF ReceiveToken, Undisturbed
<1>4. s \in Token
  BY <1>1 DEF RingTypeOK, Token
<1>5. tokens' \subseteq Token /\ disturbed' \in 0..MaxDisturbed /\ disturbed' \in {disturbed, disturbed + 1}
  BY <1>1, <1>3, <1>4, Disturbed DEF RingTypeOK
<1>6. RingTypeOK'
  BY <1>1, <1>2, <1>5, HighestOf, OnRing DEF RingTypeOK
<1>7. Calmly'
  <2>. SUFFICES ASSUME disturbed' = 0
       PROVE  /\ \A j \in Id : up'[j] /\ leader'[j] \in {NoLeader, N - 1}
              /\ \E x \in tokens' : tokens' = {x} /\ N - 1 \in x.ids
    BY DEF Calmly
  <2>1. disturbed = 0 /\ tokens' = (tokens \ {t}) \cup {s}
    BY <1>1, <1>3, <1>5, Disturbed
  <2>2. tokens = {t} /\ N - 1 \in t.ids /\ \A j \in Id : up[j] /\ leader[j] \in {NoLeader, N - 1}
    BY <2>1 DEF Calmly
  <2>3. HighestId(ids) = N - 1
    BY <1>1, <2>2, HighestOf
  <2>4. tokens' = {s} /\ N - 1 \in s.ids
    BY <2>1, <2>2
  <2>. QED  BY <1>1, <1>2, <2>2, <2>3, <2>4 DEF RingTypeOK
<1>. QED  BY <1>6, <1>7

\* What is lost or fails disturbs the ring, unless it was addressed to a node that
\* has failed (ring.go:79-94).
LEMMA FaultsKeep ==
  ASSUME RingInv,
         \/ \E i \in Id : ControlFail(i) \/ ControlRecover(i) \/ DropAck(i)
         \/ \E t \in tokens : DropToken(t)
  PROVE  RingInv'
<1>. USE DEF RingInv
<1>1. RingTypeOK
  OBVIOUS
<1>2. ASSUME NEW i \in Id, ControlFail(i)
      PROVE  RingInv'
  <2>1. RingTypeOK' /\ tokens' = tokens /\ disturbed' = disturbed + 1
    BY <1>1, <1>2, Disturbed DEF ControlFail, RingTypeOK
  <2>. QED  BY <1>1, <2>1, Disturbed DEF Calmly
<1>3. ASSUME NEW i \in Id, ControlRecover(i)
      PROVE  RingInv'
  <2>1. RingTypeOK'
    BY <1>1, <1>3 DEF ControlRecover, RingTypeOK
  <2>2. disturbed # 0
    BY <1>3 DEF ControlRecover, Calmly
  <2>. QED  BY <1>3, <2>1, <2>2 DEF ControlRecover, Calmly
<1>4. ASSUME NEW i \in Id, DropAck(i)
      PROVE  RingInv'
  <2>1. /\ RingTypeOK' /\ tokens' = tokens /\ disturbed' \in {disturbed, disturbed + 1}
        /\ leader' = leader /\ up' = up
    BY <1>1, <1>4, Disturbed DEF DropAck, RingTypeOK, Undisturbed
  <2>. QED  BY <1>1, <2>1, Disturbed DEF Calmly
<1>5. ASSUME NEW t \in tokens, DropToken(t)
      PROVE  RingInv'
  <2>1. /\ RingTypeOK' /\ tokens' = tokens \ {t} /\ disturbed' \in {disturbed, disturbed + 1}
        /\ leader' = leader /\ up' = up
    BY <1>1, <1>5, Disturbed DEF DropToken, RingTypeOK, Undisturbed
  <2>2. disturbed' # 0
    <3>1. CASE up[t.dest]
      BY <1>1, <1>5, <3>1, Disturbed DEF DropToken
    <3>2. CASE ~up[t.dest]
      BY <1>1, <1>5, <3>2, <2>1, Disturbed DEF Calmly, RingTypeOK, Token
    <3>. QED  BY <3>1, <3>2
  <2>. QED  BY <2>1, <2>2 DEF Calmly
<1>. QED  BY <1>2, <1>3, <1>4, <1>5

\* The other steps touch neither tokens nor leaders.
LEMMA QuietKeeps ==
  ASSUME RingInv,
         \E i \in Id : TickHeard(i) \/ Request(i) \/ ReceiveAck(i)
  PROVE  RingInv'
<1>1. UNCHANGED <<leader, nextInRing, token, up, tokens, disturbed>>
  BY DEF TickHeard, Request, ReceiveAck
<1>2. RingTypeOK'
  <2>1. requests' \in 0..MaxRequests
    BY RingAssumption DEF RingAssumption, TickHeard, Request, ReceiveAck, RingInv, RingTypeOK
  <2>2. heard' \in [Id -> BOOLEAN] /\ buffered' \in [Id -> BOOLEAN] /\ acks' \subseteq Id
    BY DEF TickHeard, Request, ReceiveAck, RingInv, RingTypeOK, StillBuffered
  <2>. QED  BY <1>1, <2>1, <2>2 DEF RingInv, RingTypeOK
<1>. QED  BY <1>1, <1>2 DEF RingInv, Calmly

THEOREM RingInvariant == RingSpec => []RingInv
<1>1. RingInit => RingInv
  <2>. SUFFICES ASSUME RingInit PROVE RingInv
    OBVIOUS
  <2>1. RingTypeOK
    <3>1. 0 \in 0..MaxDisturbed /\ 0 \in 0..MaxRequests /\ 0 \in Id
      BY RingAssumption DEF RingAssumption, Id
    <3>2. tokens \subseteq Token
      BY <3>1, OnRing DEF RingInit, Token
    <3>3. token \in [Id -> SUBSET Id] /\ nextInRing \in [Id -> Id]
      BY OnRing DEF RingInit
    <3>. QED  BY <3>1, <3>2, <3>3 DEF RingInit, RingTypeOK
  <2>2. Calmly
    BY DEF RingInit, Calmly
  <2>. QED  BY <2>1, <2>2 DEF RingInv
<1>2. RingInv /\ [RingNext]_ringVars => RingInv'
  <2>. SUFFICES ASSUME RingInv, [RingNext]_ringVars
       PROVE  RingInv'
    OBVIOUS
  <2>1. CASE UNCHANGED ringVars
    BY <2>1 DEF ringVars, RingInv, RingTypeOK, Calmly
  <2>. QED  BY <2>1, TickSilentKeeps, ReceiveTokenKeeps, FaultsKeep, QuietKeeps DEF RingNext
<1>. QED  BY <1>1, <1>2, PTL DEF RingSpec

\* Leaders, next nodes and the ids of tokens are nodes of the ring, or none, and
\* the highest id of a list is one of the list (ring.go, highestId, addId).
THEOREM RingTypes == RingSpec => []RingTypeOK
<1>1. RingInv => RingTypeOK
  BY DEF RingInv
<1>. QED  BY <1>1, RingInvariant, PTL

\* Nodes that nothing has disturbed follow one leader (ring.go, ElectionElect).
THEOREM OneIsElected == RingSpec => []OneLeader
<1>1. RingInv => OneLeader
  BY DEF RingInv, Calmly, OneLeader
<1>. QED  BY <1>1, RingInvariant, PTL
=============================================================================
