----------------------------- MODULE LockService -----------------------------
(***************************************************************************)
(* What the locker promises an application: a lock with one holder.  An    *)
(* application waits in Lock until the lock was free and became its own,   *)
(* and waits in Unlock until the lock is its own no longer.                *)
(***************************************************************************)
CONSTANTS Clients, NoClient

VARIABLES
  phase,     \* where each application is
  holder     \* the client that owns the lock, or NoClient

serviceVars == <<phase, holder>>

Move(c, from, to) ==
  /\ phase[c] = from
  /\ phase' = [phase EXCEPT ![c] = to]

Ask(c)     == Move(c, "outside", "locking") /\ UNCHANGED holder
Enter(c)   == Move(c, "locking", "inside") /\ holder = c /\ UNCHANGED holder
GiveUp(c)  == Move(c, "inside", "unlocking") /\ UNCHANGED holder
Return(c)  == Move(c, "unlocking", "outside") /\ holder # c /\ UNCHANGED holder

Take(c) ==
  /\ phase[c] = "locking" /\ holder = NoClient
  /\ holder' = c
  /\ UNCHANGED phase

Free(c) ==
  /\ phase[c] = "unlocking" /\ holder = c
  /\ holder' = NoClient
  /\ UNCHANGED phase

Init == phase = [c \in Clients |-> "outside"] /\ holder = NoClient

Next == \E c \in Clients :
  Ask(c) \/ Take(c) \/ Enter(c) \/ GiveUp(c) \/ Free(c) \/ Return(c)

Spec == Init /\ [][Next]_serviceVars
=============================================================================
