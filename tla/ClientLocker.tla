---------------------------- MODULE ClientLocker ----------------------------
(***************************************************************************)
(* The lock that net/locker.go builds from strong writes of one key.  The  *)
(* value of the key at an odd timestamp names the client that owns the     *)
(* lock; at an even timestamp the lock is free.  Each client has two       *)
(* goroutines: the application, which calls Lock and Unlock, and a daemon, *)
(* which reads the key and writes it at the next timestamp.  A strong      *)
(* write makes NumAttempts attempts, each under a fresh id: an attempt     *)
(* whose answer does not come in time may still be executed later.         *)
(*                                                                         *)
(* The database is the register that module Register specifies.            *)
(***************************************************************************)
EXTENDS Integers, Sequences

CONSTANTS
  Clients,       \* the ids of the lockers
  NoClient,      \* nobody
  NumAttempts,   \* numAttempts of the client
  MaxCalls,      \* bound: calls of Lock
  MaxFaults      \* bound: timeouts, aborted transactions and stale reads

ASSUME LockerAssumption ==
  /\ NoClient \notin Clients
  /\ NumAttempts \in Nat \ {0}
  /\ MaxCalls \in Nat
  /\ MaxFaults \in Nat

VARIABLES
  owners,     \* the values of the key, oldest first: owners[t] was written at t
  app,        \* where the application is; it waits for lockResChan in "locking"
              \* and for unlockResChan in "unlocking"
  wantLock,   \* ClientLocker.wantLock
  haveLock,   \* ClientLocker.haveLock
  daemon,     \* where the daemon is
  seen,       \* the timestamp its last Get returned
  attempt,    \* the number of the current attempt of its StrongPut
  answer,     \* what the database has answered that attempt
  late,       \* <<client, timestamp>>: attempts that timed out and may yet execute
  calls,      \* calls of Lock so far
  timeouts,   \* attempts that timed out
  faults      \* aborted transactions and stale reads

appVars    == <<app, calls>>
daemonVars == <<daemon, seen, attempt, answer>>
lockerVars == <<owners, wantLock, haveLock, late, timeouts, faults, appVars, daemonVars>>

Now == Len(owners)
Odd(t) == t % 2 = 1

\* The client to which the key gives the lock.
Holder == IF Odd(Now) THEN owners[Now] ELSE NoClient

\* A fault is possible as long as the bound is not reached.
FaultsLeft == timeouts + faults < MaxFaults

LockerTypeOK ==
  /\ owners \in Seq(Clients)
  /\ app \in [Clients -> {"outside", "locking", "inside", "unlocking"}]
  /\ wantLock \in [Clients -> BOOLEAN]
  /\ haveLock \in [Clients -> BOOLEAN]
  /\ daemon \in [Clients -> {"reading", "deciding", "writing"}]
  /\ seen \in [Clients -> Nat]
  /\ attempt \in [Clients -> 1..NumAttempts]
  /\ answer \in [Clients -> {"none", "success", "error"}]
  /\ late \subseteq Clients \X Nat
  /\ calls \in 0..MaxCalls
  /\ timeouts \in 0..MaxFaults
  /\ faults \in 0..MaxFaults

-----------------------------------------------------------------------------
(* The application.  Lock and Unlock are never called concurrently, Lock    *)
(* not by the holder, and Unlock only by the holder.                        *)

Lock(c) ==
  /\ app[c] = "outside" /\ calls < MaxCalls
  /\ app' = [app EXCEPT ![c] = "locking"]
  /\ wantLock' = [wantLock EXCEPT ![c] = TRUE]
  /\ calls' = calls + 1
  /\ UNCHANGED <<owners, haveLock, late, timeouts, faults, daemonVars>>

UnlockKeepsWant(c) ==     \* a mutant of Unlock
  /\ app[c] = "inside"
  /\ app' = [app EXCEPT ![c] = "unlocking"]
  /\ UNCHANGED <<owners, wantLock, haveLock, late, calls, timeouts, faults, daemonVars>>
Unlock(c) ==
  /\ app[c] = "inside"
  /\ app' = [app EXCEPT ![c] = "unlocking"]
  /\ wantLock' = [wantLock EXCEPT ![c] = FALSE]
  /\ UNCHANGED <<owners, haveLock, late, calls, timeouts, faults, daemonVars>>

-----------------------------------------------------------------------------
(* The database.                                                            *)

\* A strong write at timestamp t takes effect only if t is next.
AppliedAnyway(c, t) == Append(owners, c)     \* a mutant of Applied
Applied(c, t) == IF t = Now + 1 THEN Append(owners, c) ELSE owners

\* The current attempt is executed and answered.
Execute(c) ==
  /\ daemon[c] = "writing" /\ answer[c] = "none"
  /\ owners' = Applied(c, seen[c] + 1)
  /\ answer' = [answer EXCEPT ![c] = IF owners' # owners THEN "success" ELSE "error"]
  /\ UNCHANGED <<wantLock, haveLock, late, timeouts, faults, appVars, daemon, seen, attempt>>

\* The current attempt is aborted, whatever its timestamp.
Abort(c) ==
  /\ daemon[c] = "writing" /\ answer[c] = "none" /\ FaultsLeft
  /\ answer' = [answer EXCEPT ![c] = "error"]
  /\ faults' = faults + 1
  /\ UNCHANGED <<owners, wantLock, haveLock, late, timeouts, appVars, daemon, seen, attempt>>

\* An attempt that nobody awaits any more is executed.
ExecuteLate(c, t) ==
  /\ <<c, t>> \in late
  /\ late' = late \ {<<c, t>>}
  /\ owners' = Applied(c, t)
  /\ UNCHANGED <<wantLock, haveLock, timeouts, faults, appVars, daemonVars>>

-----------------------------------------------------------------------------
(* The daemon.                                                              *)

\* Get returns the latest version, or an earlier one (with sloppy quorums).
\* A Get without an answer changes nothing and is repeated.
Get(c) ==
  /\ daemon[c] = "reading"
  /\ \/ seen' = [seen EXCEPT ![c] = Now] /\ UNCHANGED faults
     \/ /\ FaultsLeft
        /\ \E t \in 0..(Now - 1) : seen' = [seen EXCEPT ![c] = t]
        /\ faults' = faults + 1
  /\ daemon' = [daemon EXCEPT ![c] = "deciding"]
  /\ UNCHANGED <<owners, wantLock, haveLock, late, timeouts, appVars, attempt, answer>>

\* The first attempt of a StrongPut at seen + 1.
FirstAttempt(c) ==
  /\ daemon' = [daemon EXCEPT ![c] = "writing"]
  /\ attempt' = [attempt EXCEPT ![c] = 1]
  /\ answer' = [answer EXCEPT ![c] = "none"]
  /\ UNCHANGED <<owners, wantLock, late, timeouts, faults, appVars, seen>>

\* The loop starts again, with its variables val and ts out of scope.
Loop(c) ==
  /\ daemon' = [daemon EXCEPT ![c] = "reading"]
  /\ seen' = [seen EXCEPT ![c] = 0]
  /\ attempt' = [attempt EXCEPT ![c] = 1]
  /\ answer' = [answer EXCEPT ![c] = "none"]

OwnedEver(c) == Odd(seen[c]) /\ owners[seen[c]] = c     \* a mutant of OwnedUnwanted
OwnedUnwanted(c) == Odd(seen[c]) /\ owners[seen[c]] = c /\ ~wantLock[c]

StartRelease(c) ==
  /\ daemon[c] = "deciding" /\ OwnedUnwanted(c)
  /\ haveLock' = [haveLock EXCEPT ![c] = TRUE]
  /\ FirstAttempt(c)

WantedIfNew(c) == seen[c] = 0 /\ wantLock[c]     \* a mutant of FreeAndWanted
FreeAndWanted(c) == ~Odd(seen[c]) /\ wantLock[c]

StartAcquire(c) ==
  /\ daemon[c] = "deciding" /\ FreeAndWanted(c)
  /\ FirstAttempt(c)
  /\ UNCHANGED haveLock

Skip(c) ==
  /\ daemon[c] = "deciding" /\ ~OwnedUnwanted(c) /\ ~FreeAndWanted(c)
  /\ Loop(c)
  /\ UNCHANGED <<owners, wantLock, haveLock, late, timeouts, faults, appVars>>

\* put returns Success: the daemon wakes the application that waits for it.
WokenFromLock(c) ==     \* a mutant of Woken
  IF ~Odd(seen[c]) /\ app[c] = "locking" THEN "inside" ELSE app[c]
Woken(c) ==
  CASE Odd(seen[c]) /\ app[c] = "unlocking"  -> "outside"
    [] ~Odd(seen[c]) /\ app[c] = "locking"   -> "inside"
    [] OTHER                                 -> app[c]

Success(c) ==
  /\ daemon[c] = "writing" /\ answer[c] = "success"
  /\ haveLock' = [haveLock EXCEPT ![c] = ~Odd(seen[c])]
  /\ app' = [app EXCEPT ![c] = Woken(c)]
  /\ Loop(c)
  /\ UNCHANGED <<owners, wantLock, late, calls, timeouts, faults>>

\* The loop of put: another attempt, or its last result is returned.
NextAttemptAnyway(c) ==     \* a mutant of NextAttempt
  /\ attempt' = [attempt EXCEPT ![c] = @ + 1]
  /\ answer' = [answer EXCEPT ![c] = "none"]
  /\ UNCHANGED <<daemon, seen>>
NextAttempt(c) ==
  \/ /\ attempt[c] < NumAttempts
     /\ attempt' = [attempt EXCEPT ![c] = @ + 1]
     /\ answer' = [answer EXCEPT ![c] = "none"]
     /\ UNCHANGED <<daemon, seen>>
  \/ /\ attempt[c] = NumAttempts
     /\ Loop(c)

Error(c) ==
  /\ daemon[c] = "writing" /\ answer[c] = "error"
  /\ NextAttempt(c)
  /\ UNCHANGED <<owners, wantLock, haveLock, late, timeouts, faults, appVars>>

\* The answer did not come in time: the attempt may not have been executed yet,
\* or its answer is lost or late.
Timeout(c) ==
  /\ daemon[c] = "writing" /\ FaultsLeft
  /\ timeouts' = timeouts + 1
  /\ late' = IF answer[c] = "none" THEN late \cup {<<c, seen[c] + 1>>} ELSE late
  /\ NextAttempt(c)
  /\ UNCHANGED <<owners, wantLock, haveLock, faults, appVars>>

-----------------------------------------------------------------------------
LockerInit ==
  /\ owners = <<>>
  /\ app = [c \in Clients |-> "outside"]
  /\ wantLock = [c \in Clients |-> FALSE]
  /\ haveLock = [c \in Clients |-> FALSE]
  /\ daemon = [c \in Clients |-> "reading"]
  /\ seen = [c \in Clients |-> 0]
  /\ attempt = [c \in Clients |-> 1]
  /\ answer = [c \in Clients |-> "none"]
  /\ late = {}
  /\ calls = 0 /\ timeouts = 0 /\ faults = 0

DaemonStep(c) ==
  Get(c) \/ StartRelease(c) \/ StartAcquire(c) \/ Skip(c) \/ Success(c) \/ Error(c)

LockerNext == \E c \in Clients :
  \/ Lock(c) \/ Unlock(c)
  \/ DaemonStep(c) \/ Timeout(c)
  \/ Execute(c) \/ Abort(c) \/ \E t \in 0..(Now + 1) : ExecuteLate(c, t)

\* The daemon's loop never ends, and an attempt is executed unless it times out.
LockerFairness == \A c \in Clients :
  WF_lockerVars(DaemonStep(c)) /\ WF_lockerVars(Execute(c))

LockerSpec == LockerInit /\ [][LockerNext]_lockerVars
FairLockerSpec == LockerSpec /\ LockerFairness
-----------------------------------------------------------------------------
(* Properties.                                                              *)

\* A client asks to release only what it owned, and to acquire only while its
\* application waits for the lock.
Justified(c, t) ==
  IF Odd(t) THEN app[c] = "locking"
            ELSE app[c] = "unlocking" /\ owners[t - 1] = c

\* What each attempt that can still take effect, and each answer that has not
\* been heard yet, says about the application it was made for (locker.go:56-78).
LateJustified == \A r \in late :
  r[2] \in 1..(Now + 1) /\ (r[2] = Now + 1 => Justified(r[1], r[2]))
WriteJustified == \A c \in Clients : daemon[c] = "writing" =>
  /\ seen[c] <= Now
  /\ answer[c] # "success" => (seen[c] = Now => Justified(c, Now + 1))
  /\ answer[c] = "success" => seen[c] < Now
  /\ answer[c] = "success" /\ ~Odd(seen[c]) => app[c] = "locking" /\ Holder = c
  /\ answer[c] = "success" /\ Odd(seen[c]) => app[c] = "unlocking" /\ Holder # c

WantMirrors == \A c \in Clients : wantLock[c] <=> app[c] \in {"locking", "inside"}
InsideOwns  == \A c \in Clients : app[c] = "inside" => Holder = c
OwnerInside == \A c \in Clients : Holder = c => app[c] # "outside"
SeenWritten == \A c \in Clients : seen[c] <= Now

\* The inductive invariant: wantLock says what the application wants, whoever is
\* between Lock and Unlock owns the key, and whoever owns the key is waiting for
\* it or has not given it back.
LockerInv ==
  /\ LockerTypeOK
  /\ WantMirrors /\ InsideOwns /\ OwnerInside /\ SeenWritten
  /\ LateJustified /\ WriteJustified

\* Two applications are never both between Lock and Unlock, in spite of stale
\* reads, aborted writes, and attempts that take effect after their timeout
\* (locker.go:8-16, client.go:154-200).
OneHolder == \A c, d \in Clients :
  app[c] = "inside" /\ app[d] = "inside" => c = d

\* The locker implements the abstract lock: nobody takes a lock that is not
\* free, takes one without wanting it, or loses one without giving it up, and
\* Unlock returns only when the key is free or another client's.
Service == INSTANCE LockService WITH phase <- app, holder <- Holder
LockRefined == Service!Spec

\* A free lock that somebody waits for is taken in the end, whatever timed out
\* or was aborted in between: a retry is never refused for ever.
FreeLockTaken ==
  Holder = NoClient /\ (\E c \in Clients : app[c] = "locking") ~> Holder # NoClient

\* Who calls Unlock gives up the lock in the end, in spite of timeouts: the
\* daemon reads the key again until it is free (locker.go:56-67).
UnlockFrees == \A c \in Clients : app[c] = "unlocking" ~> Holder # c

\* Unless an attempt timed out, Lock returns once the lock is taken, and Unlock
\* once it is free.  After a timeout they may wait for ever: the daemon hears
\* of its own write only through the answer to it (locker.go:60, 71).
CallsReturn == \A c \in Clients :
  /\ app[c] = "locking" /\ Holder = c ~> app[c] = "inside" \/ timeouts > 0
  /\ app[c] = "unlocking" ~> app[c] = "outside" \/ timeouts > 0
=============================================================================
