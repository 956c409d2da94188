------------------------- MODULE ClientLockerProofs -------------------------
(***************************************************************************)
(* Proofs about ClientLocker, for any number of clients, attempts, calls,  *)
(* timeouts, aborts and stale reads: LockerInv is an invariant, so nobody  *)
(* shares the lock, and the locker implements LockService.                 *)
(***************************************************************************)
EXTENDS ClientLocker, SequenceTheorems, TLAPS

\* Timestamps alternate between owned and free (locker.go:8-16).
LEMMA OddAlternates == \A t \in Nat : Odd(t + 1) <=> ~Odd(t)
  BY DEF Odd

\* What a write that takes effect does to the key (locker.go:8-16).
LEMMA Appended ==
  ASSUME owners \in Seq(Clients), NEW d \in Clients, owners' = Append(owners, d)
  PROVE  /\ owners' \in Seq(Clients)
         /\ Now \in Nat /\ Now' = Now + 1
         /\ Holder' = IF Odd(Now) THEN NoClient ELSE d
         /\ Odd(Now') <=> ~Odd(Now)
         /\ \A t \in 1..Now : owners'[t] = owners[t]
<1>1. Now \in Nat /\ Now' = Now + 1 /\ owners' \in Seq(Clients)
  BY AppendProperties DEF Now
<1>2. owners'[Now + 1] = d /\ \A t \in 1..Now : owners'[t] = owners[t]
  BY <1>1, AppendProperties DEF Now
<1>3. Odd(Now') <=> ~Odd(Now)
  BY <1>1, OddAlternates
<1>. QED  BY <1>1, <1>2, <1>3 DEF Holder

\* A write of one client that takes effect leaves the others' hold as it was:
\* the lock was free, or the client's own, which it was giving up.
LEMMA JustifiedAppend ==
  ASSUME LockerInv, NEW d \in Clients, Justified(d, Now + 1), owners' = Append(owners, d),
         UNCHANGED <<app, wantLock>>
  PROVE  /\ \A c \in Clients : app'[c] = "inside" => Holder' = c
         /\ \A c \in Clients : Holder' = c => app'[c] # "outside"
         /\ \A c \in Clients : app[c] = "locking" /\ Holder = c => Holder' = c
         /\ \A c \in Clients : app[c] = "unlocking" /\ Holder # c => Holder' # c
<1>1. Now \in Nat /\ Holder' = (IF Odd(Now) THEN NoClient ELSE d)
  BY Appended DEF LockerInv, LockerTypeOK
<1>2. CASE Odd(Now)
  <2>1. app[d] = "unlocking" /\ Holder = d /\ Holder' = NoClient
    <3>1. ~Odd(Now + 1) /\ (Now + 1) - 1 = Now
      BY <1>1, <1>2, OddAlternates
    <3>2. app[d] = "unlocking" /\ owners[Now] = d
      BY <3>1 DEF Justified
    <3>. QED  BY <3>2, <1>1, <1>2 DEF Holder
  <2>. QED  BY <2>1, LockerAssumption DEF LockerInv, InsideOwns, OwnerInside
<1>3. CASE ~Odd(Now)
  <2>1. app[d] = "locking" /\ Holder = NoClient /\ Holder' = d
    BY <1>1, <1>3, OddAlternates DEF Justified, Holder
  <2>. QED  BY <2>1, LockerAssumption DEF LockerInv, InsideOwns, OwnerInside
<1>. QED  BY <1>2, <1>3

(* Actions that write nothing to the key leave the others' claims as they    *)
(* were; one lemma each.                                                     *)

\* Lock is called by an application that owns nothing (locker.go:87-92).
LEMMA LockKeeps ==
  ASSUME LockerInv, NEW c \in Clients, Lock(c)
  PROVE  LockerInv'
<1>. USE LockerAssumption DEF LockerInv, LockerTypeOK, Lock, appVars, daemonVars
<1>1. Now \in Nat /\ Now' = Now /\ Holder' = Holder
  BY DEF Now, Holder
<1>2. LockerTypeOK'
  BY <1>1
<1>3. (WantMirrors /\ InsideOwns /\ OwnerInside /\ SeenWritten)'
  BY <1>1 DEF WantMirrors, InsideOwns, OwnerInside, SeenWritten
<1>4. LateJustified'
  BY <1>1 DEF LateJustified, WriteJustified, Justified, SeenWritten
<1>5. WriteJustified'
  BY <1>1 DEF WriteJustified, Justified, SeenWritten
<1>. QED  BY <1>2, <1>3, <1>4, <1>5

\* Unlock is called by the holder (locker.go:97-102).
LEMMA UnlockKeeps ==
  ASSUME LockerInv, NEW c \in Clients, Unlock(c)
  PROVE  LockerInv'
<1>. USE LockerAssumption DEF LockerInv, LockerTypeOK, Unlock, appVars, daemonVars
<1>1. Now \in Nat /\ Now' = Now /\ Holder' = Holder
  BY DEF Now, Holder
<1>2. LockerTypeOK'
  BY <1>1
<1>3. (WantMirrors /\ InsideOwns /\ OwnerInside /\ SeenWritten)'
  BY <1>1 DEF WantMirrors, InsideOwns, OwnerInside, SeenWritten
<1>4. LateJustified'
  BY <1>1 DEF LateJustified, WriteJustified, Justified, SeenWritten
<1>5. WriteJustified'
  BY <1>1 DEF WriteJustified, Justified, SeenWritten
<1>. QED  BY <1>2, <1>3, <1>4, <1>5

\* An aborted attempt is answered and writes nothing (client.go:154-200).
LEMMA AbortKeeps ==
  ASSUME LockerInv, NEW c \in Clients, Abort(c)
  PROVE  LockerInv'
<1>. USE LockerAssumption DEF LockerInv, LockerTypeOK, Abort, FaultsLeft, appVars, daemonVars
<1>1. Now \in Nat /\ Now' = Now /\ Holder' = Holder
  BY DEF Now, Holder
<1>2. LockerTypeOK'
  BY <1>1
<1>3. (WantMirrors /\ InsideOwns /\ OwnerInside /\ SeenWritten)'
  BY <1>1 DEF WantMirrors, InsideOwns, OwnerInside, SeenWritten
<1>4. LateJustified'
  BY <1>1 DEF LateJustified, WriteJustified, Justified, SeenWritten
<1>5. WriteJustified'
  BY <1>1 DEF WriteJustified, Justified, SeenWritten
<1>. QED  BY <1>2, <1>3, <1>4, <1>5

\* Get returns a version that was written, the latest or not (locker.go:49-52).
LEMMA GetKeeps ==
  ASSUME LockerInv, NEW c \in Clients, Get(c)
  PROVE  LockerInv'
<1>. USE LockerAssumption DEF LockerInv, LockerTypeOK, Get, FaultsLeft, appVars, daemonVars
<1>1. Now \in Nat /\ Now' = Now /\ Holder' = Holder
  BY DEF Now, Holder
<1>. PICK t \in 0..Now : seen' = [seen EXCEPT ![c] = t]
  BY <1>1
<1>2. LockerTypeOK'
  BY <1>1
<1>3. (WantMirrors /\ InsideOwns /\ OwnerInside /\ SeenWritten)'
  BY <1>1 DEF WantMirrors, InsideOwns, OwnerInside, SeenWritten
<1>4. LateJustified'
  BY <1>1 DEF LateJustified, WriteJustified, Justified, SeenWritten
<1>5. WriteJustified'
  BY <1>1 DEF WriteJustified, Justified, SeenWritten
<1>. QED  BY <1>2, <1>3, <1>4, <1>5

\* The daemon asks to release only what it owns (locker.go:56-60).
LEMMA StartReleaseKeeps ==
  ASSUME LockerInv, NEW c \in Clients, StartRelease(c)
  PROVE  LockerInv'
<1>. USE LockerAssumption DEF LockerInv, LockerTypeOK, StartRelease, OwnedUnwanted, FirstAttempt, appVars
<1>1. Now \in Nat /\ Now' = Now /\ Holder' = Holder
  BY DEF Now, Holder
<1>2. LockerTypeOK'
  BY <1>1, SMTT(30)
<1>3. (WantMirrors /\ InsideOwns /\ OwnerInside /\ SeenWritten)'
  BY <1>1 DEF WantMirrors, InsideOwns, OwnerInside, SeenWritten
<1>4. LateJustified'
  BY <1>1 DEF LateJustified, WriteJustified, Justified, SeenWritten
<1>5. WriteJustified'
  <2>1. seen[c] = Now => app[c] = "unlocking" /\ owners[Now] = c /\ ~Odd(Now + 1)
    BY <1>1, OddAlternates DEF WantMirrors, OwnerInside, Holder
  <2>2. seen[c] = Now => Justified(c, Now + 1)'
    BY <1>1, <2>1 DEF Justified
  <2>3. ASSUME NEW d \in Clients, d # c
        PROVE  Justified(d, Now + 1)' <=> Justified(d, Now + 1)
    BY <1>1 DEF Justified
  <2>. QED  BY <1>1, <2>2, <2>3 DEF WriteJustified, SeenWritten
<1>. QED  BY <1>2, <1>3, <1>4, <1>5

\* The daemon asks to acquire only a free lock (locker.go:69-70).
LEMMA StartAcquireKeeps ==
  ASSUME LockerInv, NEW c \in Clients, StartAcquire(c)
  PROVE  LockerInv'
<1>. USE LockerAssumption DEF LockerInv, LockerTypeOK, StartAcquire, FreeAndWanted, FirstAttempt, appVars
<1>1. Now \in Nat /\ Now' = Now /\ Holder' = Holder
  BY DEF Now, Holder
<1>2. LockerTypeOK'
  BY <1>1
<1>3. (WantMirrors /\ InsideOwns /\ OwnerInside /\ SeenWritten)'
  BY <1>1 DEF WantMirrors, InsideOwns, OwnerInside, SeenWritten
<1>4. LateJustified'
  BY <1>1 DEF LateJustified, WriteJustified, Justified, SeenWritten
<1>5. WriteJustified'
  <2>1. seen[c] = Now => app[c] = "locking" /\ Odd(Now + 1)
    BY <1>1, OddAlternates DEF WantMirrors, InsideOwns, Holder
  <2>2. seen[c] = Now => Justified(c, Now + 1)'
    BY <1>1, <2>1 DEF Justified
  <2>3. ASSUME NEW d \in Clients, d # c
        PROVE  Justified(d, Now + 1)' <=> Justified(d, Now + 1)
    BY <1>1 DEF Justified
  <2>. QED  BY <1>1, <2>2, <2>3 DEF WriteJustified, SeenWritten
<1>. QED  BY <1>2, <1>3, <1>4, <1>5

\* The daemon has nothing to write (locker.go:47-82).
LEMMA SkipKeeps ==
  ASSUME LockerInv, NEW c \in Clients, Skip(c)
  PROVE  LockerInv'
<1>. USE LockerAssumption DEF LockerInv, LockerTypeOK, Skip, Loop, appVars
<1>1. Now \in Nat /\ Now' = Now /\ Holder' = Holder
  BY DEF Now, Holder
<1>2. LockerTypeOK'
  BY <1>1
<1>3. (WantMirrors /\ InsideOwns /\ OwnerInside /\ SeenWritten)'
  BY <1>1 DEF WantMirrors, InsideOwns, OwnerInside, SeenWritten
<1>4. LateJustified'
  BY <1>1 DEF LateJustified, WriteJustified, Justified, SeenWritten
<1>5. WriteJustified'
  BY <1>1 DEF WriteJustified, Justified, SeenWritten
<1>. QED  BY <1>2, <1>3, <1>4, <1>5

\* After an attempt that failed the daemon makes another or reads the key again
\* (client.go:154-200).
ARetry ==
  /\ daemon' \in [Clients -> {"reading", "deciding", "writing"}]
  /\ seen' \in [Clients -> Nat]
  /\ attempt' \in [Clients -> 1..NumAttempts]
  /\ answer' \in [Clients -> {"none", "success", "error"}]
  /\ \A d \in Clients : seen'[d] \in {0, seen[d]}
  /\ \A d \in Clients : daemon'[d] = "writing" =>
       /\ daemon[d] = "writing" /\ seen'[d] = seen[d]
       /\ answer'[d] \in {"none", answer[d]}
LEMMA Retried ==
  ASSUME LockerTypeOK, NEW c \in Clients, NextAttempt(c), daemon[c] = "writing"
  PROVE  ARetry
<1>. USE DEF LockerTypeOK, ARetry
<1>1. CASE attempt[c] < NumAttempts /\ attempt' = [attempt EXCEPT ![c] = attempt[c] + 1]
           /\ answer' = [answer EXCEPT ![c] = "none"] /\ UNCHANGED <<daemon, seen>>
  <2>1. attempt[c] + 1 \in 1..NumAttempts
    BY <1>1, LockerAssumption DEF LockerAssumption
  <2>2. attempt' \in [Clients -> 1..NumAttempts]
    BY <1>1, <2>1
  <2>. QED  BY <1>1, <2>2
<1>2. CASE Loop(c)
  <2>1. 1 \in 1..NumAttempts
    BY LockerAssumption DEF LockerAssumption
  <2>. QED  BY <1>2, <2>1 DEF Loop
<1>. QED  BY <1>1, <1>2 DEF NextAttempt

\* An error leads to another attempt or ends the write (client.go:188-190).
LEMMA ErrorKeeps ==
  ASSUME LockerInv, NEW c \in Clients, Error(c)
  PROVE  LockerInv'
<1>. USE LockerAssumption DEF LockerInv, LockerTypeOK, Error, appVars
<1>1. Now \in Nat /\ Now' = Now /\ Holder' = Holder
  BY DEF Now, Holder
<1>r. ARetry
  BY Retried
<1>2. LockerTypeOK'
  BY <1>1, <1>r DEF ARetry
<1>3. (WantMirrors /\ InsideOwns /\ OwnerInside /\ SeenWritten)'
  <2>1. (WantMirrors /\ InsideOwns /\ OwnerInside)'
    BY <1>1 DEF WantMirrors, InsideOwns, OwnerInside
  <2>2. ASSUME NEW d \in Clients
        PROVE  seen'[d] <= Now
    <3>1. seen'[d] \in {0, seen[d]} /\ seen[d] <= Now
      BY <1>r DEF ARetry, SeenWritten
    <3>. QED  BY <3>1, <1>1
  <2>. QED  BY <1>1, <2>1, <2>2 DEF SeenWritten
<1>4. LateJustified'
  BY <1>1, <1>r DEF ARetry, LateJustified, WriteJustified, Justified, SeenWritten
<1>5. WriteJustified'
  <2>1. ASSUME NEW d \in Clients
        PROVE  Justified(d, Now + 1)' <=> Justified(d, Now + 1)
    BY <1>1 DEF Justified
  <2>. QED  BY <1>1, <2>1, <1>r DEF ARetry, WriteJustified
<1>. QED  BY <1>2, <1>3, <1>4, <1>5

\* An attempt that timed out may yet execute, at the timestamp it was made for
\* (client.go:192-194).
LEMMA TimeoutKeeps ==
  ASSUME LockerInv, NEW c \in Clients, Timeout(c)
  PROVE  LockerInv'
<1>. USE LockerAssumption DEF LockerInv, LockerTypeOK, Timeout, FaultsLeft, appVars
<1>1. Now \in Nat /\ Now' = Now /\ Holder' = Holder
  BY DEF Now, Holder
<1>r. ARetry
  BY Retried
<1>2. LockerTypeOK'
  BY <1>1, <1>r DEF ARetry
<1>3. (WantMirrors /\ InsideOwns /\ OwnerInside /\ SeenWritten)'
  <2>1. (WantMirrors /\ InsideOwns /\ OwnerInside)'
    BY <1>1 DEF WantMirrors, InsideOwns, OwnerInside
  <2>2. ASSUME NEW d \in Clients
        PROVE  seen'[d] <= Now
    <3>1. seen'[d] \in {0, seen[d]} /\ seen[d] <= Now
      BY <1>r DEF ARetry, SeenWritten
    <3>. QED  BY <3>1, <1>1
  <2>. QED  BY <1>1, <2>1, <2>2 DEF SeenWritten
<1>4. LateJustified'
  BY <1>1, <1>r DEF ARetry, LateJustified, WriteJustified, Justified, SeenWritten
<1>5. WriteJustified'
  <2>1. ASSUME NEW d \in Clients
        PROVE  Justified(d, Now + 1)' <=> Justified(d, Now + 1)
    BY <1>1 DEF Justified
  <2>. QED  BY <1>1, <2>1, <1>r DEF ARetry, WriteJustified
<1>. QED  BY <1>2, <1>3, <1>4, <1>5

(* Actions that may write to the key, and the answer that the application      *)
(* waits for.                                                                  *)

\* A write that takes effect was justified, and leaves the invariant true of what
\* it does not answer (client.go:154-200, locker.go:8-16).
LEMMA WriteKeeps ==
  ASSUME LockerInv, NEW d \in Clients, Justified(d, Now + 1), owners' = Append(owners, d),
         UNCHANGED <<app, wantLock, seen, daemon>>
  PROVE  /\ (WantMirrors /\ InsideOwns /\ OwnerInside /\ SeenWritten)'
         /\ late' \subseteq late => LateJustified'
         /\ \A c \in Clients : answer'[c] = answer[c] /\ daemon[c] = "writing" =>
              /\ seen[c] < Now'
              /\ answer[c] = "success" /\ ~Odd(seen[c]) => app[c] = "locking" /\ Holder' = c
              /\ answer[c] = "success" /\ Odd(seen[c]) => app[c] = "unlocking" /\ Holder' # c
<1>1. Now \in Nat /\ Now' = Now + 1
  BY Appended DEF LockerInv, LockerTypeOK
<1>2. (WantMirrors /\ InsideOwns /\ OwnerInside)'
  BY JustifiedAppend DEF LockerInv, WantMirrors, InsideOwns, OwnerInside
<1>3. SeenWritten' /\ \A c \in Clients : seen[c] < Now'
  BY <1>1 DEF LockerInv, LockerTypeOK, SeenWritten
<1>4. ASSUME late' \subseteq late
      PROVE  LateJustified'
  <2>1. \A r \in late : r[2] \in 1..Now' /\ r[2] # Now' + 1
    BY <1>1 DEF LockerInv, LateJustified
  <2>. QED  BY <2>1, <1>1, <1>4 DEF LateJustified
<1>5. \A c \in Clients : daemon[c] = "writing" =>
         /\ answer[c] = "success" /\ ~Odd(seen[c]) => app[c] = "locking" /\ Holder' = c
         /\ answer[c] = "success" /\ Odd(seen[c]) => app[c] = "unlocking" /\ Holder' # c
  BY JustifiedAppend DEF LockerInv, WriteJustified
<1>. QED  BY <1>2, <1>3, <1>4, <1>5

\* An attempt is executed and answered (client.go:183-191).
LEMMA ExecuteKeeps ==
  ASSUME LockerInv, NEW c \in Clients, Execute(c)
  PROVE  LockerInv'
<1>. USE DEF Execute, appVars
<1>1. Now \in Nat /\ seen[c] \in Nat /\ owners \in Seq(Clients)
  BY AppendProperties DEF LockerInv, LockerTypeOK, Now
<1>2. CASE seen[c] + 1 = Now + 1
  <2>1. owners' = Append(owners, c) /\ seen[c] = Now
    BY <1>1, <1>2 DEF Applied
  <2>2. owners' # owners /\ Now' = Now + 1
    BY <1>1, <2>1, Appended DEF Now
  <2>3. answer' = [answer EXCEPT ![c] = "success"]
    BY <2>2
  <2>4. Justified(c, Now + 1)
    BY <2>1 DEF LockerInv, WriteJustified
  <2>5. LockerTypeOK'
    BY <2>1, <2>3, Appended DEF LockerInv, LockerTypeOK
  <2>6. (WantMirrors /\ InsideOwns /\ OwnerInside /\ SeenWritten)' /\ LateJustified'
    BY <2>1, <2>4, WriteKeeps
  <2>7. ASSUME NEW d \in Clients, daemon'[d] = "writing"
        PROVE  /\ seen'[d] < Now'
               /\ answer'[d] = "success" /\ ~Odd(seen'[d]) => app'[d] = "locking" /\ Holder' = d
               /\ answer'[d] = "success" /\ Odd(seen'[d]) => app'[d] = "unlocking" /\ Holder' # d
    <3>1. CASE d # c
      <4>1. answer'[d] = answer[d]
        BY <3>1, <2>3 DEF LockerInv, LockerTypeOK
      <4>. QED  BY <4>1, <2>1, <2>4, <2>7, WriteKeeps
    <3>2. CASE d = c
      <4>1. Holder' = (IF Odd(Now) THEN NoClient ELSE c)
        BY <2>1, Appended DEF LockerInv, LockerTypeOK
      <4>2. seen'[c] < Now'
        BY <1>1, <2>1, <2>2
      <4>3. ~Odd(Now) => app[c] = "locking"
        BY <1>1, <2>4, OddAlternates DEF Justified
      <4>4. Odd(Now) => app[c] = "unlocking"
        BY <1>1, <2>4, OddAlternates DEF Justified
      <4>. QED  BY <3>2, <2>1, <4>1, <4>2, <4>3, <4>4, LockerAssumption DEF LockerAssumption
    <3>. QED  BY <3>1, <3>2
  <2>8. WriteJustified'
    <3>1. ASSUME NEW d \in Clients, daemon'[d] = "writing"
          PROVE  seen'[d] <= Now' /\ seen'[d] # Now'
      <4>1. seen'[d] < Now' /\ seen'[d] \in Nat /\ Now' \in Nat
        BY <2>7, <3>1, <1>1, <2>2 DEF LockerInv, LockerTypeOK
      <4>. QED  BY <4>1
    <3>. QED  BY <2>7, <3>1 DEF WriteJustified
  <2>. QED  BY <2>5, <2>6, <2>8 DEF LockerInv
<1>3. CASE seen[c] + 1 # Now + 1
  <2>1. owners' = owners /\ answer' = [answer EXCEPT ![c] = "error"]
    BY <1>3 DEF Applied
  <2>2. Now' = Now /\ Holder' = Holder
    BY <2>1 DEF Now, Holder
  <2>3. LockerTypeOK'
    BY <2>1 DEF LockerInv, LockerTypeOK
  <2>4. (WantMirrors /\ InsideOwns /\ OwnerInside /\ SeenWritten)' /\ LateJustified'
    BY <2>1, <2>2 DEF LockerInv, WantMirrors, InsideOwns, OwnerInside, SeenWritten,
                       LateJustified, Justified
  <2>5. \A d \in Clients : answer'[d] = "success" => answer[d] = "success"
    BY <2>1 DEF LockerInv, LockerTypeOK
  <2>6. \A d \in Clients : answer[d] = "success" => answer'[d] = "success"
    BY <2>1 DEF LockerInv, LockerTypeOK
  <2>7. WriteJustified'
    <3>1. ASSUME NEW d \in Clients
          PROVE  Justified(d, Now + 1)' <=> Justified(d, Now + 1)
      BY <2>1, <2>2 DEF Justified
    <3>. QED  BY <2>2, <2>5, <2>6, <3>1 DEF LockerInv, WriteJustified
  <2>. QED  BY <2>3, <2>4, <2>7 DEF LockerInv
<1>. QED  BY <1>2, <1>3

\* An attempt that timed out is executed after all: it was justified if its
\* timestamp is still next (client.go:192-194).
LEMMA ExecuteLateKeeps ==
  ASSUME LockerInv, NEW c \in Clients, NEW t \in Nat, ExecuteLate(c, t)
  PROVE  LockerInv'
<1>. USE DEF ExecuteLate, appVars, daemonVars
<1>1. Now \in Nat /\ late' \subseteq late
  BY DEF LockerInv, LockerTypeOK, Now
<1>2. CASE t = Now + 1
  <2>1. owners' = Append(owners, c) /\ Justified(c, Now + 1)
    BY <1>2 DEF Applied, LockerInv, LateJustified
  <2>2. Now' = Now + 1
    BY <2>1, Appended DEF LockerInv, LockerTypeOK
  <2>3. LockerTypeOK'
    BY <2>1, <1>1, Appended DEF LockerInv, LockerTypeOK
  <2>4. (WantMirrors /\ InsideOwns /\ OwnerInside /\ SeenWritten)' /\ LateJustified'
    BY <2>1, <1>1, WriteKeeps
  <2>5. WriteJustified'
    <3>1. ASSUME NEW d \in Clients, daemon[d] = "writing"
          PROVE  seen[d] <= Now' /\ seen[d] # Now'
      BY <1>1, <2>2 DEF LockerInv, LockerTypeOK, SeenWritten
    <3>2. \A d \in Clients : daemon[d] = "writing" =>
            /\ seen[d] < Now'
            /\ answer[d] = "success" /\ ~Odd(seen[d]) => app[d] = "locking" /\ Holder' = d
            /\ answer[d] = "success" /\ Odd(seen[d]) => app[d] = "unlocking" /\ Holder' # d
      BY <2>1, WriteKeeps
    <3>. QED  BY <3>1, <3>2 DEF WriteJustified
  <2>. QED  BY <2>3, <2>4, <2>5 DEF LockerInv
<1>3. CASE t # Now + 1
  <2>1. owners' = owners
    BY <1>3 DEF Applied
  <2>2. Now' = Now /\ Holder' = Holder
    BY <2>1 DEF Now, Holder
  <2>3. LockerTypeOK'
    BY <2>1, <1>1 DEF LockerInv, LockerTypeOK
  <2>4. (WantMirrors /\ InsideOwns /\ OwnerInside /\ SeenWritten)' /\ LateJustified'
    BY <1>1, <2>1, <2>2 DEF LockerInv, WantMirrors, InsideOwns, OwnerInside, SeenWritten,
                            LateJustified, Justified
  <2>5. WriteJustified'
    BY <2>1, <2>2 DEF LockerInv, WriteJustified, Justified
  <2>. QED  BY <2>3, <2>4, <2>5 DEF LockerInv
<1>. QED  BY <1>2, <1>3

\* The answer to a write wakes the application that waits for just that
\* (locker.go:60-67, 71-78).
LEMMA SuccessKeeps ==
  ASSUME LockerInv, NEW c \in Clients, Success(c)
  PROVE  LockerInv'
<1>. USE LockerAssumption DEF LockerInv, LockerTypeOK, Success, Loop
<1>1. Now \in Nat /\ Now' = Now /\ Holder' = Holder
  BY DEF Now, Holder
<1>2. seen[c] < Now /\ seen[c] \in Nat
  BY DEF WriteJustified
<1>3. \/ app[c] = "locking" /\ Woken(c) = "inside" /\ Holder = c
      \/ app[c] = "unlocking" /\ Woken(c) = "outside" /\ Holder # c
  BY DEF WriteJustified, Woken
<1>4. LockerTypeOK'
  <2>1. 1 \in 1..NumAttempts
    BY DEF LockerAssumption
  <2>. QED  BY <1>1, <1>3, <2>1
<1>5. (WantMirrors /\ InsideOwns /\ OwnerInside)'
  BY <1>1, <1>3 DEF WantMirrors, InsideOwns, OwnerInside
<1>6. SeenWritten'
  BY <1>1 DEF SeenWritten
<1>7. LateJustified'
  <2>1. ASSUME NEW r \in late
        PROVE  r[2] \in 1..(Now + 1) /\ (r[2] = Now + 1 => Justified(r[1], r[2])')
    <3>1. r[1] \in Clients /\ r[2] \in 1..(Now + 1) /\ (r[2] = Now + 1 => Justified(r[1], r[2]))
      BY <2>1 DEF LateJustified
    <3>2. CASE r[1] # c
      BY <3>1, <3>2 DEF Justified
    <3>3. CASE r[1] = c /\ r[2] = Now + 1
      <4>1. Justified(c, Now + 1)
        BY <3>1, <3>3
      <4>2. CASE app[c] = "locking" /\ Holder = c
        BY <4>1, <4>2, <1>1, OddAlternates DEF Justified, Holder
      <4>3. CASE app[c] = "unlocking" /\ Holder # c
        <5>1. ~Odd(Now + 1) /\ owners[(Now + 1) - 1] = c
          BY <4>1, <4>3 DEF Justified
        <5>2. Odd(Now) /\ (Now + 1) - 1 = Now
          BY <5>1, <1>1, OddAlternates
        <5>. QED  BY <5>1, <5>2, <4>3 DEF Holder
      <4>. QED  BY <4>2, <4>3, <1>3
    <3>. QED  BY <3>1, <3>2, <3>3
  <2>. QED  BY <2>1, <1>1 DEF LateJustified
<1>8. WriteJustified'
  <2>1. ASSUME NEW d \in Clients, daemon'[d] = "writing"
        PROVE  d # c /\ daemon[d] = "writing" /\ seen'[d] = seen[d] /\ answer'[d] = answer[d]
               /\ app'[d] = app[d]
    BY <2>1
  <2>2. ASSUME NEW d \in Clients, d # c
        PROVE  Justified(d, Now + 1)' <=> Justified(d, Now + 1)
    BY <2>2, <1>1 DEF Justified
  <2>. QED  BY <2>1, <2>2, <1>1 DEF WriteJustified
<1>. QED  BY <1>4, <1>5, <1>6, <1>7, <1>8

-----------------------------------------------------------------------------
(* The invariant, and what follows from it.                                 *)

\* Nobody has called or written anything yet (locker.go:21-45).
LEMMA InitHolds == LockerInit => LockerInv
<1>1. ASSUME LockerInit
      PROVE  Now = 0 /\ Holder = NoClient
  BY <1>1 DEF LockerInit, Now, Holder, Odd
<1>2. ASSUME LockerInit
      PROVE  LockerTypeOK
  <2>1. 1 \in 1..NumAttempts /\ owners \in Seq(Clients)
    BY <1>2, LockerAssumption DEF LockerAssumption, LockerInit
  <2>. QED  BY <2>1, <1>2, LockerAssumption DEF LockerAssumption, LockerInit, LockerTypeOK
<1>. QED  BY <1>1, <1>2, LockerAssumption
          DEF LockerAssumption, LockerInit, LockerInv, WantMirrors, InsideOwns, OwnerInside,
              SeenWritten, LateJustified, WriteJustified

\* Every action keeps the invariant.
LEMMA StepKeeps == LockerInv /\ [LockerNext]_lockerVars => LockerInv'
<1>. SUFFICES ASSUME LockerInv, [LockerNext]_lockerVars
     PROVE  LockerInv'
  OBVIOUS
<1>1. CASE UNCHANGED lockerVars
  BY <1>1 DEF lockerVars, appVars, daemonVars, LockerInv, LockerTypeOK, WantMirrors, InsideOwns,
              OwnerInside, SeenWritten, LateJustified, WriteJustified, Justified, Holder, Now
<1>2. ASSUME NEW c \in Clients, DaemonStep(c)
      PROVE  LockerInv'
  BY <1>2, GetKeeps, StartReleaseKeeps, StartAcquireKeeps, SkipKeeps, SuccessKeeps, ErrorKeeps
     DEF DaemonStep
<1>3. ASSUME NEW c \in Clients, NEW t \in 0..(Now + 1), ExecuteLate(c, t)
      PROVE  LockerInv'
  <2>1. t \in Nat
    BY DEF LockerInv, LockerTypeOK, Now
  <2>. QED  BY <2>1, <1>3, ExecuteLateKeeps
<1>4. ASSUME NEW c \in Clients,
             Lock(c) \/ Unlock(c) \/ Timeout(c) \/ Execute(c) \/ Abort(c)
      PROVE  LockerInv'
  BY <1>4, LockKeeps, UnlockKeeps, TimeoutKeeps, ExecuteKeeps, AbortKeeps
<1>. QED  BY <1>1, <1>2, <1>3, <1>4 DEF LockerNext

\* wantLock mirrors what the application wants, whoever is inside owns the key,
\* and every write that can still take effect is one its client may make
\* (locker.go:47-102).
THEOREM LockerInvariant == LockerSpec => []LockerInv
  BY InitHolds, StepKeeps, PTL DEF LockerSpec

\* Two applications are never both between Lock and Unlock (locker.go:8-16).
THEOREM MutualExclusion == LockerSpec => []OneHolder
<1>1. LockerInv => OneHolder
  BY DEF LockerInv, InsideOwns, OneHolder
<1>. QED  BY <1>1, LockerInvariant, PTL

-----------------------------------------------------------------------------
(* The locker implements the lock service.                                  *)

\* A write that takes effect takes the free lock or frees the owned one
\* (locker.go:8-16).
LEMMA WriteRefines ==
  ASSUME LockerInv, NEW c \in Clients, Justified(c, Now + 1), owners' = Append(owners, c),
         UNCHANGED app
  PROVE  Service!Take(c) \/ Service!Free(c)
<1>1. Now \in Nat /\ Holder' = (IF Odd(Now) THEN NoClient ELSE c)
  BY Appended DEF LockerInv, LockerTypeOK
<1>2. CASE Odd(Now)
  <2>1. ~Odd(Now + 1) /\ (Now + 1) - 1 = Now
    BY <1>1, <1>2, OddAlternates
  <2>2. app[c] = "unlocking" /\ Holder = c
    BY <2>1, <1>2 DEF Justified, Holder
  <2>. QED  BY <2>2, <1>1, <1>2 DEF Service!Free
<1>3. CASE ~Odd(Now)
  <2>1. app[c] = "locking" /\ Holder = NoClient
    BY <1>1, <1>3, OddAlternates DEF Justified, Holder
  <2>. QED  BY <2>1, <1>1, <1>3 DEF Service!Take
<1>. QED  BY <1>2, <1>3

\* Every step of the locker is a step of the lock service or changes nothing of
\* it.
LEMMA StepRefines ==
  LockerInv /\ [LockerNext]_lockerVars => [Service!Next]_<<app, Holder>>
<1>. SUFFICES ASSUME LockerInv, [LockerNext]_lockerVars
     PROVE  [Service!Next]_<<app, Holder>>
  OBVIOUS
<1>0. owners' = owners => Holder' = Holder
  BY DEF Holder, Now
<1>1. CASE UNCHANGED lockerVars
  BY <1>0, <1>1 DEF lockerVars, appVars
<1>2. ASSUME NEW c \in Clients, Lock(c)
      PROVE  Service!Ask(c)
  BY <1>0, <1>2 DEF Lock, Service!Ask, Service!Move
<1>3. ASSUME NEW c \in Clients, Unlock(c)
      PROVE  Service!GiveUp(c)
  BY <1>0, <1>3 DEF Unlock, Service!GiveUp, Service!Move
<1>4. ASSUME NEW c \in Clients, Success(c)
      PROVE  Service!Enter(c) \/ Service!Return(c)
  <2>1. \/ app[c] = "locking" /\ Woken(c) = "inside" /\ Holder = c
        \/ app[c] = "unlocking" /\ Woken(c) = "outside" /\ Holder # c
    BY <1>4 DEF LockerInv, WriteJustified, Success, Woken
  <2>. QED  BY <1>0, <1>4, <2>1 DEF Success, Service!Enter, Service!Return, Service!Move
<1>5. ASSUME NEW c \in Clients, Execute(c)
      PROVE  Service!Take(c) \/ Service!Free(c) \/ UNCHANGED <<app, Holder>>
  <2>1. Now \in Nat /\ seen[c] \in Nat
    BY DEF LockerInv, LockerTypeOK, Now
  <2>2. CASE seen[c] + 1 = Now + 1
    <3>1. Justified(c, Now + 1) /\ owners' = Append(owners, c)
      BY <2>1, <2>2, <1>5 DEF Execute, Applied, LockerInv, WriteJustified
    <3>. QED  BY <3>1, <1>5, WriteRefines DEF Execute, appVars
  <2>3. CASE seen[c] + 1 # Now + 1
    BY <1>0, <2>3, <1>5 DEF Execute, Applied, appVars
  <2>. QED  BY <2>2, <2>3
<1>6. ASSUME NEW c \in Clients, NEW t \in 0..(Now + 1), ExecuteLate(c, t)
      PROVE  Service!Take(c) \/ Service!Free(c) \/ UNCHANGED <<app, Holder>>
  <2>1. CASE t = Now + 1
    <3>1. Justified(c, Now + 1) /\ owners' = Append(owners, c)
      BY <2>1, <1>6 DEF ExecuteLate, Applied, LockerInv, LateJustified
    <3>. QED  BY <3>1, <1>6, WriteRefines DEF ExecuteLate, appVars
  <2>2. CASE t # Now + 1
    BY <1>0, <2>2, <1>6 DEF ExecuteLate, Applied, appVars
  <2>. QED  BY <2>1, <2>2
<1>7. ASSUME NEW c \in Clients, Timeout(c) \/ Abort(c)
      PROVE  UNCHANGED <<app, Holder>>
  BY <1>0, <1>7 DEF Timeout, Abort, appVars
<1>8. ASSUME NEW c \in Clients,
             Get(c) \/ StartRelease(c) \/ StartAcquire(c) \/ Skip(c) \/ Error(c)
      PROVE  UNCHANGED <<app, Holder>>
  BY <1>0, <1>8 DEF Get, StartRelease, StartAcquire, FirstAttempt, Skip, Error, appVars
<1>. QED  BY <1>1, <1>2, <1>3, <1>4, <1>5, <1>6, <1>7, <1>8
          DEF LockerNext, DaemonStep, Service!Next

\* The locker implements the lock service: nobody takes a lock that is not free
\* or loses one without giving it up (locker.go:8-16, 47-102).
THEOREM LockImplemented == LockerSpec => LockRefined
<1>1. LockerInit => Service!Init
  BY DEF LockerInit, Service!Init, Holder, Now, Odd
<1>2. LockerInv /\ [LockerNext]_lockerVars => [Service!Next]_(Service!serviceVars)
  BY StepRefines DEF Service!serviceVars
<1>. QED  BY <1>1, <1>2, LockerInvariant, PTL DEF LockerSpec, LockRefined, Service!Spec
=============================================================================
