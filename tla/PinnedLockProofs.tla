---------------------------- MODULE PinnedLockProofs --------------------------
(***************************************************************************)
(* No two threads run a scope at once and no kernel lock is left behind,   *)
(* for any number of processes, threads, forks, crashes, interrupts and    *)
(* replaced files, as long as a forked process has one thread.             *)
(***************************************************************************)
EXTENDS PinnedLock, Integers, TLAPS

\* Between the thread lock and its release.
Owning == {"domain", "poison", "release"} \cup Inside
\* Between the flock of the domain and the first unlock.
Locking == {"dir", "file", "in"}

\* What the proofs need of the types.
Shape ==
  /\ life \in [Processes -> {"unborn", "up", "forked", "dead"}]
  /\ fds \in [Processes -> Processes \cup {None}]
  /\ flock \in [Locks -> Processes \cup {None}]
  /\ owner \in [Processes -> Threads \cup {None}]
  /\ count \in [Processes -> Int]
  /\ depth \in [Threads -> Int]
  /\ poisoned \in [Processes -> BOOLEAN]
  /\ pc \in [Threads -> PCs]

\* A thread that asks for the lock runs in a live process; only a process that
\* was forked refreshes.
AskersLive ==
  /\ \A th \in Threads : LET p == ProcessOf[th] IN
       /\ pc[th] # "out" => life[p] = "up"
       /\ pc[th] = "refresh" => p \in Forkable
  /\ \A p \in Processes : life[p] = "forked" => p \in Forkable

\* The thread lock has one owner at a time, who entered no deeper than it
\* acquired; an interrupt may leave acquisitions behind.
OwnersOwn ==
  /\ \A p \in Processes : count[p] >= 0
  /\ \A th \in Threads : LET p == ProcessOf[th] IN
       /\ pc[th] \in Owning => owner[p] = th /\ count[p] >= 1
       /\ pc[th] = "in" => 1 <= depth[th] /\ depth[th] <= count[p]

\* A poisoned lock is closed.
PoisonedClosed ==
  \A p \in Processes : poisoned[p] => fds[p] = None /\ life[p] # "unborn"

\* Descriptors are shared by forked processes only, until their thread has
\* refreshed.
DescriptorsOwn ==
  \A p \in Processes :
    \/ fds[p] \in {p, None}
    \/ p \in Forkable /\ life[p] = "forked"
    \/ p \in Forkable /\ \E th \in Threads : ProcessOf[th] = p /\ pc[th] = "refresh"

\* The flock of the domain belongs to the thread that is past it.
DomainHeld ==
  \A th \in Threads : LET p == ProcessOf[th] IN
    /\ pc[th] \in Locking => fds[p] = None \/ (fds[p] = p /\ flock[Domain] = p)
    /\ pc[th] \in {"file", "in"} => fds[p] # None

LockInv == Shape /\ AskersLive /\ OwnersOwn /\ PoisonedClosed /\ DescriptorsOwn /\ DomainHeld

-------------------------------------------------------------------------------
\* A thread that owns the thread lock is not in the middle of a refresh, nor
\* is another of its process: its descriptors are its process's own.
LEMMA OwnDescriptors ==
  ASSUME OneThreadPerChild, LockInv, NEW th \in Threads, pc[th] \in Owning
  PROVE  fds[ProcessOf[th]] \in {ProcessOf[th], None}
BY ConstantsOK DEF OneThreadPerChild, LockInv, AskersLive, DescriptorsOwn, Owning, Inside

\* The invariant implies mutual exclusion.
LEMMA InvExcludes == ASSUME LockInv PROVE MutualExclusion
<1> SUFFICES ASSUME NEW t \in Threads, NEW u \in Threads, pc[t] = "in", pc[u] = "in"
             PROVE  t = u
  BY DEF MutualExclusion
<1>1. fds[ProcessOf[t]] = ProcessOf[t] /\ flock[Domain] = ProcessOf[t]
  BY DEF LockInv, DomainHeld, Locking
<1>2. fds[ProcessOf[u]] = ProcessOf[u] /\ flock[Domain] = ProcessOf[u]
  BY DEF LockInv, DomainHeld, Locking
<1>3. owner[ProcessOf[t]] = t /\ owner[ProcessOf[u]] = u
  BY DEF LockInv, OwnersOwn, Owning, Inside
<1> QED BY <1>1, <1>2, <1>3

\* It holds before any process has started.
LEMMA LockInit == Init => LockInv
BY ConstantsOK DEF Init, LockInv, Shape, AskersLive, OwnersOwn, PoisonedClosed, DescriptorsOwn,
   DomainHeld, mutex, files, Owning, Inside, Locking, PCs, Locks

-------------------------------------------------------------------------------
(***************************************************************************)
(* One lemma per conjunct: what every step keeps of it.                    *)
(***************************************************************************)

\* The variables keep their shapes.
LEMMA ShapeNext == ASSUME Shape, [Next]_vars PROVE Shape'
<1> USE ConstantsOK DEF Shape, PCs, Inside
<1>1. ASSUME NEW th \in Threads, Enter(th) PROVE Shape'
  BY <1>1 DEF Enter, Renew, Goto, files, mutex
<1>2. ASSUME NEW th \in Threads, Refresh(th) PROVE Shape'
  <2> DEFINE p == ProcessOf[th]
  <2>1. p \in Processes /\ pc' \in [Threads -> PCs]
    BY <1>2 DEF Refresh, Goto
  <2>2. poisoned' \in [Processes -> BOOLEAN]
    BY <1>2, <2>1 DEF Refresh
  <2>3. fds' \in [Processes -> Processes \cup {None}] /\ flock' \in [Locks -> Processes \cup {None}]
    <3>1. Repoint(p, p) \/ Repoint(p, None)
      BY <1>2 DEF Refresh
    <3> QED BY <3>1, <2>1 DEF Repoint
  <2> QED BY <1>2, <2>1, <2>2, <2>3 DEF Refresh, mutex
<1>3. ASSUME NEW th \in Threads, LockThread(th) PROVE Shape'
  BY <1>3 DEF LockThread, Acquire, Goto, files
<1>4. ASSUME NEW th \in Threads, ReEnter(th) PROVE Shape'
  BY <1>4 DEF ReEnter, Acquire, Goto, files
<1>5. ASSUME NEW th \in Threads, LockDomain(th) PROVE Shape'
  BY <1>5 DEF LockDomain, Flock, Goto, files, mutex
<1>6. ASSUME NEW th \in Threads, LockDirectory(th) PROVE Shape'
  BY <1>6 DEF LockDirectory, Flock, Goto, files, mutex
<1>7. ASSUME NEW th \in Threads, LockFile(th) PROVE Shape'
  <2>1. depth' \in [Threads -> Int] /\ pc' \in [Threads -> PCs]
    BY <1>7 DEF LockFile, Goto
  <2>2. flock' \in [Locks -> Processes \cup {None}]
    BY <1>7 DEF LockFile, Flock
  <2> QED BY <1>7, <2>1, <2>2 DEF LockFile, files, mutex
<1>8. ASSUME NEW th \in Threads, LockFails(th) PROVE Shape'
  BY <1>8 DEF LockFails, Goto, files, mutex
<1>9. ASSUME NEW th \in Threads, Exit(th) PROVE Shape'
  BY <1>9 DEF Exit, Drop, Goto, files, mutex
<1>10. ASSUME NEW th \in Threads, Unlock(th) PROVE Shape'
  BY <1>10 DEF Unlock, UnlockAll, Goto, files, mutex
<1>11. ASSUME NEW th \in Threads, Poison(th) PROVE Shape'
  BY <1>11 DEF Poison, Repoint, Goto, files, mutex
<1>12. ASSUME NEW th \in Threads, Release(th) PROVE Shape'
  BY <1>12 DEF Release, Drop, Goto, files
<1>13. ASSUME NEW th \in Threads, Interrupt(th) PROVE Shape'
  BY <1>13 DEF Interrupt, UnlockAll, Drop, Goto, files, mutex
<1>14. ASSUME NEW th \in Threads, NEW q \in Processes, Fork(th, q) PROVE Shape'
  BY <1>14 DEF Fork, mutex
<1>15. ASSUME NEW p \in Processes, Start(p) PROVE Shape'
  BY <1>15 DEF Start, mutex
<1>16. ASSUME NEW p \in Processes, Crash(p) PROVE Shape'
  BY <1>16 DEF Crash, Repoint, Renew, files
<1>17. ASSUME NEW d \in Dirs, SwapFile(d) PROVE Shape'
  BY <1>17 DEF SwapFile, mutex
<1>18. ASSUME SwapRoot \/ UNCHANGED vars PROVE Shape'
  BY <1>18 DEF SwapRoot, vars, mutex
<1> QED BY <1>1, <1>2, <1>3, <1>4, <1>5, <1>6, <1>7, <1>8, <1>9, <1>10, <1>11, <1>12, <1>13, <1>14, <1>15, <1>16, <1>17, <1>18 DEF Next, Step
\* A process starts, is forked and dies with its threads outside.
LEMMA AskersNext ==
  ASSUME Shape, AskersLive, [Next]_vars PROVE AskersLive'
<1> USE ConstantsOK DEF Shape, AskersLive
<1>1. ASSUME NEW th \in Threads, Enter(th) PROVE AskersLive'
  BY <1>1 DEF Enter, Renew, Goto, files, mutex
<1>2. ASSUME NEW th \in Threads, Refresh(th) PROVE AskersLive'
  BY <1>2 DEF Refresh, Repoint, Goto, mutex
<1>3. ASSUME NEW th \in Threads, LockThread(th) PROVE AskersLive'
  BY <1>3 DEF LockThread, Acquire, Goto, files
<1>4. ASSUME NEW th \in Threads, ReEnter(th) PROVE AskersLive'
  BY <1>4 DEF ReEnter, Acquire, Goto, files
<1>5. ASSUME NEW th \in Threads, LockDomain(th) PROVE AskersLive'
  BY <1>5 DEF LockDomain, Flock, Goto, files, mutex
<1>6. ASSUME NEW th \in Threads, LockDirectory(th) PROVE AskersLive'
  BY <1>6 DEF LockDirectory, Flock, Goto, files, mutex
<1>7. ASSUME NEW th \in Threads, LockFile(th) PROVE AskersLive'
  BY <1>7 DEF LockFile, Flock, Goto, files, mutex
<1>8. ASSUME NEW th \in Threads, LockFails(th) PROVE AskersLive'
  BY <1>8 DEF LockFails, Goto, files, mutex
<1>9. ASSUME NEW th \in Threads, Exit(th) PROVE AskersLive'
  BY <1>9 DEF Exit, Drop, Goto, files, mutex
<1>10. ASSUME NEW th \in Threads, Unlock(th) PROVE AskersLive'
  BY <1>10 DEF Unlock, UnlockAll, Goto, files, mutex
<1>11. ASSUME NEW th \in Threads, Poison(th) PROVE AskersLive'
  BY <1>11 DEF Poison, Repoint, Goto, files, mutex
<1>12. ASSUME NEW th \in Threads, Release(th) PROVE AskersLive'
  BY <1>12 DEF Release, Drop, Goto, files
<1>13. ASSUME NEW th \in Threads, Interrupt(th) PROVE AskersLive'
  BY <1>13 DEF Interrupt, UnlockAll, Drop, Goto, files, mutex
<1>14. ASSUME NEW th \in Threads, NEW q \in Processes, Fork(th, q) PROVE AskersLive'
  BY <1>14 DEF Fork, mutex
<1>15. ASSUME NEW p \in Processes, Start(p) PROVE AskersLive'
  BY <1>15 DEF Start, mutex
<1>16. ASSUME NEW p \in Processes, Crash(p) PROVE AskersLive'
  BY <1>16 DEF Crash, Repoint, Renew, files
<1>17. ASSUME NEW d \in Dirs, SwapFile(d) PROVE AskersLive'
  BY <1>17 DEF SwapFile, mutex
<1>18. ASSUME SwapRoot \/ UNCHANGED vars PROVE AskersLive'
  BY <1>18 DEF SwapRoot, vars, mutex
<1> QED BY <1>1, <1>2, <1>3, <1>4, <1>5, <1>6, <1>7, <1>8, <1>9, <1>10, <1>11, <1>12, <1>13, <1>14, <1>15, <1>16, <1>17, <1>18 DEF Next, Step

\* The thread lock is taken on the way in and kept to the end.
LEMMA OwnersNext ==
  ASSUME Shape, AskersLive, OwnersOwn, [Next]_vars PROVE OwnersOwn'
<1> USE ConstantsOK DEF Shape, AskersLive, OwnersOwn, Owning, Inside
<1>1. ASSUME NEW th \in Threads, Enter(th) PROVE OwnersOwn'
  BY <1>1 DEF Enter, Renew, Goto, files, mutex
<1>2. ASSUME NEW th \in Threads, Refresh(th) PROVE OwnersOwn'
  BY <1>2 DEF Refresh, Repoint, Goto, mutex
<1>3. ASSUME NEW th \in Threads, LockThread(th) PROVE OwnersOwn'
  BY <1>3 DEF LockThread, Acquire, Goto, files
<1>4. ASSUME NEW th \in Threads, ReEnter(th) PROVE OwnersOwn'
  BY <1>4 DEF ReEnter, Acquire, Goto, files
<1>5. ASSUME NEW th \in Threads, LockDomain(th) PROVE OwnersOwn'
  BY <1>5 DEF LockDomain, Flock, Goto, files, mutex
<1>6. ASSUME NEW th \in Threads, LockDirectory(th) PROVE OwnersOwn'
  BY <1>6 DEF LockDirectory, Flock, Goto, files, mutex
<1>7. ASSUME NEW th \in Threads, LockFile(th) PROVE OwnersOwn'
  BY <1>7 DEF LockFile, Flock, Goto, files, mutex
<1>8. ASSUME NEW th \in Threads, LockFails(th) PROVE OwnersOwn'
  BY <1>8 DEF LockFails, Goto, files, mutex
<1>9. ASSUME NEW th \in Threads, Exit(th) PROVE OwnersOwn'
  BY <1>9 DEF Exit, Drop, Goto, files, mutex
<1>10. ASSUME NEW th \in Threads, Unlock(th) PROVE OwnersOwn'
  BY <1>10 DEF Unlock, UnlockAll, Goto, files, mutex
<1>11. ASSUME NEW th \in Threads, Poison(th) PROVE OwnersOwn'
  BY <1>11 DEF Poison, Repoint, Goto, files, mutex
<1>12. ASSUME NEW th \in Threads, Release(th) PROVE OwnersOwn'
  BY <1>12 DEF Release, Drop, Goto, files
<1>13. ASSUME NEW th \in Threads, Interrupt(th) PROVE OwnersOwn'
  BY <1>13 DEF Interrupt, UnlockAll, Drop, Goto, files, mutex
<1>14. ASSUME NEW th \in Threads, NEW q \in Processes, Fork(th, q) PROVE OwnersOwn'
  BY <1>14 DEF Fork, mutex
<1>15. ASSUME NEW p \in Processes, Start(p) PROVE OwnersOwn'
  BY <1>15 DEF Start, mutex
<1>16. ASSUME NEW p \in Processes, Crash(p) PROVE OwnersOwn'
  BY <1>16 DEF Crash, Repoint, Renew, files
<1>17. ASSUME NEW d \in Dirs, SwapFile(d) PROVE OwnersOwn'
  BY <1>17 DEF SwapFile, mutex
<1>18. ASSUME SwapRoot \/ UNCHANGED vars PROVE OwnersOwn'
  BY <1>18 DEF SwapRoot, vars, mutex
<1> QED BY <1>1, <1>2, <1>3, <1>4, <1>5, <1>6, <1>7, <1>8, <1>9, <1>10, <1>11, <1>12, <1>13, <1>14, <1>15, <1>16, <1>17, <1>18 DEF Next, Step

\* A lock is poisoned and closed in one step, and never opened again.
LEMMA PoisonedNext ==
  ASSUME LockInv, [Next]_vars PROVE PoisonedClosed'
<1> USE ConstantsOK DEF LockInv, Shape, AskersLive, PoisonedClosed
<1>1. ASSUME NEW th \in Threads, Enter(th) PROVE PoisonedClosed'
  BY <1>1 DEF Enter, Renew, Goto, files, mutex
<1>2. ASSUME NEW th \in Threads, Refresh(th) PROVE PoisonedClosed'
  BY <1>2 DEF Refresh, Repoint, Goto, mutex
<1>3. ASSUME NEW th \in Threads, LockThread(th) PROVE PoisonedClosed'
  BY <1>3 DEF LockThread, Acquire, Goto, files
<1>4. ASSUME NEW th \in Threads, ReEnter(th) PROVE PoisonedClosed'
  BY <1>4 DEF ReEnter, Acquire, Goto, files
<1>5. ASSUME NEW th \in Threads, LockDomain(th) PROVE PoisonedClosed'
  BY <1>5 DEF LockDomain, Flock, Goto, files, mutex
<1>6. ASSUME NEW th \in Threads, LockDirectory(th) PROVE PoisonedClosed'
  BY <1>6 DEF LockDirectory, Flock, Goto, files, mutex
<1>7. ASSUME NEW th \in Threads, LockFile(th) PROVE PoisonedClosed'
  BY <1>7 DEF LockFile, Flock, Goto, files, mutex
<1>8. ASSUME NEW th \in Threads, LockFails(th) PROVE PoisonedClosed'
  BY <1>8 DEF LockFails, Goto, files, mutex
<1>9. ASSUME NEW th \in Threads, Exit(th) PROVE PoisonedClosed'
  BY <1>9 DEF Exit, Drop, Goto, files, mutex
<1>10. ASSUME NEW th \in Threads, Unlock(th) PROVE PoisonedClosed'
  BY <1>10 DEF Unlock, UnlockAll, Goto, files, mutex
<1>11. ASSUME NEW th \in Threads, Poison(th) PROVE PoisonedClosed'
  BY <1>11 DEF Poison, Repoint, Goto, files, mutex
<1>12. ASSUME NEW th \in Threads, Release(th) PROVE PoisonedClosed'
  BY <1>12 DEF Release, Drop, Goto, files
<1>13. ASSUME NEW th \in Threads, Interrupt(th) PROVE PoisonedClosed'
  BY <1>13 DEF Interrupt, UnlockAll, Drop, Goto, files, mutex
<1>14. ASSUME NEW th \in Threads, NEW q \in Processes, Fork(th, q) PROVE PoisonedClosed'
  BY <1>14 DEF Fork, mutex
<1>15. ASSUME NEW p \in Processes, Start(p) PROVE PoisonedClosed'
  BY <1>15 DEF Start, mutex
<1>16. ASSUME NEW p \in Processes, Crash(p) PROVE PoisonedClosed'
  BY <1>16 DEF Crash, Repoint, Renew, files
<1>17. ASSUME NEW d \in Dirs, SwapFile(d) PROVE PoisonedClosed'
  BY <1>17 DEF SwapFile, mutex
<1>18. ASSUME SwapRoot \/ UNCHANGED vars PROVE PoisonedClosed'
  BY <1>18 DEF SwapRoot, vars, mutex
<1> QED BY <1>1, <1>2, <1>3, <1>4, <1>5, <1>6, <1>7, <1>8, <1>9, <1>10, <1>11, <1>12, <1>13, <1>14, <1>15, <1>16, <1>17, <1>18 DEF Next, Step

\* A process repoints its descriptors to its own description or to none.
LEMMA DescriptorsNext ==
  ASSUME LockInv, [Next]_vars PROVE DescriptorsOwn'
<1> USE ConstantsOK DEF LockInv, Shape, AskersLive, DescriptorsOwn, PoisonedClosed
<1>1. ASSUME NEW th \in Threads, Enter(th) PROVE DescriptorsOwn'
  BY <1>1 DEF Enter, Renew, Goto, files, mutex
<1>2. ASSUME NEW th \in Threads, Refresh(th) PROVE DescriptorsOwn'
  BY <1>2 DEF Refresh, Repoint, Goto, mutex
<1>3. ASSUME NEW th \in Threads, LockThread(th) PROVE DescriptorsOwn'
  BY <1>3 DEF LockThread, Acquire, Goto, files
<1>4. ASSUME NEW th \in Threads, ReEnter(th) PROVE DescriptorsOwn'
  BY <1>4 DEF ReEnter, Acquire, Goto, files
<1>5. ASSUME NEW th \in Threads, LockDomain(th) PROVE DescriptorsOwn'
  BY <1>5 DEF LockDomain, Flock, Goto, files, mutex
<1>6. ASSUME NEW th \in Threads, LockDirectory(th) PROVE DescriptorsOwn'
  BY <1>6 DEF LockDirectory, Flock, Goto, files, mutex
<1>7. ASSUME NEW th \in Threads, LockFile(th) PROVE DescriptorsOwn'
  BY <1>7 DEF LockFile, Flock, Goto, files, mutex
<1>8. ASSUME NEW th \in Threads, LockFails(th) PROVE DescriptorsOwn'
  BY <1>8 DEF LockFails, Goto, files, mutex
<1>9. ASSUME NEW th \in Threads, Exit(th) PROVE DescriptorsOwn'
  BY <1>9 DEF Exit, Drop, Goto, files, mutex
<1>10. ASSUME NEW th \in Threads, Unlock(th) PROVE DescriptorsOwn'
  BY <1>10 DEF Unlock, UnlockAll, Goto, files, mutex
<1>11. ASSUME NEW th \in Threads, Poison(th) PROVE DescriptorsOwn'
  BY <1>11 DEF Poison, Repoint, Goto, files, mutex
<1>12. ASSUME NEW th \in Threads, Release(th) PROVE DescriptorsOwn'
  BY <1>12 DEF Release, Drop, Goto, files
<1>13. ASSUME NEW th \in Threads, Interrupt(th) PROVE DescriptorsOwn'
  BY <1>13 DEF Interrupt, UnlockAll, Drop, Goto, files, mutex
<1>14. ASSUME NEW th \in Threads, NEW q \in Processes, Fork(th, q) PROVE DescriptorsOwn'
  BY <1>14 DEF Fork, mutex
<1>15. ASSUME NEW p \in Processes, Start(p) PROVE DescriptorsOwn'
  BY <1>15 DEF Start, mutex
<1>16. ASSUME NEW p \in Processes, Crash(p) PROVE DescriptorsOwn'
  BY <1>16 DEF Crash, Repoint, Renew, files
<1>17. ASSUME NEW d \in Dirs, SwapFile(d) PROVE DescriptorsOwn'
  BY <1>17 DEF SwapFile, mutex
<1>18. ASSUME SwapRoot \/ UNCHANGED vars PROVE DescriptorsOwn'
  BY <1>18 DEF SwapRoot, vars, mutex
<1> QED BY <1>1, <1>2, <1>3, <1>4, <1>5, <1>6, <1>7, <1>8, <1>9, <1>10, <1>11, <1>12, <1>13, <1>14, <1>15, <1>16, <1>17, <1>18 DEF Next, Step

\* The flock of the domain changes hands between scopes only.
LEMMA DomainNext ==
  ASSUME OneThreadPerChild, LockInv, [Next]_vars PROVE DomainHeld'
<1> USE ConstantsOK DEF LockInv, Shape, AskersLive, OwnersOwn, DomainHeld, Locking, Owning, Inside
<1>0. ASSUME NEW t \in Threads, NEW u \in Threads, pc[t] \in Owning, pc[u] \in Owning, t # u
      PROVE  ProcessOf[t] # ProcessOf[u]
  BY <1>0
<1>a. ASSUME NEW th \in Threads, pc[th] \in Owning
      PROVE  fds[ProcessOf[th]] \in {ProcessOf[th], None}
  BY <1>a, OwnDescriptors
<1>1. ASSUME NEW th \in Threads, Enter(th) PROVE DomainHeld'
  BY <1>1 DEF Enter, Renew, Goto, files, mutex
<1>2. ASSUME NEW th \in Threads, Refresh(th) PROVE DomainHeld'
  <2> SUFFICES ASSUME NEW u \in Threads, pc'[u] \in Locking
             PROVE  /\ fds'[ProcessOf[u]] = None \/ (fds'[ProcessOf[u]] = ProcessOf[u] /\ flock'[Domain] = ProcessOf[u])
                    /\ pc'[u] \in {"file", "in"} => fds'[ProcessOf[u]] # None
    BY <1>2
  <2>1. CASE u = th
    BY <2>1, <1>2, <1>a DEF Locks, Refresh, Repoint, Goto, mutex, DescriptorsOwn, OneThreadPerChild
  <2>2. CASE u # th
    BY <2>2, <1>2, <1>a, <1>0 DEF Locks, Refresh, Repoint, Goto, mutex, DescriptorsOwn, OneThreadPerChild
  <2> QED BY <2>1, <2>2
<1>3. ASSUME NEW th \in Threads, LockThread(th) PROVE DomainHeld'
  BY <1>3 DEF LockThread, Acquire, Goto, files
<1>4. ASSUME NEW th \in Threads, ReEnter(th) PROVE DomainHeld'
  BY <1>4 DEF ReEnter, Acquire, Goto, files
<1>5. ASSUME NEW th \in Threads, LockDomain(th) PROVE DomainHeld'
  <2> SUFFICES ASSUME NEW u \in Threads, pc'[u] \in Locking
             PROVE  /\ fds'[ProcessOf[u]] = None \/ (fds'[ProcessOf[u]] = ProcessOf[u] /\ flock'[Domain] = ProcessOf[u])
                    /\ pc'[u] \in {"file", "in"} => fds'[ProcessOf[u]] # None
    BY <1>5
  <2>1. CASE u = th
    BY <2>1, <1>5, <1>a DEF Locks, LockDomain, Flock, Goto, files, mutex
  <2>2. CASE u # th
    BY <2>2, <1>5, <1>a, <1>0 DEF Locks, LockDomain, Flock, Goto, files, mutex
  <2> QED BY <2>1, <2>2
<1>6. ASSUME NEW th \in Threads, LockDirectory(th) PROVE DomainHeld'
  BY <1>6 DEF LockDirectory, Flock, Goto, files, mutex
<1>7. ASSUME NEW th \in Threads, LockFile(th) PROVE DomainHeld'
  BY <1>7 DEF LockFile, Flock, Goto, files, mutex
<1>8. ASSUME NEW th \in Threads, LockFails(th) PROVE DomainHeld'
  BY <1>8 DEF LockFails, Goto, files, mutex
<1>9. ASSUME NEW th \in Threads, Exit(th) PROVE DomainHeld'
  BY <1>9 DEF Exit, Drop, Goto, files, mutex
<1>10. ASSUME NEW th \in Threads, Unlock(th) PROVE DomainHeld'
  <2> SUFFICES ASSUME NEW u \in Threads, pc'[u] \in Locking
             PROVE  /\ fds'[ProcessOf[u]] = None \/ (fds'[ProcessOf[u]] = ProcessOf[u] /\ flock'[Domain] = ProcessOf[u])
                    /\ pc'[u] \in {"file", "in"} => fds'[ProcessOf[u]] # None
    BY <1>10
  <2>1. CASE u = th
    BY <2>1, <1>10, <1>a DEF Locks, Unlock, UnlockAll, Held, Goto, files, mutex
  <2>2. CASE u # th
    BY <2>2, <1>10, <1>a, <1>0 DEF Locks, Unlock, UnlockAll, Held, Goto, files, mutex
  <2> QED BY <2>1, <2>2
<1>11. ASSUME NEW th \in Threads, Poison(th) PROVE DomainHeld'
  <2> SUFFICES ASSUME NEW u \in Threads, pc'[u] \in Locking
             PROVE  /\ fds'[ProcessOf[u]] = None \/ (fds'[ProcessOf[u]] = ProcessOf[u] /\ flock'[Domain] = ProcessOf[u])
                    /\ pc'[u] \in {"file", "in"} => fds'[ProcessOf[u]] # None
    BY <1>11
  <2>1. CASE u = th
    BY <2>1, <1>11, <1>a DEF Locks, Poison, Repoint, Goto, files, mutex
  <2>2. CASE u # th
    BY <2>2, <1>11, <1>a, <1>0 DEF Locks, Poison, Repoint, Goto, files, mutex
  <2> QED BY <2>1, <2>2
<1>12. ASSUME NEW th \in Threads, Release(th) PROVE DomainHeld'
  BY <1>12 DEF Release, Drop, Goto, files
<1>13. ASSUME NEW th \in Threads, Interrupt(th) PROVE DomainHeld'
  <2> SUFFICES ASSUME NEW u \in Threads, pc'[u] \in Locking
             PROVE  /\ fds'[ProcessOf[u]] = None \/ (fds'[ProcessOf[u]] = ProcessOf[u] /\ flock'[Domain] = ProcessOf[u])
                    /\ pc'[u] \in {"file", "in"} => fds'[ProcessOf[u]] # None
    BY <1>13
  <2>1. CASE u = th
    BY <2>1, <1>13, <1>a DEF Locks, Interrupt, UnlockAll, Held, Drop, Goto, files, mutex
  <2>2. CASE u # th
    BY <2>2, <1>13, <1>a, <1>0 DEF Locks, Interrupt, UnlockAll, Held, Drop, Goto, files, mutex
  <2> QED BY <2>1, <2>2
<1>14. ASSUME NEW th \in Threads, NEW q \in Processes, Fork(th, q) PROVE DomainHeld'
  BY <1>14 DEF Fork, mutex
<1>15. ASSUME NEW p \in Processes, Start(p) PROVE DomainHeld'
  BY <1>15 DEF Start, mutex
<1>16. ASSUME NEW p \in Processes, Crash(p) PROVE DomainHeld'
  BY <1>16, <1>a DEF Crash, Repoint, Renew, files, Locks
<1>17. ASSUME NEW d \in Dirs, SwapFile(d) PROVE DomainHeld'
  BY <1>17 DEF SwapFile, mutex
<1>18. ASSUME SwapRoot \/ UNCHANGED vars PROVE DomainHeld'
  BY <1>18 DEF SwapRoot, vars, mutex
<1> QED BY <1>1, <1>2, <1>3, <1>4, <1>5, <1>6, <1>7, <1>8, <1>9, <1>10, <1>11, <1>12, <1>13, <1>14, <1>15, <1>16, <1>17, <1>18 DEF Next, Step

-------------------------------------------------------------------------------
\* What every state has.
THEOREM LockInvariance == ASSUME OneThreadPerChild PROVE Spec => []LockInv
<1>1. LockInv /\ [Next]_vars => LockInv'
  BY ShapeNext, AskersNext, OwnersNext, PoisonedNext, DescriptorsNext, DomainNext DEF LockInv
<1> QED BY <1>1, LockInit, PTL DEF Spec

\* No two threads run a scope at once, whatever is forked, crashes, fails, is
\* interrupted or is replaced: what __enter__ and __exit__ are for.
THEOREM Exclusion == ASSUME OneThreadPerChild PROVE Spec => []MutualExclusion
<1>1. LockInv => MutualExclusion
  BY InvExcludes
<1> QED BY <1>1, LockInvariance, PTL

\* A poisoned lock lets nobody in, though its name may be back: the promise of
\* the comment on _poison in __enter__.
THEOREM PoisonHolds == ASSUME OneThreadPerChild PROVE Spec => PoisonIsFinal
<1> DEFINE Closed == \A th \in Threads :
                       poisoned[ProcessOf[th]] /\ pc'[th] = "in" => pc[th] = "in"
<1>1. ASSUME LockInv, [Next]_vars PROVE [Closed]_vars
  <2> USE <1>1 DEF LockInv, Shape
  <2>1. SUFFICES ASSUME NEW u \in Threads, poisoned[ProcessOf[u]], pc'[u] = "in", pc[u] # "in"
                 PROVE  FALSE
    OBVIOUS
  <2>2. fds[ProcessOf[u]] = None
    BY <2>1, ConstantsOK DEF PoisonedClosed
  <2>3. LockFile(u)
    <3>1. ASSUME NEW th \in Threads, Enter(th) \/ Refresh(th) \/ LockThread(th) \/ ReEnter(th)
          PROVE  FALSE
      BY <3>1, <2>1 DEF Enter, Refresh, LockThread, ReEnter, Goto
    <3>2. ASSUME NEW th \in Threads, LockDomain(th) \/ LockDirectory(th) \/ LockFails(th)
          PROVE  FALSE
      BY <3>2, <2>1 DEF LockDomain, LockDirectory, LockFails, Goto
    <3>3. ASSUME NEW th \in Threads, Exit(th) \/ Unlock(th) \/ Poison(th) \/ Release(th)
          PROVE  FALSE
      BY <3>3, <2>1 DEF Exit, Unlock, Poison, Release, Goto
    <3>4. ASSUME NEW th \in Threads, Interrupt(th) \/ \E q \in Processes : Fork(th, q)
          PROVE  FALSE
      BY <3>4, <2>1 DEF Interrupt, Fork, Goto
    <3>5. ASSUME \/ \E p \in Processes : Start(p) \/ Crash(p)
                 \/ \E d \in Dirs : SwapFile(d)
                 \/ SwapRoot \/ UNCHANGED vars
          PROVE  FALSE
      BY <3>5, <2>1 DEF Start, Crash, SwapFile, SwapRoot, vars
    <3>6. ASSUME NEW th \in Threads, LockFile(th) PROVE th = u
      BY <3>6, <2>1 DEF LockFile, Goto
    <3> QED BY <1>1, <3>1, <3>2, <3>3, <3>4, <3>5, <3>6 DEF Next, Step
  <2> QED BY <2>2, <2>3 DEF LockFile
<1>2. Spec => [][Closed]_vars
  BY <1>1, LockInvariance, PTL DEF Spec
<1> QED BY <1>2 DEF PoisonIsFinal
-------------------------------------------------------------------------------
(* Locks and their users, and types.                                       *)

\* A process has not opened descriptions of its own before it has started, or
\* has refreshed after a fork.
Unopened(p) ==
  \/ life[p] \in {"unborn", "forked"}
  \/ \E th \in Threads : ProcessOf[th] = p /\ pc[th] = "refresh"
DescriptorsFresh ==
  \A p \in Processes :
    /\ Unopened(p) => \A q \in Processes : fds[q] # p
    /\ life[p] = "unborn" => fds[p] = None

\* The kernel drops the locks of a description that is closed.
LocksOpen == \A x \in Locks : flock[x] # None => \E q \in Processes : fds[q] = flock[x]

\* A description that holds a lock is in use, or only a forked child has it.
Used(o) ==
  \/ \E th \in Threads : fds[ProcessOf[th]] = o /\ pc[th] \in Inside \cup {"poison"}
  \/ Orphaned(o)
LocksUsed == interrupts \in Nat /\ (interrupts = 0 => \A o \in Processes : Held(o) # {} => Used(o))

\* Only a start and a refresh open descriptions, once for each process.
LEMMA FreshNext ==
  ASSUME OneThreadPerChild, LockInv, DescriptorsFresh, [Next]_vars PROVE DescriptorsFresh'
<1> USE ConstantsOK DEF LockInv, Shape, AskersLive, DescriptorsFresh, Unopened, OneThreadPerChild
<1>1. ASSUME NEW th \in Threads, Enter(th) PROVE DescriptorsFresh'
  BY <1>1 DEF Enter, Renew, Goto, files, mutex
<1>2. ASSUME NEW th \in Threads, Refresh(th) PROVE DescriptorsFresh'
  BY <1>2 DEF Refresh, Repoint, Goto, mutex
<1>3. ASSUME NEW th \in Threads, LockThread(th) PROVE DescriptorsFresh'
  BY <1>3 DEF LockThread, Acquire, Goto, files
<1>4. ASSUME NEW th \in Threads, ReEnter(th) PROVE DescriptorsFresh'
  BY <1>4 DEF ReEnter, Acquire, Goto, files
<1>5. ASSUME NEW th \in Threads, LockDomain(th) PROVE DescriptorsFresh'
  BY <1>5 DEF LockDomain, Flock, Goto, files, mutex
<1>6. ASSUME NEW th \in Threads, LockDirectory(th) PROVE DescriptorsFresh'
  BY <1>6 DEF LockDirectory, Flock, Goto, files, mutex
<1>7. ASSUME NEW th \in Threads, LockFile(th) PROVE DescriptorsFresh'
  BY <1>7 DEF LockFile, Flock, Goto, files, mutex
<1>8. ASSUME NEW th \in Threads, LockFails(th) PROVE DescriptorsFresh'
  BY <1>8 DEF LockFails, Goto, files, mutex
<1>9. ASSUME NEW th \in Threads, Exit(th) PROVE DescriptorsFresh'
  BY <1>9 DEF Exit, Drop, Goto, files, mutex
<1>10. ASSUME NEW th \in Threads, Unlock(th) PROVE DescriptorsFresh'
  BY <1>10 DEF Unlock, UnlockAll, Goto, files, mutex
<1>11. ASSUME NEW th \in Threads, Poison(th) PROVE DescriptorsFresh'
  BY <1>11 DEF Poison, Repoint, Goto, files, mutex
<1>12. ASSUME NEW th \in Threads, Release(th) PROVE DescriptorsFresh'
  BY <1>12 DEF Release, Drop, Goto, files
<1>13. ASSUME NEW th \in Threads, Interrupt(th) PROVE DescriptorsFresh'
  BY <1>13 DEF Interrupt, UnlockAll, Drop, Goto, files, mutex
<1>14. ASSUME NEW th \in Threads, NEW q \in Processes, Fork(th, q) PROVE DescriptorsFresh'
  BY <1>14 DEF Fork, mutex
<1>15. ASSUME NEW p \in Processes, Start(p) PROVE DescriptorsFresh'
  BY <1>15 DEF Start, mutex
<1>16. ASSUME NEW p \in Processes, Crash(p) PROVE DescriptorsFresh'
  BY <1>16 DEF Crash, Repoint, Renew, files
<1>17. ASSUME NEW d \in Dirs, SwapFile(d) PROVE DescriptorsFresh'
  BY <1>17 DEF SwapFile, mutex
<1>18. ASSUME SwapRoot \/ UNCHANGED vars PROVE DescriptorsFresh'
  BY <1>18 DEF SwapRoot, vars, mutex
<1> QED BY <1>1, <1>2, <1>3, <1>4, <1>5, <1>6, <1>7, <1>8, <1>9, <1>10, <1>11, <1>12, <1>13, <1>14, <1>15, <1>16, <1>17, <1>18 DEF Next, Step

\* A lock is taken for an open description.
LEMMA OpenNext ==
  ASSUME LockInv, DescriptorsFresh, LocksOpen, [Next]_vars PROVE LocksOpen'
<1> USE ConstantsOK DEF LockInv, Shape, AskersLive, LocksOpen, DescriptorsFresh, Unopened, Locks
<1>1. ASSUME NEW th \in Threads, Enter(th) PROVE LocksOpen'
  BY <1>1 DEF Enter, Renew, Goto, files, mutex
<1>2. ASSUME NEW th \in Threads, Refresh(th) PROVE LocksOpen'
  BY <1>2 DEF Refresh, Repoint, Goto, mutex
<1>3. ASSUME NEW th \in Threads, LockThread(th) PROVE LocksOpen'
  BY <1>3 DEF LockThread, Acquire, Goto, files
<1>4. ASSUME NEW th \in Threads, ReEnter(th) PROVE LocksOpen'
  BY <1>4 DEF ReEnter, Acquire, Goto, files
<1>5. ASSUME NEW th \in Threads, LockDomain(th) PROVE LocksOpen'
  BY <1>5 DEF LockDomain, Flock, Goto, files, mutex
<1>6. ASSUME NEW th \in Threads, LockDirectory(th) PROVE LocksOpen'
  BY <1>6 DEF LockDirectory, Flock, Goto, files, mutex
<1>7. ASSUME NEW th \in Threads, LockFile(th) PROVE LocksOpen'
  BY <1>7 DEF LockFile, Flock, Goto, files, mutex
<1>8. ASSUME NEW th \in Threads, LockFails(th) PROVE LocksOpen'
  BY <1>8 DEF LockFails, Goto, files, mutex
<1>9. ASSUME NEW th \in Threads, Exit(th) PROVE LocksOpen'
  BY <1>9 DEF Exit, Drop, Goto, files, mutex
<1>10. ASSUME NEW th \in Threads, Unlock(th) PROVE LocksOpen'
  BY <1>10 DEF Unlock, UnlockAll, Goto, files, mutex
<1>11. ASSUME NEW th \in Threads, Poison(th) PROVE LocksOpen'
  BY <1>11 DEF Poison, Repoint, Goto, files, mutex
<1>12. ASSUME NEW th \in Threads, Release(th) PROVE LocksOpen'
  BY <1>12 DEF Release, Drop, Goto, files
<1>13. ASSUME NEW th \in Threads, Interrupt(th) PROVE LocksOpen'
  BY <1>13 DEF Interrupt, UnlockAll, Drop, Goto, files, mutex
<1>14. ASSUME NEW th \in Threads, NEW q \in Processes, Fork(th, q) PROVE LocksOpen'
  BY <1>14 DEF Fork, mutex
<1>15. ASSUME NEW p \in Processes, Start(p) PROVE LocksOpen'
  BY <1>15 DEF Start, mutex
<1>16. ASSUME NEW p \in Processes, Crash(p) PROVE LocksOpen'
  BY <1>16 DEF Crash, Repoint, Renew, files
<1>17. ASSUME NEW d \in Dirs, SwapFile(d) PROVE LocksOpen'
  BY <1>17 DEF SwapFile, mutex
<1>18. ASSUME SwapRoot \/ UNCHANGED vars PROVE LocksOpen'
  BY <1>18 DEF SwapRoot, vars, mutex
<1> QED BY <1>1, <1>2, <1>3, <1>4, <1>5, <1>6, <1>7, <1>8, <1>9, <1>10, <1>11, <1>12, <1>13, <1>14, <1>15, <1>16, <1>17, <1>18 DEF Next, Step

\* Whoever leaves gives its locks back, or closes the description.
LEMMA UsersNext ==
  ASSUME OneThreadPerChild, LockInv, DescriptorsFresh, LocksOpen, LocksOpen', LocksUsed, [Next]_vars PROVE LocksUsed'
<1> USE ConstantsOK DEF LockInv, Shape, AskersLive, LocksUsed, Used, Orphaned, Inside, Held
<1>a. ASSUME NEW th \in Threads, pc[th] \in Inside \cup {"poison"}
      PROVE  fds[ProcessOf[th]] \in {ProcessOf[th], None}
  BY <1>a, OwnDescriptors DEF Owning
<1>b. ASSUME NEW p \in Processes, Repoint(p, None), interrupts' = interrupts,
             \A u \in Threads : ProcessOf[u] # p => pc'[u] = pc[u]
      PROVE  LocksUsed'
  <2> SUFFICES ASSUME interrupts = 0, NEW o \in Processes, NEW x \in Locks, flock'[x] = o
               PROVE  Used(o)'
    BY <1>b
  <2>1. flock[x] = o /\ fds' = [fds EXCEPT ![p] = None] /\ \E q \in Processes : fds'[q] = o
    BY <1>b DEF Repoint
  <2>2. Used(o)
    BY <2>1
  <2>3. CASE \E u \in Threads : /\ fds[ProcessOf[u]] = o /\ pc[u] \in Inside \cup {"poison"}
                               /\ ProcessOf[u] # p
    BY <1>b, <2>1, <2>3
  <2>4. ASSUME fds'[o] # o PROVE Orphaned(o)'
    BY <2>1, <2>4
  <2>5. CASE \E u \in Threads : /\ fds[ProcessOf[u]] = o /\ pc[u] \in Inside \cup {"poison"}
                               /\ ProcessOf[u] = p
    BY <1>a, <2>1, <2>4, <2>5
  <2>6. CASE Orphaned(o)
    BY <2>1, <2>4, <2>6
  <2> QED BY <2>2, <2>3, <2>5, <2>6
<1>1. ASSUME NEW th \in Threads, Enter(th) PROVE LocksUsed'
  BY <1>1 DEF Enter, Renew, Goto, files, mutex
<1>2. ASSUME NEW th \in Threads, Refresh(th) PROVE LocksUsed'
  <2> DEFINE p == ProcessOf[th]
  <2>1. CASE Repoint(p, None)
    BY <1>2, <1>b, <2>1 DEF Refresh, Goto
  <2>2. CASE Repoint(p, p)
    <3> SUFFICES ASSUME interrupts = 0, NEW o \in Processes, NEW x \in Locks, flock'[x] = o
                 PROVE  Used(o)'
      BY <1>2 DEF Refresh
    <3>1. /\ flock[x] = o /\ fds' = [fds EXCEPT ![p] = p] /\ pc[th] = "refresh"
          /\ \A u \in Threads \ {th} : pc'[u] = pc[u] /\ ProcessOf[u] # p
      BY <1>2, <2>2 DEF Repoint, Refresh, Goto, OneThreadPerChild
    <3>2. Used(o) /\ o # p /\ \E q \in Processes : fds'[q] = o
      BY <2>2, <3>1 DEF LocksOpen, DescriptorsFresh, Unopened, Repoint
    <3> QED BY <3>1, <3>2
  <2> QED BY <1>2, <2>1, <2>2 DEF Refresh
<1>3. ASSUME NEW th \in Threads, LockThread(th) PROVE LocksUsed'
  BY <1>3 DEF LockThread, Acquire, Goto, files
<1>4. ASSUME NEW th \in Threads, ReEnter(th) PROVE LocksUsed'
  BY <1>4 DEF ReEnter, Acquire, Goto, files
<1>5. ASSUME NEW th \in Threads, LockDomain(th) PROVE LocksUsed'
  BY <1>5 DEF LockDomain, Flock, Goto, files, mutex
<1>6. ASSUME NEW th \in Threads, LockDirectory(th) PROVE LocksUsed'
  BY <1>6 DEF LockDirectory, Flock, Goto, files, mutex
<1>7. ASSUME NEW th \in Threads, LockFile(th) PROVE LocksUsed'
  BY <1>7 DEF LockFile, Flock, Goto, files, mutex
<1>8. ASSUME NEW th \in Threads, LockFails(th) PROVE LocksUsed'
  BY <1>8 DEF LockFails, Goto, files, mutex
<1>9. ASSUME NEW th \in Threads, Exit(th) PROVE LocksUsed'
  BY <1>9 DEF Exit, Drop, Goto, files, mutex
<1>10. ASSUME NEW th \in Threads, Unlock(th) PROVE LocksUsed'
  <2> SUFFICES ASSUME interrupts = 0, NEW o \in Processes, NEW x \in Locks, flock'[x] = o
               PROVE  Used(o)'
    BY <1>10 DEF Unlock
  <2>1. Used(o) /\ fds' = fds /\ \A u \in Threads \ {th} : pc'[u] = pc[u]
    BY <1>10 DEF Unlock, UnlockAll, Goto
  <2>2. CASE fds[ProcessOf[th]] # o \/ pc'[th] = "poison"
    BY <1>10, <2>1, <2>2 DEF Unlock, Goto
  <2>3. CASE fds[ProcessOf[th]] = o /\ pc'[th] # "poison"
    BY <1>10, <2>3 DEF Unlock, UnlockAll, Goto
  <2> QED BY <2>2, <2>3
<1>11. ASSUME NEW th \in Threads, Poison(th) PROVE LocksUsed'
  BY <1>11, <1>b DEF Poison, Goto
<1>12. ASSUME NEW th \in Threads, Release(th) PROVE LocksUsed'
  BY <1>12 DEF Release, Drop, Goto, files
<1>13. ASSUME NEW th \in Threads, Interrupt(th) PROVE LocksUsed'
  BY <1>13 DEF Interrupt, UnlockAll, Drop, Goto, files, mutex
<1>14. ASSUME NEW th \in Threads, NEW q \in Processes, Fork(th, q) PROVE LocksUsed'
  BY <1>14 DEF Fork, mutex, DescriptorsFresh, Unopened
<1>15. ASSUME NEW p \in Processes, Start(p) PROVE LocksUsed'
  BY <1>15 DEF Start, mutex, DescriptorsFresh, Unopened
<1>16. ASSUME NEW p \in Processes, Crash(p) PROVE LocksUsed'
  BY <1>16, <1>b DEF Crash
<1>17. ASSUME NEW d \in Dirs, SwapFile(d) PROVE LocksUsed'
  BY <1>17 DEF SwapFile, mutex
<1>18. ASSUME SwapRoot \/ UNCHANGED vars PROVE LocksUsed'
  BY <1>18 DEF SwapRoot, vars, mutex
<1> QED BY <1>1, <1>2, <1>3, <1>4, <1>5, <1>6, <1>7, <1>8, <1>9, <1>10, <1>11, <1>12, <1>13, <1>14, <1>15, <1>16, <1>17, <1>18 DEF Next, Step

\* What the type says beyond the shapes.
Bounds ==
  /\ root \in Dirs
  /\ entry \in [Dirs -> Inodes \cup {None}]
  /\ pinned \in [Processes -> [dir : Dirs \cup {None}, inode : Inodes \cup {None}]]
  /\ depth \in [Threads -> 0 .. MaxDepth]
  /\ interrupts \in 0 .. MaxInterrupts

\* No thread enters deeper than allowed, or leaves more often than it entered.
LEMMA BoundsNext ==
  ASSUME LockInv, Bounds, [Next]_vars PROVE Bounds'
<1> USE ConstantsOK DEF Bounds, LockInv, Shape, OwnersOwn
<1>1. ASSUME NEW th \in Threads, Enter(th) PROVE Bounds'
  BY <1>1 DEF Enter, Renew, Goto, files, mutex
<1>2. ASSUME NEW th \in Threads, Refresh(th) PROVE Bounds'
  <2>1. pinned' \in [Processes -> [dir : Dirs \cup {None}, inode : Inodes \cup {None}]]
        /\ entry' \in [Dirs -> Inodes \cup {None}]
    BY <1>2 DEF Refresh, Open
  <2> QED BY <1>2, <2>1 DEF Refresh
<1>3. ASSUME NEW th \in Threads, LockThread(th) PROVE Bounds'
  BY <1>3 DEF LockThread, Acquire, Goto, files
<1>4. ASSUME NEW th \in Threads, ReEnter(th) PROVE Bounds'
  BY <1>4 DEF ReEnter, Acquire, Goto, files
<1>5. ASSUME NEW th \in Threads, LockDomain(th) PROVE Bounds'
  BY <1>5 DEF LockDomain, Flock, Goto, files, mutex
<1>6. ASSUME NEW th \in Threads, LockDirectory(th) PROVE Bounds'
  BY <1>6 DEF LockDirectory, Flock, Goto, files, mutex
<1>7. ASSUME NEW th \in Threads, LockFile(th) PROVE Bounds'
  <2>1. 1 \in 0 .. MaxDepth
    OBVIOUS
  <2> QED BY <1>7, <2>1 DEF LockFile, files
<1>8. ASSUME NEW th \in Threads, LockFails(th) PROVE Bounds'
  BY <1>8 DEF LockFails, Goto, files, mutex
<1>9. ASSUME NEW th \in Threads, Exit(th) PROVE Bounds'
  BY <1>9 DEF Exit, Drop, Goto, files, mutex
<1>10. ASSUME NEW th \in Threads, Unlock(th) PROVE Bounds'
  BY <1>10 DEF Unlock, UnlockAll, Goto, files, mutex
<1>11. ASSUME NEW th \in Threads, Poison(th) PROVE Bounds'
  BY <1>11 DEF Poison, Repoint, Goto, files, mutex
<1>12. ASSUME NEW th \in Threads, Release(th) PROVE Bounds'
  BY <1>12 DEF Release, Drop, Goto, files
<1>13. ASSUME NEW th \in Threads, Interrupt(th) PROVE Bounds'
  BY <1>13 DEF Interrupt, UnlockAll, Drop, Goto, files, mutex
<1>14. ASSUME NEW th \in Threads, NEW q \in Processes, Fork(th, q) PROVE Bounds'
  BY <1>14 DEF Fork, mutex
<1>15. ASSUME NEW p \in Processes, Start(p) PROVE Bounds'
  BY <1>15 DEF Start, Open, mutex
<1>16. ASSUME NEW p \in Processes, Crash(p) PROVE Bounds'
  BY <1>16 DEF Crash, Repoint, Renew, files
<1>17. ASSUME NEW d \in Dirs, SwapFile(d) PROVE Bounds'
  BY <1>17 DEF SwapFile, mutex
<1>18. ASSUME SwapRoot \/ UNCHANGED vars PROVE Bounds'
  BY <1>18 DEF SwapRoot, vars, files, mutex
<1> QED BY <1>1, <1>2, <1>3, <1>4, <1>5, <1>6, <1>7, <1>8, <1>9, <1>10, <1>11, <1>12, <1>13, <1>14, <1>15, <1>16, <1>17, <1>18 DEF Next, Step

\* Every variable stays in its type.
THEOREM TypeCorrect == ASSUME OneThreadPerChild PROVE Spec => []TypeOK
<1>1. Init => Bounds
  BY ConstantsOK DEF Init, Bounds, NoPin, files
<1>2. LockInv /\ Bounds /\ [Next]_vars => Bounds'
  BY BoundsNext
<1>3. LockInv /\ Bounds => TypeOK
  BY DEF LockInv, Shape, OwnersOwn, Bounds, TypeOK
<1> QED BY <1>1, <1>2, <1>3, LockInvariance, PTL DEF Spec

\* A kernel lock is never left behind by a thread that is out, whatever fails,
\* dies or is forked in between.
THEOREM LocksInUse == ASSUME OneThreadPerChild PROVE Spec => []LocksHaveUsers
<1> DEFINE Inv == DescriptorsFresh /\ LocksOpen /\ LocksUsed
<1>1. Init => Inv
  BY ConstantsOK DEF Init, DescriptorsFresh, LocksOpen, LocksUsed, Held
<1>2. LockInv /\ Inv /\ [Next]_vars => Inv'
  BY FreshNext, OpenNext, UsersNext
<1>3. LockInv /\ Inv => LocksHaveUsers
  BY DEF LockInv, Shape, LocksUsed, Used, Held, LocksHaveUsers
<1> QED BY <1>1, <1>2, <1>3, LockInvariance, PTL DEF Spec
-------------------------------------------------------------------------------
(***************************************************************************)
(* Nobody waits for nobody.                                                *)
(***************************************************************************)

\* What keeps th from its next step: the thread lock of its process, or a
\* kernel lock that another description holds.
Free(th) ==
  LET p == ProcessOf[th]
      o == fds[p]
  IN  /\ pc[th] = "lock" => owner[p] \in {None, th}
      /\ pc[th] = "domain" => flock[Domain] \in {None, o}
      /\ pc[th] = "dir" => o # None /\ flock[pinned[o].dir] \in {None, o}
      /\ pc[th] = "file" => o # None /\ flock[pinned[o].inode] \in {None, o}

\* The threads that have asked for the lock never all wait, for each other or
\* for somebody who is gone; the premises are those of Progress.
NeverAllWait ==
  /\ interrupts = 0
  /\ \A o \in Processes : ~Orphaned(o)
  /\ \E th \in Threads : pc[th] # "out"
  => \E u \in Threads : pc[u] # "out" /\ Free(u)

\* Without an interrupt the thread lock is given back as often as it was taken:
\* its owner is between the two, and entered as deep as it acquired.
Balanced ==
  /\ \A p \in Processes :
       /\ owner[p] # None => ProcessOf[owner[p]] = p /\ pc[owner[p]] \in Owning
       /\ owner[p] = None => count[p] = 0
  /\ \A th \in Threads :
       pc[th] \in Owning => count[ProcessOf[th]] = IF pc[th] = "in" THEN depth[th] ELSE 1
OwnersBusy == interrupts \in Nat /\ (interrupts = 0 => Balanced)

\* A lock that is not poisoned is open, and a thread on its way in has one.
PinnedOpen ==
  /\ \A p \in Processes : life[p] \in {"up", "forked"} => poisoned[p] \/ fds[p] # None
  /\ \A th \in Threads : pc[th] \in {"domain"} \cup Locking => ~poisoned[ProcessOf[th]]
  /\ \A p \in Processes : fds[p] # None => pinned[fds[p]] \in [dir : Dirs, inode : Inodes]

\* Every acquisition is paired with a release.
LEMMA BusyNext ==
  ASSUME LockInv, OwnersBusy, [Next]_vars PROVE OwnersBusy'
<1> USE ConstantsOK DEF LockInv, Shape, AskersLive, OwnersOwn, OwnersBusy, Balanced, Owning, Inside
<1>1. ASSUME NEW th \in Threads, Enter(th) PROVE OwnersBusy'
  BY <1>1 DEF Enter, Renew, Goto, files, mutex
<1>2. ASSUME NEW th \in Threads, Refresh(th) PROVE OwnersBusy'
  BY <1>2 DEF Refresh, Repoint, Goto, mutex
<1>3. ASSUME NEW th \in Threads, LockThread(th) PROVE OwnersBusy'
  BY <1>3 DEF LockThread, Acquire, Goto, files
<1>4. ASSUME NEW th \in Threads, ReEnter(th) PROVE OwnersBusy'
  BY <1>4 DEF ReEnter, Acquire, Goto, files
<1>5. ASSUME NEW th \in Threads, LockDomain(th) PROVE OwnersBusy'
  BY <1>5 DEF LockDomain, Flock, Goto, files, mutex
<1>6. ASSUME NEW th \in Threads, LockDirectory(th) PROVE OwnersBusy'
  BY <1>6 DEF LockDirectory, Flock, Goto, files, mutex
<1>7. ASSUME NEW th \in Threads, LockFile(th) PROVE OwnersBusy'
  BY <1>7 DEF LockFile, Flock, Goto, files, mutex
<1>8. ASSUME NEW th \in Threads, LockFails(th) PROVE OwnersBusy'
  BY <1>8 DEF LockFails, Goto, files, mutex
<1>9. ASSUME NEW th \in Threads, Exit(th) PROVE OwnersBusy'
  BY <1>9 DEF Exit, Drop, Goto, files, mutex
<1>10. ASSUME NEW th \in Threads, Unlock(th) PROVE OwnersBusy'
  BY <1>10 DEF Unlock, UnlockAll, Goto, files, mutex
<1>11. ASSUME NEW th \in Threads, Poison(th) PROVE OwnersBusy'
  BY <1>11 DEF Poison, Repoint, Goto, files, mutex
<1>12. ASSUME NEW th \in Threads, Release(th) PROVE OwnersBusy'
  BY <1>12 DEF Release, Drop, Goto, files
<1>13. ASSUME NEW th \in Threads, Interrupt(th) PROVE OwnersBusy'
  BY <1>13 DEF Interrupt, UnlockAll, Drop, Goto, files, mutex
<1>14. ASSUME NEW th \in Threads, NEW q \in Processes, Fork(th, q) PROVE OwnersBusy'
  BY <1>14 DEF Fork, mutex
<1>15. ASSUME NEW p \in Processes, Start(p) PROVE OwnersBusy'
  BY <1>15 DEF Start, mutex
<1>16. ASSUME NEW p \in Processes, Crash(p) PROVE OwnersBusy'
  BY <1>16 DEF Crash, Repoint, Renew, files
<1>17. ASSUME NEW d \in Dirs, SwapFile(d) PROVE OwnersBusy'
  BY <1>17 DEF SwapFile, mutex
<1>18. ASSUME SwapRoot \/ UNCHANGED vars PROVE OwnersBusy'
  BY <1>18 DEF SwapRoot, vars, mutex
<1> QED BY <1>1, <1>2, <1>3, <1>4, <1>5, <1>6, <1>7, <1>8, <1>9, <1>10, <1>11, <1>12, <1>13, <1>14, <1>15, <1>16, <1>17, <1>18 DEF Next, Step

\* Who poisons a lock owns it, or is alone in its process.
LEMMA OpenedNext ==
  ASSUME OneThreadPerChild, LockInv, Bounds, PinnedOpen, [Next]_vars PROVE PinnedOpen'
<1> USE ConstantsOK DEF LockInv, Shape, AskersLive, OwnersOwn, PinnedOpen, Bounds, Owning, Inside, Locking, OneThreadPerChild
<1>1. ASSUME NEW th \in Threads, Enter(th) PROVE PinnedOpen'
  BY <1>1 DEF Enter, Renew, Goto, files, mutex
<1>2. ASSUME NEW th \in Threads, Refresh(th) PROVE PinnedOpen'
  <2> DEFINE p == ProcessOf[th]
  <2>1. /\ pc[th] = "refresh" /\ p \in Processes /\ UNCHANGED life
        /\ \A u \in Threads \ {th} : pc'[u] = pc[u] /\ ProcessOf[u] # p
    BY <1>2 DEF Refresh, Goto
  <2>2. CASE Repoint(p, p) /\ Open(p, pinned[fds[p]].dir) /\ fds[p] # None /\ Goto(th, "lock") /\ UNCHANGED poisoned
    <3>1. PICK i \in Inodes : pinned' = [pinned EXCEPT ![p] = [dir |-> pinned[fds[p]].dir, inode |-> i]]
      BY <2>2 DEF Open
    <3>2. pinned[fds[p]].dir \in Dirs /\ fds' = [fds EXCEPT ![p] = p] /\ p # None
      BY <2>1, <2>2 DEF Repoint
    <3>3. \A q \in Processes : fds'[q] # None => pinned'[fds'[q]] \in [dir : Dirs, inode : Inodes]
      BY <2>1, <3>1, <3>2
    <3> QED BY <2>1, <2>2, <3>2, <3>3 DEF Goto
  <2>3. CASE Repoint(p, None) /\ poisoned' = [poisoned EXCEPT ![p] = TRUE] /\ Goto(th, "out") /\ UNCHANGED pinned
    BY <2>1, <2>3 DEF Repoint, Goto
  <2> QED BY <1>2, <2>2, <2>3 DEF Refresh
<1>3. ASSUME NEW th \in Threads, LockThread(th) PROVE PinnedOpen'
  BY <1>3 DEF LockThread, Acquire, Goto, files
<1>4. ASSUME NEW th \in Threads, ReEnter(th) PROVE PinnedOpen'
  BY <1>4 DEF ReEnter, Acquire, Goto, files
<1>5. ASSUME NEW th \in Threads, LockDomain(th) PROVE PinnedOpen'
  BY <1>5 DEF LockDomain, Flock, Goto, files, mutex
<1>6. ASSUME NEW th \in Threads, LockDirectory(th) PROVE PinnedOpen'
  BY <1>6 DEF LockDirectory, Flock, Goto, files, mutex
<1>7. ASSUME NEW th \in Threads, LockFile(th) PROVE PinnedOpen'
  BY <1>7 DEF LockFile, Flock, Goto, files, mutex
<1>8. ASSUME NEW th \in Threads, LockFails(th) PROVE PinnedOpen'
  BY <1>8 DEF LockFails, Goto, files, mutex
<1>9. ASSUME NEW th \in Threads, Exit(th) PROVE PinnedOpen'
  BY <1>9 DEF Exit, Drop, Goto, files, mutex
<1>10. ASSUME NEW th \in Threads, Unlock(th) PROVE PinnedOpen'
  BY <1>10 DEF Unlock, UnlockAll, Goto, files, mutex
<1>11. ASSUME NEW th \in Threads, Poison(th) PROVE PinnedOpen'
  BY <1>11 DEF Poison, Repoint, Goto, files, mutex
<1>12. ASSUME NEW th \in Threads, Release(th) PROVE PinnedOpen'
  BY <1>12 DEF Release, Drop, Goto, files
<1>13. ASSUME NEW th \in Threads, Interrupt(th) PROVE PinnedOpen'
  BY <1>13 DEF Interrupt, UnlockAll, Drop, Goto, files, mutex
<1>14. ASSUME NEW th \in Threads, NEW q \in Processes, Fork(th, q) PROVE PinnedOpen'
  BY <1>14 DEF Fork, mutex
<1>15. ASSUME NEW p \in Processes, Start(p) PROVE PinnedOpen'
  BY <1>15 DEF Start, Open, mutex
<1>16. ASSUME NEW p \in Processes, Crash(p) PROVE PinnedOpen'
  BY <1>16 DEF Crash, Repoint, Renew, files
<1>17. ASSUME NEW d \in Dirs, SwapFile(d) PROVE PinnedOpen'
  BY <1>17 DEF SwapFile, mutex
<1>18. ASSUME SwapRoot \/ UNCHANGED vars PROVE PinnedOpen'
  BY <1>18 DEF SwapRoot, vars, mutex
<1> QED BY <1>1, <1>2, <1>3, <1>4, <1>5, <1>6, <1>7, <1>8, <1>9, <1>10, <1>11, <1>12, <1>13, <1>14, <1>15, <1>16, <1>17, <1>18 DEF Next, Step

\* A thread inside gets on, or the one it waits for does: whoever is on its way
\* in holds the domain, so nobody waits for a thread that waits.
LEMMA InsideGetsOn ==
  ASSUME LockInv, PinnedOpen, LocksUsed, Bounds, interrupts = 0, \A o \in Processes : ~Orphaned(o),
         NEW v \in Threads, pc[v] \in Inside \cup {"poison"}
  PROVE  \E u \in Threads : pc[u] # "out" /\ Free(u)
<1> DEFINE p == ProcessOf[v]
<1>1. p \in Processes /\ life[p] = "up"
  BY ConstantsOK DEF LockInv, AskersLive, Inside
<1>2. CASE pc[v] \notin {"dir", "file"}
  BY <1>2 DEF Free, Inside
<1>3. CASE pc[v] \in {"dir", "file"}
  <2>1. fds[p] = p /\ flock[Domain] = p /\ pinned[p] \in [dir : Dirs, inode : Inodes] /\ p # None
    BY <1>1, <1>3, ConstantsOK DEF LockInv, DomainHeld, PinnedOpen, Locking
  <2>2. PICK x \in Locks : x = IF pc[v] = "dir" THEN pinned[p].dir ELSE pinned[p].inode
    BY <2>1 DEF Locks
  <2>3. CASE flock[x] \in {None, p}
    BY <1>3, <2>1, <2>2, <2>3 DEF Free
  <2>4. CASE flock[x] \notin {None, p}
    <3>1. flock[x] \in Processes /\ Used(flock[x])
      BY <2>2, <2>4 DEF LockInv, Shape, LocksUsed, Held
    <3>2. PICK w \in Threads : fds[ProcessOf[w]] = flock[x] /\ pc[w] \in Inside \cup {"poison"}
      BY <3>1 DEF Used
    <3>3. pc[w] \notin Locking
      BY <2>1, <2>4, <3>1, <3>2, ConstantsOK DEF LockInv, DomainHeld
    <3> QED BY <3>2, <3>3 DEF Free, Inside, Locking
  <2> QED BY <2>3, <2>4
<1> QED BY <1>2, <1>3

\* The same for a thread that owns the thread lock, which may wait for the
\* thread that holds the domain.
LEMMA OwnersGetOn ==
  ASSUME LockInv, PinnedOpen, LocksUsed, Bounds, interrupts = 0, \A o \in Processes : ~Orphaned(o),
         NEW v \in Threads, pc[v] \in Owning
  PROVE  \E u \in Threads : pc[u] # "out" /\ Free(u)
<1>1. CASE pc[v] \in Inside \cup {"poison"}
  BY <1>1, InsideGetsOn
<1>2. CASE pc[v] = "release" \/ (pc[v] = "domain" /\ flock[Domain] = None)
  BY <1>2 DEF Free
<1>3. CASE pc[v] = "domain" /\ flock[Domain] # None
  <2>1. Domain \in Locks /\ flock[Domain] \in Processes /\ Used(flock[Domain])
    BY <1>3 DEF LockInv, Shape, LocksUsed, Held, Locks
  <2>2. PICK w \in Threads : pc[w] \in Inside \cup {"poison"}
    BY <2>1 DEF Used
  <2> QED BY <2>2, InsideGetsOn
<1> QED BY <1>1, <1>2, <1>3 DEF Owning

\* As long as no interrupt has leaked a lock and none is left to a forked child
\* alone, some thread among those that have asked for the lock can take its next
\* step, whatever failed, was replaced or died before.
THEOREM NobodyWaitsForever == ASSUME OneThreadPerChild PROVE Spec => []NeverAllWait
<1> DEFINE Inv == DescriptorsFresh /\ LocksOpen /\ LocksUsed /\ Bounds /\ OwnersBusy /\ PinnedOpen
<1>1. Init => Inv
  BY ConstantsOK DEF Init, DescriptorsFresh, LocksOpen, LocksUsed, Held, Bounds, NoPin, files, mutex,
     OwnersBusy, Balanced, PinnedOpen, Owning, Inside, Locking
<1>2. LockInv /\ Inv /\ [Next]_vars => Inv'
  BY FreshNext, OpenNext, UsersNext, BoundsNext, BusyNext, OpenedNext
<1>3. LockInv /\ Inv => NeverAllWait
  <2> SUFFICES ASSUME LockInv, Inv, interrupts = 0, \A o \in Processes : ~Orphaned(o),
                      NEW th \in Threads, pc[th] # "out"
               PROVE  \E u \in Threads : pc[u] # "out" /\ Free(u)
    BY DEF NeverAllWait
  <2>1. CASE pc[th] \in Owning
    BY <2>1, OwnersGetOn
  <2>2. CASE pc[th] = "refresh"
    BY <2>2 DEF Free
  <2>3. CASE pc[th] = "lock"
    <3> DEFINE o == owner[ProcessOf[th]]
    <3>1. CASE o = None
      BY <2>3, <3>1 DEF Free
    <3>2. CASE o # None
      <4>1. o \in Threads /\ pc[o] \in Owning
        BY <3>2, ConstantsOK DEF LockInv, Shape, OwnersBusy, Balanced
      <4> QED BY <4>1, OwnersGetOn
    <3> QED BY <3>1, <3>2
  <2> QED BY <2>1, <2>2, <2>3 DEF LockInv, Shape, PCs, Owning
<1> QED BY <1>1, <1>2, <1>3, LockInvariance, PTL DEF Spec
=============================================================================
