------------------------------ MODULE PinnedLock -----------------------------
(***************************************************************************)
(* The lock that AuditJournal takes for granted: JsonFileLock.pinned of    *)
(* src/src/repositories/file_lock.py, the re-entrant thread lock with the  *)
(* three kernel locks behind it, taken one system call at a time.          *)
(*                                                                         *)
(* A kernel lock (flock) belongs to an open file description.  A process   *)
(* opens one description each of the data root's parent, of the audit      *)
(* directory and of the lock file, and keeps them for its lifetime.  A     *)
(* forked child shares them until it first uses the lock.  While threads   *)
(* enter and leave, the lock file may be unlinked or replaced, the data    *)
(* root may be replaced, calls may fail, processes may fork and die, and   *)
(* the main thread may be interrupted.                                     *)
(***************************************************************************)
EXTENDS Naturals, FiniteSets

CONSTANTS
  Threads, Processes, ProcessOf,
  Forkable,      \* processes that may also come to life by fork
  MainThreads,   \* threads that KeyboardInterrupt can reach
  Dirs,          \* audit directories that have been at the configured path
  Inodes,        \* lock files that have been at .txn.lock
  Domain,        \* the directory above the data root
  None,          \* no process, no thread, no inode
  MaxDepth,      \* bound: nested entries of one thread
  MaxInterrupts  \* bound: KeyboardInterrupts inside the lock

ASSUME ConstantsOK ==
  /\ ProcessOf \in [Threads -> Processes]
  /\ Forkable \subseteq Processes /\ MainThreads \subseteq Threads
  /\ None \notin Processes \cup Threads \cup Inodes \cup Dirs
  /\ Domain \notin Dirs \cup Inodes
  /\ MaxDepth \in Nat \ {0} /\ MaxInterrupts \in Nat

Locks == {Domain} \cup Dirs \cup Inodes

VARIABLES
  root,        \* the audit directory at the configured path
  entry,       \* the inode that .txn.lock names, per directory
  life,        \* per process; "forked" until it first uses the lock
  fds,         \* per process: whose descriptions its descriptors refer to
  pinned,      \* the directory and the inode that were opened, per description
  flock,       \* the description that holds each kernel lock
  owner, count, \* per process: the thread that has _thread_lock, how often
  depth,       \* per thread: _local.depth
  poisoned,    \* per process: _compromised_error is set
  pc,          \* per thread
  interrupts   \* number of KeyboardInterrupts inside the lock

files == <<root, entry>>
mutex == <<owner, count>>
vars  == <<files, life, fds, pinned, flock, mutex, depth, poisoned, pc, interrupts>>

NoPin == [dir |-> None, inode |-> None]

\* Labels between the first kernel lock and the last.
Inside == {"dir", "file", "in", "unlock", "reject"}
PCs == {"out", "refresh", "lock", "domain", "poison", "release"} \cup Inside

TypeOK ==
  /\ root \in Dirs
  /\ entry \in [Dirs -> Inodes \cup {None}]
  /\ life \in [Processes -> {"unborn", "up", "forked", "dead"}]
  /\ fds \in [Processes -> Processes \cup {None}]
  /\ pinned \in [Processes -> [dir : Dirs \cup {None}, inode : Inodes \cup {None}]]
  /\ flock \in [Locks -> Processes \cup {None}]
  /\ owner \in [Processes -> Threads \cup {None}]
  /\ count \in [Processes -> Nat]
  /\ depth \in [Threads -> 0 .. MaxDepth]
  /\ poisoned \in [Processes -> BOOLEAN]
  /\ pc \in [Threads -> PCs]
  /\ interrupts \in 0 .. MaxInterrupts

Init ==
  /\ root \in Dirs
  /\ entry = [d \in Dirs |-> None]
  /\ life = [p \in Processes |-> "unborn"]
  /\ fds = [p \in Processes |-> None]
  /\ pinned = [p \in Processes |-> NoPin]
  /\ flock = [x \in Locks |-> None]
  /\ owner = [p \in Processes |-> None]
  /\ count = [p \in Processes |-> 0]
  /\ depth = [th \in Threads |-> 0]
  /\ poisoned = [p \in Processes |-> FALSE]
  /\ pc = [th \in Threads |-> "out"]
  /\ interrupts = 0

-------------------------------------------------------------------------------
Held(o) == {x \in Locks : flock[x] = o}
Goto(th, label) == pc' = [pc EXCEPT ![th] = label]

\* _thread_lock as a new RLock; one acquire; one release.
Renew(p) ==
  /\ owner' = [owner EXCEPT ![p] = None]
  /\ count' = [count EXCEPT ![p] = 0]
Acquire(th, p) ==
  /\ owner[p] \in {None, th}
  /\ owner' = [owner EXCEPT ![p] = th]
  /\ count' = [count EXCEPT ![p] = @ + 1]
Drop(p) ==
  /\ owner' = IF count[p] = 1 THEN [owner EXCEPT ![p] = None] ELSE owner
  /\ count' = [count EXCEPT ![p] = @ - 1]

\* The kernel drops the locks of a description when its last descriptor goes.
Repoint(p, o) ==
  /\ fds' = [fds EXCEPT ![p] = o]
  /\ flock' = [x \in Locks |->
                 IF \E q \in Processes : fds'[q] = flock[x] THEN flock[x] ELSE None]

\* The description p opens for itself: the file of directory d, created if the
\* directory has none.
Open(p, d) ==
  \E i \in Inodes :
    /\ IF entry[d] # None THEN i = entry[d]
       ELSE /\ \A e \in Dirs : entry[e] # i
            /\ \A o \in Processes : (\E q \in Processes : fds[q] = o) => pinned[o].inode # i
    /\ entry' = [entry EXCEPT ![d] = i]
    /\ pinned' = [pinned EXCEPT ![p] = [dir |-> d, inode |-> i]]

\* assert_identity: the name still leads to the inode that was opened.
Identity(p) ==
  fds[p] # None /\ entry[pinned[fds[p]].dir] = pinned[fds[p]].inode

\* configure in a process that starts.
Start(p) ==
  /\ life[p] = "unborn"
  /\ life' = [life EXCEPT ![p] = "up"]
  /\ Open(p, root)
  /\ fds' = [fds EXCEPT ![p] = p]
  /\ UNCHANGED <<root, flock, mutex, depth, poisoned, pc, interrupts>>

\* A thread forks, inside the lock or outside; q shares every description.
Fork(th, q) ==
  LET p == ProcessOf[th] IN
  /\ life[p] \in {"up", "forked"} /\ pc[th] \in {"out", "in"}
  /\ life[q] = "unborn" /\ q \in Forkable
  /\ life' = [life EXCEPT ![q] = "forked"]
  /\ fds' = [fds EXCEPT ![q] = fds[p]]
  /\ poisoned' = [poisoned EXCEPT ![q] = poisoned[p]]
  /\ UNCHANGED <<root, entry, pinned, flock, mutex, depth, pc, interrupts>>

-------------------------------------------------------------------------------
(***************************************************************************)
(* __enter__.                                                              *)
(***************************************************************************)

\* Mutant: a forked child goes on with the descriptors of its parent.
EnterUnrefreshed(th) ==
  LET p == ProcessOf[th] IN
  /\ pc[th] = "out" /\ life[p] \in {"up", "forked"}
  /\ life' = [life EXCEPT ![p] = "up"]
  /\ IF life[p] = "forked" THEN Renew(p) ELSE UNCHANGED mutex
  /\ Goto(th, "lock")
  /\ UNCHANGED <<files, fds, pinned, flock, depth, poisoned, interrupts>>

\* A forked child gets a thread lock of its own, and is no longer "forked"
\* before it has opened descriptions of its own.
Enter(th) ==
  LET p == ProcessOf[th] IN
  /\ pc[th] = "out" /\ life[p] \in {"up", "forked"}
  /\ life' = [life EXCEPT ![p] = "up"]
  /\ IF life[p] = "forked" THEN Renew(p) ELSE UNCHANGED mutex
  /\ Goto(th, IF life[p] = "forked" /\ fds[p] # None /\ ~poisoned[p]
              THEN "refresh" ELSE "lock")
  /\ UNCHANGED <<files, fds, pinned, flock, depth, poisoned, interrupts>>

\* _refresh_after_fork: open descriptions below the directory that the parent
\* pinned, then close the shared ones; an error poisons the lock.
Refresh(th) ==
  LET p == ProcessOf[th] IN
  /\ pc[th] = "refresh"
  /\ \/ /\ fds[p] # None
        /\ Open(p, pinned[fds[p]].dir)
        /\ Repoint(p, p)
        /\ Goto(th, "lock")
        /\ UNCHANGED poisoned
     \/ /\ Repoint(p, None)
        /\ poisoned' = [poisoned EXCEPT ![p] = TRUE]
        /\ Goto(th, "out")
        /\ UNCHANGED <<entry, pinned>>
  /\ UNCHANGED <<root, life, mutex, depth, interrupts>>

\* Mutant: a poisoned lock is pinned anew when its name has been put back.
LockThreadReviving(th) ==
  LET p == ProcessOf[th] IN
  /\ pc[th] = "lock" /\ Acquire(th, p)
  /\ IF poisoned[p]
     THEN Open(p, root) /\ Repoint(p, p)
     ELSE UNCHANGED <<entry, pinned, fds, flock>>
  /\ Goto(th, "domain")
  /\ UNCHANGED <<root, life, depth, poisoned, interrupts>>

\* The thread lock, then the verdict on a poisoned lock.
LockThread(th) ==
  LET p == ProcessOf[th] IN
  /\ pc[th] = "lock" /\ Acquire(th, p)
  /\ Goto(th, IF poisoned[p] THEN "release" ELSE "domain")
  /\ UNCHANGED <<files, life, fds, pinned, flock, depth, poisoned, interrupts>>

\* An entry of a thread that is inside already.
ReEnter(th) ==
  LET p == ProcessOf[th] IN
  /\ pc[th] = "in" /\ depth[th] < MaxDepth
  /\ Acquire(th, p)
  /\ depth' = [depth EXCEPT ![th] = @ + 1]
  /\ UNCHANGED <<files, life, fds, pinned, flock, poisoned, pc, interrupts>>

\* flock(x, LOCK_EX) by th waits for every other description.
Flock(th, x) ==
  /\ flock[x] \in {None, fds[ProcessOf[th]]}
  /\ flock' = [flock EXCEPT ![x] = fds[ProcessOf[th]]]

LockDomain(th) ==
  /\ pc[th] = "domain"
  /\ Flock(th, Domain)
  /\ Goto(th, "dir")
  /\ UNCHANGED <<files, life, fds, pinned, mutex, depth, poisoned, interrupts>>

LockDirectory(th) ==
  LET p == ProcessOf[th] IN
  /\ pc[th] = "dir" /\ fds[p] # None
  /\ Flock(th, pinned[fds[p]].dir)
  /\ Goto(th, IF Identity(p) THEN "file" ELSE "reject")
  /\ UNCHANGED <<files, life, fds, pinned, mutex, depth, poisoned, interrupts>>

LockFile(th) ==
  LET p == ProcessOf[th] IN
  /\ pc[th] = "file" /\ fds[p] # None
  /\ Flock(th, pinned[fds[p]].inode)
  /\ IF Identity(p)
     THEN /\ Goto(th, "in")
          /\ depth' = [depth EXCEPT ![th] = 1]
     ELSE /\ Goto(th, "reject")
          /\ UNCHANGED depth
  /\ UNCHANGED <<files, life, fds, pinned, mutex, poisoned, interrupts>>

\* One of the three calls raises OSError.
LockFails(th) ==
  /\ pc[th] \in {"domain", "dir", "file"}
  /\ Goto(th, "reject")
  /\ UNCHANGED <<files, life, fds, pinned, flock, mutex, depth, poisoned, interrupts>>

-------------------------------------------------------------------------------
(***************************************************************************)
(* __exit__, and the way out of a failed __enter__.                        *)
(***************************************************************************)
\* Mutant: the outermost exit gives the thread lock back twice.
ExitReleasing(th) ==
  LET p == ProcessOf[th] IN
  /\ pc[th] = "in"
  /\ depth' = [depth EXCEPT ![th] = @ - 1]
  /\ Drop(p)
  /\ IF depth[th] = 1 THEN Goto(th, "unlock") ELSE UNCHANGED pc
  /\ UNCHANGED <<files, life, fds, pinned, flock, poisoned, interrupts>>

Exit(th) ==
  LET p == ProcessOf[th] IN
  /\ pc[th] = "in"
  /\ depth' = [depth EXCEPT ![th] = @ - 1]
  /\ IF depth[th] = 1
     THEN /\ Goto(th, "unlock")
          /\ UNCHANGED mutex
     ELSE /\ Drop(p)
          /\ UNCHANGED pc
  /\ UNCHANGED <<files, life, fds, pinned, flock, poisoned, interrupts>>

UnlockAll(th, S) ==
  flock' = [x \in Locks |-> IF x \in S THEN None ELSE flock[x]]

\* Mutant: a failed LOCK_UN is ignored.
UnlockUnchecked(th) ==
  /\ pc[th] \in {"unlock", "reject"}
  /\ \E S \in SUBSET Held(fds[ProcessOf[th]]) : UnlockAll(th, S)
  /\ Goto(th, "release")
  /\ UNCHANGED <<files, life, fds, pinned, mutex, depth, poisoned, interrupts>>

\* LOCK_UN on all three descriptors; any of them may fail, and the name may
\* have been taken away meanwhile.
Unlock(th) ==
  LET p == ProcessOf[th] IN
  /\ \/ /\ pc[th] = "unlock" /\ Identity(p)
        /\ UnlockAll(th, Held(fds[p]))
        /\ Goto(th, "release")
     \/ /\ pc[th] \in {"unlock", "reject"}
        /\ \E S \in SUBSET Held(fds[p]) : UnlockAll(th, S)
        /\ Goto(th, "poison")
  /\ UNCHANGED <<files, life, fds, pinned, mutex, depth, poisoned, interrupts>>

\* _poison closes the descriptors while the thread lock is still held.
Poison(th) ==
  LET p == ProcessOf[th] IN
  /\ pc[th] = "poison"
  /\ poisoned' = [poisoned EXCEPT ![p] = TRUE]
  /\ Repoint(p, None)
  /\ Goto(th, "release")
  /\ UNCHANGED <<files, life, pinned, mutex, depth, interrupts>>

\* Mutant: the error of a poisoned lock is raised with the thread lock held.
ReleaseUnlessPoisoned(th) ==
  LET p == ProcessOf[th] IN
  /\ pc[th] = "release"
  /\ IF poisoned[p] THEN UNCHANGED mutex ELSE Drop(p)
  /\ Goto(th, "out")
  /\ UNCHANGED <<files, life, fds, pinned, flock, depth, poisoned, interrupts>>

Release(th) ==
  LET p == ProcessOf[th] IN
  /\ pc[th] = "release"
  /\ Drop(p)
  /\ Goto(th, "out")
  /\ UNCHANGED <<files, life, fds, pinned, flock, depth, poisoned, interrupts>>

-------------------------------------------------------------------------------
(***************************************************************************)
(* The environment.                                                        *)
(***************************************************************************)

\* KeyboardInterrupt is not an Exception: on the way in nothing is undone, on
\* the way out only the thread lock is.
Interrupt(th) ==
  LET p == ProcessOf[th] IN
  /\ th \in MainThreads /\ interrupts < MaxInterrupts
  /\ \/ /\ pc[th] \in {"domain", "dir", "file"}
        /\ UNCHANGED <<flock, mutex>>
     \/ /\ pc[th] = "reject"
        /\ \E S \in SUBSET Held(fds[p]) : UnlockAll(th, S)
        /\ UNCHANGED mutex
     \/ /\ pc[th] = "unlock"
        /\ \E S \in SUBSET Held(fds[p]) : UnlockAll(th, S)
        /\ Drop(p)
  /\ Goto(th, "out")
  /\ interrupts' = interrupts + 1
  /\ UNCHANGED <<files, life, fds, pinned, depth, poisoned>>

Crash(p) ==
  LET Dead == {th \in Threads : ProcessOf[th] = p} IN
  /\ life[p] \in {"up", "forked"}
  /\ life' = [life EXCEPT ![p] = "dead"]
  /\ Repoint(p, None)
  /\ Renew(p)
  /\ depth' = [th \in Threads |-> IF th \in Dead THEN 0 ELSE depth[th]]
  /\ pc' = [th \in Threads |-> IF th \in Dead THEN "out" ELSE pc[th]]
  /\ UNCHANGED <<files, pinned, poisoned, interrupts>>

\* .txn.lock is unlinked, replaced or put back.
SwapFile(d) ==
  /\ \E i \in (Inodes \cup {None}) \ {entry[d]} :
       /\ i # None => \A e \in Dirs : entry[e] # i
       /\ entry' = [entry EXCEPT ![d] = i]
  /\ UNCHANGED <<root, life, fds, pinned, flock, mutex, depth, poisoned, pc, interrupts>>

\* The data root is replaced by another directory, or put back.
SwapRoot ==
  /\ \E d \in Dirs \ {root} : root' = d
  /\ UNCHANGED <<entry, life, fds, pinned, flock, mutex, depth, poisoned, pc, interrupts>>

\* What a thread does once it has asked for the lock.
Step(th) ==
  \/ Refresh(th) \/ LockThread(th) \/ LockDomain(th) \/ LockDirectory(th)
  \/ LockFile(th) \/ Exit(th) \/ Unlock(th) \/ Poison(th) \/ Release(th)

Next ==
  \/ \E th \in Threads :
       \/ Enter(th) \/ ReEnter(th) \/ Step(th) \/ LockFails(th) \/ Interrupt(th)
       \/ \E q \in Processes : Fork(th, q)
  \/ \E p \in Processes : Start(p) \/ Crash(p)
  \/ \E d \in Dirs : SwapFile(d)
  \/ SwapRoot

Spec == Init /\ [][Next]_vars

-------------------------------------------------------------------------------
(***************************************************************************)
(* Correctness.                                                            *)
(***************************************************************************)

\* No two threads run a scope at once, in whichever process, whatever happens
\* to the lock file and the data root, after whichever fork, crash or failure.
MutualExclusion ==
  \A t, u \in Threads : pc[t] = "in" /\ pc[u] = "in" => t = u

\* A process that was forked has one thread only when it first uses the lock.
OneThreadPerChild ==
  \A t, u \in Threads :
    ProcessOf[t] = ProcessOf[u] /\ ProcessOf[t] \in Forkable => t = u

\* After an identity or system call failure the lock of that process is never
\* entered again, even when the name is put back.
PoisonIsFinal ==
  [][\A th \in Threads :
       poisoned[ProcessOf[th]] /\ pc'[th] = "in" => pc[th] = "in"]_vars

\* A kernel lock is never left behind by a thread that is out: its description
\* is in use, unless an interrupt leaked it or only a forked child that has
\* not opened descriptions of its own yet still has it open.
Orphaned(o) == fds[o] # o /\ \E q \in Processes \ {o} : fds[q] = o
LocksHaveUsers ==
  interrupts = 0 =>
    \A x \in Locks : flock[x] # None =>
      \/ \E th \in Threads : fds[ProcessOf[th]] = flock[x] /\ pc[th] \in Inside \cup {"poison"}
      \/ Orphaned(flock[x])

-------------------------------------------------------------------------------
\* Threads that run get on; handlers return.
FairSpec == Spec /\ \A th \in Threads : WF_vars(Step(th))

\* While nothing is interrupted and no description is orphaned, threads that
\* wait for the lock never wait for nobody: one gets in or is turned away.
Waiting(th) == pc[th] \in {"lock", "domain"}
Progress ==
  [](interrupts = 0 /\ \A o \in Processes : ~Orphaned(o)) =>
    ((\E th \in Threads : Waiting(th)) ~>
       ((\E th \in Threads : pc[th] \in {"in", "release"})
          \/ \A th \in Threads : ~Waiting(th)))
==============================================================================
