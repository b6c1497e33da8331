----------------------------- MODULE AuditJournal ----------------------------
(***************************************************************************)
(* The transaction journal of src/src/audit/transaction.py, one file       *)
(* system step at a time, together with the scope that holds its lock      *)
(* (src/src/audit/context.py) and the retry that decides what a failed     *)
(* commit is reported as (_audited_commit in src/src/__init__.py).         *)
(*                                                                         *)
(* Threads of several processes share one data directory.  A thread enters *)
(* a scope: it takes the journal lock, recovers what earlier processes     *)
(* left behind, and then commits any number of changes, each of them to a  *)
(* set of documents.  A commit writes before and after images, then        *)
(* prepare.json, then the documents one by one, then commit.json, then the *)
(* JSONL projection.  Between any two of these steps the process may crash *)
(* or the step may raise; every write is fsynced before the next begins,   *)
(* so a power failure leaves what a crash leaves.                          *)
(***************************************************************************)
EXTENDS Naturals, FiniteSets

CONSTANTS
  Threads,     \* threads that run handlers
  Processes,   \* operating system processes
  ProcessOf,   \* the process a thread belongs to
  Files,       \* allow-listed documents of the data directory
  Contents,    \* what a document may hold
  Missing,     \* what is read of a document that does not exist
  NoThread,    \* the lock's owner when it is free
  MaxTx,       \* bound: transaction directories ever created
  MaxForeign   \* bound: writes that go past the journal

ASSUME ConstantsOK ==
  /\ ProcessOf \in [Threads -> Processes]
  /\ Missing \notin Contents
  /\ NoThread \notin Threads
  /\ MaxTx \in Nat
  /\ MaxForeign \in Nat

Images == Contents \cup {Missing}
TxIds  == 1 .. MaxTx       \* a directory's rank in creation order stands for its uuid
NoTx   == 0

VARIABLES
  store,       \* the documents on disk
  journal,     \* the transaction directories on disk
  projection,  \* transactions whose events the JSONL files hold
  foreign,     \* number of writes that went past the journal
  lock,        \* owner of audit/.txn.lock
  chainTip,    \* per process: _last_committed_transaction_id
  attempt,     \* per thread: last_transaction_id
  pc,          \* per thread: where it is
  task,        \* per thread: what the recovery it runs is for
  work,        \* per thread: the locals of commit and of recovery
  reply        \* per thread: what the latest commit told the handler

disk   == <<store, journal, projection, foreign>>
memory == <<chainTip, attempt, pc, task, work, reply>>
vars   == <<store, journal, projection, foreign, lock,
            chainTip, attempt, pc, task, work, reply>>

NoImages == [f \in Files |-> Missing]
NoRecord == [phase |-> "absent", targets |-> {}, before |-> NoImages,
             after |-> NoImages, pred |-> NoTx, marker |-> {}]
NoWork   == [targets |-> {}, after |-> NoImages, tx |-> NoTx, rec |-> NoTx,
             todo |-> {}]

Markers == {"commit", "abort", "conflict"}
Records ==
  [phase : {"absent", "opened", "prepared"}, targets : SUBSET Files,
   before : [Files -> Images], after : [Files -> Images],
   pred : TxIds \cup {NoTx}, marker : SUBSET Markers]
Works ==
  [targets : SUBSET Files, after : [Files -> Images], tx : TxIds \cup {NoTx},
   rec : TxIds \cup {NoTx}, todo : SUBSET Files]

CommitPCs == {"open", "capture", "apply", "seal", "publish", "finish"}
SettlePCs == {"settleCommit", "settleAbort", "settleRollback", "settleConflict"}
RecoverPCs ==
  {"recover", "restore", "checkCommit", "checkAbort", "conflicted", "rebuild"}
    \cup SettlePCs
PCs == {"idle", "scope", "resolve"} \cup CommitPCs \cup RecoverPCs

TypeOK ==
  /\ store \in [Files -> Images]
  /\ journal \in [TxIds -> Records]
  /\ projection \in SUBSET TxIds
  /\ foreign \in 0 .. MaxForeign
  /\ lock \in Threads \cup {NoThread}
  /\ chainTip \in [Processes -> TxIds \cup {NoTx}]
  /\ attempt \in [Threads -> TxIds \cup {NoTx}]
  /\ pc \in [Threads -> PCs]
  /\ task \in [Threads -> {"enter", "commit", "resolve"}]
  /\ work \in [Threads -> Works]
  /\ reply \in [Threads -> {"none", "committed", "failed", "raised"}]

Init ==
  /\ store \in [Files -> Images]
  /\ journal = [t \in TxIds |-> NoRecord]
  /\ projection = {}
  /\ foreign = 0
  /\ lock = NoThread
  /\ chainTip = [p \in Processes |-> NoTx]
  /\ attempt = [th \in Threads |-> NoTx]
  /\ pc = [th \in Threads |-> "idle"]
  /\ task = [th \in Threads |-> "enter"]
  /\ work = [th \in Threads |-> NoWork]
  /\ reply = [th \in Threads |-> "none"]

-------------------------------------------------------------------------------
(***************************************************************************)
(* What recovery reads off the disk.                                       *)
(***************************************************************************)
Has(t, m) == m \in journal[t].marker
Committed == {t \in TxIds : Has(t, "commit")}

\* Mutant: only a commit settles a transaction.
UndecidedUnlessCommitted ==
  {t \in TxIds : journal[t].phase = "prepared" /\ ~Has(t, "commit")}

\* Prepared, with no terminal marker: left behind by a crash or an error.
Undecided == {t \in TxIds : journal[t].phase = "prepared" /\ journal[t].marker = {}}

\* Mutant: a conflict does not stop recovery.
RefusedIgnoresConflict ==
  {t \in TxIds : \/ Cardinality(journal[t].marker) > 1
                 \/ journal[t].marker # {} /\ journal[t].phase # "prepared"}

\* Directories that recovery refuses to pass: a conflict, contradictory
\* markers, or a marker without prepare.json.
Refused ==
  {t \in TxIds : \/ Has(t, "conflict")
                 \/ Cardinality(journal[t].marker) > 1
                 \/ journal[t].marker # {} /\ journal[t].phase # "prepared"}

IsAfter(t, f)  == store[f] = journal[t].after[f]
IsBefore(t, f) == store[f] = journal[t].before[f] /\ ~IsAfter(t, f)
AllAfter(t)  == \A f \in journal[t].targets : IsAfter(t, f)
AllBefore(t) == \A f \in journal[t].targets : IsBefore(t, f)

\* The check of a rolled-back target reads the before image only.
Restored(t) == \A f \in journal[t].targets : store[f] = journal[t].before[f]

\* The committed transactions form one chain of predecessors from NoTx.
Linear(C) ==
  /\ \A t \in C : journal[t].pred \in C \cup {NoTx}
  /\ \A t, u \in C : journal[t].pred = journal[u].pred => t = u
  /\ \A S \in SUBSET C : S # {} => \E t \in S : journal[t].pred \notin S

\* t and the transactions that precede it in the chain of C.
Lineage(t, C) ==
  {u \in C : \A S \in SUBSET C :
     (t \in S /\ \A v \in S : journal[v].pred \in S \cup {NoTx}) => u \in S}

\* u is the last transaction before t in C that touched f.
PreviousWriter(u, t, f, C) ==
  /\ u \in Lineage(t, C) \ {t}
  /\ f \in journal[u].targets
  /\ \A v \in Lineage(t, C) \ {t} : f \in journal[v].targets => v \in Lineage(u, C)

\* u is the last transaction of C that touched f.
LastWriter(u, f, C) ==
  /\ u \in C
  /\ f \in journal[u].targets
  /\ \A v \in C : f \in journal[v].targets => v \in Lineage(u, C)

\* Each before image is the previous after image, and the documents hold the
\* latest after images.
ChainSound(C) ==
  /\ Linear(C)
  /\ \A t, u \in C : \A f \in journal[t].targets :
       PreviousWriter(u, t, f, C) => journal[t].before[f] = journal[u].after[f]
  /\ \A u \in C : \A f \in Files :
       LastWriter(u, f, C) => store[f] = journal[u].after[f]

\* The end of the chain, NoTx for the empty one.
EndOfChain(C, tip) ==
  IF C = {} THEN tip = NoTx
  ELSE tip \in C /\ \A u \in C : journal[u].pred # tip

-------------------------------------------------------------------------------
(***************************************************************************)
(* The scope of a handler.                                                 *)
(***************************************************************************)

\* Mutant: the scope is entered without recovery.
EnterScopeUnrecovered(th) ==
  /\ pc[th] = "idle"
  /\ lock = NoThread
  /\ lock' = th
  /\ pc' = [pc EXCEPT ![th] = "scope"]
  /\ task' = [task EXCEPT ![th] = "enter"]
  /\ reply' = [reply EXCEPT ![th] = "none"]
  /\ UNCHANGED <<disk, chainTip, attempt, work>>

\* audit_scope, consistent_read: take the lock, then recover.
EnterScope(th) ==
  /\ pc[th] = "idle"
  /\ lock = NoThread
  /\ lock' = th
  /\ pc' = [pc EXCEPT ![th] = "recover"]
  /\ task' = [task EXCEPT ![th] = "enter"]
  /\ reply' = [reply EXCEPT ![th] = "none"]
  /\ UNCHANGED <<disk, chainTip, attempt, work>>

\* The lock is released and the frames of th are gone.
Leave(th) ==
  /\ lock' = IF lock = th THEN NoThread ELSE lock
  /\ pc' = [pc EXCEPT ![th] = "idle"]
  /\ task' = [task EXCEPT ![th] = "enter"]
  /\ work' = [work EXCEPT ![th] = NoWork]
  /\ reply' = [reply EXCEPT ![th] = "none"]

\* The handler returns, or raises an error of its own between two commits.
ExitScope(th) ==
  /\ pc[th] = "scope"
  /\ Leave(th)
  /\ UNCHANGED <<disk, chainTip, attempt>>

\* An exception "except Exception" does not catch (KeyboardInterrupt,
\* SystemExit) unwinds the scope from wherever the thread is.
Interrupt(th) ==
  /\ pc[th] \notin {"idle", "scope"}
  /\ Leave(th)
  /\ UNCHANGED <<disk, chainTip, attempt>>

\* A step raises.  On entry the scope is left; a commit that raises is
\* followed by resolve_last_transaction, which recovers first; when that
\* raises too, its error reaches the handler.
Raise(th) ==
  \/ /\ task[th] = "enter"
     /\ Leave(th)
     /\ UNCHANGED <<disk, chainTip, attempt>>
  \/ /\ task[th] = "commit"
     /\ pc' = [pc EXCEPT ![th] = "recover"]
     /\ task' = [task EXCEPT ![th] = "resolve"]
     /\ work' = [work EXCEPT ![th].rec = NoTx, ![th].todo = {}]
     /\ UNCHANGED <<disk, lock, chainTip, attempt, reply>>
  \/ /\ task[th] = "resolve"
     /\ pc' = [pc EXCEPT ![th] = "scope"]
     /\ work' = [work EXCEPT ![th].rec = NoTx, ![th].todo = {}]
     /\ reply' = [reply EXCEPT ![th] = "raised"]
     /\ UNCHANGED <<disk, lock, chainTip, attempt, task>>

\* An I/O error, or any other Exception, in the middle of a commit, of a
\* recovery or of a resolution.
Fault(th) ==
  /\ pc[th] \notin {"idle", "scope"}
  /\ Raise(th)

-------------------------------------------------------------------------------
(***************************************************************************)
(* Recovery.  The directories are visited in the order of random names, so *)
(* an undecided and a refused directory may be met in either order.        *)
(***************************************************************************)
Goto(th, label) == pc' = [pc EXCEPT ![th] = label]
Mark(t, m) == journal' = [journal EXCEPT ![t].marker = @ \cup {m}]

RecoverRefuse(th) ==
  /\ pc[th] = "recover"
  /\ Refused # {}
  /\ Raise(th)

\* Mutant: one written target is taken for all of them.
DecisionOnAnyAfter(t) ==
  IF \E f \in journal[t].targets : IsAfter(t, f) THEN "settleCommit" ELSE "settleAbort"

\* Mutant: a mixed state is aborted without being rolled back.
DecisionWithoutRollback(t) ==
  IF AllAfter(t) THEN "settleCommit" ELSE "settleAbort"

\* The states of all targets decide what becomes of an undecided transaction.
Decision(t) ==
  CASE AllAfter(t) -> "settleCommit"
    [] ~AllAfter(t) /\ AllBefore(t) -> "settleAbort"
    [] OTHER -> IF \A f \in journal[t].targets : IsAfter(t, f) \/ IsBefore(t, f)
                THEN "restore" ELSE "settleConflict"

RecoverDecide(th) ==
  /\ pc[th] = "recover"
  /\ \E t \in Undecided \ Refused :
       /\ Goto(th, Decision(t))
       /\ work' = [work EXCEPT ![th].rec = t, ![th].todo = journal[t].targets]
  /\ UNCHANGED <<disk, lock, chainTip, attempt, task, reply>>

\* _restore_before, one target; the paths are abstract, so their order is open.
RestoreBefore(th) ==
  /\ pc[th] = "restore"
  /\ \E f \in work[th].todo :
       /\ store' = [store EXCEPT ![f] = journal[work[th].rec].before[f]]
       /\ work' = [work EXCEPT ![th].todo = @ \ {f}]
  /\ UNCHANGED <<journal, projection, foreign, lock, chainTip, attempt, pc, task, reply>>

\* The verification that ends _restore_before.
RestoreVerify(th) ==
  /\ pc[th] = "restore"
  /\ work[th].todo = {}
  /\ \/ /\ Restored(work[th].rec)
        /\ Goto(th, "settleRollback")
        /\ UNCHANGED <<disk, lock, chainTip, attempt, task, work, reply>>
     \/ /\ ~Restored(work[th].rec)
        /\ Raise(th)

\* Mutant: an abort leaves no marker.
SettleWithoutAbort(th) ==
  \/ /\ pc[th] = "settleCommit"
     /\ Mark(work[th].rec, "commit")
     /\ Goto(th, "checkCommit")
     /\ UNCHANGED <<store, projection, foreign, lock, chainTip, attempt, task, work, reply>>
  \/ /\ pc[th] \in {"settleAbort", "settleRollback"}
     /\ Goto(th, "recover")
     /\ UNCHANGED <<disk, lock, chainTip, attempt, task, work, reply>>

\* The terminal marker is linked.  After a commit or an abort the targets are
\* verified again, after a rollback they are not, a conflict is raised.
Settle(th) ==
  \/ /\ pc[th] = "settleCommit"
     /\ Mark(work[th].rec, "commit")
     /\ Goto(th, "checkCommit")
     /\ UNCHANGED <<store, projection, foreign, lock, chainTip, attempt, task, work, reply>>
  \/ /\ pc[th] = "settleAbort"
     /\ Mark(work[th].rec, "abort")
     /\ Goto(th, "checkAbort")
     /\ UNCHANGED <<store, projection, foreign, lock, chainTip, attempt, task, work, reply>>
  \/ /\ pc[th] = "settleRollback"
     /\ Mark(work[th].rec, "abort")
     /\ Goto(th, "recover")
     /\ work' = [work EXCEPT ![th].rec = NoTx, ![th].todo = {}]
     /\ UNCHANGED <<store, projection, foreign, lock, chainTip, attempt, task, reply>>
  \/ /\ pc[th] = "settleConflict"
     /\ Mark(work[th].rec, "conflict")
     /\ Goto(th, "conflicted")
     /\ UNCHANGED <<store, projection, foreign, lock, chainTip, attempt, task, work, reply>>

\* What follows the marker.
AfterSettle(th) ==
  \/ /\ \/ pc[th] = "checkCommit" /\ AllAfter(work[th].rec)
        \/ pc[th] = "checkAbort" /\ Restored(work[th].rec)
     /\ Goto(th, "recover")
     /\ work' = [work EXCEPT ![th].rec = NoTx, ![th].todo = {}]
     /\ UNCHANGED <<disk, lock, chainTip, attempt, task, reply>>
  \/ /\ \/ pc[th] = "checkCommit" /\ ~AllAfter(work[th].rec)
        \/ pc[th] = "checkAbort" /\ ~Restored(work[th].rec)
        \/ pc[th] = "conflicted"
     /\ Raise(th)

\* Every directory is decided: the committed chain is checked against the
\* documents, and its end becomes the predecessor of the next transaction.
RecoverChain(th) ==
  /\ pc[th] = "recover"
  /\ Refused = {} /\ Undecided = {}
  /\ \/ /\ ChainSound(Committed)
        /\ \E tip \in TxIds \cup {NoTx} :
             /\ EndOfChain(Committed, tip)
             /\ chainTip' = [chainTip EXCEPT ![ProcessOf[th]] = tip]
        /\ Goto(th, "rebuild")
        /\ UNCHANGED <<disk, lock, attempt, task, work, reply>>
     \/ /\ ~ChainSound(Committed)
        /\ Raise(th)

\* Mutant: recovery does not rebuild the projection.
RecoverWithoutExport(th) ==
  /\ pc[th] = "rebuild"
  /\ Goto(th, CASE task[th] = "enter" -> "scope"
                [] task[th] = "commit" -> "open"
                [] task[th] = "resolve" -> "resolve")
  /\ UNCHANGED <<disk, lock, chainTip, attempt, task, work, reply>>

\* _export_events rebuilds the projection from the committed directories, and
\* whoever asked for the recovery goes on.
RecoverExport(th) ==
  /\ pc[th] = "rebuild"
  /\ projection' = Committed
  /\ Goto(th, CASE task[th] = "enter" -> "scope"
                [] task[th] = "commit" -> "open"
                [] task[th] = "resolve" -> "resolve")
  /\ UNCHANGED <<store, journal, foreign, lock, chainTip, attempt, task, work, reply>>

-------------------------------------------------------------------------------
(***************************************************************************)
(* One commit inside a scope.                                              *)
(***************************************************************************)

\* Mutant: a commit trusts the tip this process saw last.
StartCommitUnrecovered(th) ==
  /\ pc[th] = "scope"
  /\ \E t \in TxIds : journal[t].phase = "absent"
  /\ \E S \in SUBSET Files \ {{}} :
       work' = [work EXCEPT ![th] = [NoWork EXCEPT !.targets = S]]
  /\ attempt' = [attempt EXCEPT ![th] = NoTx]
  /\ Goto(th, "open")
  /\ task' = [task EXCEPT ![th] = "commit"]
  /\ reply' = [reply EXCEPT ![th] = "none"]
  /\ UNCHANGED <<disk, lock, chainTip>>

\* Mutant: the thread's last transaction is not forgotten.
StartCommitKeepingAttempt(th) ==
  /\ pc[th] = "scope"
  /\ \E t \in TxIds : journal[t].phase = "absent"
  /\ \E S \in SUBSET Files \ {{}} :
       work' = [work EXCEPT ![th] = [NoWork EXCEPT !.targets = S]]
  /\ Goto(th, "recover")
  /\ task' = [task EXCEPT ![th] = "commit"]
  /\ reply' = [reply EXCEPT ![th] = "none"]
  /\ UNCHANGED <<disk, lock, chainTip, attempt>>

\* commit: forget the thread's last transaction, then recover.
StartCommit(th) ==
  /\ pc[th] = "scope"
  /\ \E t \in TxIds : journal[t].phase = "absent"
  /\ \E S \in SUBSET Files \ {{}} : \E new \in [S -> Images] :
       work' = [work EXCEPT ![th] = [NoWork EXCEPT
                  !.targets = S,
                  !.after = [f \in Files |-> IF f \in S THEN new[f] ELSE Missing]]]
  /\ attempt' = [attempt EXCEPT ![th] = NoTx]
  /\ Goto(th, "recover")
  /\ task' = [task EXCEPT ![th] = "commit"]
  /\ reply' = [reply EXCEPT ![th] = "none"]
  /\ UNCHANGED <<disk, lock, chainTip>>

\* A fresh transaction directory with the after images.
OpenTransaction(th) ==
  /\ pc[th] = "open"
  /\ \E t \in TxIds :
       /\ journal[t].phase = "absent"
       /\ \A u \in TxIds : u < t => journal[u].phase # "absent"
       /\ journal' = [journal EXCEPT ![t] = [NoRecord EXCEPT
                        !.phase = "opened",
                        !.targets = work[th].targets,
                        !.after = work[th].after]]
       /\ attempt' = [attempt EXCEPT ![th] = t]
       /\ work' = [work EXCEPT ![th].tx = t, ![th].todo = work[th].targets]
  /\ Goto(th, "capture")
  /\ UNCHANGED <<store, projection, foreign, lock, chainTip, task, reply>>

\* The before image of one target is read and saved.
CaptureBefore(th) ==
  /\ pc[th] = "capture"
  /\ \E f \in work[th].todo :
       /\ journal' = [journal EXCEPT ![work[th].tx].before[f] = store[f]]
       /\ work' = [work EXCEPT ![th].todo = @ \ {f}]
  /\ UNCHANGED <<store, projection, foreign, lock, chainTip, attempt, pc, task, reply>>

\* prepare.json: from here on recovery sees the transaction.
Prepare(th) ==
  /\ pc[th] = "capture"
  /\ work[th].todo = {}
  /\ journal' = [journal EXCEPT ![work[th].tx].phase = "prepared",
                                ![work[th].tx].pred = chainTip[ProcessOf[th]]]
  /\ work' = [work EXCEPT ![th].todo = work[th].targets]
  /\ Goto(th, "apply")
  /\ UNCHANGED <<store, projection, foreign, lock, chainTip, attempt, task, reply>>

\* One target is replaced or deleted.
ApplyTarget(th) ==
  /\ pc[th] = "apply"
  /\ \E f \in work[th].todo :
       /\ store' = [store EXCEPT ![f] = journal[work[th].tx].after[f]]
       /\ work' = [work EXCEPT ![th].todo = @ \ {f}]
  /\ UNCHANGED <<journal, projection, foreign, lock, chainTip, attempt, pc, task, reply>>

\* A verification of the after images that raises when one does not match.
VerifyAfter(th, next) ==
  \/ AllAfter(work[th].tx) /\ next
  \/ ~AllAfter(work[th].tx) /\ Raise(th)

\* All targets are written: verify them before the marker.
VerifyApplied(th) ==
  /\ pc[th] = "apply"
  /\ work[th].todo = {}
  /\ VerifyAfter(th, /\ Goto(th, "seal")
                     /\ UNCHANGED <<disk, lock, chainTip, attempt, task, work, reply>>)

\* commit.json is linked.
Seal(th) ==
  /\ pc[th] = "seal"
  /\ Mark(work[th].tx, "commit")
  /\ Goto(th, "publish")
  /\ UNCHANGED <<store, projection, foreign, lock, chainTip, attempt, task, work, reply>>

\* Verify again, then rebuild the projection.
Publish(th) ==
  /\ pc[th] = "publish"
  /\ VerifyAfter(th, /\ projection' = Committed
                     /\ Goto(th, "finish")
                     /\ UNCHANGED <<store, journal, foreign, lock, chainTip, attempt,
                                    task, work, reply>>)

\* Verify once more, then return.
Finish(th) ==
  /\ pc[th] = "finish"
  /\ VerifyAfter(th, /\ reply' = [reply EXCEPT ![th] = "committed"]
                     /\ Goto(th, "scope")
                     /\ UNCHANGED <<disk, lock, chainTip, attempt, task, work>>)

\* Mutant: the phase of the directory is handed to the caller.
ResolveToPhase(th) ==
  /\ pc[th] = "resolve"
  /\ reply' = [reply EXCEPT ![th] =
                 IF attempt[th] # NoTx THEN journal[attempt[th]].phase ELSE "failed"]
  /\ Goto(th, "scope")
  /\ UNCHANGED <<disk, lock, chainTip, attempt, task, work>>

\* resolve_last_transaction after its recovery: the thread's last transaction
\* is reported as committed exactly when it has a commit.json.
Resolve(th) ==
  /\ pc[th] = "resolve"
  /\ reply' = [reply EXCEPT ![th] =
                 IF attempt[th] # NoTx /\ Has(attempt[th], "commit")
                 THEN "committed" ELSE "failed"]
  /\ Goto(th, "scope")
  /\ UNCHANGED <<disk, lock, chainTip, attempt, task, work>>

-------------------------------------------------------------------------------
(***************************************************************************)
(* The environment.                                                        *)
(***************************************************************************)

\* A process dies: its memory is gone and the kernel drops its flock.
Crash(p) ==
  LET Dead == {th \in Threads : ProcessOf[th] = p} IN
  /\ \E th \in Dead : pc[th] # "idle" \/ attempt[th] # NoTx
  /\ lock' = IF lock \in Dead THEN NoThread ELSE lock
  /\ chainTip' = [chainTip EXCEPT ![p] = NoTx]
  /\ attempt' = [th \in Threads |-> IF th \in Dead THEN NoTx ELSE attempt[th]]
  /\ pc' = [th \in Threads |-> IF th \in Dead THEN "idle" ELSE pc[th]]
  /\ task' = [th \in Threads |-> IF th \in Dead THEN "enter" ELSE task[th]]
  /\ work' = [th \in Threads |-> IF th \in Dead THEN NoWork ELSE work[th]]
  /\ reply' = [th \in Threads |-> IF th \in Dead THEN "none" ELSE reply[th]]
  /\ UNCHANGED disk

\* atomic_write_json and atomic_delete_json outside any scope replace or unlink
\* the document with no lock and no journal entry.
ForeignWrite(f) ==
  /\ foreign < MaxForeign
  /\ \E c \in Images \ {store[f]} : store' = [store EXCEPT ![f] = c]
  /\ foreign' = foreign + 1
  /\ UNCHANGED <<journal, projection, lock, memory>>

\* A thread's own steps, without errors.
Step(th) ==
  \/ RecoverRefuse(th) \/ RecoverDecide(th) \/ RestoreBefore(th)
  \/ RestoreVerify(th) \/ Settle(th) \/ AfterSettle(th)
  \/ RecoverChain(th) \/ RecoverExport(th)
  \/ OpenTransaction(th) \/ CaptureBefore(th) \/ Prepare(th)
  \/ ApplyTarget(th) \/ VerifyApplied(th) \/ Seal(th)
  \/ Publish(th) \/ Finish(th) \/ Resolve(th)

Next ==
  \/ \E th \in Threads :
       EnterScope(th) \/ ExitScope(th) \/ StartCommit(th) \/ Step(th)
         \/ Interrupt(th) \/ Fault(th)
  \/ \E p \in Processes : Crash(p)
  \/ \E f \in Files : ForeignWrite(f)

Spec == Init /\ [][Next]_vars

-------------------------------------------------------------------------------
(***************************************************************************)
(* Correctness.                                                            *)
(***************************************************************************)

\* p is the largest element of S, NoTx if S is empty.
IsLatest(p, S) == p \in S \cup {NoTx} /\ \A u \in S : u <= p

\* However commits, crashes, errors and recoveries of several processes
\* interleave, the predecessor each prepare.json names is the transaction
\* committed last before it: the lineage that recovery walks never branches.
LineageLinear ==
  \A t \in Committed \cup Undecided :
    IsLatest(journal[t].pred, {u \in Committed : u < t})

\* Crashes and errors alone never make recovery refuse the journal: unless a
\* write went past it, there is no conflict, and as soon as nothing is
\* undecided the committed chain explains every document.
CrashesNeverBlock ==
  foreign = 0 =>
    /\ Refused = {}
    /\ Undecided = {} => ChainSound(Committed)

\* Success is returned only for a transaction whose commit.json is durable;
\* a commit reported as failed has left nothing that a later recovery could
\* still commit.
ReplyIsTrue(th) ==
  LET t == work[th].tx IN
  /\ reply[th] = "committed" => t # NoTx /\ journal[t].marker = {"commit"}
  /\ reply[th] = "failed" /\ t # NoTx =>
       journal[t].phase # "prepared" \/ journal[t].marker = {"abort"}
RepliesAreTrue == \A th \in Threads : ReplyIsTrue(th)

\* A handler never runs on a half-applied transaction: inside a scope nothing
\* is undecided and the projection holds exactly the committed events, unless
\* the handler went on after an error of the journal itself.
SettledFor(th) ==
  pc[th] = "scope" /\ reply[th] # "raised" =>
    Undecided = {} /\ projection = Committed
ScopeIsSettled == \A th \in Threads : SettledFor(th)

\* A terminal marker is never joined by another one, whoever recovers.
VerdictsAreFinal ==
  [][\A t \in TxIds :
       journal[t].marker # {} => journal'[t].marker = journal[t].marker]_vars

\* Once a conflict is recorded, no transaction commits and no document
\* is written through it.
FailClosed ==
  [][(\E t \in TxIds : Has(t, "conflict")) =>
       Committed' = Committed /\ (store' # store => foreign' # foreign)]_vars

\* The documents as recovery would settle them: an undecided transaction counts
\* from the moment its last target is written.
Settled ==
  [f \in Files |->
     IF \E t \in Undecided : f \in journal[t].targets /\ ~AllAfter(t)
     THEN journal[CHOOSE t \in Undecided : TRUE].before[f]
     ELSE store[f]]

Busy(th) == task[th] \in {"commit", "resolve"} /\ pc[th] \notin {"idle", "scope"}
Applied(t) == t # NoTx /\ (Has(t, "commit") \/ (t \in Undecided /\ AllAfter(t)))

Atomic ==
  INSTANCE AtomicStore WITH
    Callers <- Threads,
    value <- Settled,
    request <- [th \in Threads |->
                  IF Busy(th)
                  THEN [targets |-> work[th].targets, after |-> work[th].after]
                  ELSE [targets |-> {}, after |-> NoImages]],
    stage <- [th \in Threads |->
                IF ~Busy(th) THEN "idle"
                ELSE IF Applied(work[th].tx) THEN "applied" ELSE "asked"],
    answer <- reply

\* While no write goes past the journal, it behaves as documents that change
\* by whole requests only.
Atomicity == Atomic!Spec

-------------------------------------------------------------------------------
(***************************************************************************)
(* Progress.                                                               *)
(***************************************************************************)

\* A running thread keeps running, a handler returns, and some thread enters
\* the scope whenever the lock stays free: the tools keep being used.
Fairness ==
  /\ \A th \in Threads : WF_vars(Step(th)) /\ WF_vars(ExitScope(th))
  /\ WF_vars(\E th \in Threads : EnterScope(th))

FairSpec == Spec /\ Fairness

\* From some point on nothing crashes, is interrupted or raises.
CalmStep == \E th \in Threads : EnterScope(th) \/ ExitScope(th) \/ StartCommit(th) \/ Step(th)
Calm == <>[][CalmStep]_vars

\* A transaction that a crash left behind is decided once crashes stop, and
\* what is committed reaches the projection.
EventuallyDecided ==
  Calm => \A t \in TxIds : t \in Undecided ~> t \notin Undecided
EventuallyExported ==
  Calm => \A t \in TxIds : t \in Committed ~> t \in projection
==============================================================================
