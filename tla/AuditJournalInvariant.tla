------------------------ MODULE AuditJournalInvariant ------------------------
(***************************************************************************)
(* The inductive invariant of AuditJournal behind the theorems of          *)
(* AuditJournalProofs.                                                     *)
(***************************************************************************)
EXTENDS AuditJournal

\* Directories are created in order, only prepared ones carry a marker, and
\* never two.
Orderly ==
  /\ \A t, u \in TxIds :
       u < t /\ journal[t].phase # "absent" => journal[u].phase # "absent"
  /\ \A t \in TxIds : journal[t].phase # "prepared" => journal[t].marker = {}
  /\ \A t \in TxIds : journal[t].marker \in {{}} \cup {{m} : m \in Markers}

\* At most one transaction is undecided, and it is the newest.
NewestUndecided ==
  \A t \in Undecided : \A u \in Committed \cup Undecided : u <= t

\* Labels at which the thread has seen every transaction decided.
SettledPCs ==
  {"rebuild", "resolve", "open", "capture", "publish", "finish",
   "checkCommit", "checkAbort", "conflicted"}

\* What a thread may rely on, label by label.
Holder(th) ==
  /\ pc[th] # "idle" => lock = th
  /\ pc[th] # "scope" => reply[th] = "none"
  /\ pc[th] \in CommitPCs => task[th] = "commit"
  /\ pc[th] = "resolve" => task[th] = "resolve"

Attempting(th) ==
  /\ pc[th] \notin {"idle", "scope"} /\ task[th] \in {"commit", "resolve"} =>
       attempt[th] = work[th].tx
  /\ pc[th] = "capture" =>
       /\ work[th].tx # NoTx
       /\ journal[work[th].tx].phase = "opened"
       /\ \A u \in TxIds : journal[u].phase # "absent" => u <= work[th].tx
  /\ pc[th] \in {"apply", "seal"} => work[th].tx \in Undecided
  /\ pc[th] \in {"publish", "finish"} =>
       work[th].tx # NoTx /\ journal[work[th].tx].marker = {"commit"}

Recovering(th) ==
  /\ pc[th] \in {"restore"} \cup SettlePCs => work[th].rec \in Undecided
  /\ pc[th] \in SettledPCs => Undecided = {}
  /\ pc[th] \in {"rebuild", "open", "capture"} =>
       IsLatest(chainTip[ProcessOf[th]], Committed)
  /\ pc[th] \in {"rebuild", "resolve"} => \A t \in TxIds : ~Has(t, "conflict")
  /\ pc[th] \in {"resolve", "finish"} => projection = Committed

Local(th) ==
  /\ Holder(th)
  /\ Attempting(th)
  /\ Recovering(th)
  /\ ReplyIsTrue(th)
  /\ SettledFor(th)

JournalOK == Orderly /\ NewestUndecided /\ LineageLinear

IInv == TypeOK /\ JournalOK /\ \A th \in Threads : Local(th)

-------------------------------------------------------------------------------
(***************************************************************************)
(* What holds besides while no write goes past the journal, and what a     *)
(* conflict leaves.                                                        *)
(***************************************************************************)

\* A conflict is met by every recovery: nobody is on the way to another commit.
ConflictStops ==
  (\E t \in TxIds : Has(t, "conflict")) =>
    /\ Undecided = {}
    /\ \A th \in Threads : pc[th] \notin {"rebuild", "resolve", "open", "capture"}

\* u is the newest transaction of C that touched f.
Newest(u, f, C) ==
  /\ u \in C /\ f \in journal[u].targets
  /\ \A v \in C : f \in journal[v].targets => v <= u

\* A before image is what the newest commit before it wrote.
ImagesChain ==
  \A t \in Committed \cup Undecided : \A f \in journal[t].targets : \A u \in Committed :
    Newest(u, f, {v \in Committed : v < t}) => journal[t].before[f] = journal[u].after[f]

\* A document that no undecided transaction touches is as the newest commit
\* left it.
DocumentsHold ==
  \A u \in Committed : \A f \in Files :
    Newest(u, f, Committed) /\ (\A t \in Undecided : f \notin journal[t].targets)
      => store[f] = journal[u].after[f]

\* A document that is being written is as it was or as it will be.
HalfWritten ==
  \A t \in Undecided : \A f \in journal[t].targets :
    store[f] \in {journal[t].before[f], journal[t].after[f]}

Explained ==
  /\ \A t \in TxIds : ~Has(t, "conflict")
  /\ ImagesChain /\ DocumentsHold /\ HalfWritten

\* What a thread that writes has written.
Writing(th) ==
  LET w == work[th] IN
  /\ task[th] = "commit" /\ pc[th] \in RecoverPCs \cup {"open"} => w.tx = NoTx
  /\ pc[th] \in {"capture", "apply"} =>
       /\ journal[w.tx].targets = w.targets /\ journal[w.tx].after = w.after
       /\ w.todo \subseteq w.targets
  /\ pc[th] = "capture" =>
       \A f \in w.targets \ w.todo : journal[w.tx].before[f] = store[f]
  /\ pc[th] = "seal" => AllAfter(w.tx)
  /\ pc[th] = "settleCommit" => AllAfter(w.rec)
  /\ pc[th] = "restore" => w.todo \subseteq journal[w.rec].targets
  /\ pc[th] \in {"restore", "settleRollback", "settleAbort"} => ~AllAfter(w.rec)
  /\ pc[th] \in {"settleRollback", "settleAbort"} => Restored(w.rec)
  /\ pc[th] # "settleConflict"

CrashInv == foreign = 0 => Explained /\ \A th \in Threads : Writing(th)

\* The invariant of all theorems.
JournalInv == IInv /\ ConflictStops /\ CrashInv
==============================================================================
