------------------------- MODULE AuditJournalRecovery -------------------------
(***************************************************************************)
(* Recovery, for any number of threads, processes, documents, contents and *)
(* transactions: a conflict stops everything, and as long as no write goes *)
(* past the journal there never is one.  Then the journal implements       *)
(* AtomicStore: its documents change by whole requests only, whatever      *)
(* crashes and raises.                                                     *)
(***************************************************************************)
EXTENDS AuditJournalProofs, FiniteSetTheorems

-------------------------------------------------------------------------------
(***************************************************************************)
(* Which actions write.                                                    *)
(***************************************************************************)
LEMMA JournalFrame ==
  ASSUME [Next]_vars
  PROVE  \/ journal' = journal
         \/ \E th \in Threads : \/ OpenTransaction(th) \/ CaptureBefore(th) \/ Prepare(th)
                                \/ Seal(th) \/ Settle(th)
<1>1. ASSUME NEW th \in Threads,
             \/ EnterScope(th) \/ ExitScope(th) \/ Interrupt(th) \/ Fault(th)
             \/ StartCommit(th) \/ RecoverRefuse(th) \/ RecoverDecide(th)
             \/ RestoreBefore(th) \/ RestoreVerify(th) \/ AfterSettle(th)
             \/ RecoverChain(th) \/ RecoverExport(th) \/ ApplyTarget(th)
             \/ VerifyApplied(th) \/ Publish(th) \/ Finish(th) \/ Resolve(th)
      PROVE  journal' = journal
  BY <1>1 DEF EnterScope, ExitScope, Interrupt, Fault, StartCommit, RecoverRefuse,
       RecoverDecide, RestoreBefore, RestoreVerify, AfterSettle, RecoverChain,
       RecoverExport, ApplyTarget, VerifyApplied, VerifyAfter, Publish, Finish,
       Resolve, Raise, disk
<1>2. ASSUME NEW p \in Processes, Crash(p) PROVE journal' = journal
  BY <1>2 DEF Crash, disk
<1>3. ASSUME NEW f \in Files, ForeignWrite(f) PROVE journal' = journal
  BY <1>3 DEF ForeignWrite
<1>4. CASE UNCHANGED vars
  BY <1>4 DEF vars
<1> QED
  BY <1>1, <1>2, <1>3, <1>4 DEF Next, Step

LEMMA StoreFrame ==
  ASSUME [Next]_vars
  PROVE  \/ store' = store
         \/ \E th \in Threads : RestoreBefore(th) \/ ApplyTarget(th)
         \/ \E f \in Files : ForeignWrite(f)
<1>1. ASSUME NEW th \in Threads,
             \/ EnterScope(th) \/ ExitScope(th) \/ Interrupt(th) \/ Fault(th)
             \/ StartCommit(th) \/ RecoverRefuse(th) \/ RecoverDecide(th)
             \/ RestoreVerify(th) \/ AfterSettle(th) \/ Settle(th)
             \/ RecoverChain(th) \/ RecoverExport(th)
             \/ OpenTransaction(th) \/ CaptureBefore(th) \/ Prepare(th) \/ Seal(th)
             \/ VerifyApplied(th) \/ Publish(th) \/ Finish(th) \/ Resolve(th)
      PROVE  store' = store
  BY <1>1 DEF EnterScope, ExitScope, Interrupt, Fault, StartCommit, RecoverRefuse,
       RecoverDecide, RestoreVerify, AfterSettle, Settle, RecoverChain,
       RecoverExport, OpenTransaction, CaptureBefore, Prepare, Seal,
       VerifyApplied, VerifyAfter, Publish, Finish, Resolve, Raise, disk
<1>2. ASSUME NEW p \in Processes, Crash(p) PROVE store' = store
  BY <1>2 DEF Crash, disk
<1>3. CASE UNCHANGED vars
  BY <1>3 DEF vars
<1> QED
  BY <1>1, <1>2, <1>3 DEF Next, Step

\* What each writer of the journal does to the directories.
LEMMA JournalWrites ==
  ASSUME IInv, NEW th \in Threads
  PROVE  /\ OpenTransaction(th) =>
              \E t \in TxIds :
                /\ journal[t].phase = "absent" /\ journal[t].marker = {}
                /\ work' = [work EXCEPT ![th].tx = t, ![th].todo = work[th].targets]
                /\ journal'[t].targets = work[th].targets
                /\ journal'[t].after = work[th].after
                /\ journal'[t].phase = "opened" /\ journal'[t].marker = {}
                /\ \A u \in TxIds \ {t} : journal'[u] = journal[u]
         /\ CaptureBefore(th) =>
              \E f \in work[th].todo : LET t == work[th].tx IN
                /\ t \in TxIds /\ journal[t].phase = "opened" /\ journal[t].marker = {}
                /\ work' = [work EXCEPT ![th].todo = work[th].todo \ {f}]
                /\ f \in Files /\ journal'[t].before = [journal[t].before EXCEPT ![f] = store[f]]
                /\ journal'[t].targets = journal[t].targets
                /\ journal'[t].after = journal[t].after
                /\ journal'[t].phase = "opened" /\ journal'[t].marker = {}
                /\ \A u \in TxIds \ {t} : journal'[u] = journal[u]
         /\ Prepare(th) => LET t == work[th].tx IN
              /\ t \in TxIds /\ journal[t].marker = {}
              /\ Committed' = Committed /\ Undecided = {} /\ Undecided' = {t}
              /\ \A u \in Committed : u < t
              /\ journal'[t].targets = journal[t].targets
              /\ journal'[t].before = journal[t].before
              /\ journal'[t].after = journal[t].after
              /\ journal'[t].marker = {}
              /\ \A u \in TxIds \ {t} : journal'[u] = journal[u]
<1>0. /\ TypeOK /\ JournalOK /\ Local(th) /\ work[th] \in Works
      /\ journal \in [TxIds -> Records]
  BY DEF IInv, TypeOK
<1>1. ASSUME OpenTransaction(th)
      PROVE  \E t \in TxIds :
                /\ journal[t].phase = "absent" /\ journal[t].marker = {}
                /\ work' = [work EXCEPT ![th].tx = t, ![th].todo = work[th].targets]
                /\ journal'[t].targets = work[th].targets
                /\ journal'[t].after = work[th].after
                /\ journal'[t].phase = "opened" /\ journal'[t].marker = {}
                /\ \A u \in TxIds \ {t} : journal'[u] = journal[u]
  <2>1. PICK t \in TxIds :
          /\ journal[t].phase = "absent"
          /\ journal' = [journal EXCEPT ![t] = [NoRecord EXCEPT
                           !.phase = "opened", !.targets = work[th].targets,
                           !.after = work[th].after]]
          /\ work' = [work EXCEPT ![th].tx = t, ![th].todo = work[th].targets]
    BY <1>1 DEF OpenTransaction
  <2>2. journal[t].marker = {}
    BY <1>0, <2>1 DEF JournalOK, Orderly
  <2> QED
    BY <1>0, <2>1, <2>2 DEF NoRecord
<1>2. ASSUME CaptureBefore(th)
      PROVE   \E f \in work[th].todo : LET t == work[th].tx IN
                /\ t \in TxIds /\ journal[t].phase = "opened" /\ journal[t].marker = {}
                /\ work' = [work EXCEPT ![th].todo = work[th].todo \ {f}]
                /\ f \in Files /\ journal'[t].before = [journal[t].before EXCEPT ![f] = store[f]]
                /\ journal'[t].targets = journal[t].targets
                /\ journal'[t].after = journal[t].after
                /\ journal'[t].phase = "opened" /\ journal'[t].marker = {}
                /\ \A u \in TxIds \ {t} : journal'[u] = journal[u]
  <2> DEFINE t == work[th].tx
  <2>1. PICK f \in work[th].todo :
          /\ journal' = [journal EXCEPT ![t].before[f] = store[f]]
          /\ work' = [work EXCEPT ![th].todo = work[th].todo \ {f}]
    BY <1>2 DEF CaptureBefore
  <2>2. t \in TxIds /\ journal[t].phase = "opened"
    BY <1>0, <1>2 DEF CaptureBefore, Local, Attempting, Works
  <2>3. journal[t].marker = {} /\ journal[t] \in Records
    BY <1>0, <2>2 DEF JournalOK, Orderly
  <2>4. f \in Files
    BY <1>0 DEF Works
  <2> QED
    BY <1>0, <2>1, <2>2, <2>3, <2>4 DEF Records
<1>3. ASSUME Prepare(th)
      PROVE  LET t == work[th].tx IN
              /\ t \in TxIds /\ journal[t].marker = {}
              /\ Committed' = Committed /\ Undecided = {} /\ Undecided' = {t}
              /\ \A u \in Committed : u < t
              /\ journal'[t].targets = journal[t].targets
              /\ journal'[t].before = journal[t].before
              /\ journal'[t].after = journal[t].after
              /\ journal'[t].marker = {}
              /\ \A u \in TxIds \ {t} : journal'[u] = journal[u]
  <2> DEFINE t == work[th].tx
             p == chainTip[ProcessOf[th]]
  <2>1. /\ pc[th] = "capture" /\ t \in TxIds /\ journal[t].phase = "opened"
        /\ \A u \in TxIds : journal[u].phase # "absent" => u <= t
        /\ Undecided = {} /\ IsLatest(p, Committed)
    BY <1>0, <1>3 DEF Prepare, Local, Attempting, Recovering, SettledPCs, Works
  <2>2. journal' = [journal EXCEPT ![t].phase = "prepared", ![t].pred = p]
    BY <1>3 DEF Prepare
  <2> HIDE DEF p
  <2>3. JournalOK' /\ Committed' = Committed /\ Undecided' = {t}
    BY <1>0, <2>1, <2>2, JournalPrepared
  <2>4. journal[t].marker = {} /\ journal[t] \in Records
    BY <1>0, <2>1 DEF JournalOK, Orderly
  <2>5. \A u \in Committed : u < t
    <3>1. ASSUME NEW u \in Committed PROVE u \in TxIds /\ u <= t /\ u # t
      BY <1>0, <2>1, <2>4 DEF Committed, Has, JournalOK, Orderly
    <3>2. t \in Nat /\ \A u \in TxIds : u \in Nat
      BY <2>1, TxIdsAreNat
    <3> QED
      BY <3>1, <3>2
  <2>6. /\ journal'[t].targets = journal[t].targets
        /\ journal'[t].before = journal[t].before
        /\ journal'[t].after = journal[t].after
        /\ journal'[t].marker = {}
        /\ \A u \in TxIds \ {t} : journal'[u] = journal[u]
    BY <1>0, <2>1, <2>2, <2>4 DEF Records
  <2> QED
    BY <2>1, <2>3, <2>4, <2>5, <2>6
<1> QED
  BY <1>1, <1>2, <1>3

\* A marker decides the one undecided transaction, which is the newest.
LEMMA MarkWrites ==
  ASSUME IInv, NEW th \in Threads, Seal(th) \/ Settle(th)
  PROVE  \E t \in Undecided, m \in Markers :
           /\ journal' = [journal EXCEPT ![t].marker = @ \cup {m}]
           /\ Undecided = {t} /\ Undecided' = {}
           /\ Committed' = IF m = "commit" THEN Committed \cup {t} ELSE Committed
           /\ \A u \in Committed : u < t
           /\ journal'[t].marker = {m}
           /\ journal'[t].targets = journal[t].targets
           /\ journal'[t].before = journal[t].before
           /\ journal'[t].after = journal[t].after
           /\ \A u \in TxIds \ {t} : journal'[u] = journal[u]
           /\ pc[th] = "seal" => t = work[th].tx /\ m = "commit" /\ pc'[th] = "publish"
           /\ pc[th] # "seal" => t = work[th].rec
           /\ pc[th] = "settleCommit" => m = "commit" /\ pc'[th] = "checkCommit"
           /\ pc[th] = "settleAbort" => m = "abort" /\ pc'[th] = "checkAbort"
           /\ pc[th] = "settleRollback" => m = "abort" /\ pc'[th] = "recover"
           /\ pc[th] = "settleConflict" => m = "conflict" /\ pc'[th] = "conflicted"
           /\ pc[th] \in {"seal"} \cup SettlePCs
<1>0. /\ TypeOK /\ JournalOK /\ Local(th) /\ work[th] \in Works
      /\ journal \in [TxIds -> Records] /\ pc \in [Threads -> PCs]
  BY DEF IInv, TypeOK
<1> DEFINE t == IF pc[th] = "seal" THEN work[th].tx ELSE work[th].rec
<1>1. t \in Undecided /\ pc[th] \in {"seal"} \cup SettlePCs
  BY <1>0 DEF Seal, Settle, SettlePCs, Local, Attempting, Recovering
<1>2. PICK m \in Markers :
        /\ journal' = [journal EXCEPT ![t].marker = @ \cup {m}]
        /\ pc[th] = "seal" => m = "commit" /\ pc'[th] = "publish"
        /\ pc[th] = "settleCommit" => m = "commit" /\ pc'[th] = "checkCommit"
        /\ pc[th] = "settleAbort" => m = "abort" /\ pc'[th] = "checkAbort"
        /\ pc[th] = "settleRollback" => m = "abort" /\ pc'[th] = "recover"
        /\ pc[th] = "settleConflict" => m = "conflict" /\ pc'[th] = "conflicted"
  BY <1>0 DEF Seal, Settle, Mark, Goto, Markers
<1> HIDE DEF t
<1>3. /\ Undecided = {t} /\ Undecided' = {}
      /\ journal'[t].marker = {m}
      /\ \A u \in TxIds \ {t} : journal'[u] = journal[u]
  BY <1>0, <1>1, <1>2, JournalMarked
<1>4. t \in TxIds /\ journal[t] \in Records /\ journal[t].marker = {}
  BY <1>0, <1>1 DEF Undecided
<1>5. /\ journal'[t].targets = journal[t].targets
      /\ journal'[t].before = journal[t].before
      /\ journal'[t].after = journal[t].after
  BY <1>0, <1>2, <1>4 DEF Records
<1>6. Committed' = IF m = "commit" THEN Committed \cup {t} ELSE Committed
  BY <1>3, <1>4 DEF Committed, Has
<1>7. \A u \in Committed : u < t
  <2>1. \A u \in Committed : u <= t /\ u # t
    BY <1>0, <1>1, <1>4 DEF JournalOK, NewestUndecided, Committed, Has
  <2> QED
    BY <1>4, <2>1, TxIdsAreNat DEF Committed
<1>8. /\ pc[th] = "seal" => t = work[th].tx
      /\ pc[th] # "seal" => t = work[th].rec
  BY DEF t
<1> QED
  BY <1>1, <1>2, <1>3, <1>5, <1>6, <1>7, <1>8

-------------------------------------------------------------------------------
(***************************************************************************)
(* A conflict stops everything.                                            *)
(***************************************************************************)
\* Who gets past a recovery, or opens a transaction.
LEMMA LabelFrame ==
  ASSUME IInv, [Next]_vars, NEW x \in Threads, pc'[x] \in {"open", "capture"}
  PROVE  \/ pc[x] = pc'[x]
         \/ pc[x] = "rebuild" /\ pc'[x] = "open"
         \/ pc[x] = "open" /\ OpenTransaction(x)
<1>0. pc \in [Threads -> PCs] /\ task \in [Threads -> {"enter", "commit", "resolve"}]
  BY DEF IInv, TypeOK
<1>1. ASSUME NEW th \in Threads, Raise(th) PROVE pc[x] = pc'[x]
  BY <1>0, <1>1 DEF Raise, Leave
<1>2. ASSUME NEW th \in Threads,
             \/ EnterScope(th) \/ ExitScope(th) \/ Interrupt(th) \/ Fault(th)
             \/ StartCommit(th) \/ RecoverRefuse(th)
             \/ RestoreBefore(th) \/ RestoreVerify(th) \/ AfterSettle(th) \/ Settle(th)
             \/ RecoverChain(th) \/ CaptureBefore(th) \/ Prepare(th) \/ ApplyTarget(th)
      PROVE  pc[x] = pc'[x]
  BY <1>0, <1>1, <1>2 DEF EnterScope, ExitScope, Interrupt, Fault, StartCommit, RecoverRefuse,
       RestoreBefore, RestoreVerify, AfterSettle, Settle, RecoverChain,
       CaptureBefore, Prepare, ApplyTarget, Leave, Goto
<1>8. ASSUME NEW th \in Threads,
             VerifyApplied(th) \/ Seal(th) \/ Publish(th) \/ Finish(th) \/ Resolve(th)
      PROVE  pc[x] = pc'[x]
  BY <1>0, <1>1, <1>8 DEF VerifyApplied, VerifyAfter, Seal, Publish, Finish, Resolve, Goto
<1>9. ASSUME NEW th \in Threads, RecoverDecide(th) PROVE pc[x] = pc'[x]
  <2>1. \A t : Decision(t) \notin {"open", "capture"}
    BY DEF Decision
  <2> QED
    BY <1>0, <1>9, <2>1 DEF RecoverDecide, Goto
<1>3. ASSUME NEW th \in Threads, RecoverExport(th)
      PROVE  pc[x] = pc'[x] \/ (pc[x] = "rebuild" /\ pc'[x] = "open")
  BY <1>0, <1>3 DEF RecoverExport, Goto
<1>4. ASSUME NEW th \in Threads, OpenTransaction(th)
      PROVE  pc[x] = pc'[x] \/ (pc[x] = "open" /\ OpenTransaction(x))
  BY <1>0, <1>4 DEF OpenTransaction, Goto
<1>5. ASSUME NEW p \in Processes, Crash(p) PROVE pc[x] = pc'[x]
  BY <1>0, <1>5 DEF Crash
<1>6. ASSUME NEW f \in Files, ForeignWrite(f) PROVE pc[x] = pc'[x]
  BY <1>6 DEF ForeignWrite, memory
<1>7. CASE UNCHANGED vars
  BY <1>7 DEF vars
<1> QED
  BY <1>2, <1>3, <1>4, <1>5, <1>6, <1>7, <1>8, <1>9 DEF Next, Step

LEMMA ConflictNext ==
  ASSUME IInv, IInv', ConflictStops, [Next]_vars
  PROVE  ConflictStops'
<1> DEFINE Conflict == \E t \in TxIds : Has(t, "conflict")
<1>1. ASSUME Conflict', NEW x \in Threads PROVE pc'[x] \notin {"rebuild", "resolve"}
  BY <1>1 DEF IInv, Local, Recovering
<1>2. CASE journal' = journal
  <2>1. Conflict' <=> Conflict
    BY <1>2 DEF Has
  <2>2. Undecided' = Undecided
    BY <1>2 DEF Undecided
  <2>3. ASSUME Conflict, NEW x \in Threads PROVE pc'[x] \notin {"open", "capture"}
    <3>1. ~OpenTransaction(x)
      BY <2>3 DEF ConflictStops, OpenTransaction
    <3> QED
      BY <2>3, <3>1, LabelFrame DEF ConflictStops
  <2> QED
    BY <1>1, <2>1, <2>2, <2>3 DEF ConflictStops
<1>3. ASSUME NEW th \in Threads, OpenTransaction(th) \/ CaptureBefore(th) \/ Prepare(th)
      PROVE  ~Conflict'
  <2>1. ~Conflict
    BY <1>3 DEF ConflictStops, OpenTransaction, CaptureBefore, Prepare
  <2>2. PICK t \in TxIds : journal'[t].marker = {} /\ \A u \in TxIds \ {t} : journal'[u] = journal[u]
    BY <1>3, JournalWrites
  <2> QED
    BY <2>1, <2>2 DEF Has
<1>4. ASSUME NEW th \in Threads, Seal(th) \/ Settle(th) PROVE ConflictStops'
  <2>1. /\ Undecided' = {} /\ pc[th] \in {"seal"} \cup SettlePCs
        /\ pc'[th] \in {"publish", "checkCommit", "checkAbort", "recover", "conflicted"}
    BY <1>4, MarkWrites DEF SettlePCs
  <2>2. ASSUME NEW x \in Threads \ {th} PROVE pc'[x] = "idle"
    <3>1. pc'[x] = pc[x]
      BY <1>4 DEF Seal, Settle, Goto, IInv, TypeOK
    <3> QED
      BY <2>1, <3>1, OthersIdle DEF IInv, SettlePCs
  <2> QED
    BY <2>1, <2>2 DEF ConflictStops
<1> QED
  BY <1>2, <1>3, <1>4, JournalFrame DEF ConflictStops

\* Only the undecided transaction commits, and only its documents are written.
LEMMA FailClosedStep ==
  ASSUME IInv, ConflictStops, [Next]_vars, \E t \in TxIds : Has(t, "conflict")
  PROVE  Committed' = Committed /\ (store' # store => foreign' # foreign)
<1>0. Undecided = {} /\ \A th \in Threads : pc[th] \notin {"open", "capture"}
  BY DEF ConflictStops
<1>1. journal' = journal
  BY <1>0, JournalFrame, MarkWrites DEF OpenTransaction, CaptureBefore, Prepare
<1>2. Committed' = Committed
  BY <1>1 DEF Committed, Has
<1>3. ASSUME NEW th \in Threads, RestoreBefore(th) \/ ApplyTarget(th) PROVE FALSE
  BY <1>0, <1>3 DEF RestoreBefore, ApplyTarget, IInv, Local, Attempting, Recovering
<1>4. ASSUME NEW f \in Files, ForeignWrite(f) PROVE foreign' # foreign
  BY <1>4 DEF ForeignWrite, IInv, TypeOK
<1> QED
  BY <1>2, <1>3, <1>4, StoreFrame

\* A conflict is met by every recovery, so nobody is past one.
THEOREM ConflictsStop == Spec => []ConflictStops
<1>1. Init => ConflictStops
  BY DEF Init, ConflictStops, Has, NoRecord
<1>2. IInv /\ IInv' /\ ConflictStops /\ [Next]_vars => ConflictStops'
  BY ConflictNext
<1> QED
  BY <1>1, <1>2, Invariance, PTL DEF Spec

\* After _recover_transaction has recorded a conflict, no commit.json is linked
\* and no document is written but by those who go past the journal.
THEOREM ConflictsFailClosed == Spec => FailClosed
<1>1. IInv /\ ConflictStops /\ [Next]_vars =>
        [(\E t \in TxIds : Has(t, "conflict")) =>
           Committed' = Committed /\ (store' # store => foreign' # foreign)]_vars
  BY FailClosedStep
<1> QED
  BY <1>1, Invariance, ConflictsStop, PTL DEF Spec, FailClosed

-------------------------------------------------------------------------------
(***************************************************************************)
(* What the committed transactions explain.                                *)
(***************************************************************************)
LEMMA OneUndecided ==
  ASSUME JournalOK, NEW t \in Undecided
  PROVE  Undecided = {t}
<1>1. ASSUME NEW u \in Undecided PROVE u = t
  <2>1. u <= t /\ t <= u
    BY DEF JournalOK, NewestUndecided
  <2> QED
    BY <2>1, TxIdsAreNat DEF Undecided
<1> QED
  BY <1>1

\* A document of the undecided transaction is written, to either image.
LEMMA ExplainedWrite ==
  ASSUME Explained, JournalOK, NEW t \in Undecided, NEW f \in Files,
         f \in journal[t].targets, store \in [Files -> Images], NEW c,
         c = journal[t].before[f] \/ c = journal[t].after[f],
         store' = [store EXCEPT ![f] = c], journal' = journal
  PROVE  Explained'
<1>1. Undecided = {t}
  BY OneUndecided
<1>2. Committed' = Committed /\ Undecided' = Undecided
  BY JournalUnchanged
<1>3. ImagesChain'
  BY <1>2 DEF Explained, ImagesChain, Newest
<1>4. store'[f] = c /\ \A g \in Files \ {f} : store'[g] = store[g]
  OBVIOUS
<1>5. DocumentsHold'
  <2> SUFFICES ASSUME NEW u \in Committed, NEW g \in Files, Newest(u, g, Committed),
                      \A v \in Undecided : g \notin journal[v].targets
               PROVE  store'[g] = journal[u].after[g]
    BY <1>2 DEF DocumentsHold, Newest
  <2>1. g # f
    OBVIOUS
  <2>2. store[g] = journal[u].after[g]
    BY DEF Explained, DocumentsHold
  <2> QED
    BY <1>4, <2>1, <2>2
<1>6. HalfWritten'
  <2> SUFFICES ASSUME NEW v \in Undecided, NEW g \in journal[v].targets
               PROVE  store'[g] = journal[v].before[g] \/ store'[g] = journal[v].after[g]
    BY <1>2 DEF HalfWritten
  <2>1. v = t
    BY <1>1
  <2>2. CASE g = f
    BY <1>4, <2>1, <2>2
  <2>3. CASE g # f
    <3>1. store[g] = journal[v].before[g] \/ store[g] = journal[v].after[g]
      BY DEF Explained, HalfWritten
    <3>2. store'[g] = store[g]
      BY <2>3
    <3> QED
      BY <3>1, <3>2
  <2> QED
    BY <2>2, <2>3
<1>7. \A u \in TxIds : ~Has(u, "conflict")'
  BY DEF Explained, Has
<1> QED
  BY <1>3, <1>5, <1>6, <1>7 DEF Explained

\* A directory that recovery does not read yet is written.
LEMMA ExplainedUnread ==
  ASSUME Explained, NEW t \in TxIds, t \notin Committed \cup Undecided,
         Committed' = Committed, Undecided' = Undecided, journal'[t].marker = {},
         \A u \in TxIds \ {t} : journal'[u] = journal[u], store' = store
  PROVE  Explained'
<1>1. \A u \in Committed \cup Undecided : u \in TxIds /\ journal'[u] = journal[u]
  BY DEF Committed, Undecided
<1>2. ImagesChain'
  BY <1>1 DEF Explained, ImagesChain, Newest
<1>3. DocumentsHold'
  BY <1>1 DEF Explained, DocumentsHold, Newest
<1>4. HalfWritten'
  BY <1>1 DEF Explained, HalfWritten
<1>5. \A u \in TxIds : ~Has(u, "conflict")'
  BY DEF Explained, Has
<1> QED
  BY <1>2, <1>3, <1>4, <1>5 DEF Explained

\* The before images were read while nothing was undecided.
LEMMA ExplainedPrepared ==
  ASSUME Explained, NEW t \in TxIds, Undecided = {}, Undecided' = {t},
         Committed' = Committed, \A u \in Committed : u < t,
         \A u \in TxIds \ {t} : journal'[u] = journal[u],
         journal'[t].targets = journal[t].targets,
         journal'[t].before = journal[t].before,
         journal'[t].targets \subseteq Files,
         \A f \in journal[t].targets : journal[t].before[f] = store[f],
         journal'[t].marker = {}, store' = store
  PROVE  Explained'
<1>1. \A u \in Committed : u \in TxIds /\ u # t /\ journal'[u] = journal[u]
  BY TxIdsAreNat DEF Committed
<1>2. {v \in Committed : v < t} = Committed
  OBVIOUS
<1>3. ImagesChain'
  <2> SUFFICES ASSUME NEW s \in Committed \cup {t}, NEW f \in journal'[s].targets,
                      NEW u \in Committed, Newest(u, f, {v \in Committed : v < s})'
               PROVE  journal'[s].before[f] = journal'[u].after[f]
    BY DEF ImagesChain
  <2>1. Newest(u, f, {v \in Committed : v < s})
    BY <1>1 DEF Newest
  <2>2. CASE s = t
    <3>1. Newest(u, f, Committed) /\ f \in Files
      BY <1>2, <2>1, <2>2
    <3>2. store[f] = journal[u].after[f]
      BY <3>1 DEF Explained, DocumentsHold
    <3> QED
      BY <1>1, <2>2, <3>2
  <2>3. CASE s \in Committed
    BY <1>1, <2>1, <2>3 DEF Explained, ImagesChain
  <2> QED
    BY <2>2, <2>3
<1>4. DocumentsHold'
  <2> SUFFICES ASSUME NEW u \in Committed, NEW f \in Files, Newest(u, f, Committed)'
               PROVE  store[f] = journal'[u].after[f]
    BY DEF DocumentsHold
  <2>1. Newest(u, f, Committed)
    BY <1>1 DEF Newest
  <2> QED
    BY <1>1, <2>1 DEF Explained, DocumentsHold
<1>5. HalfWritten'
  BY DEF HalfWritten
<1>6. \A u \in TxIds : ~Has(u, "conflict")'
  BY DEF Explained, Has
<1> QED
  BY <1>3, <1>4, <1>5, <1>6 DEF Explained

\* The undecided transaction is decided as its documents are.
LEMMA ExplainedDecided ==
  ASSUME Explained, NEW t \in TxIds, Undecided = {t}, Undecided' = {},
         \A u \in Committed : u < t,
         \A u \in TxIds \ {t} : journal'[u] = journal[u],
         journal'[t].targets = journal[t].targets,
         journal'[t].before = journal[t].before,
         journal'[t].after = journal[t].after,
         \/ AllAfter(t) /\ Committed' = Committed \cup {t}
         \/ Restored(t) /\ Committed' = Committed,
         ~Has(t, "conflict")', store' = store
  PROVE  Explained'
<1>1. \A u \in Committed : u \in TxIds /\ u # t /\ u < t
  BY TxIdsAreNat DEF Committed
<1>2. /\ \A u \in TxIds : /\ journal'[u].targets = journal[u].targets
                          /\ journal'[u].before = journal[u].before
                          /\ journal'[u].after = journal[u].after
      /\ \A u \in Committed \cup {t} : u \in TxIds
  BY <1>1
<1>3. {v \in Committed : v < t} = Committed
  BY <1>1
<1>4. ImagesChain'
  <2> SUFFICES ASSUME NEW s \in Committed \cup {t}, NEW f \in journal[s].targets,
                      NEW u \in Committed', Newest(u, f, {v \in Committed : v < s})'
               PROVE  journal[s].before[f] = journal[u].after[f]
    BY <1>2 DEF ImagesChain
  <2>1. {v \in Committed' : v < s} = {v \in Committed : v < s}
    <3>1. ~(t < s)
      <4>1. s = t \/ s < t
        BY <1>1
      <4>2. s \in Nat /\ t \in Nat
        BY <1>1, TxIdsAreNat
      <4> QED
        BY <4>1, <4>2
    <3> QED
      BY <3>1
  <2>2. Newest(u, f, {v \in Committed : v < s})
    BY <1>2, <2>1 DEF Newest
  <2>3. u \in Committed
    BY <2>2 DEF Newest
  <2> QED
    BY <2>2, <2>3 DEF Explained, ImagesChain
<1>5. DocumentsHold'
  <2> SUFFICES ASSUME NEW u \in Committed', NEW f \in Files, Newest(u, f, Committed)'
               PROVE  store[f] = journal[u].after[f]
    BY <1>2 DEF DocumentsHold
  <2>1. u \in TxIds /\ f \in journal[u].targets
        /\ \A v \in Committed' : f \in journal[v].targets => v <= u
    BY <1>2 DEF Newest
  <2>2. CASE f \notin journal[t].targets
    <3>1. u \in Committed /\ Newest(u, f, Committed)
      BY <2>1, <2>2 DEF Newest
    <3> QED
      BY <2>2, <3>1 DEF Explained, DocumentsHold
  <2>3. CASE f \in journal[t].targets /\ AllAfter(t) /\ Committed' = Committed \cup {t}
    <3>1. t <= u
      BY <2>1, <2>3
    <3>2. u = t
      <4>1. u = t \/ u < t
        BY <1>1, <2>3
      <4>2. u \in Nat /\ t \in Nat
        BY <2>1, TxIdsAreNat
      <4> QED
        BY <3>1, <4>1, <4>2
    <3> QED
      BY <2>3, <3>2 DEF AllAfter, IsAfter
  <2>4. CASE f \in journal[t].targets /\ Restored(t) /\ Committed' = Committed
    <3>1. Newest(u, f, {v \in Committed : v < t})
      BY <1>3, <2>1, <2>4 DEF Newest
    <3>2. journal[t].before[f] = journal[u].after[f]
      BY <2>4, <3>1 DEF Explained, ImagesChain
    <3> QED
      BY <2>4, <3>2 DEF Restored
  <2> QED
    BY <2>2, <2>3, <2>4
<1>6. HalfWritten'
  BY DEF HalfWritten
<1>7. \A u \in TxIds : ~Has(u, "conflict")'
  BY DEF Explained, Has
<1> QED
  BY <1>4, <1>5, <1>6, <1>7 DEF Explained

-------------------------------------------------------------------------------
(***************************************************************************)
(* What the threads have written.                                          *)
(***************************************************************************)
LEMMA SameDisk ==
  ASSUME journal' = journal, store' = store, Explained
  PROVE  Explained'
BY JournalUnchanged DEF Explained, ImagesChain, DocumentsHold, HalfWritten, Newest, Has

\* It is enough to look at the thread that steps.
LEMMA WritingStep ==
  ASSUME IInv, NEW th \in Threads, pc[th] # "idle" \/ lock = NoThread,
         \A x \in Threads \ {th} : pc'[x] = pc[x], Writing(th)'
  PROVE  \A x \in Threads : Writing(x)'
<1>1. \A x \in Threads \ {th} : pc'[x] = "idle"
  BY OthersIdle DEF IInv
<1>2. \A x \in Threads \ {th} : Writing(x)'
  BY <1>1 DEF Writing, RecoverPCs, SettlePCs
<1> QED
  BY <1>2

LEMMA LeaveWriting ==
  ASSUME IInv, Explained, NEW th \in Threads, pc[th] # "idle", Leave(th),
         UNCHANGED <<disk, chainTip, attempt>>
  PROVE  Explained' /\ \A x \in Threads : Writing(x)'
<1>1. /\ pc'[th] = "idle" /\ journal' = journal /\ store' = store
      /\ \A x \in Threads \ {th} : pc'[x] = pc[x]
  BY DEF Leave, disk, IInv, TypeOK
<1>2. Writing(th)'
  BY <1>1 DEF Writing, RecoverPCs, SettlePCs
<1> QED
  BY <1>1, <1>2, SameDisk, WritingStep

LEMMA RaiseWriting ==
  ASSUME IInv, Explained, NEW th \in Threads, pc[th] # "idle", Raise(th)
  PROVE  Explained' /\ \A x \in Threads : Writing(x)'
<1>1. CASE Leave(th) /\ UNCHANGED <<disk, chainTip, attempt>>
  BY <1>1, LeaveWriting
<1>2. CASE /\ pc' = [pc EXCEPT ![th] = "recover"]
           /\ task' = [task EXCEPT ![th] = "resolve"]
           /\ UNCHANGED disk
  <2>1. /\ pc'[th] = "recover" /\ task'[th] = "resolve"
        /\ journal' = journal /\ store' = store
        /\ \A x \in Threads \ {th} : pc'[x] = pc[x]
    BY <1>2 DEF disk, IInv, TypeOK
  <2>2. Writing(th)'
    BY <2>1 DEF Writing
  <2> QED
    BY <2>1, <2>2, SameDisk, WritingStep
<1>3. CASE pc' = [pc EXCEPT ![th] = "scope"] /\ UNCHANGED disk
  <2>1. /\ pc'[th] = "scope" /\ journal' = journal /\ store' = store
        /\ \A x \in Threads \ {th} : pc'[x] = pc[x]
    BY <1>3 DEF disk, IInv, TypeOK
  <2>2. Writing(th)'
    BY <2>1 DEF Writing, RecoverPCs, SettlePCs
  <2> QED
    BY <2>1, <2>2, SameDisk, WritingStep
<1> QED
  BY <1>1, <1>2, <1>3 DEF Raise

\* A thread that only moves from label to label.
LEMMA MoveWriting ==
  ASSUME IInv, Explained, NEW th \in Threads, pc[th] # "idle" \/ lock = NoThread,
         journal' = journal, store' = store,
         \A x \in Threads \ {th} : pc'[x] = pc[x], Writing(th)'
  PROVE  Explained' /\ \A x \in Threads : Writing(x)'
BY SameDisk, WritingStep

LEMMA RecoveryWriting ==
  ASSUME IInv, Explained, NEW th \in Threads, Writing(th),
         \/ RecoverRefuse(th) \/ RecoverDecide(th) \/ RestoreBefore(th)
         \/ RestoreVerify(th) \/ Settle(th) \/ AfterSettle(th)
         \/ RecoverChain(th) \/ RecoverExport(th)
  PROVE  Explained' /\ \A x \in Threads : Writing(x)'
<1>0. /\ TypeOK /\ JournalOK /\ Local(th) /\ work[th] \in Works
      /\ pc \in [Threads -> PCs] /\ task \in [Threads -> {"enter", "commit", "resolve"}]
      /\ journal \in [TxIds -> Records] /\ store \in [Files -> Images]
      /\ work \in [Threads -> Works]
  BY DEF IInv, TypeOK
<1> USE DEF Goto, disk
<1> DEFINE rec == work[th].rec
<1>1. CASE RecoverRefuse(th)
  BY <1>1, RaiseWriting DEF RecoverRefuse
<1>2. CASE RecoverDecide(th)
  <2>1. PICK t \in Undecided :
          /\ pc' = [pc EXCEPT ![th] = Decision(t)]
          /\ work' = [work EXCEPT ![th].rec = t, ![th].todo = journal[t].targets]
    BY <1>2 DEF RecoverDecide
  <2>2. /\ pc[th] = "recover" /\ UNCHANGED <<journal, store, task>>
        /\ pc'[th] = Decision(t) /\ \A x \in Threads \ {th} : pc'[x] = pc[x]
    BY <1>0, <1>2, <2>1 DEF RecoverDecide
  <2>3. work'[th].rec = t /\ work'[th].todo = journal[t].targets /\ work'[th].tx = work[th].tx
    BY <1>0, <2>1 DEF Works
  <2>4. \A f \in journal[t].targets : IsAfter(t, f) \/ IsBefore(t, f)
    BY DEF Explained, HalfWritten, IsAfter, IsBefore
  <2>5. \/ pc'[th] = "settleCommit" /\ AllAfter(t)
        \/ pc'[th] = "settleAbort" /\ ~AllAfter(t) /\ Restored(t)
        \/ pc'[th] = "restore" /\ ~AllAfter(t)
    BY <2>2, <2>4 DEF Decision, AllBefore, IsBefore, Restored
  <2>6. (AllAfter(t) <=> AllAfter(t)') /\ (Restored(t) <=> Restored(t)')
    BY <2>2 DEF AllAfter, IsAfter, Restored
  <2>7. task[th] = "commit" => work[th].tx = NoTx
    BY <2>2 DEF Writing, RecoverPCs
  <2>8. Writing(th)'
    <3>1. CASE pc'[th] = "settleCommit" /\ AllAfter(t)'
      BY <2>2, <2>3, <2>7, <3>1 DEF Writing, AllAfter, IsAfter
    <3>2. CASE pc'[th] = "settleAbort" /\ ~AllAfter(t)' /\ Restored(t)'
      BY <2>2, <2>3, <2>7, <3>2 DEF Writing, AllAfter, IsAfter, Restored
    <3>3. CASE pc'[th] = "restore" /\ ~AllAfter(t)'
      BY <2>2, <2>3, <2>7, <3>3 DEF Writing, AllAfter, IsAfter
    <3> QED
      BY <2>5, <2>6, <3>1, <3>2, <3>3
  <2> QED
    BY <2>2, <2>8, MoveWriting
<1>3. CASE RestoreBefore(th)
  <2>1. PICK f \in work[th].todo :
          /\ store' = [store EXCEPT ![f] = journal[rec].before[f]]
          /\ work' = [work EXCEPT ![th].todo = work[th].todo \ {f}]
    BY <1>3 DEF RestoreBefore
  <2>2. pc[th] = "restore" /\ UNCHANGED <<journal, pc, task, lock>>
    BY <1>3 DEF RestoreBefore
  <2>3. /\ rec \in Undecided /\ work[th].todo \subseteq journal[rec].targets /\ ~AllAfter(rec)
        /\ task[th] = "commit" => work[th].tx = NoTx
    BY <1>0, <2>2 DEF Local, Recovering, Writing, RecoverPCs
  <2>4. f \in Files /\ f \in journal[rec].targets
    BY <1>0, <2>3 DEF Works
  <2>5. Explained'
    BY <1>0, <2>1, <2>2, <2>3, <2>4, ExplainedWrite
  <2>6. /\ work'[th].rec = rec /\ work'[th].tx = work[th].tx
        /\ work'[th].todo \subseteq journal[rec].targets
    BY <1>0, <2>1, <2>3 DEF Works
  <2>7. ~AllAfter(rec)'
    <3>1. PICK g \in journal[rec].targets : store[g] # journal[rec].after[g]
      BY <2>3 DEF AllAfter, IsAfter
    <3>2. store[g] = journal[rec].before[g]
      BY <2>3, <3>1 DEF Explained, HalfWritten
    <3>3. store'[g] = journal[rec].before[g]
      <4>1. g \in Files
        BY <1>0, <2>3 DEF Undecided, Records
      <4>2. store'[g] = IF g = f THEN journal[rec].before[f] ELSE store[g]
        BY <1>0, <2>1, <4>1
      <4> QED
        BY <3>2, <4>2
    <3> QED
      BY <2>2, <2>6, <3>1, <3>2, <3>3 DEF AllAfter, IsAfter
  <2>8. Writing(th)'
    BY <2>2, <2>3, <2>6, <2>7 DEF Writing, AllAfter, IsAfter
  <2> QED
    BY <2>2, <2>5, <2>8, WritingStep
<1>4. CASE RestoreVerify(th)
  <2>1. CASE Raise(th)
    BY <1>4, <2>1, RaiseWriting DEF RestoreVerify
  <2>2. CASE /\ Restored(rec) /\ pc' = [pc EXCEPT ![th] = "settleRollback"]
             /\ UNCHANGED <<disk, lock, chainTip, attempt, task, work, reply>>
    <3>1. /\ pc[th] = "restore" /\ pc'[th] = "settleRollback"
          /\ UNCHANGED <<journal, store, task, work>>
          /\ \A x \in Threads \ {th} : pc'[x] = pc[x]
      BY <1>0, <1>4, <2>2 DEF RestoreVerify
    <3>2. Writing(th)'
      BY <2>2, <3>1 DEF Writing, RecoverPCs, AllAfter, IsAfter, Restored
    <3> QED
      BY <3>1, <3>2, MoveWriting
  <2> QED
    BY <1>4, <2>1, <2>2 DEF RestoreVerify
<1>5. CASE Settle(th)
  <2>1. PICK t \in Undecided, m \in Markers :
           /\ Undecided = {t} /\ Undecided' = {}
           /\ Committed' = IF m = "commit" THEN Committed \cup {t} ELSE Committed
           /\ \A u \in Committed : u < t
           /\ journal'[t].marker = {m}
           /\ journal'[t].targets = journal[t].targets
           /\ journal'[t].before = journal[t].before
           /\ journal'[t].after = journal[t].after
           /\ \A u \in TxIds \ {t} : journal'[u] = journal[u]
           /\ pc[th] # "seal" => t = rec
           /\ pc[th] = "settleCommit" => m = "commit" /\ pc'[th] = "checkCommit"
           /\ pc[th] = "settleAbort" => m = "abort" /\ pc'[th] = "checkAbort"
           /\ pc[th] = "settleRollback" => m = "abort" /\ pc'[th] = "recover"
    BY <1>5, MarkWrites
  <2>2. pc[th] \in {"settleCommit", "settleAbort", "settleRollback"} /\ t = rec
    BY <1>5, <2>1 DEF Settle, Writing
  <2>3. /\ \/ m = "commit" /\ AllAfter(t)
           \/ m = "abort" /\ Restored(t)
        /\ task[th] = "commit" => work[th].tx = NoTx
    BY <2>1, <2>2 DEF Writing, RecoverPCs, SettlePCs
  <2>4. /\ UNCHANGED <<store, task, lock>> /\ \A x \in Threads \ {th} : pc'[x] = pc[x]
        /\ work'[th].tx = work[th].tx
    BY <1>0, <1>5 DEF Settle, Works
  <2>5. Explained'
    <3>1. ~Has(t, "conflict")' /\ t \in TxIds
      BY <2>1, <2>3 DEF Has, Undecided
    <3> QED
      BY <2>1, <2>3, <2>4, <3>1, ExplainedDecided
  <2>6. Writing(th)'
    BY <2>1, <2>2, <2>3, <2>4 DEF Writing
  <2> QED
    BY <2>2, <2>4, <2>5, <2>6, WritingStep
<1>6. CASE AfterSettle(th)
  <2>1. CASE Raise(th)
    BY <1>6, <2>1, RaiseWriting DEF AfterSettle
  <2>2. CASE /\ pc[th] \in {"checkCommit", "checkAbort"}
             /\ pc' = [pc EXCEPT ![th] = "recover"]
             /\ work' = [work EXCEPT ![th].rec = NoTx, ![th].todo = {}]
             /\ UNCHANGED <<disk, lock, chainTip, attempt, task, reply>>
    <3>1. /\ pc'[th] = "recover" /\ UNCHANGED <<journal, store, task>>
          /\ \A x \in Threads \ {th} : pc'[x] = pc[x]
          /\ work'[th].tx = work[th].tx
      BY <1>0, <2>2 DEF Works
    <3>2. Writing(th)'
      BY <2>2, <3>1 DEF Writing, RecoverPCs
    <3> QED
      BY <2>2, <3>1, <3>2, MoveWriting
  <2> QED
    BY <1>6, <2>1, <2>2 DEF AfterSettle
<1>7. CASE RecoverChain(th)
  <2>1. CASE Raise(th)
    BY <1>7, <2>1, RaiseWriting DEF RecoverChain
  <2>2. CASE /\ pc' = [pc EXCEPT ![th] = "rebuild"]
             /\ UNCHANGED <<disk, lock, attempt, task, work, reply>>
    <3>1. /\ pc[th] = "recover" /\ pc'[th] = "rebuild"
          /\ UNCHANGED <<journal, store, task, work>>
          /\ \A x \in Threads \ {th} : pc'[x] = pc[x]
      BY <1>0, <1>7, <2>2 DEF RecoverChain
    <3>2. Writing(th)'
      BY <3>1 DEF Writing, RecoverPCs
    <3> QED
      BY <3>1, <3>2, MoveWriting
  <2> QED
    BY <1>7, <2>1, <2>2 DEF RecoverChain
<1>8. CASE RecoverExport(th)
  <2>1. /\ pc[th] = "rebuild" /\ UNCHANGED <<journal, store, task, work>>
        /\ pc'[th] = CASE task[th] = "enter" -> "scope"
                       [] task[th] = "commit" -> "open"
                       [] task[th] = "resolve" -> "resolve"
        /\ \A x \in Threads \ {th} : pc'[x] = pc[x]
    BY <1>0, <1>8 DEF RecoverExport
  <2>2. task[th] \in {"enter", "commit", "resolve"}
    BY <1>0
  <2>3. pc'[th] \in {"scope", "open", "resolve"}
    BY <2>1, <2>2
  <2>4. Writing(th)'
    BY <2>1, <2>3 DEF Writing, RecoverPCs, SettlePCs
  <2> QED
    BY <2>1, <2>4, MoveWriting
<1> QED
  BY <1>1, <1>2, <1>3, <1>4, <1>5, <1>6, <1>7, <1>8

LEMMA CommitWriting ==
  ASSUME IInv, Explained, NEW th \in Threads, Writing(th),
         \/ StartCommit(th) \/ OpenTransaction(th) \/ CaptureBefore(th)
         \/ Prepare(th) \/ ApplyTarget(th) \/ VerifyApplied(th) \/ Seal(th)
         \/ Publish(th) \/ Finish(th) \/ Resolve(th)
  PROVE  Explained' /\ \A x \in Threads : Writing(x)'
<1>0. /\ TypeOK /\ JournalOK /\ Local(th) /\ work[th] \in Works
      /\ pc \in [Threads -> PCs] /\ task \in [Threads -> {"enter", "commit", "resolve"}]
      /\ journal \in [TxIds -> Records] /\ store \in [Files -> Images]
      /\ work \in [Threads -> Works]
  BY DEF IInv, TypeOK
<1> USE DEF Goto, disk
<1> DEFINE tx == work[th].tx
<1>1. CASE StartCommit(th)
  <2>1. /\ pc[th] = "scope" /\ pc'[th] = "recover" /\ UNCHANGED <<journal, store>>
        /\ \A x \in Threads \ {th} : pc'[x] = pc[x]
    BY <1>0, <1>1 DEF StartCommit
  <2>2. work'[th].tx = NoTx
    BY <1>0, <1>1 DEF StartCommit, NoWork
  <2>3. Writing(th)'
    BY <2>1, <2>2 DEF Writing
  <2> QED
    BY <2>1, <2>3, MoveWriting
<1>2. CASE OpenTransaction(th)
  <2>1. PICK t \in TxIds :
          /\ journal[t].phase = "absent" /\ journal[t].marker = {}
          /\ work' = [work EXCEPT ![th].tx = t, ![th].todo = work[th].targets]
          /\ journal'[t].targets = work[th].targets
          /\ journal'[t].after = work[th].after
          /\ journal'[t].phase = "opened" /\ journal'[t].marker = {}
          /\ \A u \in TxIds \ {t} : journal'[u] = journal[u]
    BY <1>2, JournalWrites
  <2>2. /\ pc[th] = "open" /\ pc'[th] = "capture" /\ store' = store
        /\ \A x \in Threads \ {th} : pc'[x] = pc[x]
    BY <1>0, <1>2 DEF OpenTransaction
  <2>3. Committed' = Committed /\ Undecided' = Undecided /\ t \notin Committed \cup Undecided
    BY <2>1 DEF Committed, Undecided, Has
  <2>4. /\ work'[th].tx = t /\ work'[th].todo = work[th].targets
        /\ work'[th].targets = work[th].targets /\ work'[th].after = work[th].after
    BY <1>0, <2>1 DEF Works
  <2>5. Explained'
    BY <2>1, <2>2, <2>3, ExplainedUnread
  <2>6. Writing(th)'
    BY <2>1, <2>2, <2>4 DEF Writing, RecoverPCs, SettlePCs
  <2> QED
    BY <2>2, <2>5, <2>6, WritingStep
<1>3. CASE CaptureBefore(th)
  <2>1. PICK f \in work[th].todo :
          /\ tx \in TxIds /\ journal[tx].phase = "opened" /\ journal[tx].marker = {}
          /\ work' = [work EXCEPT ![th].todo = work[th].todo \ {f}]
          /\ f \in Files /\ journal'[tx].before = [journal[tx].before EXCEPT ![f] = store[f]]
          /\ journal'[tx].targets = journal[tx].targets
          /\ journal'[tx].after = journal[tx].after
          /\ journal'[tx].phase = "opened" /\ journal'[tx].marker = {}
          /\ \A u \in TxIds \ {tx} : journal'[u] = journal[u]
    BY <1>3, JournalWrites
  <2>2. pc[th] = "capture" /\ pc' = pc /\ store' = store
    BY <1>3 DEF CaptureBefore
  <2>3. Committed' = Committed /\ Undecided' = Undecided /\ tx \notin Committed \cup Undecided
    BY <2>1 DEF Committed, Undecided, Has
  <2>4. /\ work'[th].tx = tx /\ work'[th].todo = work[th].todo \ {f}
        /\ work'[th].targets = work[th].targets /\ work'[th].after = work[th].after
    BY <1>0, <2>1 DEF Works
  <2>5. Explained'
    BY <2>1, <2>2, <2>3, ExplainedUnread
  <2>6. /\ journal[tx].targets = work[th].targets /\ journal[tx].after = work[th].after
        /\ work[th].todo \subseteq work[th].targets
        /\ \A g \in work[th].targets \ work[th].todo : journal[tx].before[g] = store[g]
    BY <2>2 DEF Writing
  <2>7. \A g \in work'[th].targets \ work'[th].todo : journal'[tx].before[g] = store'[g]
    <3> SUFFICES ASSUME NEW g \in work[th].targets, g = f \/ g \notin work[th].todo
                 PROVE  journal'[tx].before[g] = store[g]
      BY <2>2, <2>4
    <3>1. g \in Files /\ journal[tx].before \in [Files -> Images]
      BY <1>0, <2>1 DEF Works, Records
    <3>2. journal'[tx].before[g] = IF g = f THEN store[f] ELSE journal[tx].before[g]
      BY <2>1, <3>1
    <3> QED
      BY <2>6, <3>2
  <2>8. Writing(th)'
    BY <2>1, <2>2, <2>4, <2>6, <2>7 DEF Writing, RecoverPCs, SettlePCs
  <2> QED
    BY <2>2, <2>5, <2>8, WritingStep
<1>4. CASE Prepare(th)
  <2>1. /\ tx \in TxIds /\ journal[tx].marker = {}
        /\ Committed' = Committed /\ Undecided = {} /\ Undecided' = {tx}
        /\ \A u \in Committed : u < tx
        /\ journal'[tx].targets = journal[tx].targets
        /\ journal'[tx].before = journal[tx].before
        /\ journal'[tx].after = journal[tx].after
        /\ journal'[tx].marker = {}
        /\ \A u \in TxIds \ {tx} : journal'[u] = journal[u]
    BY <1>4, JournalWrites
  <2>2. /\ pc[th] = "capture" /\ pc'[th] = "apply" /\ store' = store /\ work[th].todo = {}
        /\ \A x \in Threads \ {th} : pc'[x] = pc[x]
        /\ work'[th].tx = tx /\ work'[th].todo = work[th].targets
        /\ work'[th].targets = work[th].targets /\ work'[th].after = work[th].after
    BY <1>0, <1>4 DEF Prepare, Works
  <2>3. /\ journal[tx].targets = work[th].targets /\ journal[tx].after = work[th].after
        /\ \A g \in journal[tx].targets : journal[tx].before[g] = store[g]
    BY <2>2 DEF Writing
  <2>4. journal'[tx].targets \subseteq Files
    BY <1>0, <2>1 DEF Records
  <2>5. Explained'
    BY <2>1, <2>2, <2>3, <2>4, ExplainedPrepared
  <2>6. Writing(th)'
    BY <2>1, <2>2, <2>3 DEF Writing, RecoverPCs, SettlePCs
  <2> QED
    BY <2>2, <2>5, <2>6, WritingStep
<1>5. CASE ApplyTarget(th)
  <2>1. PICK f \in work[th].todo :
          /\ store' = [store EXCEPT ![f] = journal[tx].after[f]]
          /\ work' = [work EXCEPT ![th].todo = work[th].todo \ {f}]
    BY <1>5 DEF ApplyTarget
  <2>2. pc[th] = "apply" /\ UNCHANGED <<journal, pc>>
    BY <1>5 DEF ApplyTarget
  <2>3. /\ tx \in Undecided
        /\ journal[tx].targets = work[th].targets /\ journal[tx].after = work[th].after
        /\ work[th].todo \subseteq work[th].targets
    BY <1>0, <2>2 DEF Local, Attempting, Writing
  <2>4. f \in Files /\ f \in journal[tx].targets
    BY <1>0, <2>3 DEF Works
  <2>5. Explained'
    BY <1>0, <2>1, <2>2, <2>3, <2>4, ExplainedWrite
  <2>6. /\ work'[th].tx = tx /\ work'[th].todo = work[th].todo \ {f}
        /\ work'[th].targets = work[th].targets /\ work'[th].after = work[th].after
    BY <1>0, <2>1 DEF Works
  <2>7. Writing(th)'
    BY <2>2, <2>3, <2>6 DEF Writing, RecoverPCs, SettlePCs
  <2> QED
    BY <2>2, <2>5, <2>7, WritingStep
<1>6. CASE VerifyApplied(th)
  <2>1. CASE Raise(th)
    BY <1>6, <2>1, RaiseWriting DEF VerifyApplied
  <2>2. CASE /\ AllAfter(tx) /\ pc' = [pc EXCEPT ![th] = "seal"]
             /\ UNCHANGED <<disk, lock, chainTip, attempt, task, work, reply>>
    <3>1. /\ pc[th] = "apply" /\ pc'[th] = "seal" /\ UNCHANGED <<journal, store, work>>
          /\ \A x \in Threads \ {th} : pc'[x] = pc[x]
      BY <1>0, <1>6, <2>2 DEF VerifyApplied
    <3>2. Writing(th)'
      BY <2>2, <3>1 DEF Writing, RecoverPCs, SettlePCs, AllAfter, IsAfter
    <3> QED
      BY <3>1, <3>2, MoveWriting
  <2> QED
    BY <1>6, <2>1, <2>2 DEF VerifyApplied, VerifyAfter
<1>7. CASE Seal(th)
  <2>1. /\ pc[th] = "seal" /\ pc'[th] = "publish" /\ store' = store
        /\ \A x \in Threads \ {th} : pc'[x] = pc[x]
    BY <1>0, <1>7 DEF Seal
  <2>2. PICK t \in Undecided :
        /\ t = tx
        /\ Undecided = {t} /\ Undecided' = {}
        /\ Committed' = Committed \cup {t}
        /\ \A u \in Committed : u < t
        /\ journal'[t].marker = {"commit"}
        /\ journal'[t].targets = journal[t].targets
        /\ journal'[t].before = journal[t].before
        /\ journal'[t].after = journal[t].after
        /\ \A u \in TxIds \ {t} : journal'[u] = journal[u]
    BY <1>7, <2>1, MarkWrites
  <2>3. AllAfter(t)
    BY <2>1, <2>2 DEF Writing
  <2>4. t \in TxIds /\ ~Has(t, "conflict")'
    BY <2>2 DEF Undecided, Has
  <2>5. Explained'
    BY <2>1, <2>2, <2>3, <2>4, ExplainedDecided
  <2>6. Writing(th)'
    BY <2>1 DEF Writing, RecoverPCs, SettlePCs
  <2> QED
    BY <2>1, <2>5, <2>6, WritingStep
<1>8. CASE Publish(th) \/ Finish(th)
  <2>1. CASE Raise(th)
    BY <1>8, <2>1, RaiseWriting DEF Publish, Finish
  <2>2. CASE ~Raise(th)
    <3>1. /\ pc[th] \in {"publish", "finish"} /\ pc'[th] \in {"finish", "scope"}
          /\ UNCHANGED <<journal, store>>
          /\ \A x \in Threads \ {th} : pc'[x] = pc[x]
      BY <1>0, <1>8, <2>2 DEF Publish, Finish, VerifyAfter
    <3>2. Writing(th)'
      BY <3>1 DEF Writing, RecoverPCs, SettlePCs
    <3> QED
      BY <3>1, <3>2, MoveWriting
  <2> QED
    BY <2>1, <2>2
<1>9. CASE Resolve(th)
  <2>1. /\ pc[th] = "resolve" /\ pc'[th] = "scope" /\ UNCHANGED <<journal, store>>
        /\ \A x \in Threads \ {th} : pc'[x] = pc[x]
    BY <1>0, <1>9 DEF Resolve
  <2>2. Writing(th)'
    BY <2>1 DEF Writing, RecoverPCs, SettlePCs
  <2> QED
    BY <2>1, <2>2, MoveWriting
<1> QED
  BY <1>1, <1>2, <1>3, <1>4, <1>5, <1>6, <1>7, <1>8, <1>9

LEMMA CrashNext ==
  ASSUME IInv, CrashInv, [Next]_vars
  PROVE  CrashInv'
<1> DEFINE Goal == Explained' /\ \A x \in Threads : Writing(x)'
<1> SUFFICES ASSUME foreign' = 0 PROVE Goal
  BY DEF CrashInv
<1>0. pc \in [Threads -> PCs] /\ foreign \in Nat /\ \A x \in Threads : Local(x)
  BY ConstantsOK DEF IInv, TypeOK
<1>1. ASSUME NEW f \in Files, ForeignWrite(f) PROVE FALSE
  BY <1>0, <1>1 DEF ForeignWrite
<1>2. foreign = 0
  <2>1. ASSUME NEW th \in Threads,
               \/ EnterScope(th) \/ ExitScope(th) \/ Interrupt(th) \/ Fault(th)
               \/ StartCommit(th) \/ RecoverRefuse(th) \/ RecoverDecide(th)
               \/ RestoreBefore(th) \/ RestoreVerify(th) \/ Settle(th) \/ AfterSettle(th)
               \/ RecoverChain(th) \/ RecoverExport(th)
        PROVE  foreign' = foreign
    BY <2>1 DEF EnterScope, ExitScope, Interrupt, Fault, StartCommit, RecoverRefuse,
         RecoverDecide, RestoreBefore, RestoreVerify, Settle, AfterSettle, RecoverChain,
         RecoverExport, Raise, disk
  <2>2. ASSUME NEW th \in Threads,
               \/ OpenTransaction(th) \/ CaptureBefore(th) \/ Prepare(th) \/ ApplyTarget(th)
               \/ VerifyApplied(th) \/ Seal(th) \/ Publish(th) \/ Finish(th) \/ Resolve(th)
        PROVE  foreign' = foreign
    BY <2>2 DEF OpenTransaction, CaptureBefore, Prepare, ApplyTarget, VerifyApplied,
         VerifyAfter, Seal, Publish, Finish, Resolve, Raise, disk
  <2>3. ASSUME NEW p \in Processes, Crash(p) PROVE foreign' = foreign
    BY <2>3 DEF Crash, disk
  <2>4. CASE UNCHANGED vars
    BY <2>4 DEF vars
  <2> QED
    BY <1>1, <2>1, <2>2, <2>3, <2>4 DEF Next, Step
<1>3. Explained /\ \A x \in Threads : Writing(x)
  BY <1>2 DEF CrashInv
<1>4. ASSUME NEW th \in Threads, EnterScope(th) PROVE Goal
  <2>1. /\ lock = NoThread /\ pc'[th] = "recover" /\ task'[th] = "enter"
        /\ UNCHANGED <<journal, store>> /\ \A x \in Threads \ {th} : pc'[x] = pc[x]
    BY <1>0, <1>4 DEF EnterScope, disk, IInv, TypeOK
  <2>2. Writing(th)'
    BY <2>1 DEF Writing
  <2> QED
    BY <1>3, <2>1, <2>2, MoveWriting
<1>5. ASSUME NEW th \in Threads, ExitScope(th) \/ Interrupt(th) PROVE Goal
  BY <1>3, <1>5, LeaveWriting DEF ExitScope, Interrupt
<1>6. ASSUME NEW th \in Threads, Fault(th) PROVE Goal
  BY <1>3, <1>6, RaiseWriting DEF Fault
<1>7. ASSUME NEW th \in Threads, StartCommit(th) \/ Step(th) PROVE Goal
  BY <1>3, <1>7, RecoveryWriting, CommitWriting DEF Step
<1>8. ASSUME NEW p \in Processes, Crash(p) PROVE Goal
  <2>1. UNCHANGED <<journal, store>>
    BY <1>8 DEF Crash, disk
  <2>2. ASSUME NEW x \in Threads PROVE Writing(x)'
    <3>1. CASE ProcessOf[x] = p
      <4>1. pc'[x] = "idle"
        BY <1>8, <3>1 DEF Crash
      <4> QED
        BY <4>1 DEF Writing, RecoverPCs, SettlePCs
    <3>2. CASE ProcessOf[x] # p
      <4>1. pc'[x] = pc[x] /\ task'[x] = task[x] /\ work'[x] = work[x]
        BY <1>8, <3>2 DEF Crash
      <4> QED
        BY <1>3, <2>1, <4>1 DEF Writing, AllAfter, IsAfter, Restored
    <3> QED
      BY <3>1, <3>2
  <2> QED
    BY <1>3, <2>1, <2>2, SameDisk
<1>9. CASE UNCHANGED vars
  BY <1>3, <1>9, SameDisk DEF vars, Writing, AllAfter, IsAfter, Restored
<1> QED
  BY <1>1, <1>4, <1>5, <1>6, <1>7, <1>8, <1>9 DEF Next

\* The invariant of all theorems about the journal: besides what the threads rely
\* on, a conflict stops everyone, and while no write goes past the journal the
\* committed and the undecided transactions explain every document.
THEOREM JournalInvariance == Spec => []JournalInv
<1>1. Init => CrashInv
  <2> SUFFICES ASSUME Init PROVE Explained /\ \A x \in Threads : Writing(x)
    BY DEF CrashInv
  <2>1. \A t \in TxIds : journal[t].phase = "absent" /\ journal[t].marker = {}
    BY DEF Init, NoRecord
  <2>2. \A x \in Threads : pc[x] = "idle"
    BY DEF Init
  <2> QED
    BY <2>1, <2>2 DEF Explained, ImagesChain, DocumentsHold, HalfWritten, Newest,
         Committed, Undecided, Has, Writing, RecoverPCs, SettlePCs
<1>2. IInv /\ CrashInv /\ [Next]_vars => CrashInv'
  BY CrashNext
<1>3. IInv /\ ConflictStops /\ CrashInv <=> JournalInv
  BY DEF JournalInv
<1> QED
  BY <1>1, <1>2, <1>3, Invariance, ConflictsStop, PTL DEF Spec

-------------------------------------------------------------------------------
(***************************************************************************)
(* The chain of predecessors is the order of creation.                     *)
(***************************************************************************)
LEMMA PredFacts ==
  ASSUME LineageLinear, NEW t \in Committed
  PROVE  /\ t \in TxIds /\ t \in Nat /\ t # NoTx
         /\ journal[t].pred \in Committed \cup {NoTx}
         /\ journal[t].pred \in Nat /\ journal[t].pred < t
         /\ \A u \in Committed : u < t => u <= journal[t].pred
<1>1. t \in TxIds /\ t \in Nat /\ NoTx < t /\ NoTx \in Nat
  BY TxIdsAreNat DEF Committed
<1>2. IsLatest(journal[t].pred, {u \in Committed : u < t})
  BY DEF LineageLinear
<1>3. \/ journal[t].pred \in Committed /\ journal[t].pred < t
      \/ journal[t].pred = NoTx
  BY <1>2 DEF IsLatest
<1>4. journal[t].pred \in Nat
  BY <1>1, <1>3, TxIdsAreNat DEF Committed
<1>5. t # NoTx
  BY <1>1
<1> QED
  BY <1>1, <1>2, <1>3, <1>4, <1>5 DEF IsLatest

LEMMA LineIsLinear ==
  ASSUME LineageLinear
  PROVE  Linear(Committed)
<1>1. \A t \in Committed : journal[t].pred \in Committed \cup {NoTx}
  BY PredFacts
<1>2. ASSUME NEW t \in Committed, NEW u \in Committed, journal[t].pred = journal[u].pred
      PROVE  t = u
  <2>1. t \in Nat /\ u \in Nat /\ journal[t].pred \in Nat
    BY PredFacts
  <2>2. ~(t < u)
    BY <1>2, <2>1, PredFacts
  <2>3. ~(u < t)
    BY <1>2, <2>1, PredFacts
  <2> QED
    BY <2>1, <2>2, <2>3
<1>3. ASSUME NEW S \in SUBSET Committed, S # {} PROVE \E t \in S : journal[t].pred \notin S
  <2>1. S \subseteq Nat
    BY PredFacts
  <2>2. PICK t \in S : \A u \in S : t <= u
    BY <1>3, <2>1, SmallestElement
  <2>3. t \in Nat /\ journal[t].pred \in Nat /\ journal[t].pred < t
    BY PredFacts
  <2>4. journal[t].pred \notin S
    BY <2>2, <2>3
  <2> QED
    BY <2>4
<1> QED
  BY <1>1, <1>2, <1>3 DEF Linear

\* Walking the chain back from t meets every committed transaction before it.
LEMMA LineageIsPrefix ==
  ASSUME LineageLinear, NEW t \in Committed
  PROVE  Lineage(t, Committed) = {u \in Committed : u <= t}
<1>1. ASSUME NEW u \in Lineage(t, Committed) PROVE u <= t
  <2> DEFINE S == {v \in Committed : v <= t}
  <2>1. t \in S
    BY PredFacts
  <2>2. ASSUME NEW v \in S PROVE journal[v].pred \in S \cup {NoTx}
    <3>1. /\ v \in Nat /\ t \in Nat /\ journal[v].pred \in Nat /\ journal[v].pred < v /\ v <= t
          /\ journal[v].pred \in Committed \cup {NoTx}
      BY PredFacts
    <3>2. journal[v].pred <= t
      BY <3>1
    <3> QED
      BY <3>1, <3>2
  <2>3. S \in SUBSET Committed
    OBVIOUS
  <2> HIDE DEF S
  <2>4. u \in S
    BY <2>1, <2>2, <2>3 DEF Lineage
  <2> QED
    BY <2>4 DEF S
<1>2. ASSUME NEW u \in Committed, u <= t, NEW S \in SUBSET Committed,
             t \in S, \A v \in S : journal[v].pred \in S \cup {NoTx}, u \notin S
      PROVE  FALSE
  <2> DEFINE T == {v \in S : u < v}
  <2>1. u \in Nat /\ t \in Nat /\ u # t /\ NoTx < u /\ NoTx \in Nat
    BY <1>2, PredFacts, TxIdsAreNat
  <2>2. t \in T /\ T \subseteq Nat
    <3>1. u < t
      BY <1>2, <2>1
    <3> QED
      BY <1>2, <3>1, PredFacts
  <2>3. PICK v \in T : \A w \in T : v <= w
    BY <2>2, SmallestElement
  <2>4. /\ v \in S /\ v \in Nat /\ u < v /\ journal[v].pred \in Nat /\ journal[v].pred < v
        /\ u <= journal[v].pred /\ journal[v].pred \in S \cup {NoTx}
    BY <1>2, <2>3, PredFacts
  <2>5. journal[v].pred \in S /\ journal[v].pred # u
    BY <1>2, <2>1, <2>4
  <2>6. journal[v].pred \in T
    BY <2>1, <2>4, <2>5
  <2> QED
    BY <2>3, <2>4, <2>6
<1> QED
  BY <1>1, <1>2 DEF Lineage

\* The check of the chain that ends recovery finds what Explained says.
LEMMA ExplainedIsSound ==
  ASSUME LineageLinear, ImagesChain, DocumentsHold, Undecided = {}
  PROVE  ChainSound(Committed)
<1>1. ASSUME NEW t \in Committed, NEW u \in Committed, NEW f \in journal[t].targets,
             PreviousWriter(u, t, f, Committed)
      PROVE  journal[t].before[f] = journal[u].after[f]
  <2>1. /\ u <= t /\ u # t /\ f \in journal[u].targets
        /\ \A v \in Committed : v <= t /\ v # t /\ f \in journal[v].targets => v <= u
    BY <1>1, LineageIsPrefix DEF PreviousWriter
  <2>2. t \in Nat /\ \A v \in Committed : v \in Nat
    BY PredFacts
  <2>3. Newest(u, f, {v \in Committed : v < t})
    BY <2>1, <2>2 DEF Newest
  <2> QED
    BY <2>3 DEF ImagesChain
<1>2. ASSUME NEW u \in Committed, NEW f \in Files, LastWriter(u, f, Committed)
      PROVE  store[f] = journal[u].after[f]
  <2>1. Newest(u, f, Committed)
    BY <1>2, LineageIsPrefix DEF LastWriter, Newest
  <2> QED
    BY <2>1 DEF DocumentsHold
<1> QED
  BY <1>1, <1>2, LineIsLinear DEF ChainSound

LEMMA NothingRefused ==
  ASSUME Orderly, \A t \in TxIds : ~Has(t, "conflict")
  PROVE  Refused = {}
<1>1. ASSUME NEW t \in TxIds
      PROVE  /\ ~(Cardinality(journal[t].marker) > 1)
             /\ journal[t].marker # {} => journal[t].phase = "prepared"
  <2>1. journal[t].marker = {} \/ \E m \in Markers : journal[t].marker = {m}
    BY DEF Orderly
  <2>2. Cardinality(journal[t].marker) = 0 \/ Cardinality(journal[t].marker) = 1
    BY <2>1, FS_EmptySet, FS_Singleton
  <2> QED
    BY <2>2 DEF Orderly
<1> QED
  BY <1>1 DEF Refused

\* recover_transactions never refuses a data directory that nobody wrote past
\* the journal to, however often it was interrupted.
THEOREM RecoveryNeverRefuses == Spec => []CrashesNeverBlock
<1>1. JournalInv => CrashesNeverBlock
  BY NothingRefused, ExplainedIsSound
     DEF JournalInv, CrashInv, IInv, JournalOK, Explained, CrashesNeverBlock
<1> QED
  BY <1>1, JournalInvariance, PTL


-------------------------------------------------------------------------------
(***************************************************************************)
(* The abstract variables.                                                 *)
(***************************************************************************)
NoRequest == [targets |-> {}, after |-> NoImages]

Request(th) ==
  IF Busy(th) THEN [targets |-> work[th].targets, after |-> work[th].after]
  ELSE NoRequest

Stage(th) ==
  IF ~Busy(th) THEN "idle"
  ELSE IF Applied(work[th].tx) THEN "applied" ELSE "asked"

Requested == [th \in Threads |-> Request(th)]
Stages    == [th \in Threads |-> Stage(th)]

LEMMA AbstractVars ==
  /\ Atomic!vars = <<Settled, Requested, Stages, reply>>
  /\ Atomic!vars' = <<Settled', Requested', Stages', reply'>>
  BY DEF Atomic!vars, Requested, Stages, Request, Stage, NoRequest

\* The actions of AtomicStore in these words.
LEMMA AbstractActions ==
  /\ \A c : Atomic!Ask(c) <=>
       /\ Stages[c] = "idle"
       /\ \E S \in SUBSET Files \ {{}} : \E new \in [Files -> Images] :
            Requested' = [Requested EXCEPT ![c] = [targets |-> S, after |-> new]]
       /\ Stages' = [Stages EXCEPT ![c] = "asked"]
       /\ reply' = [reply EXCEPT ![c] = "none"]
       /\ Settled' = Settled
  /\ \A c : Atomic!Apply(c) <=>
       /\ Stages[c] = "asked"
       /\ Settled' = [f \in Files |->
                        IF f \in Requested[c].targets THEN Requested[c].after[f]
                        ELSE Settled[f]]
       /\ Stages' = [Stages EXCEPT ![c] = "applied"]
       /\ Requested' = Requested /\ reply' = reply
  /\ \A c : Atomic!Answer(c) <=>
       /\ \/ Stages[c] = "applied" /\ reply' = [reply EXCEPT ![c] = "committed"]
          \/ Stages[c] = "asked" /\ reply' = [reply EXCEPT ![c] = "failed"]
          \/ Stages[c] # "idle" /\ reply' = [reply EXCEPT ![c] = "raised"]
       /\ Stages' = [Stages EXCEPT ![c] = "idle"]
       /\ Requested' = [Requested EXCEPT ![c] = NoRequest]
       /\ Settled' = Settled
  /\ \A S : Atomic!Forget(S) <=>
       /\ Requested' = [c \in Threads |-> IF c \in S THEN NoRequest ELSE Requested[c]]
       /\ Stages' = [c \in Threads |-> IF c \in S THEN "idle" ELSE Stages[c]]
       /\ reply' = [c \in Threads |-> IF c \in S THEN "none" ELSE reply[c]]
       /\ Settled' = Settled
<1> USE DEF Requested, Stages, Request, Stage, NoRequest, NoImages, Images
<1>1. \A c : Atomic!Ask(c) <=>
       /\ Stages[c] = "idle"
       /\ \E S \in SUBSET Files \ {{}} : \E new \in [Files -> Images] :
            Requested' = [Requested EXCEPT ![c] = [targets |-> S, after |-> new]]
       /\ Stages' = [Stages EXCEPT ![c] = "asked"]
       /\ reply' = [reply EXCEPT ![c] = "none"]
       /\ Settled' = Settled
  BY DEF Atomic!Ask, Atomic!Images
<1>2. \A c : Atomic!Apply(c) <=>
       /\ Stages[c] = "asked"
       /\ Settled' = [f \in Files |->
                        IF f \in Requested[c].targets THEN Requested[c].after[f]
                        ELSE Settled[f]]
       /\ Stages' = [Stages EXCEPT ![c] = "applied"]
       /\ Requested' = Requested /\ reply' = reply
  BY DEF Atomic!Apply
<1>3. \A c : Atomic!Answer(c) <=>
       /\ \/ Stages[c] = "applied" /\ reply' = [reply EXCEPT ![c] = "committed"]
          \/ Stages[c] = "asked" /\ reply' = [reply EXCEPT ![c] = "failed"]
          \/ Stages[c] # "idle" /\ reply' = [reply EXCEPT ![c] = "raised"]
       /\ Stages' = [Stages EXCEPT ![c] = "idle"]
       /\ Requested' = [Requested EXCEPT ![c] = NoRequest]
       /\ Settled' = Settled
  BY DEF Atomic!Answer, Atomic!NoRequest
<1>4. \A S : Atomic!Forget(S) <=>
       /\ Requested' = [c \in Threads |-> IF c \in S THEN NoRequest ELSE Requested[c]]
       /\ Stages' = [c \in Threads |-> IF c \in S THEN "idle" ELSE Stages[c]]
       /\ reply' = [c \in Threads |-> IF c \in S THEN "none" ELSE reply[c]]
       /\ Settled' = Settled
  BY DEF Atomic!Forget, Atomic!NoRequest
<1> QED
  BY <1>1, <1>2, <1>3, <1>4

-------------------------------------------------------------------------------
(***************************************************************************)
(* The value of the documents.                                             *)
(***************************************************************************)

\* The document contents while t is undecided.
ValueDuring(t) ==
  [f \in Files |->
     IF f \in journal[t].targets /\ ~AllAfter(t) THEN journal[t].before[f] ELSE store[f]]

LEMMA SettledNone ==
  /\ Undecided = {} /\ store \in [Files -> Images] => Settled = store
  /\ Undecided' = {} /\ store' \in [Files -> Images] => Settled' = store'
<1>1. Undecided = {} => Settled = [f \in Files |-> store[f]]
  BY DEF Settled
<1>2. Undecided' = {} => Settled' = [f \in Files |-> store'[f]]
  BY DEF Settled
<1> QED
  BY <1>1, <1>2

LEMMA SettledOne ==
  ASSUME NEW t
  PROVE  /\ Undecided = {t} => Settled = ValueDuring(t)
         /\ Undecided' = {t} => Settled' = ValueDuring(t)'
<1>1. ASSUME Undecided = {t} PROVE Settled = ValueDuring(t)
  <2>1. (CHOOSE u \in Undecided : TRUE) = t
    BY <1>1
  <2>2. \A f \in Files :
          (\E u \in Undecided : f \in journal[u].targets /\ ~AllAfter(u))
            <=> f \in journal[t].targets /\ ~AllAfter(t)
    BY <1>1
  <2> QED
    BY <2>1, <2>2 DEF Settled, ValueDuring
<1>2. ASSUME Undecided' = {t} PROVE Settled' = ValueDuring(t)'
  <2>1. (CHOOSE u \in Undecided' : TRUE) = t
    BY <1>2
  <2>2. \A f \in Files :
          (\E u \in Undecided' : f \in journal'[u].targets /\ ~AllAfter(u)')
            <=> f \in journal'[t].targets /\ ~AllAfter(t)'
    BY <1>2
  <2> QED
    BY <2>1, <2>2 DEF Settled, ValueDuring
<1> QED
  BY <1>1, <1>2

LEMMA SettledSame ==
  ASSUME journal' = journal, store' = store
  PROVE  Settled' = Settled
<1>1. Undecided' = Undecided /\ \A t : AllAfter(t)' = AllAfter(t)
  BY DEF Undecided, AllAfter, IsAfter
<1> QED
  BY <1>1 DEF Settled

LEMMA AppliedSame ==
  ASSUME journal' = journal,
         store' = store \/ \A t \in Undecided : AllAfter(t)' <=> AllAfter(t)
  PROVE  \A t : Applied(t)' <=> Applied(t)
<1>1. Undecided' = Undecided
  BY DEF Undecided
<1>2. \A t \in Undecided : AllAfter(t)' <=> AllAfter(t)
  BY DEF AllAfter, IsAfter
<1> QED
  BY <1>1, <1>2 DEF Applied, Has

-------------------------------------------------------------------------------
(***************************************************************************)
(* One thread moves.                                                       *)
(***************************************************************************)
LEMMA AloneMoves ==
  ASSUME IInv, IInv', NEW th \in Threads, pc[th] # "idle" \/ lock = NoThread,
         \A x \in Threads \ {th} : pc'[x] = pc[x] /\ reply'[x] = reply[x]
  PROVE  /\ Requested' = [Requested EXCEPT ![th] = Request(th)']
         /\ Stages' = [Stages EXCEPT ![th] = Stage(th)']
         /\ reply' = [reply EXCEPT ![th] = reply'[th]]
         /\ Requested[th] = Request(th) /\ Stages[th] = Stage(th)
<1>1. \A x \in Threads \ {th} : pc[x] = "idle" /\ pc'[x] = "idle"
  BY OthersIdle DEF IInv
<1>2. \A x \in Threads \ {th} : /\ Request(x)' = Request(x)
                                /\ Stage(x)' = Stage(x)
  BY <1>1 DEF Request, Stage, Busy
<1>3. \A x \in Threads : reply'[x] = [reply EXCEPT ![th] = reply'[th]][x]
  BY DEF IInv, TypeOK
<1>4. reply' = [reply EXCEPT ![th] = reply'[th]]
  BY <1>3 DEF IInv, TypeOK
<1>5. Requested' = [Requested EXCEPT ![th] = Request(th)']
  BY <1>2 DEF Requested
<1>6. Stages' = [Stages EXCEPT ![th] = Stage(th)']
  BY <1>2 DEF Stages
<1> QED
  BY <1>4, <1>5, <1>6 DEF Requested, Stages

\* A step that the callers do not see.
LEMMA QuietMove ==
  ASSUME IInv, IInv', NEW th \in Threads, pc[th] # "idle" \/ lock = NoThread,
         \A x \in Threads \ {th} : pc'[x] = pc[x] /\ reply'[x] = reply[x],
         Settled' = Settled, Request(th)' = Request(th), Stage(th)' = Stage(th),
         reply'[th] = reply[th]
  PROVE  UNCHANGED Atomic!vars
<1>0. /\ Requested = [x \in Threads |-> Requested[x]]
      /\ Stages = [x \in Threads |-> Stages[x]]
      /\ reply = [x \in Threads |-> reply[x]]
  BY DEF Requested, Stages, IInv, TypeOK
<1>1. Requested' = Requested /\ Stages' = Stages /\ reply' = reply
  BY <1>0, AloneMoves
<1> QED
  BY <1>1, AbstractVars

\* A thread in the middle of a commit goes on.
LEMMA GoesOn ==
  ASSUME NEW th \in Threads, Busy(th), Busy(th)',
         work'[th].targets = work[th].targets, work'[th].after = work[th].after,
         Applied(work[th].tx)' <=> Applied(work[th].tx)
  PROVE  Request(th)' = Request(th) /\ Stage(th)' = Stage(th)
BY DEF Request, Stage

\* The frames of th are gone.
LEMMA LeaveForgets ==
  ASSUME IInv, IInv', NEW th \in Threads, pc[th] # "idle", Leave(th),
         UNCHANGED <<disk, chainTip, attempt>>
  PROVE  [Atomic!Next]_Atomic!vars
<1>1. /\ pc'[th] = "idle" /\ reply'[th] = "none" /\ journal' = journal /\ store' = store
      /\ \A x \in Threads \ {th} : pc'[x] = pc[x] /\ reply'[x] = reply[x]
  BY DEF Leave, disk, IInv, TypeOK
<1>2. Request(th)' = NoRequest /\ Stage(th)' = "idle"
  BY <1>1 DEF Request, Stage, Busy
<1>3. Settled' = Settled
  BY <1>1, SettledSame
<1>4. /\ Requested' = [Requested EXCEPT ![th] = NoRequest]
      /\ Stages' = [Stages EXCEPT ![th] = "idle"]
      /\ reply' = [reply EXCEPT ![th] = "none"]
  BY <1>1, <1>2, AloneMoves
<1>5. /\ Requested' = [c \in Threads |-> IF c \in {th} THEN NoRequest ELSE Requested[c]]
      /\ Stages' = [c \in Threads |-> IF c \in {th} THEN "idle" ELSE Stages[c]]
      /\ reply' = [c \in Threads |-> IF c \in {th} THEN "none" ELSE reply[c]]
  BY <1>4 DEF Requested, Stages, IInv, TypeOK
<1>6. Atomic!Forget({th})
  BY <1>3, <1>5, AbstractActions
<1> QED
  BY <1>6 DEF Atomic!Next

\* A step raises: the scope is left, the commit goes on to its resolution, or
\* the error is the answer.
LEMMA RaiseAnswers ==
  ASSUME IInv, IInv', NEW th \in Threads, pc[th] \notin {"idle", "scope"}, Raise(th)
  PROVE  [Atomic!Next]_Atomic!vars
<1>1. CASE Leave(th) /\ UNCHANGED <<disk, chainTip, attempt>>
  BY <1>1, LeaveForgets
<1>2. CASE /\ task[th] = "commit"
           /\ pc' = [pc EXCEPT ![th] = "recover"]
           /\ task' = [task EXCEPT ![th] = "resolve"]
           /\ work' = [work EXCEPT ![th].rec = NoTx, ![th].todo = {}]
           /\ UNCHANGED <<disk, lock, chainTip, attempt, reply>>
  <2>1. /\ pc'[th] = "recover" /\ task'[th] = "resolve"
        /\ journal' = journal /\ store' = store /\ reply' = reply
        /\ \A x \in Threads \ {th} : pc'[x] = pc[x]
    BY <1>2 DEF disk, IInv, TypeOK
  <2>2. /\ work'[th].tx = work[th].tx /\ work'[th].targets = work[th].targets
        /\ work'[th].after = work[th].after
    BY <1>2 DEF IInv, TypeOK, Works
  <2>3. Busy(th) /\ Busy(th)'
    BY <1>2, <2>1 DEF Busy
  <2>4. Settled' = Settled /\ \A t : Applied(t)' <=> Applied(t)
    BY <2>1, SettledSame, AppliedSame
  <2>5. Applied(work[th].tx)' <=> Applied(work[th].tx)
    BY <2>2, <2>4
  <2>6. Request(th)' = Request(th) /\ Stage(th)' = Stage(th)
    BY <2>2, <2>3, <2>5, GoesOn
  <2> QED
    BY <2>1, <2>4, <2>6, QuietMove
<1>3. CASE /\ task[th] = "resolve"
           /\ pc' = [pc EXCEPT ![th] = "scope"]
           /\ reply' = [reply EXCEPT ![th] = "raised"]
           /\ UNCHANGED <<disk, lock, chainTip, attempt, task>>
  <2>1. /\ pc'[th] = "scope" /\ reply'[th] = "raised"
        /\ journal' = journal /\ store' = store
        /\ \A x \in Threads \ {th} : pc'[x] = pc[x] /\ reply'[x] = reply[x]
    BY <1>3 DEF disk, IInv, TypeOK
  <2>2. Request(th)' = NoRequest /\ Stage(th)' = "idle" /\ Stage(th) # "idle"
    BY <1>3, <2>1 DEF Request, Stage, Busy
  <2>3. Settled' = Settled
    BY <2>1, SettledSame
  <2>4. /\ Requested' = [Requested EXCEPT ![th] = NoRequest]
        /\ Stages' = [Stages EXCEPT ![th] = "idle"] /\ Stages[th] # "idle"
    BY <2>1, <2>2, AloneMoves
  <2>5. Atomic!Answer(th)
    BY <1>3, <2>3, <2>4, AbstractActions
  <2> QED
    BY <2>5 DEF Atomic!Next
<1> QED
  BY <1>1, <1>2, <1>3 DEF Raise

\* A step inside a commit or a recovery that settles nothing anew.
LEMMA DiskMove ==
  ASSUME IInv, IInv', NEW th \in Threads,
         pc[th] \notin {"idle", "scope"}, pc'[th] \notin {"idle", "scope"},
         \A x \in Threads \ {th} : pc'[x] = pc[x], task' = task, reply' = reply,
         work'[th].tx = work[th].tx, work'[th].targets = work[th].targets,
         work'[th].after = work[th].after,
         Settled' = Settled, \A t \in TxIds : Applied(t)' <=> Applied(t)
  PROVE  UNCHANGED Atomic!vars
<1>1. Applied(work[th].tx)' <=> Applied(work[th].tx)
  <2>1. work[th].tx \in TxIds \/ work[th].tx = NoTx
    BY DEF IInv, TypeOK, Works
  <2> QED
    BY <2>1 DEF Applied
<1>2. Request(th)' = Request(th) /\ Stage(th)' = Stage(th)
  <2>1. CASE Busy(th)
    BY <1>1, <2>1, GoesOn DEF Busy
  <2>2. CASE ~Busy(th)
    BY <2>2 DEF Request, Stage, Busy
  <2> QED
    BY <2>1, <2>2
<1> QED
  BY <1>2, QuietMove

LEMMA LabelMove ==
  ASSUME IInv, IInv', NEW th \in Threads,
         pc[th] \notin {"idle", "scope"}, pc'[th] \notin {"idle", "scope"},
         \A x \in Threads \ {th} : pc'[x] = pc[x], task' = task, reply' = reply,
         work'[th].tx = work[th].tx, work'[th].targets = work[th].targets,
         work'[th].after = work[th].after, journal' = journal, store' = store
  PROVE  UNCHANGED Atomic!vars
<1>1. Settled' = Settled /\ \A t \in TxIds : Applied(t)' <=> Applied(t)
  BY SettledSame, AppliedSame
<1> QED
  BY <1>1, DiskMove

\* The value does not change when the marker says what the documents say.
LEMMA DecidedValue ==
  ASSUME NEW t \in TxIds, Undecided = {t}, Undecided' = {}, store' = store,
         store \in [Files -> Images],
         \A u \in TxIds \ {t} : journal'[u] = journal[u],
         \/ AllAfter(t) /\ journal'[t].marker = {"commit"}
         \/ ~AllAfter(t) /\ Restored(t) /\ journal'[t].marker = {"abort"}
  PROVE  Settled' = Settled /\ \A u \in TxIds : Applied(u)' <=> Applied(u)
<1>1. Settled' = store
  BY SettledNone
<1>2. Settled = store
  <2>1. \A f \in Files : ValueDuring(t)[f] = store[f]
    BY DEF ValueDuring, Restored
  <2>2. ValueDuring(t) = store
    BY <2>1 DEF ValueDuring
  <2> QED
    BY <2>2, SettledOne
<1>3. Applied(t)' <=> Applied(t)
  <2>1. t # NoTx /\ ~Has(t, "commit")
    BY TxIdsAreNat DEF Undecided, Has
  <2> QED
    BY <2>1 DEF Applied, Has
<1>4. \A u \in TxIds \ {t} : Applied(u)' <=> Applied(u)
  BY DEF Applied, Has
<1> QED
  BY <1>1, <1>2, <1>3, <1>4

-------------------------------------------------------------------------------
(***************************************************************************)
(* The steps of a recovery are not seen.                                   *)
(***************************************************************************)
LEMMA RecoveryRefines ==
  ASSUME IInv, IInv', Explained, NEW th \in Threads, Writing(th),
         \/ RecoverRefuse(th) \/ RecoverDecide(th) \/ RestoreBefore(th)
         \/ RestoreVerify(th) \/ Settle(th) \/ AfterSettle(th)
         \/ RecoverChain(th) \/ RecoverExport(th)
  PROVE  [Atomic!Next]_Atomic!vars
<1>0. /\ TypeOK /\ JournalOK /\ Local(th) /\ work[th] \in Works
      /\ pc \in [Threads -> PCs] /\ task \in [Threads -> {"enter", "commit", "resolve"}]
      /\ journal \in [TxIds -> Records] /\ store \in [Files -> Images]
      /\ work \in [Threads -> Works]
  BY DEF IInv, TypeOK
<1> USE DEF Goto, disk
<1> DEFINE rec == work[th].rec
<1>1. CASE RecoverRefuse(th)
  BY <1>1, RaiseAnswers DEF RecoverRefuse
<1>2. CASE RecoverDecide(th)
  <2>1. PICK t \in Undecided :
          /\ pc' = [pc EXCEPT ![th] = Decision(t)]
          /\ work' = [work EXCEPT ![th].rec = t, ![th].todo = journal[t].targets]
    BY <1>2 DEF RecoverDecide
  <2>2. /\ pc[th] = "recover" /\ pc'[th] \notin {"idle", "scope"}
        /\ \A x \in Threads \ {th} : pc'[x] = pc[x]
        /\ UNCHANGED <<journal, store, task, reply>>
    BY <1>0, <1>2, <2>1 DEF RecoverDecide, Decision
  <2>3. /\ work'[th].tx = work[th].tx /\ work'[th].targets = work[th].targets
        /\ work'[th].after = work[th].after
    BY <1>0, <2>1 DEF Works
  <2> QED
    BY <2>2, <2>3, LabelMove
<1>3. CASE RestoreBefore(th)
  <2>1. PICK f \in work[th].todo :
          /\ store' = [store EXCEPT ![f] = journal[rec].before[f]]
          /\ work' = [work EXCEPT ![th].todo = work[th].todo \ {f}]
    BY <1>3 DEF RestoreBefore
  <2>2. pc[th] = "restore" /\ UNCHANGED <<journal, pc, task, reply>>
    BY <1>3 DEF RestoreBefore
  <2>3. /\ rec \in Undecided /\ f \in journal[rec].targets /\ ~AllAfter(rec) /\ f \in Files
    BY <1>0, <2>2 DEF Local, Recovering, Writing, Works
  <2>4. PICK t : t = rec
    OBVIOUS
  <2>5. Undecided = {t} /\ Undecided' = {t} /\ t \in TxIds
    <3>1. Undecided' = Undecided
      BY <2>2 DEF Undecided
    <3> QED
      BY <1>0, <2>3, <2>4, <3>1, OneUndecided DEF Undecided
  <2>6. /\ work'[th].rec = rec /\ work'[th].tx = work[th].tx
        /\ work'[th].targets = work[th].targets /\ work'[th].after = work[th].after
    BY <1>0, <2>1 DEF Works
  <2>7. ~AllAfter(t)'
    <3>1. PICK g \in journal[t].targets : store[g] # journal[t].after[g]
      BY <2>3, <2>4 DEF AllAfter, IsAfter
    <3>2. store[g] = journal[t].before[g] /\ g \in Files
      BY <1>0, <2>3, <2>4, <2>5, <3>1 DEF Explained, HalfWritten, Records
    <3>3. store'[g] = IF g = f THEN journal[t].before[f] ELSE store[g]
      BY <1>0, <2>1, <2>4, <3>2
    <3>4. store'[g] # journal[t].after[g]
      BY <3>1, <3>2, <3>3
    <3> QED
      BY <2>2, <3>1, <3>4 DEF AllAfter, IsAfter
  <2>8. ValueDuring(t)' = ValueDuring(t)
    <3>1. \A g \in Files : g \notin journal[t].targets => store'[g] = store[g]
      BY <1>0, <2>1, <2>3, <2>4
    <3> QED
      BY <2>2, <2>3, <2>4, <2>7, <3>1 DEF ValueDuring
  <2>9. Settled' = Settled
    BY <2>5, <2>8, SettledOne
  <2>10. \A u \in TxIds : Applied(u)' <=> Applied(u)
    <3>1. \A u \in Undecided : AllAfter(u)' <=> AllAfter(u)
      BY <2>3, <2>4, <2>5, <2>7
    <3> QED
      BY <2>2, <3>1, AppliedSame
  <2> QED
    BY <2>2, <2>6, <2>9, <2>10, DiskMove
<1>4. CASE RestoreVerify(th)
  <2>1. CASE Raise(th)
    BY <1>4, <2>1, RaiseAnswers DEF RestoreVerify
  <2>2. CASE /\ pc' = [pc EXCEPT ![th] = "settleRollback"]
             /\ UNCHANGED <<disk, lock, chainTip, attempt, task, work, reply>>
    BY <1>0, <1>4, <2>2, LabelMove DEF RestoreVerify
  <2> QED
    BY <1>4, <2>1, <2>2 DEF RestoreVerify
<1>5. CASE Settle(th)
  <2>1. PICK t \in Undecided, m \in Markers :
           /\ Undecided = {t} /\ Undecided' = {}
           /\ journal'[t].marker = {m}
           /\ \A u \in TxIds \ {t} : journal'[u] = journal[u]
           /\ pc[th] # "seal" => t = rec
           /\ pc[th] = "settleCommit" => m = "commit" /\ pc'[th] = "checkCommit"
           /\ pc[th] = "settleAbort" => m = "abort" /\ pc'[th] = "checkAbort"
           /\ pc[th] = "settleRollback" => m = "abort" /\ pc'[th] = "recover"
    BY <1>5, MarkWrites
  <2>2. pc[th] \in {"settleCommit", "settleAbort", "settleRollback"} /\ t = rec
    BY <1>5, <2>1 DEF Settle, Writing
  <2>3. \/ m = "commit" /\ AllAfter(t)
        \/ m = "abort" /\ ~AllAfter(t) /\ Restored(t)
    BY <2>1, <2>2 DEF Writing
  <2>4. /\ UNCHANGED <<store, task, reply>> /\ \A x \in Threads \ {th} : pc'[x] = pc[x]
        /\ work'[th].tx = work[th].tx /\ work'[th].targets = work[th].targets
        /\ work'[th].after = work[th].after
    BY <1>0, <1>5 DEF Settle, Works
  <2>5. Settled' = Settled /\ \A u \in TxIds : Applied(u)' <=> Applied(u)
    <3>1. t \in TxIds
      BY DEF Undecided
    <3> QED
      BY <1>0, <2>1, <2>3, <2>4, <3>1, DecidedValue
  <2> QED
    BY <2>1, <2>2, <2>4, <2>5, DiskMove
<1>6. CASE AfterSettle(th)
  <2>1. CASE Raise(th)
    BY <1>6, <2>1, RaiseAnswers DEF AfterSettle
  <2>2. CASE /\ pc[th] \in {"checkCommit", "checkAbort"}
             /\ pc' = [pc EXCEPT ![th] = "recover"]
             /\ work' = [work EXCEPT ![th].rec = NoTx, ![th].todo = {}]
             /\ UNCHANGED <<disk, lock, chainTip, attempt, task, reply>>
    <3>1. /\ pc'[th] = "recover" /\ \A x \in Threads \ {th} : pc'[x] = pc[x]
          /\ work'[th].tx = work[th].tx /\ work'[th].targets = work[th].targets
          /\ work'[th].after = work[th].after
      BY <1>0, <2>2 DEF Works
    <3> QED
      BY <2>2, <3>1, LabelMove
  <2> QED
    BY <1>6, <2>1, <2>2 DEF AfterSettle
<1>7. CASE RecoverChain(th)
  <2>1. CASE Raise(th)
    BY <1>7, <2>1, RaiseAnswers DEF RecoverChain
  <2>2. CASE /\ pc' = [pc EXCEPT ![th] = "rebuild"]
             /\ UNCHANGED <<disk, lock, attempt, task, work, reply>>
    BY <1>0, <1>7, <2>2, LabelMove DEF RecoverChain
  <2> QED
    BY <1>7, <2>1, <2>2 DEF RecoverChain
<1>8. CASE RecoverExport(th)
  <2>1. /\ pc[th] = "rebuild" /\ UNCHANGED <<journal, store, task, work, reply>>
        /\ pc'[th] = CASE task[th] = "enter" -> "scope"
                       [] task[th] = "commit" -> "open"
                       [] task[th] = "resolve" -> "resolve"
        /\ \A x \in Threads \ {th} : pc'[x] = pc[x]
    BY <1>0, <1>8 DEF RecoverExport
  <2>2. CASE task[th] = "enter"
    <3>1. Request(th)' = Request(th) /\ Stage(th)' = Stage(th)
      BY <2>1, <2>2 DEF Request, Stage, Busy
    <3> QED
      BY <2>1, <3>1, SettledSame, QuietMove
  <2>3. CASE task[th] # "enter"
    <3>1. task[th] = "commit" \/ task[th] = "resolve"
      BY <1>0, <2>3
    <3>2. pc'[th] \in {"open", "resolve"}
      BY <2>1, <3>1
    <3> QED
      BY <2>1, <3>2, LabelMove
  <2> QED
    BY <2>2, <2>3
<1> QED
  BY <1>1, <1>2, <1>3, <1>4, <1>5, <1>6, <1>7, <1>8

-------------------------------------------------------------------------------
(***************************************************************************)
(* A request is asked, applied at one step, and answered.                  *)
(***************************************************************************)

\* The step at which all documents of t hold their after images.
LEMMA AppliesAll ==
  ASSUME IInv, IInv', NEW th \in Threads, pc[th] \notin {"idle", "scope"},
         \A x \in Threads \ {th} : pc'[x] = pc[x], reply' = reply,
         Stage(th) = "asked", Stage(th)' = "applied", Request(th)' = Request(th),
         Settled' = [f \in Files |-> IF f \in work[th].targets THEN work[th].after[f]
                                     ELSE Settled[f]]
  PROVE  Atomic!Next
<1>1. /\ Requested' = [Requested EXCEPT ![th] = Request(th)]
      /\ Stages' = [Stages EXCEPT ![th] = "applied"]
      /\ Requested[th] = Request(th) /\ Stages[th] = "asked"
  BY AloneMoves
<1>2. Requested' = Requested
  <2>1. Requested = [x \in Threads |-> Requested[x]]
    BY DEF Requested
  <2> QED
    BY <1>1, <2>1
<1>3. Requested[th].targets = work[th].targets /\ Requested[th].after = work[th].after
  BY <1>1 DEF Stage, Request
<1>4. Settled' = [f \in Files |-> IF f \in Requested[th].targets THEN Requested[th].after[f]
                                  ELSE Settled[f]]
  BY <1>3
<1>5. Atomic!Apply(th)
  BY <1>1, <1>2, <1>4, AbstractActions
<1> QED
  BY <1>5 DEF Atomic!Next

\* The handler is told.
LEMMA Answers ==
  ASSUME IInv, IInv', NEW th \in Threads, pc[th] \notin {"idle", "scope"}, Busy(th),
         pc' = [pc EXCEPT ![th] = "scope"], NEW told,
         reply' = [reply EXCEPT ![th] = told], journal' = journal, store' = store,
         \/ told = "committed" /\ Applied(work[th].tx)
         \/ told = "failed" /\ ~Applied(work[th].tx)
  PROVE  Atomic!Next
<1>1. /\ pc'[th] = "scope" /\ reply'[th] = told
      /\ \A x \in Threads \ {th} : pc'[x] = pc[x] /\ reply'[x] = reply[x]
  BY DEF IInv, TypeOK
<1>2. /\ Request(th)' = NoRequest /\ Stage(th)' = "idle"
      /\ \/ told = "committed" /\ Stage(th) = "applied"
         \/ told = "failed" /\ Stage(th) = "asked"
  BY <1>1 DEF Request, Stage, Busy
<1>3. Settled' = Settled
  BY SettledSame
<1>4. /\ Requested' = [Requested EXCEPT ![th] = NoRequest]
      /\ Stages' = [Stages EXCEPT ![th] = "idle"] /\ Stages[th] = Stage(th)
  BY <1>1, <1>2, AloneMoves
<1>5. Atomic!Answer(th)
  BY <1>2, <1>3, <1>4, AbstractActions
<1> QED
  BY <1>5 DEF Atomic!Next

LEMMA StartAsks ==
  ASSUME IInv, IInv', NEW th \in Threads, StartCommit(th)
  PROVE  Atomic!Next
<1>0. TypeOK /\ work \in [Threads -> Works]
  BY DEF IInv, TypeOK
<1>1. /\ pc[th] = "scope" /\ pc'[th] = "recover" /\ task'[th] = "commit"
      /\ reply'[th] = "none" /\ journal' = journal /\ store' = store
      /\ \A x \in Threads \ {th} : pc'[x] = pc[x] /\ reply'[x] = reply[x]
  BY <1>0 DEF StartCommit, Goto, disk, TypeOK
<1>2. PICK S \in SUBSET Files \ {{}} : \E new \in [S -> Images] :
        work' = [work EXCEPT ![th] = [NoWork EXCEPT
                   !.targets = S,
                   !.after = [f \in Files |-> IF f \in S THEN new[f] ELSE Missing]]]
  BY DEF StartCommit
<1>9. PICK new \in [S -> Images] :
        work' = [work EXCEPT ![th] = [NoWork EXCEPT
                   !.targets = S,
                   !.after = [f \in Files |-> IF f \in S THEN new[f] ELSE Missing]]]
  BY <1>2
<1> DEFINE all == [f \in Files |-> IF f \in S THEN new[f] ELSE Missing]
<1>3. all \in [Files -> Images]
  BY DEF Images
<1>4. work'[th].tx = NoTx /\ work'[th].targets = S /\ work'[th].after = all
  BY <1>0, <1>9 DEF NoWork
<1> HIDE DEF all
<1>5. /\ Request(th)' = [targets |-> S, after |-> all]
      /\ Stage(th)' = "asked" /\ Stage(th) = "idle"
  BY <1>1, <1>4 DEF Request, Stage, Busy, Applied
<1>6. Settled' = Settled
  BY <1>1, SettledSame
<1>7. /\ Requested' = [Requested EXCEPT ![th] = [targets |-> S, after |-> all]]
      /\ Stages' = [Stages EXCEPT ![th] = "asked"] /\ Stages[th] = "idle"
      /\ reply' = [reply EXCEPT ![th] = "none"]
  BY <1>1, <1>5, AloneMoves
<1>8. Atomic!Ask(th)
  BY <1>3, <1>6, <1>7, AbstractActions
<1> QED
  BY <1>8 DEF Atomic!Next

\* The journal entry is written: a directory that is not prepared has not
\* taken effect.
LEMMA OpenIsQuiet ==
  ASSUME IInv, IInv', NEW th \in Threads, Writing(th),
         OpenTransaction(th) \/ CaptureBefore(th)
  PROVE  UNCHANGED Atomic!vars
<1>0. /\ TypeOK /\ Local(th) /\ work[th] \in Works /\ work \in [Threads -> Works]
      /\ pc \in [Threads -> PCs] /\ store \in [Files -> Images] /\ pc' \in [Threads -> PCs]
  BY DEF IInv, TypeOK
<1>1. /\ pc[th] \in {"open", "capture"} /\ pc'[th] = "capture"
      /\ UNCHANGED <<store, task, reply>> /\ Undecided = {} /\ task[th] = "commit"
      /\ \A x \in Threads \ {th} : pc'[x] = pc[x]
  BY <1>0 DEF OpenTransaction, CaptureBefore, Goto, Local, Holder, Recovering, SettledPCs, CommitPCs
<1>2. PICK t \in TxIds :
        /\ journal'[t].phase = "opened" /\ journal'[t].marker = {} /\ journal[t].marker = {}
        /\ \A u \in TxIds \ {t} : journal'[u] = journal[u]
        /\ work'[th].tx = t
        /\ work'[th].targets = work[th].targets /\ work'[th].after = work[th].after
  <2>1. CASE OpenTransaction(th)
    <3>1. PICK t \in TxIds :
            /\ journal[t].marker = {}
            /\ work' = [work EXCEPT ![th].tx = t, ![th].todo = work[th].targets]
            /\ journal'[t].phase = "opened" /\ journal'[t].marker = {}
            /\ \A u \in TxIds \ {t} : journal'[u] = journal[u]
      BY <2>1, JournalWrites
    <3>2. /\ work'[th].tx = t /\ work'[th].targets = work[th].targets
          /\ work'[th].after = work[th].after
      BY <1>0, <3>1 DEF Works
    <3> QED
      BY <3>1, <3>2
  <2>2. CASE CaptureBefore(th)
    <3> DEFINE t == work[th].tx
    <3>1. PICK f \in work[th].todo :
            /\ t \in TxIds /\ journal[t].marker = {}
            /\ work' = [work EXCEPT ![th].todo = work[th].todo \ {f}]
            /\ journal'[t].phase = "opened" /\ journal'[t].marker = {}
            /\ \A u \in TxIds \ {t} : journal'[u] = journal[u]
      BY <2>2, JournalWrites
    <3>2. /\ work'[th].tx = t /\ work'[th].targets = work[th].targets
          /\ work'[th].after = work[th].after
      BY <1>0, <3>1 DEF Works
    <3> QED
      BY <3>1, <3>2
  <2> QED
    BY <2>1, <2>2
<1>3. Undecided' = {}
  BY <1>1, <1>2 DEF Undecided
<1>4. Settled' = Settled
  BY <1>0, <1>1, <1>3, SettledNone
<1>5. ~Applied(work[th].tx)
  <2>1. CASE OpenTransaction(th)
    <3>1. work[th].tx = NoTx
      BY <1>1, <2>1 DEF OpenTransaction, Writing
    <3> QED
      BY <3>1 DEF Applied
  <2>2. CASE CaptureBefore(th)
    <3>1. work[th].tx \in TxIds /\ journal[work[th].tx].marker = {}
      BY <2>2, JournalWrites
    <3> QED
      BY <1>1, <3>1 DEF Applied, Has
  <2> QED
    BY <2>1, <2>2
<1>6. ~Applied(t)'
  BY <1>2, <1>3 DEF Applied, Has
<1>7. Request(th)' = Request(th) /\ Stage(th)' = Stage(th)
  <2>1. Busy(th) /\ Busy(th)'
    BY <1>1 DEF Busy
  <2>2. ~Applied(work[th].tx)'
    BY <1>2, <1>6 DEF Applied, Has
  <2> QED
    BY <1>2, <1>5, <2>1, <2>2 DEF Request, Stage
<1> QED
  BY <1>1, <1>4, <1>7, QuietMove

\* prepare.json and the documents: the request takes effect with the write that
\* makes every document an after image, which prepare.json itself may do when
\* nothing is to change.
LEMMA PrepareApplies ==
  ASSUME IInv, IInv', Explained, NEW th \in Threads, Writing(th), Writing(th)', Prepare(th)
  PROVE  [Atomic!Next]_Atomic!vars
<1>0. /\ TypeOK /\ Local(th) /\ work[th] \in Works /\ work \in [Threads -> Works]
      /\ pc \in [Threads -> PCs] /\ store \in [Files -> Images]
  BY DEF IInv, TypeOK
<1>1. PICK t \in TxIds :
        /\ t = work[th].tx /\ journal[t].marker = {}
        /\ Undecided = {} /\ Undecided' = {t}
        /\ journal'[t].targets = journal[t].targets
        /\ journal'[t].before = journal[t].before
        /\ journal'[t].after = journal[t].after
        /\ journal'[t].marker = {}
  BY JournalWrites
<1>2. /\ pc[th] = "capture" /\ pc'[th] = "apply" /\ UNCHANGED <<store, task, reply>>
      /\ work[th].todo = {} /\ task[th] = "commit"
      /\ \A x \in Threads \ {th} : pc'[x] = pc[x]
      /\ work'[th].tx = t
      /\ work'[th].targets = work[th].targets /\ work'[th].after = work[th].after
  BY <1>0, <1>1 DEF Prepare, Goto, Works, Local, Holder, CommitPCs
<1>3. /\ journal[t].targets = work[th].targets /\ journal[t].after = work[th].after
      /\ \A g \in work[th].targets : journal[t].before[g] = store[g]
  BY <1>1, <1>2 DEF Writing
<1>4. Settled = store /\ Settled' = ValueDuring(t)'
  BY <1>0, <1>1, SettledNone, SettledOne
<1>5. Settled' = Settled
  <2>1. \A f \in Files : ValueDuring(t)'[f] = store[f]
    BY <1>1, <1>2, <1>3 DEF ValueDuring
  <2>2. ValueDuring(t)' = store
    BY <1>0, <2>1 DEF ValueDuring
  <2> QED
    BY <1>4, <2>2
<1>6. /\ Busy(th) /\ Busy(th)' /\ Request(th)' = Request(th)
  BY <1>2 DEF Request, Busy
<1>7. Stage(th) = "asked"
  BY <1>1, <1>6 DEF Stage, Applied, Has
<1>8. CASE AllAfter(t)'
  <2>1. Stage(th)' = "applied"
    <3>1. t # NoTx
      BY TxIdsAreNat
    <3> QED
      BY <1>1, <1>2, <1>6, <1>8, <3>1 DEF Stage, Applied
  <2>2. \A f \in work[th].targets : store[f] = work[th].after[f]
    BY <1>1, <1>2, <1>3, <1>8 DEF AllAfter, IsAfter
  <2>3. store = [f \in Files |-> IF f \in work[th].targets THEN work[th].after[f] ELSE store[f]]
    BY <1>0, <2>2
  <2> QED
    BY <1>2, <1>4, <1>5, <1>6, <1>7, <2>1, <2>3, AppliesAll
<1>9. CASE ~AllAfter(t)'
  <2>1. ~Applied(t)'
    BY <1>1, <1>9 DEF Applied, Has
  <2>2. Stage(th)' = "asked"
    BY <1>2, <1>6, <2>1 DEF Stage
  <2> QED
    BY <1>2, <1>5, <1>6, <1>7, <2>2, QuietMove
<1> QED
  BY <1>8, <1>9

LEMMA WriteApplies ==
  ASSUME IInv, IInv', Explained, NEW th \in Threads, Writing(th), ApplyTarget(th)
  PROVE  [Atomic!Next]_Atomic!vars
<1>0. /\ TypeOK /\ JournalOK /\ Local(th) /\ work[th] \in Works /\ work \in [Threads -> Works]
      /\ pc \in [Threads -> PCs] /\ store \in [Files -> Images]
      /\ journal \in [TxIds -> Records]
  BY DEF IInv, TypeOK
<1>1. PICK t : t = work[th].tx
  OBVIOUS
<1>2. PICK f \in work[th].todo :
        /\ store' = [store EXCEPT ![f] = journal[t].after[f]]
        /\ work' = [work EXCEPT ![th].todo = work[th].todo \ {f}]
  BY <1>1 DEF ApplyTarget
<1>3. /\ pc[th] = "apply" /\ UNCHANGED <<journal, pc, task, reply>> /\ task[th] = "commit"
      /\ t \in Undecided /\ t \in TxIds /\ t # NoTx
      /\ journal[t].targets = work[th].targets /\ journal[t].after = work[th].after
      /\ work[th].todo \subseteq work[th].targets
  BY <1>0, <1>1, TxIdsAreNat
     DEF ApplyTarget, Local, Holder, Attempting, CommitPCs, Writing, Undecided
<1>4. Undecided = {t} /\ Undecided' = {t}
  <2>1. Undecided' = Undecided
    BY <1>3 DEF Undecided
  <2> QED
    BY <1>0, <1>3, <2>1, OneUndecided
<1>5. /\ work'[th].tx = t /\ work'[th].targets = work[th].targets
      /\ work'[th].after = work[th].after /\ f \in Files /\ f \in journal[t].targets
  BY <1>0, <1>1, <1>2, <1>3 DEF Works
<1>6. Settled = ValueDuring(t) /\ Settled' = ValueDuring(t)'
  BY <1>4, SettledOne
<1>7. \A g \in Files : store'[g] = IF g = f THEN journal[t].after[f] ELSE store[g]
  BY <1>0, <1>2
<1>8. CASE AllAfter(t)
  <2>1. store[f] = journal[t].after[f]
    BY <1>5, <1>8 DEF AllAfter, IsAfter
  <2>2. store' = store
    BY <1>0, <1>2, <2>1
  <2> QED
    BY <1>3, <1>5, <2>2, <1>1, LabelMove
<1>9. CASE ~AllAfter(t) /\ ~AllAfter(t)'
  <2>1. ValueDuring(t)' = ValueDuring(t)
    BY <1>3, <1>5, <1>7, <1>9 DEF ValueDuring
  <2>2. \A u \in TxIds : Applied(u)' <=> Applied(u)
    BY <1>3, <1>4, <1>9, AppliedSame
  <2> QED
    BY <1>1, <1>3, <1>5, <1>6, <2>1, <2>2, DiskMove
<1>10. CASE ~AllAfter(t) /\ AllAfter(t)'
  <2>1. Busy(th) /\ Busy(th)' /\ Request(th)' = Request(th)
    BY <1>3, <1>5 DEF Busy, Request
  <2>2. Stage(th) = "asked"
    <3>1. ~Applied(t)
      BY <1>3, <1>10 DEF Applied, Undecided, Has
    <3> QED
      BY <1>1, <2>1, <3>1 DEF Stage
  <2>3. Stage(th)' = "applied"
    <3>1. Applied(t)'
      BY <1>3, <1>4, <1>10 DEF Applied
    <3> QED
      BY <1>5, <2>1, <3>1 DEF Stage
  <2>4. \A g \in Files :
          ValueDuring(t)'[g] = IF g \in work[th].targets THEN work[th].after[g]
                               ELSE ValueDuring(t)[g]
    <3> SUFFICES ASSUME NEW g \in Files
                 PROVE  ValueDuring(t)'[g] = IF g \in work[th].targets THEN work[th].after[g]
                                             ELSE ValueDuring(t)[g]
      OBVIOUS
    <3>1. ValueDuring(t)'[g] = store'[g]
      BY <1>10 DEF ValueDuring
    <3>2. CASE g \in work[th].targets
      <4>1. store'[g] = journal[t].after[g]
        BY <1>3, <1>10, <3>2 DEF AllAfter, IsAfter
      <4> QED
        BY <1>3, <3>1, <3>2, <4>1
    <3>3. CASE g \notin work[th].targets
      <4>1. ValueDuring(t)[g] = store[g]
        BY <1>3, <3>3 DEF ValueDuring
      <4>2. store'[g] = store[g]
        BY <1>3, <1>5, <1>7, <3>3
      <4> QED
        BY <3>1, <3>3, <4>1, <4>2
    <3> QED
      BY <3>2, <3>3
  <2>5. ValueDuring(t)' = [g \in Files |-> IF g \in work[th].targets THEN work[th].after[g]
                                           ELSE ValueDuring(t)[g]]
    <3>1. ValueDuring(t)' = [g \in Files |-> ValueDuring(t)'[g]]
      BY DEF ValueDuring
    <3> QED
      BY <2>4, <3>1
  <2>6. Settled' = [g \in Files |-> IF g \in work[th].targets THEN work[th].after[g]
                                    ELSE Settled[g]]
    BY <1>6, <2>5
  <2> QED
    BY <1>3, <2>1, <2>2, <2>3, <2>6, AppliesAll
<1> QED
  BY <1>8, <1>9, <1>10

\* The marker, the projection and the answer.
LEMMA CommitRefines ==
  ASSUME IInv, IInv', Explained, NEW th \in Threads, Writing(th), Writing(th)',
         \/ StartCommit(th) \/ OpenTransaction(th) \/ CaptureBefore(th)
         \/ Prepare(th) \/ ApplyTarget(th) \/ VerifyApplied(th) \/ Seal(th)
         \/ Publish(th) \/ Finish(th) \/ Resolve(th)
  PROVE  [Atomic!Next]_Atomic!vars
<1>0. /\ TypeOK /\ JournalOK /\ Local(th) /\ work[th] \in Works /\ work \in [Threads -> Works]
      /\ pc \in [Threads -> PCs] /\ task \in [Threads -> {"enter", "commit", "resolve"}]
      /\ journal \in [TxIds -> Records] /\ store \in [Files -> Images]
  BY DEF IInv, TypeOK
<1> USE DEF Goto, disk
<1> DEFINE tx == work[th].tx
<1>1. CASE StartCommit(th)
  BY <1>1, StartAsks
<1>2. CASE OpenTransaction(th) \/ CaptureBefore(th)
  BY <1>2, OpenIsQuiet
<1>3. CASE Prepare(th)
  BY <1>3, PrepareApplies
<1>4. CASE ApplyTarget(th)
  BY <1>4, WriteApplies
<1>5. CASE VerifyApplied(th) \/ Publish(th)
  <2>1. CASE Raise(th)
    BY <1>5, <2>1, RaiseAnswers DEF VerifyApplied, Publish
  <2>2. CASE ~Raise(th)
    <3>1. /\ pc[th] \in {"apply", "publish"} /\ pc'[th] \in {"seal", "finish"}
          /\ UNCHANGED <<store, journal, task, work, reply>>
          /\ \A x \in Threads \ {th} : pc'[x] = pc[x]
      BY <1>0, <1>5, <2>2 DEF VerifyApplied, Publish, VerifyAfter
    <3> QED
      BY <3>1, LabelMove
  <2> QED
    BY <2>1, <2>2
<1>6. CASE Seal(th)
  <2>1. /\ pc[th] = "seal" /\ pc'[th] = "publish" /\ UNCHANGED <<store, task, work, reply>>
        /\ \A x \in Threads \ {th} : pc'[x] = pc[x]
    BY <1>0, <1>6 DEF Seal
  <2>2. PICK t \in Undecided :
        /\ t = tx
        /\ Undecided = {t} /\ Undecided' = {}
        /\ journal'[t].marker = {"commit"}
        /\ \A u \in TxIds \ {t} : journal'[u] = journal[u]
    BY <1>6, <2>1, MarkWrites
  <2>3. AllAfter(t) /\ t \in TxIds
    BY <2>1, <2>2 DEF Writing, Undecided
  <2>4. Settled' = Settled /\ \A u \in TxIds : Applied(u)' <=> Applied(u)
    BY <1>0, <2>1, <2>2, <2>3, DecidedValue
  <2> QED
    BY <2>1, <2>4, DiskMove
<1>7. CASE Finish(th)
  <2>1. CASE Raise(th)
    BY <1>7, <2>1, RaiseAnswers DEF Finish
  <2>2. CASE ~Raise(th)
    <3>1. /\ pc[th] = "finish" /\ reply' = [reply EXCEPT ![th] = "committed"]
          /\ pc' = [pc EXCEPT ![th] = "scope"] /\ UNCHANGED <<journal, store>>
      BY <1>7, <2>2 DEF Finish, VerifyAfter
    <3>2. Applied(tx)
      BY <1>0, <3>1 DEF Local, Attempting, Applied, Has
    <3>3. Busy(th)
      BY <1>0, <3>1 DEF Local, Holder, Busy, CommitPCs
    <3> QED
      BY <3>1, <3>2, <3>3, Answers
  <2> QED
    BY <2>1, <2>2
<1>8. CASE Resolve(th)
  <2>1. /\ pc[th] = "resolve" /\ pc' = [pc EXCEPT ![th] = "scope"] /\ UNCHANGED <<journal, store>>
        /\ reply' = [reply EXCEPT ![th] =
                       IF attempt[th] # NoTx /\ Has(attempt[th], "commit")
                       THEN "committed" ELSE "failed"]
    BY <1>8 DEF Resolve
  <2>2. attempt[th] = tx /\ Undecided = {} /\ Busy(th)
    BY <1>0, <2>1 DEF Local, Holder, Attempting, Recovering, SettledPCs, Busy
  <2>3. Applied(tx) <=> attempt[th] # NoTx /\ Has(attempt[th], "commit")
    BY <2>2 DEF Applied
  <2>4. CASE Applied(tx)
    <3>1. reply' = [reply EXCEPT ![th] = "committed"]
      BY <2>1, <2>3, <2>4
    <3> QED
      BY <2>1, <2>2, <2>4, <3>1, Answers
  <2>5. CASE ~Applied(tx)
    <3>1. reply' = [reply EXCEPT ![th] = "failed"]
      BY <2>1, <2>3, <2>5
    <3> QED
      BY <2>1, <2>2, <2>5, <3>1, Answers
  <2> QED
    BY <2>4, <2>5
<1> QED
  BY <1>1, <1>2, <1>3, <1>4, <1>5, <1>6, <1>7, <1>8

\* A process dies: its threads forget what they asked for.
LEMMA CrashForgets ==
  ASSUME IInv, IInv', NEW p \in Processes, Crash(p)
  PROVE  Atomic!Next
<1> DEFINE Dead == {th \in Threads : ProcessOf[th] = p}
<1>1. /\ journal' = journal /\ store' = store
      /\ reply' = [th \in Threads |-> IF th \in Dead THEN "none" ELSE reply[th]]
  BY DEF Crash, disk
<1>2. Settled' = Settled /\ \A t : Applied(t)' <=> Applied(t)
  BY <1>1, SettledSame, AppliedSame
<1>3. ASSUME NEW x \in Threads
      PROVE  /\ Request(x)' = IF x \in Dead THEN NoRequest ELSE Request(x)
             /\ Stage(x)' = IF x \in Dead THEN "idle" ELSE Stage(x)
  <2>1. CASE x \in Dead
    <3>1. pc'[x] = "idle"
      BY <2>1 DEF Crash
    <3> QED
      BY <2>1, <3>1 DEF Request, Stage, Busy
  <2>2. CASE x \notin Dead
    <3>1. pc'[x] = pc[x] /\ task'[x] = task[x] /\ work'[x] = work[x]
      BY <2>2 DEF Crash
    <3>2. Applied(work[x].tx)' <=> Applied(work[x].tx)
      BY <1>2, <3>1
    <3> QED
      BY <2>2, <3>1, <3>2 DEF Request, Stage, Busy
  <2> QED
    BY <2>1, <2>2
<1> HIDE DEF Dead
<1>4. /\ Requested' = [x \in Threads |-> IF x \in Dead THEN NoRequest ELSE Requested[x]]
      /\ Stages' = [x \in Threads |-> IF x \in Dead THEN "idle" ELSE Stages[x]]
  BY <1>3 DEF Requested, Stages
<1>5. Atomic!Forget(Dead)
  BY <1>1, <1>2, <1>4, AbstractActions
<1>6. Dead \in SUBSET Threads
  BY DEF Dead
<1> QED
  BY <1>5, <1>6 DEF Atomic!Next

-------------------------------------------------------------------------------
(***************************************************************************)
(* The refinement.                                                         *)
(***************************************************************************)
LEMMA InitRefines == Init => Atomic!Init
<1> SUFFICES ASSUME Init PROVE Atomic!Init
  OBVIOUS
<1>1. \A t \in TxIds : journal[t].phase = "absent"
  BY DEF Init, NoRecord
<1>2. Undecided = {}
  BY <1>1 DEF Undecided
<1>3. Settled \in [Files -> Images]
  BY <1>2, SettledNone DEF Init
<1>4. \A th \in Threads : ~Busy(th)
  BY DEF Init, Busy
<1>5. Settled \in [Files -> Atomic!Images]
  BY <1>3 DEF Images, Atomic!Images
<1> QED
  BY <1>4, <1>5 DEF Atomic!Init, Atomic!NoRequest, NoImages, Init

LEMMA NextRefines ==
  ASSUME JournalInv, JournalInv', foreign = 0, foreign' = 0, [Next]_vars
  PROVE  [Atomic!Next]_Atomic!vars
<1>0. IInv /\ IInv'
  BY DEF JournalInv
<1>1. Explained /\ \A x \in Threads : Writing(x) /\ Writing(x)'
  BY <1>0 DEF JournalInv, CrashInv
<1>2. ASSUME NEW th \in Threads, EnterScope(th) PROVE UNCHANGED Atomic!vars
  <2>1. /\ lock = NoThread /\ pc[th] = "idle" /\ task'[th] = "enter" /\ reply'[th] = "none"
        /\ journal' = journal /\ store' = store
        /\ \A x \in Threads \ {th} : pc'[x] = pc[x] /\ reply'[x] = reply[x]
    BY <1>0, <1>2 DEF EnterScope, disk, IInv, TypeOK
  <2>2. reply[th] = "none"
    BY <1>0, <2>1 DEF IInv, Local, Holder
  <2>3. Request(th)' = Request(th) /\ Stage(th)' = Stage(th)
    BY <2>1 DEF Request, Stage, Busy
  <2> QED
    BY <1>0, <2>1, <2>2, <2>3, SettledSame, QuietMove
<1>3. ASSUME NEW th \in Threads, ExitScope(th) \/ Interrupt(th)
      PROVE  [Atomic!Next]_Atomic!vars
  BY <1>0, <1>3, LeaveForgets DEF ExitScope, Interrupt
<1>4. ASSUME NEW th \in Threads, Fault(th) PROVE [Atomic!Next]_Atomic!vars
  BY <1>0, <1>4, RaiseAnswers DEF Fault
<1>5. ASSUME NEW th \in Threads, StartCommit(th) \/ Step(th)
      PROVE  [Atomic!Next]_Atomic!vars
  BY <1>0, <1>1, <1>5, RecoveryRefines, CommitRefines DEF Step
<1>6. ASSUME NEW p \in Processes, Crash(p) PROVE [Atomic!Next]_Atomic!vars
  BY <1>0, <1>6, CrashForgets
<1>7. ASSUME NEW f \in Files, ForeignWrite(f) PROVE FALSE
  BY <1>0, <1>7 DEF ForeignWrite
<1>8. CASE UNCHANGED vars
  <2>1. Settled' = Settled /\ \A t : Applied(t)' <=> Applied(t)
    BY <1>8, SettledSame, AppliedSame DEF vars
  <2>2. \A x \in Threads : Request(x)' = Request(x) /\ Stage(x)' = Stage(x)
    BY <1>8, <2>1 DEF vars, Request, Stage, Busy
  <2> QED
    BY <1>8, <2>1, <2>2, AbstractVars DEF vars, Requested, Stages
<1> QED
  BY <1>2, <1>3, <1>4, <1>5, <1>6, <1>7, <1>8 DEF Next

\* transaction.py keeps what its docstring promises: where no write goes past
\* it, every reader that recovers first sees the documents change by whole
\* requests only, and what a handler is told about its request is true.
THEOREM JournalIsAtomic == Spec /\ [](foreign = 0) => Atomicity
<1>1. Init => Atomic!Init
  BY InitRefines
<1>2. /\ JournalInv /\ JournalInv' /\ foreign = 0 /\ (foreign = 0)'
      /\ [Next]_vars
      => [Atomic!Next]_Atomic!vars
  BY NextRefines
<1> QED
  BY <1>1, <1>2, JournalInvariance, PTL DEF Spec, Atomicity, Atomic!Spec
===============================================================================
