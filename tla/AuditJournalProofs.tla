-------------------------- MODULE AuditJournalProofs -------------------------
(***************************************************************************)
(* Theorems about AuditJournal, for any number of threads, processes,      *)
(* documents, contents, transactions and writes past the journal.          *)
(***************************************************************************)
EXTENDS AuditJournalInvariant, WellFoundedInduction, TLAPS

-------------------------------------------------------------------------------
(***************************************************************************)
(* Types.                                                                  *)
(***************************************************************************)
LEMMA TxIdsAreNat == TxIds \subseteq Nat /\ NoTx \in Nat /\ \A t \in TxIds : NoTx < t
  BY ConstantsOK DEF TxIds, NoTx

LEMMA ConstantTypes ==
  /\ NoRecord \in Records
  /\ NoWork \in Works
  /\ NoImages \in [Files -> Images]
  BY DEF NoRecord, Records, NoWork, Works, NoImages, Images

LEMMA InitType == Init => TypeOK
  BY ConstantTypes, ConstantsOK DEF Init, TypeOK, PCs, RecoverPCs

LEMMA LeaveType ==
  ASSUME TypeOK, NEW th \in Threads, Leave(th), UNCHANGED <<disk, chainTip, attempt>>
  PROVE  TypeOK'
  BY ConstantTypes DEF TypeOK, Leave, disk, PCs, RecoverPCs

LEMMA WorkTypes ==
  ASSUME work \in [Threads -> Works], NEW th \in Threads,
         NEW r \in TxIds \cup {NoTx}, NEW S \in SUBSET Files
  PROVE  /\ [work EXCEPT ![th].rec = r, ![th].todo = S] \in [Threads -> Works]
         /\ [work EXCEPT ![th].tx = r, ![th].todo = S] \in [Threads -> Works]
         /\ [work EXCEPT ![th].todo = S] \in [Threads -> Works]
<1>1. work[th] \in Works
  OBVIOUS
<1>2. [work[th] EXCEPT !.rec = r, !.todo = S] \in Works
  BY <1>1 DEF Works
<1>3. [work[th] EXCEPT !.tx = r, !.todo = S] \in Works
  BY <1>1 DEF Works
<1>4. [work[th] EXCEPT !.todo = S] \in Works
  BY <1>1 DEF Works
<1> QED
  BY <1>2, <1>3, <1>4

LEMMA RaiseType ==
  ASSUME TypeOK, NEW th \in Threads, Raise(th)
  PROVE  TypeOK'
<1>1. CASE task[th] = "enter" /\ Leave(th) /\ UNCHANGED <<disk, chainTip, attempt>>
  BY <1>1, LeaveType
<1> DEFINE w == [work EXCEPT ![th].rec = NoTx, ![th].todo = {}]
<1>2. w \in [Threads -> Works]
  BY WorkTypes DEF TypeOK
<1> HIDE DEF w
<1>3. CASE /\ pc' = [pc EXCEPT ![th] = "recover"]
           /\ task' = [task EXCEPT ![th] = "resolve"]
           /\ work' = w
           /\ UNCHANGED <<disk, lock, chainTip, attempt, reply>>
  BY <1>2, <1>3 DEF TypeOK, disk, PCs, RecoverPCs
<1>4. CASE /\ pc' = [pc EXCEPT ![th] = "scope"]
           /\ work' = w
           /\ reply' = [reply EXCEPT ![th] = "raised"]
           /\ UNCHANGED <<disk, lock, chainTip, attempt, task>>
  BY <1>2, <1>4 DEF TypeOK, disk, PCs
<1> QED
  BY <1>1, <1>3, <1>4 DEF Raise, w

LEMMA JournalTypes ==
  ASSUME journal \in [TxIds -> Records], NEW t \in TxIds
  PROVE  /\ \A m \in Markers :
              [journal EXCEPT ![t].marker = @ \cup {m}] \in [TxIds -> Records]
         /\ \A f \in Files, c \in Images :
              [journal EXCEPT ![t].before[f] = c] \in [TxIds -> Records]
         /\ \A p \in TxIds \cup {NoTx} :
              [journal EXCEPT ![t].phase = "prepared", ![t].pred = p]
                \in [TxIds -> Records]
<1>1. journal[t] \in Records
  OBVIOUS
<1>2. ASSUME NEW m \in Markers PROVE [journal[t] EXCEPT !.marker = @ \cup {m}] \in Records
  BY <1>1 DEF Records
<1>3. ASSUME NEW f \in Files, NEW c \in Images
      PROVE [journal[t] EXCEPT !.before[f] = c] \in Records
  BY <1>1 DEF Records
<1>4. ASSUME NEW p \in TxIds \cup {NoTx}
      PROVE [journal[t] EXCEPT !.phase = "prepared", !.pred = p] \in Records
  BY <1>1 DEF Records
<1> QED
  BY <1>2, <1>3, <1>4

LEMMA UndecidedIds == Undecided \subseteq TxIds /\ NoTx \notin Undecided
  BY TxIdsAreNat DEF Undecided

LEMMA RecoveryType ==
  ASSUME TypeOK, NEW th \in Threads, Recovering(th),
         \/ RecoverRefuse(th) \/ RecoverDecide(th) \/ RestoreBefore(th)
         \/ RestoreVerify(th) \/ Settle(th) \/ AfterSettle(th)
         \/ RecoverChain(th) \/ RecoverExport(th)
  PROVE  TypeOK'
<1> DEFINE w == [work EXCEPT ![th].rec = NoTx, ![th].todo = {}]
<1>0. w \in [Threads -> Works]
  BY WorkTypes DEF TypeOK
<1> HIDE DEF w
<1> USE DEF TypeOK, disk, Goto, PCs, RecoverPCs, SettlePCs, CommitPCs
<1>1. CASE RecoverRefuse(th)
  BY <1>1, RaiseType DEF RecoverRefuse
<1>2. CASE RecoverDecide(th)
  <2>1. PICK t \in Undecided \ Refused :
          /\ Goto(th, Decision(t))
          /\ work' = [work EXCEPT ![th].rec = t, ![th].todo = journal[t].targets]
    BY <1>2 DEF RecoverDecide
  <2>2. t \in TxIds /\ journal[t].targets \in SUBSET Files
    BY UndecidedIds DEF Records
  <2>3. work' \in [Threads -> Works]
    BY <2>1, <2>2, WorkTypes
  <2>4. Decision(t) \in PCs
    BY DEF Decision
  <2> QED
    BY <1>2, <2>1, <2>3, <2>4 DEF RecoverDecide
<1>3. CASE RestoreBefore(th)
  <2>1. PICK f \in work[th].todo :
          /\ store' = [store EXCEPT ![f] = journal[work[th].rec].before[f]]
          /\ work' = [work EXCEPT ![th].todo = work[th].todo \ {f}]
    BY <1>3 DEF RestoreBefore
  <2>2. work' \in [Threads -> Works]
    BY <2>1, WorkTypes DEF Works
  <2>3. store' \in [Files -> Images]
    <3>1. work[th].rec \in TxIds
      BY <1>3, UndecidedIds DEF Recovering, RestoreBefore
    <3>2. journal[work[th].rec].before \in [Files -> Images]
      BY <3>1 DEF Records
    <3>3. f \in Files
      BY <2>1 DEF Works
    <3> QED
      BY <2>1, <3>2, <3>3
  <2> QED
    BY <1>3, <2>2, <2>3 DEF RestoreBefore
<1>4. CASE RestoreVerify(th)
  BY <1>4, RaiseType DEF RestoreVerify
<1>5. CASE Settle(th)
  <2>1. work[th].rec \in TxIds
    BY <1>5, UndecidedIds DEF Recovering, Settle
  <2>2. journal' \in [TxIds -> Records]
    <3>1. PICK m \in Markers :
            journal' = [journal EXCEPT ![work[th].rec].marker = @ \cup {m}]
      BY <1>5 DEF Settle, Mark, Markers
    <3> QED
      BY <2>1, <3>1, JournalTypes
  <2>3. pc' \in [Threads -> PCs]
    BY <1>5 DEF Settle
  <2>4. work' \in [Threads -> Works]
    BY <1>5, <1>0 DEF Settle, w
  <2> QED
    BY <1>5, <2>2, <2>3, <2>4 DEF Settle
<1>6. CASE AfterSettle(th)
  <2>1. CASE Raise(th)
    BY <2>1, RaiseType
  <2>2. CASE Goto(th, "recover") /\ work' = w
               /\ UNCHANGED <<disk, lock, chainTip, attempt, task, reply>>
    BY <2>2, <1>0
  <2> QED
    BY <1>6, <2>1, <2>2 DEF AfterSettle, w
<1>7. CASE RecoverChain(th)
  <2>1. CASE Raise(th)
    BY <2>1, RaiseType
  <2>2. CASE /\ \E tip \in TxIds \cup {NoTx} :
                  chainTip' = [chainTip EXCEPT ![ProcessOf[th]] = tip]
             /\ Goto(th, "rebuild")
             /\ UNCHANGED <<disk, lock, attempt, task, work, reply>>
    BY <2>2, ConstantsOK
  <2> QED
    BY <1>7, <2>1, <2>2 DEF RecoverChain
<1>8. CASE RecoverExport(th)
  BY <1>8 DEF RecoverExport, Committed
<1> QED
  BY <1>1, <1>2, <1>3, <1>4, <1>5, <1>6, <1>7, <1>8

LEMMA CommitType ==
  ASSUME TypeOK, NEW th \in Threads, Attempting(th),
         \/ StartCommit(th) \/ OpenTransaction(th) \/ CaptureBefore(th)
         \/ Prepare(th) \/ ApplyTarget(th) \/ VerifyApplied(th) \/ Seal(th)
         \/ Publish(th) \/ Finish(th) \/ Resolve(th)
  PROVE  TypeOK'
<1> USE DEF TypeOK, disk, Goto, PCs, RecoverPCs, SettlePCs, CommitPCs
<1> DEFINE tx == work[th].tx
<1>0. tx \in TxIds \cup {NoTx} /\ work[th].todo \subseteq Files /\ work[th].targets \subseteq Files
      /\ work[th].after \in [Files -> Images]
  BY DEF Works
<1>1. CASE StartCommit(th)
  <2>1. PICK S \in SUBSET Files : \E new \in [S -> Images] :
          work' = [work EXCEPT ![th] = [NoWork EXCEPT
                     !.targets = S,
                     !.after = [f \in Files |-> IF f \in S THEN new[f] ELSE Missing]]]
    BY <1>1 DEF StartCommit
  <2>2. PICK new \in [S -> Images] :
          work' = [work EXCEPT ![th] = [NoWork EXCEPT
                     !.targets = S,
                     !.after = [f \in Files |-> IF f \in S THEN new[f] ELSE Missing]]]
    BY <2>1
  <2>3. [f \in Files |-> IF f \in S THEN new[f] ELSE Missing] \in [Files -> Images]
    BY DEF Images
  <2>4. [NoWork EXCEPT !.targets = S,
           !.after = [f \in Files |-> IF f \in S THEN new[f] ELSE Missing]] \in Works
    BY <2>3, ConstantTypes DEF Works
  <2>5. work' \in [Threads -> Works]
    BY <2>2, <2>4
  <2> QED
    BY <1>1, <2>5 DEF StartCommit
<1>2. CASE OpenTransaction(th)
  <2>1. PICK t \in TxIds :
       /\ journal' = [journal EXCEPT ![t] = [NoRecord EXCEPT
                        !.phase = "opened",
                        !.targets = work[th].targets,
                        !.after = work[th].after]]
       /\ attempt' = [attempt EXCEPT ![th] = t]
       /\ work' = [work EXCEPT ![th].tx = t, ![th].todo = work[th].targets]
    BY <1>2 DEF OpenTransaction
  <2>2. [NoRecord EXCEPT !.phase = "opened", !.targets = work[th].targets,
           !.after = work[th].after] \in Records
    BY <1>0, ConstantTypes DEF Records
  <2>3. journal' \in [TxIds -> Records]
    BY <2>1, <2>2
  <2>4. work' \in [Threads -> Works]
    BY <2>1, <1>0, WorkTypes
  <2> QED
    BY <1>2, <2>1, <2>3, <2>4 DEF OpenTransaction
<1>3. CASE CaptureBefore(th)
  <2>1. PICK f \in work[th].todo :
       /\ journal' = [journal EXCEPT ![tx].before[f] = store[f]]
       /\ work' = [work EXCEPT ![th].todo = work[th].todo \ {f}]
    BY <1>3 DEF CaptureBefore
  <2>2. tx \in TxIds
    BY <1>0, <1>3 DEF CaptureBefore, Attempting
  <2>3. store[f] \in Images /\ f \in Files
    BY <1>0
  <2>4. journal' \in [TxIds -> Records]
    BY <2>1, <2>2, <2>3, JournalTypes
  <2>5. work' \in [Threads -> Works]
    BY <2>1, <1>0, WorkTypes
  <2> QED
    BY <1>3, <2>4, <2>5 DEF CaptureBefore
<1>4. CASE Prepare(th)
  <2>1. tx \in TxIds
    BY <1>0, <1>4 DEF Prepare, Attempting
  <2>2. chainTip[ProcessOf[th]] \in TxIds \cup {NoTx}
    BY ConstantsOK
  <2>3. journal' \in [TxIds -> Records]
    BY <1>4, <2>1, <2>2, JournalTypes DEF Prepare
  <2>4. work' \in [Threads -> Works]
    BY <1>4, <1>0, WorkTypes DEF Prepare
  <2> QED
    BY <1>4, <2>3, <2>4 DEF Prepare
<1>5. CASE ApplyTarget(th)
  <2>1. PICK f \in work[th].todo :
          /\ store' = [store EXCEPT ![f] = journal[tx].after[f]]
          /\ work' = [work EXCEPT ![th].todo = work[th].todo \ {f}]
    BY <1>5 DEF ApplyTarget
  <2>2. tx \in TxIds
    BY <1>5, UndecidedIds DEF ApplyTarget, Attempting
  <2>3. journal[tx].after \in [Files -> Images] /\ f \in Files
    BY <2>2, <1>0 DEF Records
  <2>4. store' \in [Files -> Images]
    BY <2>1, <2>3
  <2>5. work' \in [Threads -> Works]
    BY <2>1, <1>0, WorkTypes
  <2> QED
    BY <1>5, <2>4, <2>5 DEF ApplyTarget
<1>6. CASE VerifyApplied(th)
  BY <1>6, RaiseType DEF VerifyApplied, VerifyAfter
<1>7. CASE Seal(th)
  <2>1. tx \in TxIds
    BY <1>7, UndecidedIds DEF Seal, Attempting
  <2>2. journal' \in [TxIds -> Records]
    BY <1>7, <2>1, JournalTypes DEF Seal, Mark, Markers
  <2> QED
    BY <1>7, <2>2 DEF Seal
<1>8. CASE Publish(th)
  BY <1>8, RaiseType DEF Publish, VerifyAfter, Committed
<1>9. CASE Finish(th)
  BY <1>9, RaiseType DEF Finish, VerifyAfter
<1>10. CASE Resolve(th)
  BY <1>10 DEF Resolve
<1> QED
  BY <1>1, <1>2, <1>3, <1>4, <1>5, <1>6, <1>7, <1>8, <1>9, <1>10

LEMMA NextType ==
  ASSUME TypeOK, \A th \in Threads : Attempting(th) /\ Recovering(th), [Next]_vars
  PROVE  TypeOK'
<1>1. ASSUME NEW th \in Threads, EnterScope(th) PROVE TypeOK'
  BY <1>1 DEF EnterScope, TypeOK, disk, PCs, RecoverPCs
<1>2. ASSUME NEW th \in Threads, ExitScope(th) \/ Interrupt(th) PROVE TypeOK'
  BY <1>2, LeaveType DEF ExitScope, Interrupt
<1>3. ASSUME NEW th \in Threads, StartCommit(th) \/ Step(th) PROVE TypeOK'
  BY <1>3, RecoveryType, CommitType DEF Step
<1>4. ASSUME NEW th \in Threads, Fault(th) PROVE TypeOK'
  BY <1>4, RaiseType DEF Fault
<1>5. ASSUME NEW p \in Processes, Crash(p) PROVE TypeOK'
  BY <1>5, ConstantTypes DEF Crash, TypeOK, disk, PCs, NoTx
<1>6. ASSUME NEW f \in Files, ForeignWrite(f) PROVE TypeOK'
  BY <1>6, ConstantsOK DEF ForeignWrite, TypeOK, memory, Images
<1>7. CASE UNCHANGED vars
  BY <1>7 DEF vars, TypeOK
<1> QED
  BY <1>1, <1>2, <1>3, <1>4, <1>5, <1>6, <1>7 DEF Next

-------------------------------------------------------------------------------
(***************************************************************************)
(* What a step does to the transaction directories.                        *)
(***************************************************************************)
LEMMA JournalUnchanged ==
  ASSUME journal' = journal
  PROVE  /\ Committed' = Committed /\ Undecided' = Undecided
         /\ JournalOK => JournalOK'
  BY DEF Committed, Undecided, Has, JournalOK, Orderly, NewestUndecided, LineageLinear

\* A step that leaves phase, pred and marker of every directory, except that
\* the first absent one may be opened.
LEMMA JournalOpened ==
  ASSUME JournalOK, NEW t \in TxIds,
         \A u \in TxIds : u < t => journal[u].phase # "absent",
         \A u \in TxIds \ {t} : journal'[u] = journal[u],
         journal'[t].phase = "opened" /\ journal'[t].marker = {},
         journal[t].phase # "prepared"
  PROVE  Committed' = Committed /\ Undecided' = Undecided /\ JournalOK'
<1>1. journal[t].marker = {}
  BY DEF JournalOK, Orderly
<1>2. Committed' = Committed /\ Undecided' = Undecided
  BY <1>1 DEF Committed, Undecided, Has
<1>3. Orderly'
  BY <1>1, TxIdsAreNat DEF JournalOK, Orderly
<1>4. NewestUndecided' /\ LineageLinear'
  <2>1. \A u \in Committed \cup Undecided : u # t /\ journal'[u] = journal[u]
    BY <1>1 DEF Committed, Undecided, Has
  <2> QED
    BY <1>2, <2>1 DEF JournalOK, NewestUndecided, LineageLinear
<1> QED
  BY <1>2, <1>3, <1>4 DEF JournalOK

\* prepare.json is written while nothing is undecided.
LEMMA JournalPrepared ==
  ASSUME JournalOK, journal \in [TxIds -> Records], NEW t \in TxIds,
         journal[t].phase = "opened",
         \A u \in TxIds : journal[u].phase # "absent" => u <= t,
         Undecided = {}, NEW p, IsLatest(p, Committed),
         journal' = [journal EXCEPT ![t].phase = "prepared", ![t].pred = p]
  PROVE  Committed' = Committed /\ Undecided' = {t} /\ JournalOK'
<1>1. journal[t].marker = {}
  BY DEF JournalOK, Orderly
<1>2. /\ journal'[t].phase = "prepared" /\ journal'[t].pred = p
      /\ journal'[t].marker = {}
      /\ \A u \in TxIds \ {t} : journal'[u] = journal[u]
  BY <1>1 DEF Records
<1>3. Committed' = Committed
  BY <1>1, <1>2 DEF Committed, Has
<1>4. Undecided' = {t}
  BY <1>1, <1>2 DEF Undecided
<1>5. Orderly'
  BY <1>1, <1>2, TxIdsAreNat DEF JournalOK, Orderly
<1>6. \A u \in Committed : u < t
  BY <1>1, TxIdsAreNat DEF Committed, Has, JournalOK, Orderly
<1>7. NewestUndecided'
  <2>1. \A u \in Committed \cup {t} : u <= t
    BY <1>6, TxIdsAreNat DEF Committed
  <2> QED
    BY <1>3, <1>4, <2>1 DEF NewestUndecided
<1>8. LineageLinear'
  <2>1. {u \in Committed : u < t} = Committed
    BY <1>6
  <2>2. \A u \in Committed : journal'[u] = journal[u]
    BY <1>2, <1>6, TxIdsAreNat DEF Committed
  <2>3. \A u \in Committed :
          IsLatest(journal'[u].pred, {v \in Committed : v < u})
    BY <2>2 DEF LineageLinear, JournalOK
  <2>4. IsLatest(journal'[t].pred, {v \in Committed : v < t})
    BY <1>2, <2>1
  <2>5. \A u \in Committed' \cup Undecided' :
          IsLatest(journal'[u].pred, {v \in Committed' : v < u})
    BY <1>3, <1>4, <2>3, <2>4
  <2> QED
    BY <2>5 DEF LineageLinear, IsLatest
<1> QED
  BY <1>3, <1>4, <1>5, <1>7, <1>8 DEF JournalOK

\* The undecided transaction gets its marker.
LEMMA JournalMarked ==
  ASSUME JournalOK, journal \in [TxIds -> Records], NEW t \in Undecided,
         NEW m \in Markers,
         journal' = [journal EXCEPT ![t].marker = @ \cup {m}]
  PROVE  /\ Undecided = {t} /\ Undecided' = {}
         /\ journal'[t].marker = {m}
         /\ \A u \in TxIds \ {t} : journal'[u] = journal[u]
         /\ JournalOK'
<1>1. t \in TxIds /\ journal[t].marker = {} /\ journal[t].phase = "prepared"
  BY DEF Undecided
<1>2. /\ journal'[t].phase = "prepared" /\ journal'[t].marker = {m}
      /\ journal'[t].pred = journal[t].pred
      /\ \A u \in TxIds \ {t} : journal'[u] = journal[u]
  BY <1>1 DEF Records
<1>3. Undecided = {t}
  BY TxIdsAreNat DEF JournalOK, NewestUndecided, Undecided
<1>4. Undecided' = {}
  BY <1>2, <1>3 DEF Undecided
<1>5. Orderly'
  BY <1>1, <1>2 DEF JournalOK, Orderly
<1>6. Committed' = IF m = "commit" THEN Committed \cup {t} ELSE Committed
  BY <1>1, <1>2 DEF Committed, Has
<1>7. NewestUndecided'
  BY <1>4 DEF NewestUndecided
<1>8. \A u \in Committed : u < t
  <2>1. \A u \in Committed : u <= t /\ u # t
    BY <1>1 DEF JournalOK, NewestUndecided, Committed, Has
  <2> QED
    BY <1>1, <2>1, TxIdsAreNat DEF Committed
<1>9. LineageLinear'
  <2>1. ASSUME NEW u \in Committed \cup {t}
        PROVE  IsLatest(journal[u].pred, {v \in Committed : v < u})
    BY <1>3 DEF JournalOK, LineageLinear
  <2>2. \A u \in Committed \cup {t} :
          {v \in Committed \cup {t} : v < u} = {v \in Committed : v < u}
    BY <1>1, <1>8, TxIdsAreNat DEF Committed
  <2>3. \A u \in Committed \cup {t} : journal'[u].pred = journal[u].pred
    BY <1>2 DEF Committed
  <2> QED
    BY <1>4, <1>6, <2>1, <2>2, <2>3 DEF LineageLinear
<1> QED
  BY <1>2, <1>3, <1>4, <1>5, <1>7, <1>9 DEF JournalOK

-------------------------------------------------------------------------------
(***************************************************************************)
(* The end of the chain that recovery finds is the newest commit.          *)
(***************************************************************************)
LEMMA SmallestElement ==
  ASSUME NEW T \in SUBSET Nat, T # {}
  PROVE  \E x \in T : \A y \in T : x <= y
<1> DEFINE R == {ss \in Nat \X Nat : ss[1] < ss[2]}
<1>1. IsWellFoundedOn(R, Nat)
  BY NatLessThanWellFounded DEF OpToRel
<1>2. \A x, y \in Nat : y < x => <<y, x>> \in R
  OBVIOUS
<1> HIDE DEF R
<1>3. PICK x \in T : \A y \in T : ~ (<<y, x>> \in R)
  BY <1>1, WFMin
<1>4. ASSUME NEW y \in T PROVE x <= y
  <2>1. x \in Nat /\ y \in Nat
    OBVIOUS
  <2>2. ~ (y < x)
    BY <1>2, <1>3, <2>1, Zenon
  <2> QED
    BY <2>1, <2>2
<1> QED
  BY <1>4

LEMMA EndIsLatest ==
  ASSUME LineageLinear, NEW tip \in TxIds \cup {NoTx}, EndOfChain(Committed, tip)
  PROVE  IsLatest(tip, Committed)
<1>1. CASE Committed = {}
  BY <1>1 DEF EndOfChain, IsLatest
<1>2. CASE Committed # {}
  <2>1. tip \in Committed /\ \A u \in Committed : journal[u].pred # tip
    BY <1>2 DEF EndOfChain
  <2>2. Committed \subseteq TxIds
    BY DEF Committed
  <2>3. ASSUME NEW v \in Committed, tip < v PROVE FALSE
    <3> DEFINE T == {u \in Committed : tip < u}
    <3>1. PICK u \in T : \A y \in T : u <= y
      BY <2>2, <2>3, TxIdsAreNat, SmallestElement
    <3>0. u \in Committed /\ u \in Nat /\ tip \in Nat /\ \A y \in T : u <= y
      BY <3>1, <2>1, <2>2, TxIdsAreNat
    <3> DEFINE q == journal[u].pred
    <3>2. IsLatest(q, {w \in Committed : w < u})
      BY DEF LineageLinear
    <3>3. tip <= q
      BY <3>2, <2>1 DEF IsLatest
    <3>4. q \in Committed /\ q < u /\ q \in Nat
      <4>1. q \in {w \in Committed : w < u} \cup {NoTx}
        BY <3>2 DEF IsLatest
      <4>2. NoTx < tip /\ NoTx \in Nat
        BY <2>1, <2>2, TxIdsAreNat
      <4>3. q # NoTx
        BY <3>0, <3>3, <4>2
      <4> QED
        BY <4>1, <4>3, <2>2, TxIdsAreNat
    <3>5. q # tip
      BY <2>1, <3>0
    <3>6. q \in T
      BY <3>0, <3>3, <3>4, <3>5
    <3>7. u <= q
      BY <3>0, <3>6
    <3> QED
      BY <3>0, <3>4, <3>7
  <2> QED
    BY <2>1, <2>2, <2>3, TxIdsAreNat DEF IsLatest
<1> QED
  BY <1>1, <1>2

-------------------------------------------------------------------------------
(***************************************************************************)
(* What a step does to the threads.                                        *)
(***************************************************************************)

\* Only the owner of the lock is anywhere but at "idle".
LEMMA OthersIdle ==
  ASSUME \A x \in Threads : Local(x)
  PROVE  /\ \A th \in Threads : pc[th] # "idle" =>
              lock = th /\ \A x \in Threads \ {th} : pc[x] = "idle" /\ reply[x] = "none"
         /\ lock = NoThread => \A x \in Threads : pc[x] = "idle" /\ reply[x] = "none"
  BY ConstantsOK DEF Local, Holder

LEMMA IdleIsLocal ==
  ASSUME NEW x, pc[x] = "idle", reply[x] = "none"
  PROVE  Local(x)
  BY DEF Local, Holder, Attempting, Recovering, ReplyIsTrue, SettledFor,
         CommitPCs, SettlePCs, SettledPCs

\* It is enough to look at the thread that steps.
LEMMA LocalStep ==
  ASSUME \A x \in Threads : Local(x), TypeOK, NEW th \in Threads,
         pc[th] # "idle" \/ lock = NoThread,
         \A x \in Threads \ {th} : pc'[x] = pc[x] /\ reply'[x] = reply[x],
         Local(th)'
  PROVE  \A x \in Threads : Local(x)'
<1>1. ASSUME NEW x \in Threads \ {th} PROVE pc'[x] = "idle" /\ reply'[x] = "none"
  BY OthersIdle
<1>2. ASSUME NEW x \in Threads \ {th} PROVE Local(x)'
  BY <1>1 DEF Local, Holder, Attempting, Recovering, ReplyIsTrue, SettledFor,
         CommitPCs, SettlePCs, SettledPCs
<1> QED
  BY <1>2

LEMMA LeaveLocal ==
  ASSUME IInv, NEW th \in Threads, pc[th] # "idle", Leave(th),
         UNCHANGED <<disk, chainTip, attempt>>
  PROVE  JournalOK' /\ \A x \in Threads : Local(x)'
<1>1. JournalOK'
  BY JournalUnchanged DEF disk, IInv
<1>2. pc'[th] = "idle" /\ reply'[th] = "none"
  BY DEF Leave, IInv, TypeOK
<1>3. Local(th)'
  BY <1>2 DEF Local, Holder, Attempting, Recovering, ReplyIsTrue, SettledFor,
         CommitPCs, SettlePCs, SettledPCs
<1>4. \A x \in Threads \ {th} : pc'[x] = pc[x] /\ reply'[x] = reply[x]
  BY DEF Leave, IInv, TypeOK
<1> QED
  BY <1>1, <1>3, <1>4, LocalStep DEF IInv

LEMMA RaiseLocal ==
  ASSUME IInv, NEW th \in Threads, pc[th] \notin {"idle", "scope"}, Raise(th)
  PROVE  JournalOK' /\ \A x \in Threads : Local(x)'
<1>1. CASE task[th] = "enter" /\ Leave(th) /\ UNCHANGED <<disk, chainTip, attempt>>
  BY <1>1, LeaveLocal
<1>2. CASE task[th] # "enter"
  <2>1. JournalOK'
    BY <1>2, JournalUnchanged DEF disk, IInv, Raise
  <2>2. Local(th) /\ work[th] \in Works
    BY DEF IInv, TypeOK
  <2>3. work'[th].tx = work[th].tx /\ attempt'[th] = attempt[th] /\ lock' = lock
    BY <1>2, <2>2 DEF Raise, IInv, TypeOK, Works
  <2>4. CASE task[th] = "commit"
    <3>1. pc'[th] = "recover" /\ task'[th] = "resolve" /\ reply'[th] = reply[th]
      BY <2>4 DEF Raise, IInv, TypeOK
    <3>2. Local(th)'
      BY <2>2, <2>3, <2>4, <3>1 DEF Local, Holder, Attempting, Recovering, ReplyIsTrue,
           SettledFor, CommitPCs, SettlePCs, SettledPCs
    <3>3. \A x \in Threads \ {th} : pc'[x] = pc[x] /\ reply'[x] = reply[x]
      BY <2>4 DEF Raise, IInv, TypeOK
    <3> QED
      BY <2>1, <3>2, <3>3, LocalStep DEF IInv
  <2>5. CASE task[th] = "resolve"
    <3>1. pc'[th] = "scope" /\ task'[th] = "resolve" /\ reply'[th] = "raised"
      BY <2>5 DEF Raise, IInv, TypeOK
    <3>2. Local(th)'
      BY <2>2, <2>3, <2>5, <3>1 DEF Local, Holder, Attempting, Recovering, ReplyIsTrue,
           SettledFor, CommitPCs, SettlePCs, SettledPCs
    <3>3. \A x \in Threads \ {th} : pc'[x] = pc[x] /\ reply'[x] = reply[x]
      BY <2>5 DEF Raise, IInv, TypeOK
    <3> QED
      BY <2>1, <3>2, <3>3, LocalStep DEF IInv
  <2> QED
    BY <1>2, <2>4, <2>5 DEF IInv, TypeOK
<1> QED
  BY <1>1, <1>2 DEF Raise

-------------------------------------------------------------------------------
(***************************************************************************)
(* Every step keeps the invariant.                                         *)
(***************************************************************************)
LEMMA EnterLocal ==
  ASSUME IInv, NEW th \in Threads, EnterScope(th)
  PROVE  JournalOK' /\ \A x \in Threads : Local(x)'
<1>1. JournalOK'
  BY JournalUnchanged DEF EnterScope, disk, IInv
<1>2. /\ pc'[th] = "recover" /\ task'[th] = "enter" /\ reply'[th] = "none"
      /\ lock' = th
      /\ \A x \in Threads \ {th} : pc'[x] = pc[x] /\ reply'[x] = reply[x]
  BY DEF EnterScope, IInv, TypeOK
<1>3. Local(th)'
  BY <1>2 DEF Local, Holder, Attempting, Recovering, ReplyIsTrue, SettledFor,
         CommitPCs, SettlePCs, SettledPCs
<1> QED
  BY <1>1, <1>2, <1>3, LocalStep DEF EnterScope, IInv

LEMMA RecoveryLocal ==
  ASSUME IInv, NEW th \in Threads,
         \/ RecoverRefuse(th) \/ RecoverDecide(th) \/ RestoreBefore(th)
         \/ RestoreVerify(th) \/ Settle(th) \/ AfterSettle(th)
         \/ RecoverChain(th) \/ RecoverExport(th)
  PROVE  JournalOK' /\ \A x \in Threads : Local(x)'
<1>0. /\ TypeOK /\ JournalOK /\ Local(th) /\ \A x \in Threads : Local(x)
      /\ work[th] \in Works
      /\ pc \in [Threads -> PCs]
  BY DEF IInv, TypeOK
<1> USE DEF Goto, disk
<1>1. CASE RecoverRefuse(th)
  BY <1>1, RaiseLocal DEF RecoverRefuse
<1>2. CASE RecoverDecide(th)
  <2>1. PICK t \in Undecided \ Refused :
          /\ pc' = [pc EXCEPT ![th] = Decision(t)]
          /\ work' = [work EXCEPT ![th].rec = t, ![th].todo = journal[t].targets]
    BY <1>2 DEF RecoverDecide
  <2>2. JournalOK' /\ Committed' = Committed /\ Undecided' = Undecided
    BY <1>0, <1>2, JournalUnchanged DEF RecoverDecide
  <2>3. /\ pc'[th] \in {"restore"} \cup SettlePCs
        /\ work'[th].rec = t /\ work'[th].tx = work[th].tx
        /\ pc[th] = "recover"
        /\ \A x \in Threads \ {th} : pc'[x] = pc[x] /\ reply'[x] = reply[x]
    BY <1>0, <1>2, <2>1 DEF Decision, SettlePCs, RecoverDecide, TypeOK, Works
  <2>4. Local(th)'
    BY <1>0, <1>2, <2>1, <2>2, <2>3 DEF RecoverDecide, Local, Holder, Attempting, Recovering,
         ReplyIsTrue, SettledFor, CommitPCs, SettlePCs, SettledPCs
  <2> QED
    BY <1>0, <2>2, <2>3, <2>4, LocalStep
<1>3. CASE RestoreBefore(th)
  <2>1. JournalOK' /\ Committed' = Committed /\ Undecided' = Undecided
    BY <1>0, <1>3, JournalUnchanged DEF RestoreBefore
  <2>2. work'[th].rec = work[th].rec /\ work'[th].tx = work[th].tx
    BY <1>0, <1>3 DEF RestoreBefore, TypeOK, Works
  <2>3. Local(th)'
    BY <1>0, <1>3, <2>1, <2>2 DEF RestoreBefore, Local, Holder, Attempting, Recovering,
         ReplyIsTrue, SettledFor, CommitPCs, SettlePCs, SettledPCs
  <2> QED
    BY <1>0, <1>3, <2>1, <2>3, LocalStep DEF RestoreBefore
<1>4. CASE RestoreVerify(th)
  <2>1. CASE Raise(th)
    BY <1>4, <2>1, RaiseLocal DEF RestoreVerify
  <2>2. CASE /\ pc' = [pc EXCEPT ![th] = "settleRollback"]
             /\ UNCHANGED <<disk, lock, chainTip, attempt, task, work, reply>>
    <3>1. JournalOK' /\ Committed' = Committed /\ Undecided' = Undecided
      BY <1>0, <2>2, JournalUnchanged
    <3>2. pc'[th] = "settleRollback" /\ \A x \in Threads \ {th} : pc'[x] = pc[x]
      BY <1>0, <2>2
    <3>3. Local(th)'
      BY <1>0, <1>4, <2>2, <3>1, <3>2 DEF RestoreVerify, Local, Holder, Attempting, Recovering,
           ReplyIsTrue, SettledFor, CommitPCs, SettlePCs, SettledPCs
    <3> QED
      BY <1>0, <1>4, <2>2, <3>1, <3>2, <3>3, LocalStep DEF RestoreVerify
  <2> QED
    BY <1>4, <2>1, <2>2 DEF RestoreVerify
<1>5. CASE Settle(th)
  <2> DEFINE t == work[th].rec
  <2>1. t \in Undecided /\ journal \in [TxIds -> Records]
    BY <1>0, <1>5 DEF Settle, Local, Recovering, SettlePCs, TypeOK
  <2>2. PICK m \in Markers : journal' = [journal EXCEPT ![t].marker = @ \cup {m}]
    BY <1>5 DEF Settle, Mark, Markers
  <2>3. /\ Undecided' = {} /\ journal'[t].marker = {m} /\ JournalOK'
        /\ \A u \in TxIds \ {t} : journal'[u] = journal[u]
    BY <1>0, <2>1, <2>2, JournalMarked
  <2>4. /\ pc'[th] \in {"checkCommit", "checkAbort", "recover", "conflicted"}
        /\ work'[th].tx = work[th].tx
        /\ UNCHANGED <<lock, chainTip, attempt, task, reply>>
        /\ pc[th] \in SettlePCs
        /\ \A x \in Threads \ {th} : pc'[x] = pc[x]
    BY <1>0, <1>5 DEF Settle, SettlePCs, TypeOK, Works
  <2>5. Local(th)'
    BY <1>0, <2>3, <2>4 DEF Local, Holder, Attempting, Recovering,
         ReplyIsTrue, SettledFor, CommitPCs, SettlePCs, SettledPCs
  <2> QED
    BY <1>0, <2>3, <2>4, <2>5, LocalStep DEF SettlePCs
<1>6. CASE AfterSettle(th)
  <2>1. CASE Raise(th)
    BY <1>6, <2>1, RaiseLocal DEF AfterSettle
  <2>2. CASE /\ pc' = [pc EXCEPT ![th] = "recover"]
             /\ work' = [work EXCEPT ![th].rec = NoTx, ![th].todo = {}]
             /\ UNCHANGED <<disk, lock, chainTip, attempt, task, reply>>
    <3>1. JournalOK' /\ Committed' = Committed /\ Undecided' = Undecided
      BY <1>0, <2>2, JournalUnchanged
    <3>2. /\ pc'[th] = "recover" /\ work'[th].tx = work[th].tx
          /\ pc[th] \notin {"idle", "scope"}
          /\ \A x \in Threads \ {th} : pc'[x] = pc[x]
      BY <1>0, <1>6, <2>2 DEF TypeOK, Works, AfterSettle
    <3>3. Local(th)'
      BY <1>0, <2>2, <3>1, <3>2 DEF Local, Holder, Attempting, Recovering,
           ReplyIsTrue, SettledFor, CommitPCs, SettlePCs, SettledPCs
    <3> QED
      BY <1>0, <2>2, <3>1, <3>2, <3>3, LocalStep
  <2> QED
    BY <1>6, <2>1, <2>2 DEF AfterSettle
<1>7. CASE RecoverChain(th)
  <2>1. CASE Raise(th)
    BY <1>7, <2>1, RaiseLocal DEF RecoverChain
  <2>2. CASE ~Raise(th)
    <3>1. PICK tip \in TxIds \cup {NoTx} :
            /\ EndOfChain(Committed, tip)
            /\ chainTip' = [chainTip EXCEPT ![ProcessOf[th]] = tip]
      BY <1>7, <2>2 DEF RecoverChain
    <3>2. /\ pc[th] = "recover" /\ Refused = {} /\ Undecided = {}
          /\ pc' = [pc EXCEPT ![th] = "rebuild"]
          /\ UNCHANGED <<disk, lock, attempt, task, work, reply>>
      BY <1>7, <2>2 DEF RecoverChain
    <3>3. JournalOK' /\ Committed' = Committed /\ Undecided' = Undecided
      BY <1>0, <3>2, JournalUnchanged
    <3>4. IsLatest(tip, Committed)
      BY <1>0, <3>1, EndIsLatest DEF JournalOK
    <3>5. chainTip'[ProcessOf[th]] = tip /\ pc'[th] = "rebuild"
          /\ \A x \in Threads \ {th} : pc'[x] = pc[x]
      BY <1>0, <3>1, <3>2, ConstantsOK DEF TypeOK
    <3>6. IsLatest(chainTip'[ProcessOf[th]], Committed')
      BY <3>3, <3>4, <3>5
    <3>7. \A t \in TxIds : ~("conflict" \in journal'[t].marker)
      BY <3>2 DEF Refused, Has
    <3>8. Local(th)'
      BY <1>0, <3>2, <3>3, <3>5, <3>6, <3>7 DEF Local, Holder, Attempting, Recovering, Has,
           IsLatest, ReplyIsTrue, SettledFor, CommitPCs, SettlePCs, SettledPCs
    <3> QED
      BY <1>0, <3>2, <3>3, <3>5, <3>8, LocalStep
  <2> QED
    BY <2>1, <2>2
<1>8. CASE RecoverExport(th)
  <2>1. JournalOK' /\ Committed' = Committed /\ Undecided' = Undecided
    BY <1>0, <1>8, JournalUnchanged DEF RecoverExport
  <2>2. /\ pc[th] = "rebuild" /\ projection' = Committed /\ chainTip' = chainTip
        /\ UNCHANGED <<lock, attempt, task, work, reply, journal>>
        /\ pc'[th] = CASE task[th] = "enter" -> "scope"
                       [] task[th] = "commit" -> "open"
                       [] task[th] = "resolve" -> "resolve"
        /\ \A x \in Threads \ {th} : pc'[x] = pc[x]
    BY <1>0, <1>8 DEF RecoverExport
  <2>3. task[th] \in {"enter", "commit", "resolve"}
    BY <1>0 DEF TypeOK
  <2>4. Undecided = {} /\ IsLatest(chainTip[ProcessOf[th]], Committed) /\ reply[th] = "none"
        /\ \A t \in TxIds : ~Has(t, "conflict")
    BY <1>0, <2>2 DEF Local, Holder, Recovering, SettledPCs
  <2>5. IsLatest(chainTip[ProcessOf[th]], Committed)'
    BY <2>1, <2>2, <2>4 DEF IsLatest
  <2>6. Local(th)'
    <3>1. CASE task[th] = "enter"
      BY <1>0, <2>1, <2>2, <2>4, <2>5, <3>1 DEF Local, Holder, Attempting, Recovering, Has,
         ReplyIsTrue, SettledFor, CommitPCs, SettlePCs, SettledPCs
    <3>2. CASE task[th] = "commit"
      BY <1>0, <2>1, <2>2, <2>4, <2>5, <3>2 DEF Local, Holder, Attempting, Recovering, Has,
         ReplyIsTrue, SettledFor, CommitPCs, SettlePCs, SettledPCs
    <3>3. CASE task[th] = "resolve"
      BY <1>0, <2>1, <2>2, <2>4, <2>5, <3>3 DEF Local, Holder, Attempting, Recovering, Has,
         ReplyIsTrue, SettledFor, CommitPCs, SettlePCs, SettledPCs
    <3> QED
      BY <2>3, <3>1, <3>2, <3>3
  <2> QED
    BY <1>0, <2>1, <2>2, <2>6, LocalStep
<1> QED
  BY <1>1, <1>2, <1>3, <1>4, <1>5, <1>6, <1>7, <1>8

LEMMA CommitLocal ==
  ASSUME IInv, NEW th \in Threads,
         \/ StartCommit(th) \/ OpenTransaction(th) \/ CaptureBefore(th)
         \/ Prepare(th) \/ ApplyTarget(th) \/ VerifyApplied(th) \/ Seal(th)
         \/ Publish(th) \/ Finish(th) \/ Resolve(th)
  PROVE  JournalOK' /\ \A x \in Threads : Local(x)'
<1>0. /\ TypeOK /\ JournalOK /\ Local(th) /\ \A x \in Threads : Local(x)
      /\ work[th] \in Works /\ work[th].tx \in TxIds \cup {NoTx}
      /\ pc \in [Threads -> PCs]
      /\ journal \in [TxIds -> Records]
  BY DEF IInv, TypeOK, Works
<1> USE DEF Goto, disk
<1> DEFINE tx == work[th].tx
<1>1. CASE StartCommit(th)
  <2>1. JournalOK' /\ Committed' = Committed /\ Undecided' = Undecided
    BY <1>0, <1>1, JournalUnchanged DEF StartCommit
  <2>2. /\ pc[th] = "scope" /\ pc'[th] = "recover" /\ task'[th] = "commit"
        /\ reply'[th] = "none" /\ attempt'[th] = NoTx /\ lock' = lock
        /\ \A x \in Threads \ {th} : pc'[x] = pc[x] /\ reply'[x] = reply[x]
    BY <1>0, <1>1 DEF StartCommit, TypeOK
  <2>3. work'[th].tx = NoTx
    BY <1>0, <1>1 DEF StartCommit, TypeOK, NoWork
  <2>4. Local(th)'
    BY <1>0, <2>1, <2>2, <2>3 DEF Local, Holder, Attempting, Recovering, ReplyIsTrue,
         SettledFor, CommitPCs, SettlePCs, SettledPCs
  <2> QED
    BY <1>0, <2>1, <2>2, <2>4, LocalStep
<1>2. CASE OpenTransaction(th)
  <2>1. PICK t \in TxIds :
          /\ journal[t].phase = "absent"
          /\ \A u \in TxIds : u < t => journal[u].phase # "absent"
          /\ journal' = [journal EXCEPT ![t] = [NoRecord EXCEPT
                           !.phase = "opened",
                           !.targets = work[th].targets,
                           !.after = work[th].after]]
          /\ attempt' = [attempt EXCEPT ![th] = t]
          /\ work' = [work EXCEPT ![th].tx = t, ![th].todo = work[th].targets]
    BY <1>2 DEF OpenTransaction
  <2>2. /\ journal'[t].phase = "opened" /\ journal'[t].marker = {}
        /\ \A u \in TxIds \ {t} : journal'[u] = journal[u]
    BY <1>0, <2>1 DEF NoRecord
  <2>3. JournalOK' /\ Committed' = Committed /\ Undecided' = Undecided
    BY <1>0, <2>1, <2>2, JournalOpened
  <2>4. \A u \in TxIds : journal'[u].phase # "absent" => u <= t
    BY <1>0, <2>1, <2>2, TxIdsAreNat DEF JournalOK, Orderly
  <2>5. work'[th].tx = t /\ attempt'[th] = t /\ t # NoTx
    BY <1>0, <2>1, TxIdsAreNat DEF TypeOK, Works
  <2>6. /\ pc[th] = "open" /\ pc'[th] = "capture"
        /\ UNCHANGED <<projection, lock, chainTip, task, reply>>
        /\ \A x \in Threads \ {th} : pc'[x] = pc[x]
    BY <1>0, <1>2 DEF OpenTransaction
  <2>7. IsLatest(chainTip[ProcessOf[th]], Committed)'
    BY <1>0, <2>3, <2>6 DEF Local, Recovering, IsLatest
  <2>8. Local(th)'
    BY <1>0, <2>2, <2>3, <2>4, <2>5, <2>6, <2>7 DEF Local, Holder, Attempting, Recovering,
         ReplyIsTrue, SettledFor, CommitPCs, SettlePCs, SettledPCs
  <2> QED
    BY <1>0, <2>3, <2>6, <2>8, LocalStep
<1>3. CASE CaptureBefore(th)
  <2>1. PICK f \in work[th].todo :
          /\ journal' = [journal EXCEPT ![tx].before[f] = store[f]]
          /\ work' = [work EXCEPT ![th].todo = work[th].todo \ {f}]
    BY <1>3 DEF CaptureBefore
  <2>2. /\ pc[th] = "capture" /\ tx \in TxIds /\ journal[tx].phase = "opened"
        /\ \A u \in TxIds : journal[u].phase # "absent" => u <= tx
        /\ attempt[th] = tx
    BY <1>0, <1>3 DEF CaptureBefore, Local, Attempting, Holder, CommitPCs
  <2>3. /\ journal'[tx].phase = "opened" /\ journal'[tx].marker = {}
        /\ \A u \in TxIds \ {tx} : journal'[u] = journal[u]
    BY <1>0, <2>1, <2>2 DEF Records, JournalOK, Orderly
  <2>4. \A u \in TxIds : u < tx => journal[u].phase # "absent"
    BY <1>0, <2>2 DEF JournalOK, Orderly
  <2>5. JournalOK' /\ Committed' = Committed /\ Undecided' = Undecided
    BY <1>0, <2>2, <2>3, <2>4, JournalOpened
  <2>6. work'[th].tx = tx
    BY <1>0, <2>1 DEF TypeOK, Works
  <2>7. UNCHANGED <<projection, lock, chainTip, attempt, pc, task, reply>>
    BY <1>3 DEF CaptureBefore
  <2>8. IsLatest(chainTip[ProcessOf[th]], Committed)'
    BY <1>0, <2>2, <2>5, <2>7 DEF Local, Recovering, IsLatest
  <2>9. \A u \in TxIds : journal'[u].phase # "absent" => u <= tx
    BY <2>2, <2>3
  <2>10. Local(th)'
    BY <1>0, <2>2, <2>3, <2>5, <2>6, <2>7, <2>8, <2>9 DEF Local, Holder, Attempting,
         Recovering, ReplyIsTrue, SettledFor, CommitPCs, SettlePCs, SettledPCs
  <2> QED
    BY <1>0, <2>2, <2>5, <2>7, <2>10, LocalStep
<1>4. CASE Prepare(th)
  <2> DEFINE p == chainTip[ProcessOf[th]]
  <2>1. /\ pc[th] = "capture" /\ tx \in TxIds /\ journal[tx].phase = "opened"
        /\ \A u \in TxIds : journal[u].phase # "absent" => u <= tx
        /\ Undecided = {} /\ IsLatest(p, Committed) /\ attempt[th] = tx
    BY <1>0, <1>4 DEF Prepare, Local, Attempting, Holder, Recovering, CommitPCs, SettledPCs
  <2>2. journal' = [journal EXCEPT ![tx].phase = "prepared", ![tx].pred = p]
    BY <1>4 DEF Prepare
  <2> HIDE DEF p
  <2>3. JournalOK' /\ Committed' = Committed /\ Undecided' = {tx}
    BY <1>0, <2>1, <2>2, JournalPrepared
  <2>4. /\ work'[th].tx = tx /\ pc'[th] = "apply"
        /\ UNCHANGED <<lock, attempt, task, reply>>
        /\ \A x \in Threads \ {th} : pc'[x] = pc[x]
    BY <1>0, <1>4 DEF Prepare, TypeOK, Works
  <2>5. Local(th)'
    BY <1>0, <2>1, <2>3, <2>4 DEF Local, Holder, Attempting,
         Recovering, ReplyIsTrue, SettledFor, CommitPCs, SettlePCs, SettledPCs
  <2> QED
    BY <1>0, <2>1, <2>3, <2>4, <2>5, LocalStep
<1>5. CASE ApplyTarget(th)
  <2>1. JournalOK' /\ Committed' = Committed /\ Undecided' = Undecided
    BY <1>0, <1>5, JournalUnchanged DEF ApplyTarget
  <2>2. work'[th].tx = work[th].tx
    BY <1>0, <1>5 DEF ApplyTarget, TypeOK, Works
  <2>3. Local(th)'
    BY <1>0, <1>5, <2>1, <2>2 DEF ApplyTarget, Local, Holder, Attempting, Recovering,
         ReplyIsTrue, SettledFor, CommitPCs, SettlePCs, SettledPCs
  <2> QED
    BY <1>0, <1>5, <2>1, <2>3, LocalStep DEF ApplyTarget
<1>6. CASE VerifyApplied(th)
  <2>1. CASE Raise(th)
    BY <1>6, <2>1, RaiseLocal DEF VerifyApplied
  <2>2. CASE /\ pc' = [pc EXCEPT ![th] = "seal"]
             /\ UNCHANGED <<disk, lock, chainTip, attempt, task, work, reply>>
    <3>1. JournalOK' /\ Committed' = Committed /\ Undecided' = Undecided
      BY <1>0, <2>2, JournalUnchanged
    <3>2. /\ pc[th] = "apply" /\ pc'[th] = "seal"
          /\ \A x \in Threads \ {th} : pc'[x] = pc[x]
      BY <1>0, <1>6, <2>2 DEF VerifyApplied
    <3>3. Local(th)'
      BY <1>0, <2>2, <3>1, <3>2 DEF Local, Holder, Attempting, Recovering,
           ReplyIsTrue, SettledFor, CommitPCs, SettlePCs, SettledPCs
    <3> QED
      BY <1>0, <2>2, <3>1, <3>2, <3>3, LocalStep
  <2> QED
    BY <1>6, <2>1, <2>2 DEF VerifyApplied, VerifyAfter
<1>7. CASE Seal(th)
  <2>1. pc[th] = "seal" /\ tx \in Undecided /\ tx # NoTx
    BY <1>0, <1>7, UndecidedIds DEF Seal, Local, Attempting
  <2>2. journal' = [journal EXCEPT ![tx].marker = @ \cup {"commit"}] /\ "commit" \in Markers
    BY <1>7 DEF Seal, Mark, Markers
  <2>3. /\ Undecided' = {} /\ journal'[tx].marker = {"commit"} /\ JournalOK'
    BY <1>0, <2>1, <2>2, JournalMarked
  <2>4. /\ pc'[th] = "publish"
        /\ UNCHANGED <<lock, chainTip, attempt, task, work, reply>>
        /\ \A x \in Threads \ {th} : pc'[x] = pc[x]
    BY <1>0, <1>7 DEF Seal
  <2>5. Local(th)'
    BY <1>0, <2>1, <2>3, <2>4 DEF Local, Holder, Attempting, Recovering,
         ReplyIsTrue, SettledFor, CommitPCs, SettlePCs, SettledPCs
  <2> QED
    BY <1>0, <2>1, <2>3, <2>4, <2>5, LocalStep
<1>8. CASE Publish(th)
  <2>1. CASE Raise(th)
    BY <1>8, <2>1, RaiseLocal DEF Publish
  <2>2. CASE /\ projection' = Committed
             /\ pc' = [pc EXCEPT ![th] = "finish"]
             /\ UNCHANGED <<store, journal, foreign, lock, chainTip, attempt,
                            task, work, reply>>
    <3>1. JournalOK' /\ Committed' = Committed /\ Undecided' = Undecided
      BY <1>0, <2>2, JournalUnchanged
    <3>2. /\ pc[th] = "publish" /\ pc'[th] = "finish"
          /\ \A x \in Threads \ {th} : pc'[x] = pc[x]
      BY <1>0, <1>8, <2>2 DEF Publish
    <3>3. Local(th)'
      BY <1>0, <2>2, <3>1, <3>2 DEF Local, Holder, Attempting, Recovering,
           ReplyIsTrue, SettledFor, CommitPCs, SettlePCs, SettledPCs
    <3> QED
      BY <1>0, <2>2, <3>1, <3>2, <3>3, LocalStep
  <2> QED
    BY <1>8, <2>1, <2>2 DEF Publish, VerifyAfter
<1>9. CASE Finish(th)
  <2>1. CASE Raise(th)
    BY <1>9, <2>1, RaiseLocal DEF Finish
  <2>2. CASE /\ reply' = [reply EXCEPT ![th] = "committed"]
             /\ pc' = [pc EXCEPT ![th] = "scope"]
             /\ UNCHANGED <<disk, lock, chainTip, attempt, task, work>>
    <3>1. JournalOK' /\ Committed' = Committed /\ Undecided' = Undecided
      BY <1>0, <2>2, JournalUnchanged
    <3>2. /\ pc[th] = "finish" /\ pc'[th] = "scope" /\ reply'[th] = "committed"
          /\ \A x \in Threads \ {th} : pc'[x] = pc[x] /\ reply'[x] = reply[x]
      BY <1>0, <1>9, <2>2 DEF Finish, TypeOK
    <3>3. Local(th)'
      BY <1>0, <2>2, <3>1, <3>2 DEF Local, Holder, Attempting, Recovering,
           ReplyIsTrue, SettledFor, CommitPCs, SettlePCs, SettledPCs
    <3> QED
      BY <1>0, <2>2, <3>1, <3>2, <3>3, LocalStep
  <2> QED
    BY <1>9, <2>1, <2>2 DEF Finish, VerifyAfter
<1>10. CASE Resolve(th)
  <2>1. JournalOK' /\ Committed' = Committed /\ Undecided' = Undecided
    BY <1>0, <1>10, JournalUnchanged DEF Resolve
  <2>2. /\ pc[th] = "resolve" /\ pc'[th] = "scope"
        /\ reply'[th] = IF attempt[th] # NoTx /\ Has(attempt[th], "commit")
                        THEN "committed" ELSE "failed"
        /\ UNCHANGED <<disk, lock, chainTip, attempt, task, work>>
        /\ \A x \in Threads \ {th} : pc'[x] = pc[x] /\ reply'[x] = reply[x]
    BY <1>0, <1>10 DEF Resolve, TypeOK
  <2>3. /\ attempt[th] = tx /\ Undecided = {} /\ projection = Committed
        /\ \A t \in TxIds : ~Has(t, "conflict")
    BY <1>0, <2>2 DEF Local, Holder, Attempting, Recovering, SettledPCs
  <2>4. ASSUME tx # NoTx
        PROVE  /\ Has(tx, "commit") => journal[tx].marker = {"commit"}
               /\ ~Has(tx, "commit") =>
                    journal[tx].phase # "prepared" \/ journal[tx].marker = {"abort"}
    BY <1>0, <2>3, <2>4 DEF JournalOK, Orderly, Has, Markers, Undecided
  <2>5. ReplyIsTrue(th)'
    BY <2>2, <2>3, <2>4 DEF ReplyIsTrue
  <2>6. Local(th)'
    BY <1>0, <2>1, <2>2, <2>3, <2>5 DEF Local, Holder, Attempting, Recovering, Has,
         SettledFor, CommitPCs, SettlePCs, SettledPCs
  <2> QED
    BY <1>0, <2>1, <2>2, <2>6, LocalStep
<1> QED
  BY <1>1, <1>2, <1>3, <1>4, <1>5, <1>6, <1>7, <1>8, <1>9, <1>10

LEMMA CrashLocal ==
  ASSUME IInv, NEW p \in Processes, Crash(p)
  PROVE  JournalOK' /\ \A x \in Threads : Local(x)'
<1>1. JournalOK' /\ Committed' = Committed /\ Undecided' = Undecided
  BY JournalUnchanged DEF Crash, disk, IInv
<1>2. ASSUME NEW x \in Threads, ProcessOf[x] = p PROVE Local(x)'
  <2>1. pc'[x] = "idle" /\ reply'[x] = "none"
    BY <1>2 DEF Crash
  <2> QED
    BY <2>1 DEF Local, Holder, Attempting, Recovering, ReplyIsTrue, SettledFor,
         CommitPCs, SettlePCs, SettledPCs
<1>3. ASSUME NEW x \in Threads, ProcessOf[x] # p PROVE Local(x)'
  <2>1. /\ pc'[x] = pc[x] /\ attempt'[x] = attempt[x] /\ task'[x] = task[x]
        /\ work'[x] = work[x] /\ reply'[x] = reply[x]
        /\ journal' = journal /\ projection' = projection
    BY <1>3 DEF Crash, disk
  <2>2. chainTip'[ProcessOf[x]] = chainTip[ProcessOf[x]]
    BY <1>3, ConstantsOK DEF Crash, IInv, TypeOK
  <2>3. pc[x] # "idle" => lock' = x
    BY <1>3 DEF Crash, IInv, Local, Holder
  <2>4. Local(x)
    BY DEF IInv
  <2>5. Has(x, "conflict")' = Has(x, "conflict")
    BY <2>1 DEF Has
  <2> QED
    BY <1>1, <2>1, <2>2, <2>3, <2>4 DEF Local, Holder, Attempting, Recovering, ReplyIsTrue,
         SettledFor, IsLatest, Has
<1> QED
  BY <1>1, <1>2, <1>3

\* Nothing an invariant mentions.
LEMMA StoreOnly ==
  ASSUME IInv, UNCHANGED <<journal, projection, lock, memory>>
  PROVE  JournalOK' /\ \A x \in Threads : Local(x)'
<1>1. JournalOK' /\ Committed' = Committed /\ Undecided' = Undecided
  BY JournalUnchanged DEF IInv
<1> QED
  BY <1>1 DEF memory, IInv, Local, Holder, Attempting, Recovering, ReplyIsTrue,
       SettledFor, IsLatest, Has

LEMMA InitInv == Init => IInv
<1> SUFFICES ASSUME Init PROVE IInv
  OBVIOUS
<1>1. TypeOK
  BY InitType
<1>2. \A t \in TxIds : journal[t].phase = "absent" /\ journal[t].marker = {}
  BY DEF Init, NoRecord
<1>3. JournalOK
  BY <1>2 DEF JournalOK, Orderly, NewestUndecided, LineageLinear, Committed, Undecided, Has
<1>4. \A x \in Threads : Local(x)
  BY IdleIsLocal DEF Init
<1> QED
  BY <1>1, <1>3, <1>4 DEF IInv

LEMMA NextInv == IInv /\ [Next]_vars => IInv'
<1> SUFFICES ASSUME IInv, [Next]_vars PROVE IInv'
  OBVIOUS
<1>0. TypeOK'
  BY NextType DEF IInv, Local
<1> DEFINE Goal == JournalOK' /\ \A x \in Threads : Local(x)'
<1>1. ASSUME NEW th \in Threads, EnterScope(th) PROVE Goal
  BY <1>1, EnterLocal
<1>2. ASSUME NEW th \in Threads, ExitScope(th) \/ Interrupt(th) PROVE Goal
  BY <1>2, LeaveLocal DEF ExitScope, Interrupt
<1>3. ASSUME NEW th \in Threads, StartCommit(th) \/ Step(th) PROVE Goal
  BY <1>3, RecoveryLocal, CommitLocal DEF Step
<1>4. ASSUME NEW th \in Threads, Fault(th) PROVE Goal
  BY <1>4, RaiseLocal DEF Fault
<1>5. ASSUME NEW p \in Processes, Crash(p) PROVE Goal
  BY <1>5, CrashLocal
<1>6. ASSUME NEW f \in Files, ForeignWrite(f) PROVE Goal
  BY <1>6, StoreOnly DEF ForeignWrite
<1>7. ASSUME UNCHANGED vars PROVE Goal
  BY <1>7, StoreOnly DEF vars, memory
<1>8. Goal
  BY <1>1, <1>2, <1>3, <1>4, <1>5, <1>6, <1>7 DEF Next
<1> QED
  BY <1>0, <1>8 DEF IInv

-------------------------------------------------------------------------------
(***************************************************************************)
(* Theorems.                                                               *)
(***************************************************************************)

\* The inductive invariant: what the threads rely on, label by label, holds
\* through every interleaving of commits, recoveries, errors and crashes.
THEOREM Invariance == Spec => []IInv
<1>1. Init => IInv
  BY InitInv
<1>2. IInv /\ [Next]_vars => IInv'
  BY NextInv
<1> QED
  BY <1>1, <1>2, PTL DEF Spec

\* The documents, the directories and the threads keep their types.
THEOREM TypeCorrect == Spec => []TypeOK
<1>1. IInv => TypeOK
  BY DEF IInv
<1> QED
  BY <1>1, Invariance, PTL

\* The predecessors that prepare.json files name form one line, so recovery
\* never finds the branch it would refuse.
THEOREM LineageNeverBranches == Spec => []LineageLinear
<1>1. IInv => LineageLinear
  BY DEF IInv, JournalOK
<1> QED
  BY <1>1, Invariance, PTL

\* What _audited_commit tells a handler is what the directory says, also
\* when the commit raised and the retry had to find out.
THEOREM RepliesAreTruthful == Spec => []RepliesAreTrue
<1>1. IInv => RepliesAreTrue
  BY DEF IInv, Local, RepliesAreTrue
<1> QED
  BY <1>1, Invariance, PTL

\* A handler body runs on decided transactions and a complete projection.
THEOREM HandlersSeeSettledState == Spec => []ScopeIsSettled
<1>1. IInv => ScopeIsSettled
  BY DEF IInv, Local, ScopeIsSettled
<1> QED
  BY <1>1, Invariance, PTL

\* Only the undecided transaction, or one not prepared yet, is written to.
LEMMA VerdictStep ==
  ASSUME IInv, [Next]_vars
  PROVE  \A t \in TxIds : journal[t].marker # {} => journal'[t].marker = journal[t].marker
<1> DEFINE Kept == \A t \in TxIds : journal[t].marker # {} => journal'[t].marker = journal[t].marker
<1>0. TypeOK /\ JournalOK /\ journal \in [TxIds -> Records]
  BY DEF IInv, TypeOK
<1>1. CASE journal' = journal
  BY <1>1
<1>2. ASSUME NEW th \in Threads, OpenTransaction(th) PROVE Kept
  BY <1>0, <1>2 DEF OpenTransaction, JournalOK, Orderly
<1>3. ASSUME NEW th \in Threads, CaptureBefore(th) PROVE Kept
  <2>1. PICK f : journal' = [journal EXCEPT ![work[th].tx].before[f] = store[f]]
    BY <1>3 DEF CaptureBefore
  <2> QED
    BY <1>0, <2>1 DEF Records
<1>4. ASSUME NEW th \in Threads, Prepare(th) PROVE Kept
  BY <1>0, <1>4 DEF Prepare, Records
<1>5. ASSUME NEW th \in Threads, Seal(th) PROVE Kept
  <2>1. work[th].tx \in Undecided
    BY <1>5 DEF Seal, IInv, Local, Attempting
  <2> QED
    BY <1>0, <1>5, <2>1 DEF Seal, Mark, Undecided, Records
<1>6. ASSUME NEW th \in Threads, Settle(th) PROVE Kept
  <2>1. work[th].rec \in Undecided
    BY <1>6 DEF Settle, IInv, Local, Recovering, SettlePCs
  <2>2. PICK m : journal' = [journal EXCEPT ![work[th].rec].marker = @ \cup {m}]
    BY <1>6 DEF Settle, Mark
  <2> QED
    BY <1>0, <2>1, <2>2 DEF Undecided, Records
<1>7. ASSUME NEW th \in Threads,
             \/ EnterScope(th) \/ ExitScope(th) \/ Interrupt(th) \/ Fault(th)
             \/ StartCommit(th) \/ RecoverRefuse(th) \/ RecoverDecide(th)
             \/ RestoreBefore(th) \/ RestoreVerify(th) \/ AfterSettle(th)
             \/ RecoverChain(th) \/ RecoverExport(th) \/ ApplyTarget(th)
             \/ VerifyApplied(th) \/ Publish(th) \/ Finish(th) \/ Resolve(th)
      PROVE  journal' = journal
  BY <1>7 DEF EnterScope, ExitScope, Interrupt, Fault, StartCommit, RecoverRefuse,
       RecoverDecide, RestoreBefore, RestoreVerify, AfterSettle, RecoverChain,
       RecoverExport, ApplyTarget, VerifyApplied, VerifyAfter, Publish, Finish,
       Resolve, Raise, disk
<1>8. ASSUME NEW p \in Processes, Crash(p) PROVE journal' = journal
  BY <1>8 DEF Crash, disk
<1>9. ASSUME NEW f \in Files, ForeignWrite(f) PROVE journal' = journal
  BY <1>9 DEF ForeignWrite
<1>10. CASE UNCHANGED vars
  BY <1>10 DEF vars
<1> QED
  BY <1>1, <1>2, <1>3, <1>4, <1>5, <1>6, <1>7, <1>8, <1>9, <1>10 DEF Next, Step

\* A transaction is committed, aborted or in conflict once and for all.
THEOREM VerdictsNeverChange == Spec => VerdictsAreFinal
<1>1. IInv /\ [Next]_vars =>
        [\A t \in TxIds :
           journal[t].marker # {} => journal'[t].marker = journal[t].marker]_vars
  BY VerdictStep
<1> QED
  BY <1>1, Invariance, PTL DEF Spec, VerdictsAreFinal
==============================================================================
