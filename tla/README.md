# Verification of meal-manager

TLA+ modules of meal-manager, TLC runs that check them on small instances, and
TLAPS proofs of their central theorems for every value of the constants. Paths
are relative to the repository (`src/...` is the Python package, `web/` the API).

## 1. The system

meal-manager keeps a household's kitchen in JSON files: stock, recipes, week
plans, cooking history, shopping requests, purchase receipts. An agent calls its
tools (`src/handlers/`), a browser its API (`web/main.py`); several processes,
each with several threads, may use one data directory.

| Component | State | Operations | Interacts through |
|---|---|---|---|
| Audit journal (`src/audit/transaction.py`) | `audit/transactions/<month>/<id>/` with before and after images, `prepare.json` and one terminal marker; the JSONL projection; per process the tip of the committed chain; per thread the last transaction | `commit`, `recover`, `resolve_last_transaction`, `consistent_read`, `configure` | every write of every repository is a commit (`src/__init__.py`) |
| Audit scopes (`src/audit/context.py`, `handlers/_common.py`) | the scope of the current call | `audit_scope`, `audit_read_scope` | holds the journal's lock for the whole handler, after a recovery |
| File lock (`repositories/file_lock.py`) | thread lock, three pinned descriptors, depth per thread, poison | `__enter__`, `__exit__`, refresh after a fork, `assert_identity` | the journal's lock is its pinned mode; repositories use its ordinary mode inside |
| Inventory (`inventory.py`, `json_fridge.py`, `product_identity.py`) | `fridge.json`: identities with name, aliases, availability, stock cycle, `updated_at` | add, edit, rename, remove, replenish, receive, merge | shopping, cooking and DII read and change it |
| Shopping requests and receipt (`shopping_request.py`, `json_shopping_request.py`, `handlers/receive_shopping_item.py`) | `shopping_requests.json`: active rows, reservations, tombstones | add, reserve, complete; `receive_shopping_item` does three commits | reads plan and stock, writes requests, stock and plan |
| Shopping projection (`shopping.py`, `plan_shopping.py`) | none of its own; its snapshot is in the plan | `build_current_shopping`, `validate_shopping_snapshot`, prices, trips | computed from plan, recipes, stock and requests |
| Week plans (`plan.py`, `json_plan.py`) | `plans/<week>.json`: occurrences with revision and status, leftovers, snapshot | create, add, cancel, repeat, set status | cooking marks occurrences |
| Cooking and history (`cooking.py`, `json_history.py`) | `history.json`: cook events with lineage | register, correct, retract | one commit over history, plan, stock and prep |
| Ingredient sessions (`src/dii/`) | sessions in memory and in one file each, a lock per session | init, add, skip, remove, clear, finalize, expire | finalize commits to stock and recipes |
| Receipt ledger (`receipt.py`, `receipt_commands.py`, `json_receipt.py`) | append-only revisions per receipt | record, correct, retract, link | analytics reads it; a merge of identities asks it |
| Receipt analytics (`receipt_analytics.py`) | none | report | |
| Suggestions and tuning (`suggestion.py`, `tuning.py`) | `tuning.json`: candidates and weights | suggest, update after a cooked meal | `register_cooked_meal` |
| Recipes and prep items (`dish.py`, `prep_item.py`) | `dishes.json`, `prep_items.json` | edit, make, consume | cooking, shopping |
| Catalog view, awareness, state sync | none | read | consistent reads |
| Migration (`migrations/audit1a.py`) | history and plans, once | prepare, commit | journal |
| Web API (`web/main.py`) | none of its own | the same operations with preconditions | scopes |

### What is hard

* **Crashes.** A commit changes several documents one after another, and a
  recovery that finishes it may crash too.
* **Errors after the fact.** `commit` may raise when the change is already
  durable; the caller asks `resolve_last_transaction`.
* **Concurrency.** Processes and threads meet at one lock whose file may be
  replaced, whose descriptors a fork shares, and whose system calls may fail.
  All tools that change something run under it, so two of them never interleave.
* **Sequences.** `receive_shopping_item` is three commits. Between two of them
  the process may die, and the retry finds a world that other tools changed.
  Cooking is one commit, but an occurrence may be cooked, corrected, retracted,
  edited, cancelled and recovered in any order, over three files.
* **Lost answers.** Corrections, receipts, finalizations and retractions are
  repeated by an agent that does not know whether the first one was done.
* **Memory.** Ingredient sessions live in the memory of each process and are
  mirrored to a file, and a finalization is up to four commits.

### What makes each component correct

* Journal: documents change by whole requests; the lineage of commits never
  branches; crashes never make recovery refuse; what the caller is told is true;
  handlers see a settled state; verdicts are final; a conflict stops everything;
  what is undecided gets decided and what is committed gets exported.
* Lock: one thread inside; a poisoned lock stays so; no kernel lock is left
  behind; waiting threads get on.
* Receipt of an item: a row keeps its winner; a retry does not stock a second
  identity; a replay finds its product; what is needed again can be bought again;
  the plan stays readable.
* Cooking: plans and history agree; the history always loads; a meal is cooked
  physically once and takes its ingredients once; what was cooked can be corrected
  again and a repeated correction is recognised.
* Sessions: what was answered survives a crash; a failed finalization leaves no
  trace; an answered one is not repeated; nothing is offered twice. The first and
  the third have exceptions, which section 5 shows and the proofs delimit.
* Ledger: a repeated command is answered with what the first one did; links name
  products and stay with the line they were hung on.

`PROJECT.json` lists the hazards, each at its line, with the properties that
cover it or the reason why none does.

## 2. The modules

```
AtomicStore   <--refined by--  AuditJournal  <-- AuditJournalInvariant  <-- MCAuditJournal
                                   AuditJournalInvariant  <-- AuditJournalProofs  <-- AuditJournalRecovery
PinnedLock    <-- PinnedLockProofs,  MCPinnedLock
Catalog  <-- ShoppingReceipt  <-- ShoppingReceiptProofs,  MCShoppingReceipt
MealOccurrence  <--refined by--  Cooking  <-- CookingProofs,  MCCooking
DIISessions   <-- DIIProofs,  MCDIISessions
ReceiptLedger <-- ReceiptLedgerProofs,  MCReceiptLedger
FoldLemmas    <-- DIIProofs,  ReceiptLedgerProofs
```

Each layer takes for granted what the one below it shows. `AuditJournal` has one
variable `lock`, which `PinnedLock` justifies with `MutualExclusion`.
`ShoppingReceipt` writes a document in one step and never interleaves two tools,
which `AuditJournal` justifies with `Atomicity` and `ScopeIsSettled`. So do
`Cooking` and `ReceiptLedger`, whose commands are one commit each. `DIISessions`
runs one tool call at a time, for the same reason, but each of its writes is a
step, for a crash or an error can come between two of them.

### AuditJournal

One action per file system step, for any number of threads of any number of
processes. A thread enters a scope (`EnterScope`, which starts a recovery as
`audit_scope` does), may start commits inside it (`StartCommit`) and leaves
(`ExitScope`).

* `commit`: `OpenTransaction` (directory and after images), `CaptureBefore` (one
  before image per step), `Prepare` (`prepare.json` with the predecessor from the
  chain tip), `ApplyTarget` (one document per step), `VerifyApplied` (a check of
  every target), `Seal` (`commit.json`), `Publish` (the check again, then the
  export), `Finish` (the check once more, then the answer).
* `recover`: `RecoverRefuse` (a conflict is on record), `RecoverDecide` with
  `Decision` (all after: commit; all before: abort; a mixture: put back; anything
  else: conflict), `RestoreBefore`, `RestoreVerify`, `Settle`, `AfterSettle`,
  `RecoverChain` (`_verify_committed_target_chains`), `RecoverExport`.
* `_audited_commit`: when `commit` raises, `Resolve` is what
  `resolve_last_transaction` finds out; `reply` is what the handler learns.
* `Fault` raises at any step, `Crash` kills a process, `Interrupt` leaves a scope,
  `ForeignWrite` changes a document past the journal.

A directory's rank in the order of creation stands for its uuid, a document's
contents for its bytes and hash. The after images of a commit are one step:
until `prepare.json` exists, nobody reads the directory.

### PinnedLock

`JsonFileLock.pinned`, one system call per action. Kernel locks belong to open
file descriptions: `fds[p]` is the process whose descriptions p's descriptors
refer to, and a forked child starts with its parent's. `Enter` and `Refresh` are
the two halves of `_refresh_after_fork`; `LockThread`, `LockDomain`,
`LockDirectory` and `LockFile` are the acquisitions of `__enter__` with the
identity check at the end; `LockFails` is a call that raises; `Exit`, `Unlock`
and `Poison` are `__exit__`. The environment swaps the lock file (`SwapFile`) or
the data root (`SwapRoot`), forks, kills and interrupts.

### Catalog and ShoppingReceipt

`Catalog` is `fridge.json` as a function from identities to items, with what the
repository's operations make of it. `ShoppingReceipt` has the requests, the plan
(how often it uses an ingredient, whether it can be read), and the receipt that
runs: `Reserve`, `Receive`, `Complete`, `Refresh`, one per commit, with `Crash`
possible before each of the last three. Other tools run only while no receipt
does, because of the scope: `AddManual`, `ChangePlan`, `AddItems`,
`CreateProduct`, `RemoveItems`, `Rename`, `Merge`. `bought` and `forsaken` are
history variables: the identities each request stocked, and the names that a
rename took away.

### Cooking and MealOccurrence

`Cooking` has the plan files (`plans`, their rows `meals`, their `lots` of
leftovers), `history` and what cooking consumes (`fridge`, `prep`). A command
that is refused is no step.

* `RegisterCooked` is the handler with its three forms: `CookOccurrence` (a row by
  id), `CookDish` (by name: a row, or an unplanned meal) and `CorrectCooked`
  (`replaces_event_id`). `Accepted` is the list of guards of a correction in the
  order of the code, `ReconciledLots` what becomes of the leftovers.
* `DeleteHistoryEntry` retracts: `RetractCooked` reopens the row.
* Plans: `CreatePlan`, `RepeatPlan`, `SetPlanStatus`, `DeletePlan`, `AddMeal`,
  `CancelMeal`, and the routes of the web `WebAddMeal`, `WebCancelMeal`,
  `ReviseMeal`.
* `HistoryLoads` is `validate_event_lineage`, conjunct by conjunct, and
  `Readable` the validation of a plan file. `InitLegacy` starts from history files
  of an earlier version, which have retracted cooks that nobody acknowledged.
* `Answer` is what a request gets that is repeated after its answer was lost.

`MealOccurrence` is the abstract specification: a meal is planned, cooked once,
undone, redone, cancelled; only the first cook uses prep. `Cooking` implements it
with the phase of an occurrence read off its row and its events (`PhaseOf`).

### DIISessions

`memory` of each process, `file` of each session, `fridge`, the `recipe`, and the
tool `call` that runs with its next write. The operations of `engine.py` are
functions from sessions to sessions (`AddSuggested`, `Skip`, `Removed`,
`AddManual`, `Cleared`, `Finalized`); a tool opens its session (`Open`, which
cleans up and loads), applies one and persists it (`Persist`, `PersistFails`).
`FinalizeSession` goes through `CommitFridge`, `CommitDish`, `RollBack` and
`PersistFinalized`, each of which may fail. `Crash` empties the memory, `Tick`
moves the clock towards expiry, `UseUp` is the household. Three variables are
history: `told` is the session that the last change was answered with, a
finalization whose flag could not be written included, as the answer is the same;
`outcome` follows that flag (`settled` when it was written, `unsaved` when only the
memory has it, `lost` when that process has died); `shared` has the sessions that
two processes had in memory since the last reset.

### ReceiptLedger

`ledger` maps a receipt to its revisions. `RecordReceipt`, `CorrectReceipt`,
`LinkReceiptLine`, `UnlinkReceiptLine` and `RetractReceipt` build a revision and
pass it to `CommitReceipts`, which applies the validation of every save
(`Acceptable`, with `ValidHistory` and `Follows`). `Identified` is the inference
of line ids in `build_revision`, one line (`IdOfNext`) after the other. `RecordAnswer` and `RetractAnswer` are what a
first or a repeated command is answered. `MergeProductIdentity` is the merge,
with its guard over the links of all revisions.

## 3. The runs

| Run | Instance | What it shows |
|---|---|---|
| `journal_crash` | 2 processes of a thread each, 2 documents, 2 transactions | `TypeOK`, `LineageLinear`, `CrashesNeverBlock`, `RepliesAreTrue`, `ScopeIsSettled`; the journal implements `AtomicStore` (`Atomicity`) |
| `journal_foreign` | 2 threads of one process, 2 documents, 2 transactions, one write past the journal | `VerdictsAreFinal`, `FailClosed`, and `JournalInv`, the invariant of the proofs |
| `journal_progress` | as the first, 1 transaction, with fairness | `EventuallyDecided`, `EventuallyExported` |
| `lock_scopes` | a process with 2 threads, and one more that starts or is forked; 2 directories, 2 lock files, depth 2, 1 interrupt, `OneFileReplaced`, with fairness | `TypeOK`, `MutualExclusion`, `LocksHaveUsers`, `PoisonIsFinal`, `Progress` |
| `lock_forkrace` | a forked child with 2 threads | violates `MutualExclusion` (finding 1) |
| `receipt_retry` | 3 names, 2 identities, 1 manual request, 2 rows, 2 uses, 1 stock cycle, `SmallShop` | `TypeOK`, `WinnerIsFinal`, `ReplayFindsProduct`, `NeedsReceivable`, `OneIdentityPerRequest` |
| `receipt_snapshot` | 2 names, otherwise the same | violates `PlanReadable` (finding 2) |
| `cooking_lifecycle` | 2 plans, 2 occurrences, 3 events, 2 dishes, 1 portion left, 2 uses of prep, revision 4, `SmallHousehold` | `TypeOK`, `HistoryAlwaysLoads`, `CookedByActiveEvent`, `CorrectionNeverJams`, `OnlyEditsBreakPlans`, `EffectsOnce`, `LostAnswerIsFound`, `MealChangesAreVersioned`, `HistoryOnlyRetracts`; plans and history implement `MealOccurrence` (`CookedOnce`) |
| `cooking_dish` | 1 plan, 1 occurrence, 2 events | violates `PlansReadable` (finding 3) |
| `dii_sessions` | 2 processes, 1 session, 1 ingredient listed twice, 2 failing writes of any kind and 1 crash, 1 minute | `NothingOfferedTwice`, `AnswersAreKept`, `RecipeHasIngredients`, `FailedFinalizeUndone`, `RecommitsOnlyIfLost` |
| `dii_flag` | 1 process, 1 session, 1 ingredient, 1 failing flag and 1 crash | violates `SettledNeverRecommits` (finding 4) |
| `ledger_repeats` | 2 receipts of 2 lines at most, 2 products, 1 hash, 2 reasons, 3 revisions, `SmallLedger` | `RepeatsAreAnswered`, `LinksNameProducts`, `CorrectionsKeepLinks`, `EvidenceCanBeAttached` |

**Bounds.** `MaxTx` bounds transaction directories: two are an interrupted
transaction and the one that comes after it, with a predecessor to get wrong;
two documents, each either missing or with one
content, are a mixture of old and new. `MaxForeign` is one write past the
journal: after a conflict nothing commits any more. The lock needs two threads
in one process and one in another to show exclusion on both levels; two
directories and two files are a replacement and the way back; `MaxDepth` 2 is a
nested entry. `OneFileReplaced` leaves out that both directories have their lock
file replaced by another one: one of them still has, and the safety theorems speak
of any number of files and directories.

In the receipt a second identity needs a name that neither the request nor the
first receipt has, hence three names; `MaxUses` 2 makes an ingredient that stock
does not cover; `MaxCycle` 1 is one purchase used up and one more need;
`MaxRequests` bounds the rows. `SmallShop` lets only one name be needed twice,
only one be lost to a rename, and a third name appear only with one request and
single uses. The receipt's runs do not check deadlock: the bounds stop it.

Three cook events are a cook, its correction and the correction of that, or a
recovery after a retraction; two dishes are a correction to another dish;
`MaxRevision` bounds edits only. `SmallHousehold` explores the second plan (what
repeating and deleting does, and a lot in one plan with its meal in another) with
one event and one dish, and the second meal with two events. Two failing writes
are a failing finalization with a failing rollback; `TTL` 0 makes expiry one tick
away, so that one copy of a session expires while another, of the next minute, is
fresh. A write that fails may be followed by the crash and the crash by a write
that fails, and `AnswersAreKept` and `RecommitsOnlyIfLost` meet both of their
exceptions. One ingredient is on offer, chosen, removed and typed in; that a typed
one leaves the queue behind the offer takes more of them, and is proved for any
list. Three revisions are a receipt, its correction and one link or
retraction, or two receipts and a change; the printed lines are two, one of them
also read as ambiguous. `SmallLedger` explores receipts of two lines alone and
without evidence, and fills the catalog first. What a constraint leaves out, the
proofs below cover where they exist.

**Fairness.** A thread that has entered keeps running, handlers return, and
scopes keep being entered while the lock is free (`Fairness` of the journal);
threads that run get on (`FairSpec` of the lock). Both are what the operating
system's scheduler gives to live threads. Nothing is assumed of crashes, errors,
interrupts, replacements or the other tools: `EventuallyDecided` and
`EventuallyExported` speak of executions in which crashes and errors stop at some
point (`Calm`), `Progress` of those in which no interrupt leaked a lock and no
description was left to a forked child alone. The other modules state no liveness:
an agent or a person decides whether a command is ever given or repeated.

## 4. The proofs

`AuditJournalProofs`. `Invariance`: `Spec => []IInv`. `LineageLinear` is not
inductive: that a predecessor is the latest commit rests on the tip in memory
being the latest, which rests on the recovery that ran in the same scope, which
rests on nobody else having the lock. `IInv` says this label by label (`Holder`,
`Attempting`, `Recovering`), and adds that directories appear in order and that
at most one transaction is undecided, the newest. From it follow `TypeCorrect`,
`LineageNeverBranches`, `RepliesAreTruthful`, `HandlersSeeSettledState` and the
action property `VerdictsNeverChange`, with any number of writes past the journal.

`AuditJournalRecovery` adds what holds on disk. `JournalInvariance`:
`Spec => []JournalInv`. Once a conflict is recorded nothing is undecided and no
thread is past a recovery (`ConflictStops`), from which `ConflictsFailClosed`
follows: every thread that could still commit would have to pass `RecoverRefuse`
first. And while nothing was written past the journal (`foreign = 0`), the
committed transactions explain every document: each before image is the newest
after image that was committed before it, a settled document holds the newest
after image, and a document of the undecided transaction holds one of its two
images, which of them depending on the label of the thread that is at it. Hence
recovery finds neither a third content nor a gap, whatever crashes it was
interrupted by: `RecoveryNeverRefuses`. Both `CrashesNeverBlock` and the invariant
except a write past the journal, because the code refuses to go on after one.

`JournalIsAtomic` is the refinement, `Spec /\ [](foreign = 0) => Atomicity`, step by
step. The abstract documents are the files as recovery would settle them
(`Settled`): the request of a thread is asked when its commit starts, and takes
effect with the write that makes the last document an after image, which may be
`Prepare` itself when nothing is to change. All other writes of documents stutter,
forward and on the way back, because by `HalfWritten` they replace one image of the
undecided transaction by the other; a crash, an error or an interrupt forgets or
answers. The hypothesis is what `AtomicStore` is about at all: a write past the
journal changes a document without a request.

`PinnedLockProofs`. `LockInvariance` says who owns the thread lock at which
label, that a thread past the refresh has descriptions of its own (or none), and
that the lock of the domain is held from `dir` on. Two threads inside would both
hold the domain's lock, so they are of one process, and both own its thread lock.
`Exclusion` and `PoisonHolds` follow. For `LocksInUse` three more facts are needed:
an unborn process's descriptions are nobody's (`DescriptorsFresh`), a lock has
somebody who has its description open (`LocksOpen`), and that somebody is inside,
on the way, or a forked child that has not refreshed (`LocksUsed`).

`NobodyWaitsForever` is the part of `Progress` that is safety: as long as no
interrupt has leaked a lock and none is left to a forked child alone, the threads
that have asked for the lock never all wait. `Free` states what each label waits
for: the thread lock, or one kernel lock. The owner of a thread lock is on its way
in or out, and acquired as often as it entered (`Balanced`); a lock that is not
poisoned has descriptors to lock with (`PinnedOpen`). Whoever is past the domain's
lock and waits for the directory or the file waits for a user of another
description, and that one is not between `dir` and `in`, where it would hold the
domain too: it is on the way out, and nothing stops it. That a thread which may
go on does so is fairness, and stays with `lock_scopes`.

The theorems assume `OneThreadPerChild`: a forked process has one thread when it
first uses the lock, as POSIX fork leaves it. Finding 1 is what happens without it.

`ShoppingReceiptProofs`. `ReceiptInv`: a receipt in progress still has the
active row it reserved, what it stocked is in the catalog, and every tombstone's
product is known. The step that matters is the merge: `MergeConflicts` must be
empty, so no row refers to the identity that goes. `ReplaysSucceed` follows, and
`WinnersHold`: a reserved or completed exact name never changes. `TypeCorrect`
includes that no name belongs to two identities.

The other two need the history of a name. `PurchaseInv`: what a request bought
answers to its name, unless a rename took it (`ProductNamed`); a derived id's
identity has reached the stock cycle in the id (`CyclesReached`); and a purchase
that was completed in the current cycle is still in stock (`Purchased`). An
operation may only move an item to a later state of it (`Later`, `Evolves`),
which is shown once for each. As no name has two identities, `PurchasesAreOne`
follows, and as stock covers what was bought in this cycle, `NeedsReopen`.

`CookingProofs`. `CookInv` is the type, the history's own validation, and four
facts that relate the files. None of them is inductive alone: that a correction
does not fork the history needs that the row it names is cooked by the event it
replaces, which is `CookedByActiveEvent`; that this survives a retraction needs
that the events of an occurrence form one chain (`HistoryLoads`); that a lot can
always be moved needs that it has its row and belongs to the last event of its
chain (`LotsHaveRows`, `LotsNameTips`); and a request that is repeated is found
because corrections name the occurrence of their event (`RequestsFit`). All
properties of `cooking_lifecycle` follow, among them `CookedPhysicallyOnce`: the
refinement of `MealOccurrence`, action by action. `CorrectionsAlwaysPossible` needs
one fact more. The code accepts the correction of a retracted event only if it is
the one event of the row that nothing replaces; that there is only one rests on
there having been one physical cook, since a correction takes the place of its
target (`OneTip`). Tombstones of an earlier version are further cooks, which nothing
ever replaces: beside them the theorem speaks of active events alone. Section 5
says what happens to a retracted one.

`DIIProofs`. `DIIInv`, for any number of processes and with every fault: a
session that is not in `shared` is in the memory of at most one process (`Alone`);
while its last answered change stands, its file is what the answer told, memory
holds the same or nothing, and no call is about it (`Backed`); a finalization that
was answered is on record in memory and file, or, if its flag could not be written,
in the memory of its process until that dies (`Marked`). From it follow
`AnswersSurvive` and `FinalizesOnce`, whose properties name the two exceptions
instead of assuming them away: a session that two processes had in memory, because
each then believes its own copy, and a flag that is lost. Both are needed, as
section 5 shows. `FailedFinalizationIsUndone` has no such
exception: the fridge that a call has noted is the fridge until its first write,
whatever other processes do, because nothing runs between the writes of one call.

The lists of a session have an invariant of their own, `CopiesNeat`, for any number
of processes: every copy, in a memory, in a file or under a call, has its choices
in one of the two lists, and what is on offer or still to be offered is neither
among them nor there twice (`Neat`). That the operations keep it rests on what they
make of the lists, which `Cleaned` and `Without` compute by folds; it gives
`NothingIsOfferedTwice`. `RecipeKeepsIngredients` follows from the guard of
`FinalizeSession` and from what a call keeps until its write.

`FoldLemmas`. A fold is recursive, and induction over its argument is not
available as a rule. It is replaced by least elements: a set of indices that has 0
and with every index the next has them all, since the least one that is missing
would have a predecessor that is not (`EveryIndex`, from the well-foundedness of
the numbers). In the same way there is a function that satisfies the equations of
a fold (`FoldExists`), and so the function that `FoldLeft` chooses is one. A client
then knows its fold as a sequence of prefixes, each made of the one before.

`ReceiptLedgerProofs`. `LedgerInv`: content and evidence belong to one receipt
counting all revisions, nothing follows a retraction, every history is valid and
its revisions have unique line ids, links are to known products. The first
conjunct makes `RecordAnswer` find the receipt, whichever revision the repeated
intake equals, and the second makes the repeated retraction see the current
revision. `EvidenceIsAccepted` rests on the ids and the
validity: the current lines with new evidence are a revision that follows.

`LinksAreKept` needs a second invariant, `LedgerNumbered`: lines are numbered from
1, so that the ids ever used have a greatest one and a new id is greater
(`NewIdIsNew`). Each id of a correction is given in view of the ids before it
(`IdentifiedIs`, a fold over the lines), hence a line has a new id and no links, or
it is an old line that was printed the same (`CorrectedFrom`). If an old line with
links is found by none of the lines that were printed like it, these are mapped one
to one to the other old lines like it, which are fewer: so none is lost where the
numbers are equal.

The constants' assumptions are `ConstantsOK` (journal, lock), `CatalogConstants`,
`ReceiptConstants` and `ManualIds` (an id made up for a manual request is not a
derived one), `CookingAssumption` with `RequestAssumption`, `DIIConstants`
and `LedgerConstants`: sentinels differ from values, bounds are numbers.

Only model-checked: liveness (`EventuallyDecided`, `EventuallyExported`,
`Progress`), which is out of the prover's reach. Every invariant, action property
and refinement of the passing runs is a theorem, under the assumptions above.
That `None` is no item lets a session with nothing on offer be told from one that
offers it, and that it is not the empty set keeps a dish whose recipe was never
saved apart from one whose recipe was emptied.

## 5. Findings

1. `lock_forkrace`: `_refresh_after_fork` assigns `_owner_pid` before it has
   opened the child's descriptors (`src/repositories/file_lock.py:89`). A second
   thread of the child that enters in between uses the parent's descriptions and
   is let in together with the parent.
2. `receipt_snapshot`: `receive_shopping_item` saves the refreshed snapshot
   without validating it (`src/handlers/receive_shopping_item.py:132`). When a
   manual request names an ingredient that the plan lists too, the plan cannot be
   loaded any more.
3. `cooking_dish`: a meal is cooked with leftovers and retracted; the web then
   edits its dish (`src/plan.py:245`). The lot keeps the old dish, the plan is
   saved without validation and its loader refuses it (`src/plan.py:119`), and
   every command that reads all plans fails with it.
4. `dii_flag`: a finalized flag that cannot be saved is only logged, below the
   comment that a reload cannot commit again (`src/dii/__init__.py:211-219`). When
   the process then dies, the session is loaded unfinalized, and finalizing it
   commits its ingredients a second time.

The models show more disagreements, which have no run of their own:

* After a rename the old name resolves to no identity, so the next need of that
  name gets its first id again, that of the completed purchase
  (`src/shopping.py:53`): `already_received`, and the row stays. `NeedsReceivable`
  excepts these names (`forsaken`); without the exception TLC shows it. The
  document promises a fresh id for every need that reappears
  (`docs/issues/SHOP-1-live-shopping-and-receipt-reconciliation.md:44`).
* The agent's guide says that a retracted cook is recovered by a correction of
  its event. After the dish of the reopened row was edited, no correction is
  accepted any more, which is why `CorrectionNeverJams` speaks of unedited rows.
* The guide calls the replacement of a retracted cook "the supported recovery
  path" (`skill.md:90`) and makes an exception only for events without any
  correction. A correction that has acknowledged a tombstone of an earlier version
  and is then retracted stands beside that tombstone as a second tip
  (`src/cooking.py:297-302`, `:656-658`): correcting it is refused, and so is
  cooking the row (`:679-683`). `CorrectionNeverJams` excepts a retracted event
  beside a tombstone; without the exception TLC shows it, and so do the same calls
  on the code.
* `persist` promises a backup in step with memory (`src/dii/store.py:124-128`), but
  a process serves a session from its own memory and never looks at the file again
  (`:85`). When another process has reset the same session, as the guide tells the
  agent to do (`skill.md:310`), the first one's old copy expires and `get` deletes
  the file of the fresh answer. `AnswersAreKept` excepts a session that two
  processes had in memory (`shared`); without the exception TLC shows it.
* `record_receipt` refuses new evidence of a known receipt with the advice to
  correct it (`src/receipt_commands.py:231`). If that receipt was retracted, a
  correction is refused as well: the purchase cannot be entered again unchanged.
* A correction or a link that is repeated after a lost answer is refused as stale
  (`src/receipt_commands.py:170`), unlike an intake or a retraction. And after the
  clock was set back a receipt cannot be changed (`src/receipt.py:930`).

## 6. Not modelled

* Symbolic links, file modes and swapped directories on the way to a document,
  the JSON schemas of the journal's records and the wall clock in them. The
  checks refuse; the order by the wall clock is a hazard without a property.
* `configure` of a live manager for a second directory.
* The ordinary mode of the file lock: one flock inside the journal's lock.
* Quantities, storage, expiry, categories, comments and timestamps of stock: they
  decide nothing that these properties speak of, except the precondition of an
  edit, a token that an editor presents and one line advances.
* In the ledger: links to shopping occurrences, whose targets are never removed,
  and the normalisation of texts, prices and times.
* A child that is forked inside a scope and leaves it: unwinding the parent's `with`
  block would unlock the descriptions that the two share
  (`repositories/file_lock.py:267-316`). The children of `PinnedLock` start outside,
  as nothing in the repository forks inside a scope.
* In the sessions: the presenter, which formats, and the ranking itself.
* `make_prep`, which withdraws its ingredients and then saves the prep item: two
  single commits inside one scope.
* Prep demand, prices, budgets and trips of a plan's snapshot: a computation in
  decimals that keeps no state.
* In plans: portions, slots and prices of meals; in cooking: times and notes.
* Scores and the bandit of `tuning.py`: floating point and random numbers.
* Analytics, catalog view, awareness, state sync: they write nothing.
* The migration: it runs once, alone, in one commit of the journal.
* The routes of the web API for stock, recipes and sessions of users: the same
  repositories under the same scopes.

## 7. What could come next

1. *Inventory versions*: `updated_at` preconditions on `Catalog`, with a clock
   that stalls or steps back.
2. *PlanShopping*: prep demand, prices and trips as operators, checked against
   reference definitions over bounded inputs.
3. *ReceiptLedger* composed with `ShoppingReceipt` through the merge of products.
4. *Tuning*: the update after a cooked meal, which is a commit of its own.
5. Proofs: that `PinnedLock` implements a lock with one holder, the variable `lock`
   of `AuditJournal`, which would compose the two by a theorem.
