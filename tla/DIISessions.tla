------------------------------ MODULE DIISessions ------------------------------
(***************************************************************************)
(* Ingredient sessions, src/src/dii: the recipe of a dish is composed step *)
(* by step in a session, and finalizing it puts the ingredients in stock   *)
(* and saves the recipe.  A process keeps its sessions in memory, mirrors  *)
(* each to a file and reads the file only for a session that it does not   *)
(* have.                                                                   *)
(*                                                                         *)
(* Every tool runs in the scope that AuditJournal models: one call at a    *)
(* time, over all processes, so that the locks of the store never contend. *)
(* But each write of a call is a commit of its own: the call can be        *)
(* stopped by a crash or an error between any two of them.  One dish       *)
(* stands for all, and the order of the selected ingredients is left out.  *)
(***************************************************************************)
EXTENDS Naturals, FiniteSets, SequencesExt

CONSTANTS
  Processes, Sessions, Ingredients,
  None,
  Rankings,     \* the ranked lists that an agent sends
  PreSelect,    \* how many of a list it has selected at once
  Faults,       \* the writes that may fail
  TTL,          \* minutes that a session lives without activity
  Interval,     \* least time between two clean ups
  MaxTime,      \* bound: the clock
  MaxFaults,    \* bound: failing writes
  MaxCrashes,   \* bound: crashes
  MaxCycle      \* bound: how often an ingredient is used up

Items == [ingredient : Ingredients, essential : BOOLEAN]
DIISession ==
  [essential : SUBSET Ingredients, optional : SUBSET Ingredients,
   current : Items \cup {None}, queue : Seq(Items),
   last : Nat, finalized : BOOLEAN, pending : BOOLEAN]
Writes == {"session", "fridge", "dish", "rollback", "finalized"}

ASSUME DIIConstants ==
  /\ None \notin Items \cup DIISession /\ None # {}
  /\ Rankings \subseteq Seq(Items) /\ PreSelect \subseteq Nat
  /\ Faults \subseteq Writes
  /\ {TTL, Interval, MaxTime, MaxFaults, MaxCrashes, MaxCycle} \subseteq Nat

VARIABLES
  now,       \* the wall clock, which the monotonic one follows
  memory,    \* _sessions of each process
  cleaned,   \* _last_cleanup_monotonic of each process
  file,      \* data/sessions/<id>.json
  fridge,    \* fridge.json
  recipe,    \* the dish in dishes.json: its ingredients
  call,      \* the tool call that runs, and the write that it does next
  told,      \* history: the session that the last change was answered with
  outcome,   \* history: what became of the flag of an answered finalization
  shared,    \* history: those that two processes had in memory since the last reset
  faults, crashes

stores  == <<memory, cleaned, file>>
kitchen == <<fridge, recipe>>
history == <<told, outcome, shared>>
vars    == <<now, stores, kitchen, call, history, faults, crashes>>

Idle == [write |-> "none"]

Init ==
  /\ now = 0
  /\ memory = [p \in Processes |-> [s \in Sessions |-> None]]
  /\ cleaned = [p \in Processes |-> None]
  /\ file = [s \in Sessions |-> None]
  /\ fridge = [i \in Ingredients |-> [available |-> FALSE, cycle |-> 0]]
  /\ recipe = None
  /\ call = Idle
  /\ told = [s \in Sessions |-> None]
  /\ outcome = [s \in Sessions |-> "open"]
  /\ shared = {}
  /\ faults = 0 /\ crashes = 0

-------------------------------------------------------------------------------
(* engine.py: what the operations make of a session.  Each one touches it. *)

Touched(x) == [x EXCEPT !.last = now]
Selection(x) == x.essential \cup x.optional
Funnel(x) == IF x.current = None THEN x.queue ELSE <<x.current>> \o x.queue

\* _select: the two lists exclude each other.
Select(x, item) ==
  IF item.essential
  THEN [x EXCEPT !.essential = @ \cup {item.ingredient}, !.optional = @ \ {item.ingredient}]
  ELSE [x EXCEPT !.optional = @ \cup {item.ingredient}, !.essential = @ \ {item.ingredient}]

\* _seed_queue and _advance_queue: the first of the list is on offer.
Offering(x, list) ==
  [x EXCEPT !.current = IF list = <<>> THEN None ELSE Head(list),
            !.queue   = IF list = <<>> THEN <<>> ELSE Tail(list)]
Advanced(x) == Offering(x, x.queue)

\* _normalize_ranked: the first of each ingredient counts.
Cleaned(ranked) ==
  FoldLeft(LAMBDA list, item :
             IF \E k \in DOMAIN list : list[k].ingredient = item.ingredient
             THEN list ELSE Append(list, item),
           <<>>, ranked)

\* The first n of the list are selected, the rest is on offer.
Built(ranked, n) ==
  LET list == Cleaned(ranked)
      top  == {list[k] : k \in {k \in DOMAIN list : k <= n}}
      selected == [essential |-> {item.ingredient : item \in {i \in top : i.essential}},
                   optional  |-> {item.ingredient : item \in {i \in top : ~i.essential}},
                   current |-> None, queue |-> <<>>,
                   last |-> now, finalized |-> FALSE, pending |-> FALSE]
  IN  Offering(selected, SubSeq(list, n + 1, Len(list)))

AddSuggested(x) == Touched(Advanced(Select(x, x.current)))
Skip(x) == Touched(Advanced(x))

Removed(x, i) ==
  IF i \in x.essential
  THEN Touched([x EXCEPT !.essential = @ \ {i}, !.pending = TRUE])
  ELSE Touched([x EXCEPT !.optional = @ \ {i}])

\* The list without the suggestions of an ingredient.
Without(list, i) ==
  FoldLeft(LAMBDA rest, q : IF q.ingredient = i THEN rest ELSE Append(rest, q), <<>>, list)

\* Mutant: the ingredient leaves the queue, but stays on offer.
AddManualKeepingOffer(x, item) ==
  Touched([Select(x, item) EXCEPT !.queue = Without(@, item.ingredient)])

\* An ingredient that the user typed leaves the funnel of suggestions.
AddManual(x, item) ==
  LET y == [Select(x, item) EXCEPT !.queue = Without(@, item.ingredient)]
  IN  Touched(IF y.current # None /\ y.current.ingredient = item.ingredient
              THEN Advanced(y) ELSE y)

Cleared(x) ==
  Touched([x EXCEPT !.essential = {}, !.optional = {},
                    !.pending = @ \/ Selection(x) # {}])

Finalized(x) == Touched([x EXCEPT !.finalized = TRUE, !.pending = FALSE])

-------------------------------------------------------------------------------
(* store.py: expiry, the debounced clean up, memory first and file second. *)

Expired(x) == x # None /\ x.last + TTL < now

CleanUpDue(p) == cleaned[p] = None \/ now >= cleaned[p] + Interval

\* cleanup_expired: memory and file of what expired there, then old files.
MemoryCleaned(p) ==
  [s \in Sessions |-> IF CleanUpDue(p) /\ Expired(memory[p][s]) THEN None ELSE memory[p][s]]

\* Mutant: the file of a session that is not in memory is taken for an orphan.
FileCleanedOfOrphans(p) ==
  [s \in Sessions |-> IF CleanUpDue(p) /\ (Expired(memory[p][s]) \/ memory[p][s] = None)
                      THEN None ELSE file[s]]

FileCleaned(p) ==
  [s \in Sessions |-> IF CleanUpDue(p) /\ (Expired(memory[p][s]) \/ Expired(file[s]))
                      THEN None ELSE file[s]]

\* get: the session of the process, or else the one of the file.
Got(p, s) ==
  LET x == MemoryCleaned(p)[s]
      y == IF x = None THEN FileCleaned(p)[s] ELSE x
  IN  IF Expired(y) THEN None ELSE y

CleanUp(p) == cleaned' = [cleaned EXCEPT ![p] = IF CleanUpDue(p) THEN now ELSE @]

\* Another process has the session in memory as well.
Elsewhere(p, s) == \E q \in Processes \ {p} : memory[q][s] # None

\* A call has found the session, or not, and leaves x in memory.
Leave(p, s, x) ==
  /\ memory' = [memory EXCEPT ![p] = [MemoryCleaned(p) EXCEPT ![s] = x]]
  /\ file' = [FileCleaned(p) EXCEPT ![s] = IF Got(p, s) = None THEN None ELSE @]
  /\ CleanUp(p)
  /\ shared' = IF Got(p, s) # None /\ Elsewhere(p, s) THEN shared \cup {s} ELSE shared

\* A change: in memory first, then the backup of it is due.
Change(p, s, x) ==
  /\ Leave(p, s, x)
  /\ call' = [write |-> "session", p |-> p, s |-> s]
  /\ told' = [told EXCEPT ![s] = None]
  /\ UNCHANGED <<now, kitchen, outcome, faults, crashes>>

-------------------------------------------------------------------------------
(* The tools.                                                              *)

\* Mutant: a session that is finalized is as good as any other.
OpenAlways(p, s) == call = Idle /\ Got(p, s) # None

\* _require_session and _require_active_session
Open(p, s) == call = Idle /\ Got(p, s) # None /\ ~Got(p, s).finalized
Active(p, s) == Open(p, s) /\ ~Got(p, s).pending

\* init_ingredient_session, for a new id or in place of what the id had.
InitSession(p, s) ==
  \E ranked \in Rankings, n \in PreSelect :
    /\ call = Idle
    /\ memory' = [memory EXCEPT ![p] = [MemoryCleaned(p) EXCEPT ![s] = Built(ranked, n)]]
    /\ file' = FileCleaned(p)
    /\ CleanUp(p)
    /\ call' = [write |-> "session", p |-> p, s |-> s]
    /\ told' = [told EXCEPT ![s] = None]
    /\ outcome' = [outcome EXCEPT ![s] = "open"]
    /\ shared' = IF Elsewhere(p, s) THEN shared \cup {s} ELSE shared \ {s}
    /\ UNCHANGED <<now, kitchen, faults, crashes>>

\* dii_get_state, and every call that is refused or has nothing to change.
GetState(p, s) ==
  /\ call = Idle
  /\ Leave(p, s, Got(p, s))
  /\ UNCHANGED <<now, kitchen, call, told, outcome, faults, crashes>>

AddSuggestedIngredient(p, s) ==
  /\ Active(p, s)
  /\ Got(p, s).current # None
  /\ Change(p, s, AddSuggested(Got(p, s)))

SkipSuggestedIngredient(p, s) ==
  /\ Active(p, s)
  /\ Change(p, s, Skip(Got(p, s)))

RemoveIngredient(p, s) ==
  /\ Open(p, s)
  /\ \E i \in Selection(Got(p, s)) : Change(p, s, Removed(Got(p, s), i))

AddManualIngredient(p, s) ==
  /\ Open(p, s)
  /\ \E item \in Items : Change(p, s, AddManual(Got(p, s), item))

ClearAllIngredients(p, s) ==
  /\ Open(p, s)
  /\ Change(p, s, Cleared(Got(p, s)))

\* persist, and the answer.
Persist ==
  /\ call.write = "session"
  /\ LET x == memory[call.p][call.s] IN
       /\ file' = [file EXCEPT ![call.s] = x]
       /\ told' = [told EXCEPT ![call.s] = x]
  /\ call' = Idle
  /\ UNCHANGED <<now, memory, cleaned, kitchen, outcome, shared, faults, crashes>>

\* A write raises.
Fails(write) ==
  /\ call.write = write
  /\ write \in Faults /\ faults < MaxFaults
  /\ faults' = faults + 1

\* persist raises: the change stays in memory and the answer is an error.
PersistFails ==
  /\ Fails("session")
  /\ call' = Idle
  /\ UNCHANGED <<now, stores, kitchen, history, crashes>>

-------------------------------------------------------------------------------
(* finalize_ingredient_session: fridge, then dish, then the session's flag. *)

Session == memory[call.p][call.s]
OutOfStock(x) == {i \in Selection(x) : ~fridge[i].available}

Continue(step) == call' = [call EXCEPT !.write = step]

\* A session that is finalized already is answered as such: GetState.
FinalizeSession(p, s) ==
  \E toFridge, toDish \in BOOLEAN :
    /\ Open(p, s)
    /\ Leave(p, s, Got(p, s))
    /\ call' = [write |-> "fridge", p |-> p, s |-> s, toFridge |-> toFridge,
                toDish |-> toDish, before |-> fridge]
    /\ told' = [told EXCEPT ![s] = None]
    /\ UNCHANGED <<now, kitchen, outcome, faults, crashes>>

CommitFridge ==
  /\ call.write = "fridge"
  /\ fridge' = [i \in Ingredients |->
                 IF call.toFridge /\ i \in OutOfStock(Session)
                 THEN [fridge[i] EXCEPT !.available = TRUE] ELSE fridge[i]]
  /\ Continue("dish")
  /\ UNCHANGED <<now, stores, recipe, history, faults, crashes>>

CommitFridgeFails ==
  /\ Fails("fridge")
  /\ call' = Idle
  /\ UNCHANGED <<now, stores, kitchen, history, crashes>>

\* Mutant: an empty selection is saved as well.
SavesDishAlways(x) == call.toDish

\* An empty selection would wipe the recipe.
SavesDish(x) == call.toDish /\ Selection(x) # {}

\* The recipe is saved and the session is marked, in memory.
CommitDish ==
  /\ call.write = "dish"
  /\ recipe' = IF SavesDish(Session) THEN Selection(Session) ELSE recipe
  /\ memory' = [memory EXCEPT ![call.p][call.s] = Finalized(@)]
  /\ Continue("finalized")
  /\ UNCHANGED <<now, cleaned, file, fridge, history, faults, crashes>>

\* The dish cannot be saved: what was put in the fridge is taken back.
CommitDishFails ==
  /\ Fails("dish") /\ SavesDish(Session)
  /\ IF fridge = call.before THEN call' = Idle ELSE Continue("rollback")
  /\ UNCHANGED <<now, stores, kitchen, history, crashes>>

\* Mutant: what was added is withdrawn again, one ingredient at a time.
RestoredByWithdrawal ==
  [i \in Ingredients |-> IF fridge[i] = call.before[i] THEN fridge[i]
                         ELSE [available |-> FALSE, cycle |-> fridge[i].cycle + 1]]

\* save_items(catalog_before)
Restored == call.before

RollBack ==
  /\ call.write = "rollback"
  /\ fridge' = Restored
  /\ call' = Idle
  /\ UNCHANGED <<now, stores, recipe, history, faults, crashes>>

RollBackFails ==
  /\ Fails("rollback")
  /\ call' = Idle
  /\ UNCHANGED <<now, stores, kitchen, history, crashes>>

\* The flag is saved, and the answer.
PersistFinalized ==
  /\ call.write = "finalized"
  /\ file' = [file EXCEPT ![call.s] = Session]
  /\ told' = [told EXCEPT ![call.s] = Session]
  /\ outcome' = [outcome EXCEPT ![call.s] = "settled"]
  /\ call' = Idle
  /\ UNCHANGED <<now, memory, cleaned, kitchen, shared, faults, crashes>>

\* That the flag cannot be saved is only logged: the answer is the same.
PersistFinalizedFails ==
  /\ Fails("finalized")
  /\ told' = [told EXCEPT ![call.s] = Session]
  /\ outcome' = [outcome EXCEPT ![call.s] = "unsaved"]
  /\ call' = Idle
  /\ UNCHANGED <<now, stores, kitchen, shared, crashes>>

-------------------------------------------------------------------------------
(* The rest of the world.                                                  *)

\* A process dies, with the sessions in its memory, and is started again.
Crash(p) ==
  /\ crashes < MaxCrashes
  /\ crashes' = crashes + 1
  /\ memory' = [memory EXCEPT ![p] = [s \in Sessions |-> None]]
  /\ cleaned' = [cleaned EXCEPT ![p] = None]
  /\ call' = IF call # Idle /\ call.p = p THEN Idle ELSE call
  /\ outcome' = [s \in Sessions |-> IF outcome[s] = "unsaved" /\ memory[p][s] # None
                                    THEN "lost" ELSE outcome[s]]
  /\ UNCHANGED <<now, file, kitchen, told, shared, faults>>

\* Calls are short: time passes between them.
Tick ==
  /\ call = Idle /\ now < MaxTime
  /\ now' = now + 1
  /\ UNCHANGED <<stores, kitchen, call, history, faults, crashes>>

\* Another tool withdraws an ingredient.
UseUp ==
  /\ call = Idle
  /\ \E i \in Ingredients :
       /\ fridge[i].available /\ fridge[i].cycle < MaxCycle
       /\ fridge' = [fridge EXCEPT ![i] = [available |-> FALSE, cycle |-> @.cycle + 1]]
  /\ UNCHANGED <<now, stores, recipe, call, history, faults, crashes>>

Tool(p, s) ==
  \/ InitSession(p, s) \/ GetState(p, s)
  \/ AddSuggestedIngredient(p, s) \/ SkipSuggestedIngredient(p, s)
  \/ RemoveIngredient(p, s) \/ AddManualIngredient(p, s) \/ ClearAllIngredients(p, s)
  \/ FinalizeSession(p, s)

Write ==
  \/ Persist \/ PersistFails
  \/ CommitFridge \/ CommitFridgeFails
  \/ CommitDish \/ CommitDishFails \/ RollBack \/ RollBackFails
  \/ PersistFinalized \/ PersistFinalizedFails

Next ==
  \/ \E p \in Processes, s \in Sessions : Tool(p, s)
  \/ Write
  \/ \E p \in Processes : Crash(p)
  \/ Tick \/ UseUp

Spec == Init /\ [][Next]_vars

-------------------------------------------------------------------------------
(* Properties.                                                             *)

Copies == {x \in {memory[p][s] : p \in Processes, s \in Sessions}
                 \cup {file[s] : s \in Sessions} : x # None}

\* What was selected, in either list, is in one list only and is not offered
\* again, and nothing is offered twice: after any choices, resets and reloads.
NothingOfferedTwice ==
  \A x \in Copies :
    /\ x.essential \cap x.optional = {}
    /\ \A k \in DOMAIN Funnel(x) :
         /\ Funnel(x)[k].ingredient \notin Selection(x)
         /\ \A l \in 1 .. k - 1 : Funnel(x)[l].ingredient # Funnel(x)[k].ingredient

\* What was answered is in the backup and survives a crash, whatever was
\* answered, failed or crashed before it, with two exceptions: a session that
\* two processes had in memory, as the memory of one is served, cleaned up and
\* saved without a look at the file, and the flag of a finalization that could
\* not be saved, which is in memory until that process dies.
AnswersAreKept ==
  \A s \in Sessions \ shared :
    told[s] # None /\ ~Expired(told[s]) =>
      \/ file[s] = told[s]
      \/ /\ told[s].finalized
         /\ \/ outcome[s] = "unsaved" /\ \E p \in Processes : memory[p][s] = told[s]
            \/ outcome[s] = "lost"

\* A finalization that is answered by an error leaves the kitchen as it was,
\* stock cycles included, unless taking back fails as well.
FailedFinalizeUndone ==
  [][call.write \in {"fridge", "dish", "rollback"} /\ call' = Idle
       /\ crashes' = crashes /\ ~(call.write = "rollback" /\ faults' # faults)
       => fridge' = call.before /\ recipe' = recipe]_vars

\* Once its finalization was answered, a session changes neither the fridge
\* nor the recipe again, unless it is reset, as the comment above the write of
\* the flag says.  It does: that write may fail, and the process may die.
SettledNeverRecommits ==
  [][call # Idle /\ outcome[call.s] # "open" => kitchen' = kitchen]_vars

\* A finalization that was answered is only ever repeated when its flag was
\* lost, by a write that failed and the death of the process, or when two
\* processes had the session: after other crashes, failures, repeats and
\* take-overs from the file the kitchen stays as it is.
RecommitsOnlyIfLost ==
  [][call # Idle /\ outcome[call.s] \in {"settled", "unsaved"} /\ call.s \notin shared
       => kitchen' = kitchen]_vars

\* No finalization wipes the recipe: a recipe has ingredients.
RecipeHasIngredients == recipe # {}
===============================================================================
