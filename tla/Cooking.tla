------------------------------- MODULE Cooking -------------------------------
(***************************************************************************)
(* Weekly plans, their meal occurrences and the cooking history:           *)
(* src/cooking.py, src/plan.py, repositories/json_history.py,              *)
(* repositories/json_plan.py, the plan and history handlers and the plan   *)
(* routes of web/main.py.                                                  *)
(*                                                                         *)
(* Every command runs under the audit lock and commits its files in one    *)
(* transaction (module AuditJournal), so a command is one step here.  A    *)
(* command that is refused changes nothing and is no step.  Files are      *)
(* dictionaries: functions whose domain is the set of keys in use.         *)
(*                                                                         *)
(* Abstracted: times, notes, planned portions and audit payloads.  Of the  *)
(* portions of a cook only what is left over is kept.  No code moves       *)
(* consumed_portions from 0, so a lot has none.  The catalogue of dishes   *)
(* is fixed.  root_event_id and effects_origin_event_id are assigned the   *)
(* same value on every path: field root stands for both.                   *)
(***************************************************************************)
EXTENDS Naturals, FiniteSets

CONSTANTS
    Weeks,          \* names of plan files
    Occurrences,    \* meal occurrence ids (uuid4: never given out twice)
    CookEvents,     \* cooking event ids; a lot is named by the event that made it
    Dishes,         \* the recipe catalogue
    MaxLeft,        \* bound: largest number of portions left over by a cook
    MaxRevision,    \* bound: meals are edited only below this revision
    PrepUses,       \* uses of the shared prep item before anything is cooked
    None            \* JSON null

ASSUME CookingAssumption ==
    /\ MaxLeft \in Nat
    /\ MaxRevision \in Nat
    /\ PrepUses \in Nat
    /\ None \notin Occurrences \cup CookEvents \cup Nat

VARIABLES
    plans,      \* week -> status of the plan file
    meals,      \* occurrence id -> row of a plan
    lots,       \* leftover lot id -> lot of a plan
    history,    \* event id -> row of history.json
    fridge,     \* dishes whose essential ingredients are in stock
    prep        \* remaining uses of the prep item

vars == <<plans, meals, lots, history, fridge, prep>>

PlanStatus == {"draft", "approved", "active", "archived"}

\* The successor of a plan status; archived has none.
NextStatus == [draft |-> "approved", approved |-> "active", active |-> "archived"]

MealStatus == {"planned", "cooked", "cancelled"}

Meal == [week: Weeks, dish: Dishes, status: MealStatus, rev: Nat \ {0},
         event: CookEvents \cup {None}, lots: SUBSET CookEvents]

Lot == [week: Weeks, occ: Occurrences, event: CookEvents, dish: Dishes,
        left: 1..MaxLeft]

\* A correction request is its own fingerprint; left = None is an omitted field.
Request == [target: CookEvents, occ: Occurrences, dish: Dishes,
            rev: Nat, left: 0..MaxLeft \cup {None}]

ASSUME RequestAssumption == None \notin Request

\* Only a correction has provenance: request, root and acked.
Event == [dish: Dishes, occ: Occurrences \cup {None}, left: 0..MaxLeft,
          active: BOOLEAN, request: Request \cup {None},
          root: CookEvents \cup {None}, acked: SUBSET CookEvents]

TypeOK ==
    /\ DOMAIN plans \subseteq Weeks /\ plans \in [DOMAIN plans -> PlanStatus]
    /\ DOMAIN meals \subseteq Occurrences /\ meals \in [DOMAIN meals -> Meal]
    /\ DOMAIN lots \subseteq CookEvents /\ lots \in [DOMAIN lots -> Lot]
    /\ DOMAIN history \subseteq CookEvents
    /\ history \in [DOMAIN history -> Event]
    /\ fridge \subseteq Dishes
    /\ prep \in Nat

-----------------------------------------------------------------------------
(* Dictionaries. *)

Put(f, k, v) == [x \in DOMAIN f \cup {k} |-> IF x = k THEN v ELSE f[x]]
Without(f, S) == [x \in DOMAIN f \ S |-> f[x]]

MealsOf(w) == {o \in DOMAIN meals : meals[o].week = w}
LotsOf(w) == {l \in DOMAIN lots : lots[l].week = w}

-----------------------------------------------------------------------------
(* The lineage of cooking events. *)

IsCorrection(e) == history[e].request # None
Corrections == {e \in DOMAIN history : IsCorrection(e)}
Linked(o) == {e \in DOMAIN history : history[e].occ = o}
ActiveLinked(o) == {e \in Linked(o) : history[e].active}
Children(e) == {c \in Corrections : history[c].request.target = e}
RootOf(e) == IF IsCorrection(e) THEN history[e].root ELSE e

\* The linked events that no event replaces.
Tips(o) == {e \in Linked(o) : Children(e) = {}}

\* Mutant: tombstones of an earlier version are not looked for.
NoTombstones(t) == {}

\* Plain events of the target's occurrence that its chain does not start from.
UnverifiedTombstones(t) ==
    {e \in Linked(history[t].occ) : ~IsCorrection(e) /\ e # RootOf(t)}

OneActivePerOccurrence ==
    \A e, f \in DOMAIN history :
        /\ history[e].active /\ history[f].active
        /\ history[e].occ = history[f].occ /\ history[e].occ # None
        => e = f

PredecessorsFit ==
    \A c \in Corrections :
        LET t == history[c].request.target
        IN  /\ t \in DOMAIN history \ {c}
            /\ history[t].occ = history[c].occ
            /\ history[t].dish = history[c].dish
            /\ history[c].root = RootOf(t)
            /\ ~history[t].active

NoForks ==
    \A c, d \in Corrections :
        history[c].request.target = history[d].request.target => c = d

\* A chain that never leaves a set of corrections would be a cycle.
NoCycles ==
    \A S \in SUBSET Corrections :
        S # {} => \E c \in S : history[c].request.target \notin S

\* Once an occurrence has a correction, each of its plain events is the root
\* of a chain or was acknowledged by a correction.
RootsCovered ==
    \A e \in DOMAIN history :
        /\ ~IsCorrection(e)
        /\ \E c \in Corrections : history[c].occ = history[e].occ
        => \E c \in Corrections :
              /\ history[c].occ = history[e].occ
              /\ e = history[c].root \/ e \in history[c].acked

ActiveIsTip == \A e \in DOMAIN history : history[e].active => Children(e) = {}

HistoryLoads ==
    /\ OneActivePerOccurrence
    /\ PredecessorsFit
    /\ NoForks
    /\ NoCycles
    /\ RootsCovered
    /\ ActiveIsTip

-----------------------------------------------------------------------------
(* Reading plan files. *)

MealLoads(o) ==
    /\ meals[o].status = "cooked" <=> meals[o].event # None
    /\ \A k, l \in meals[o].lots : k = l
    /\ \A l \in meals[o].lots :
          l \in LotsOf(meals[o].week) /\ lots[l].occ = o

LotLoads(l) ==
    LET o == lots[l].occ
    IN  /\ o \in MealsOf(lots[l].week)
        /\ l \in meals[o].lots
        /\ meals[o].dish = lots[l].dish
        /\ meals[o].status = "cooked" => meals[o].event = lots[l].event

Readable(w) ==
    /\ \A o \in MealsOf(w) : MealLoads(o)
    /\ \A l \in LotsOf(w) : LotLoads(l)

\* load: None both for a missing file and for one that does not parse.
Loaded(w) == w \in DOMAIN plans /\ Readable(w)

\* A strict search reads every plan and stops at the first it cannot read.
AllReadable == \A w \in DOMAIN plans : Readable(w)

\* A new uuid: in no plan and in no event.
Unused(o) == o \notin DOMAIN meals /\ Linked(o) = {}
UnusedEvent(e) == e \notin DOMAIN history /\ e \notin DOMAIN lots

\* The web edits only drafts, and only as the page showed them: the version in
\* its request is a hash of the whole plan, so that a stale page is refused.
DraftLoaded(w) == Loaded(w) /\ plans[w] = "draft"

NewMeal(w, d) ==
    [week |-> w, dish |-> d, status |-> "planned", rev |-> 1,
     event |-> None, lots |-> {}]

-----------------------------------------------------------------------------
(* Plans. *)

\* Write a plan with these rows in the place of whatever the file held.
WritePlan(w, rows) ==
    /\ plans' = Put(plans, w, "draft")
    /\ meals' = [o \in (DOMAIN meals \ MealsOf(w)) \cup DOMAIN rows |->
                    IF o \in DOMAIN rows THEN rows[o] ELSE meals[o]]
    /\ lots' = Without(lots, LotsOf(w))
    /\ UNCHANGED <<history, fridge, prep>>

CreatePlan(w) == ~Loaded(w) /\ WritePlan(w, [o \in {} |-> None])

\* The planned and the cooked meals of a plan are copied to another week.
RepeatPlan(source, w) ==
    /\ source # w
    /\ Loaded(source)
    /\ ~Loaded(w)
    /\ LET copied == {o \in MealsOf(source) : meals[o].status # "cancelled"}
       IN  \E S \in SUBSET {o \in Occurrences : Unused(o)} :
           \E from \in [S -> copied] :
              /\ \A x, y \in S : from[x] = from[y] => x = y
              /\ \A o \in copied : \E x \in S : from[x] = o
              /\ WritePlan(w, [x \in S |-> NewMeal(w, meals[from[x]].dish)])

SetPlanStatus(w) ==
    /\ Loaded(w)
    /\ plans[w] \in DOMAIN NextStatus
    /\ plans' = [plans EXCEPT ![w] = NextStatus[@]]
    /\ UNCHANGED <<meals, lots, history, fridge, prep>>

\* Web only, whatever the status and whatever was cooked from the plan.
DeletePlan(w) ==
    /\ Loaded(w)
    /\ plans' = Without(plans, {w})
    /\ meals' = Without(meals, MealsOf(w))
    /\ lots' = Without(lots, LotsOf(w))
    /\ UNCHANGED <<history, fridge, prep>>

AddMeal(o, w, d) ==
    /\ Loaded(w)
    /\ plans[w] # "archived"
    /\ Unused(o)
    /\ meals' = Put(meals, o, NewMeal(w, d))
    /\ UNCHANGED <<plans, lots, history, fridge, prep>>

\* Mutant: a status change without a new revision.
TransitionUnversioned(m, status) == [m EXCEPT !.status = status]

\* The lifecycle leaves planned only, and every change has its own revision.
Transition(m, status) == [m EXCEPT !.status = status, !.rev = @ + 1]

CancelMeal(o) ==
    /\ o \in DOMAIN meals
    /\ Loaded(meals[o].week)
    /\ plans[meals[o].week] # "archived"
    /\ meals[o].status = "planned"
    /\ meals' = [meals EXCEPT ![o] = Transition(@, "cancelled")]
    /\ UNCHANGED <<plans, lots, history, fridge, prep>>

WebAddMeal(o, w, d) == DraftLoaded(w) /\ AddMeal(o, w, d)
WebCancelMeal(o) ==
    /\ o \in DOMAIN meals
    /\ DraftLoaded(meals[o].week)
    /\ CancelMeal(o)

\* Another dish, or the same dish with other planned portions.
Revised(m, d) == [m EXCEPT !.dish = d, !.rev = @ + 1]

\* Web only.
ReviseMeal(o, d) ==
    /\ o \in DOMAIN meals
    /\ DraftLoaded(meals[o].week)
    /\ meals[o].status = "planned"
    /\ meals[o].rev < MaxRevision
    /\ meals' = [meals EXCEPT ![o] = Revised(@, d)]
    /\ UNCHANGED <<plans, lots, history, fridge, prep>>

-----------------------------------------------------------------------------
(* Cooking. *)

\* The occurrence an explicit request is about, as both kinds of cook check it.
Located(o, d, rev) ==
    /\ AllReadable
    /\ o \in DOMAIN meals
    /\ plans[meals[o].week] # "archived"
    /\ meals[o].dish = d
    /\ meals[o].rev = rev

\* Ingredients and prep are used up by a new cook and never by a correction.
Consume(d) ==
    /\ fridge' = fridge \ {d}
    /\ prep' = IF prep > 0 THEN prep - 1 ELSE 0

\* A correction keeps what the event it replaces has used.
RetainEffects(d) == UNCHANGED <<fridge, prep>>

\* Mutant: the replaced event stays active.
KeptActive(h, e) == h

\* Mutant: undoing a cook deletes its event.
Deleted(h, e) == Without(h, {e})

\* An event is never removed, only marked.
Retracted(h, e) == [h EXCEPT ![e].active = FALSE]

PlainEvent(d, o, left) ==
    [dish |-> d, occ |-> o, left |-> left, active |-> TRUE,
     request |-> None, root |-> None, acked |-> {}]

NewLot(o, e, left) ==
    [week |-> meals[o].week, occ |-> o, event |-> e, dish |-> meals[o].dish,
     left |-> left]

CookedBy(m, e, ls) == [Transition(m, "cooked") EXCEPT !.event = e, !.lots = ls]
Reopened(m) == [Transition(m, "planned") EXCEPT !.event = None]

\* The row becomes cooked by e; what is left over becomes a lot of its plan.
MarkCooked(o, e, left) ==
    /\ meals' = [meals EXCEPT ![o] =
                    CookedBy(@, e, IF left > 0 THEN @.lots \cup {e} ELSE @.lots)]
    /\ lots' = IF left > 0 THEN Put(lots, e, NewLot(o, e, left)) ELSE lots

\* Mutant: a meal that was cooked before is cooked anew.
CookMealAgain(e, o, left) ==
    /\ meals[o].status = "planned"
    /\ MarkCooked(o, e, left)
    /\ history' = Put(history, e, PlainEvent(meals[o].dish, o, left))
    /\ Consume(meals[o].dish)
    /\ UNCHANGED plans

\* A meal without any cooking history is cooked.
CookMeal(e, o, left) ==
    /\ meals[o].status = "planned"
    /\ Linked(o) = {}
    /\ MarkCooked(o, e, left)
    /\ history' = Put(history, e, PlainEvent(meals[o].dish, o, left))
    /\ Consume(meals[o].dish)
    /\ UNCHANGED plans

CookOccurrence(e, o, rev, left) ==
    /\ UnusedEvent(e)
    /\ o \in DOMAIN meals
    /\ Located(o, meals[o].dish, rev)
    /\ HistoryLoads
    /\ CookMeal(e, o, left)

PlannedFor(d) ==
    {o \in DOMAIN meals : /\ plans[meals[o].week] # "archived"
                          /\ meals[o].dish = d
                          /\ meals[o].status = "planned"}

\* Without an occurrence id: the only planned meal of the dish, or none at all.
CookDish(e, d, left) ==
    /\ UnusedEvent(e)
    /\ AllReadable
    /\ HistoryLoads
    /\ \/ \E o \in PlannedFor(d) :
             PlannedFor(d) = {o} /\ CookMeal(e, o, left)
       \/ /\ PlannedFor(d) = {}
          /\ history' = Put(history, e, PlainEvent(d, None, left))
          /\ Consume(d)
          /\ UNCHANGED <<plans, meals, lots>>

\* The lots of the plan that name the occurrence as their source.
SourceLots(o) == {l \in LotsOf(meals[o].week) : lots[l].occ = o}

\* Mutant: an event that was retracted first is no longer corrected.
ReplaceableWhileActive(t, o) ==
    /\ Children(t) = {}
    /\ history[t].active
    /\ ActiveLinked(o) = {t}
    /\ meals[o].status = "cooked" /\ meals[o].event = t

\* What the replaced event must be for a correction to be accepted.
Replaceable(t, o) ==
    /\ Children(t) = {}
    /\ IF history[t].active
       THEN /\ ActiveLinked(o) = {t}
            /\ meals[o].status = "cooked" /\ meals[o].event = t
       ELSE /\ ActiveLinked(o) = {}
            /\ meals[o].status = "planned" /\ meals[o].event = None
            /\ Tips(o) = {t}

LotsReconcilable(t, o) ==
    /\ meals[o].lots = SourceLots(o)
    /\ \A k, l \in meals[o].lots : k = l
    /\ \A l \in meals[o].lots : lots[l].event = t

Accepted(req, acks) ==
    /\ req.target \in DOMAIN history
    /\ history[req.target].dish = req.dish
    /\ Located(req.occ, req.dish, req.rev)
    /\ meals[req.occ].status \in {"planned", "cooked"}
    /\ history[req.target].occ = req.occ
    /\ UnverifiedTombstones(req.target) \subseteq acks
    /\ Replaceable(req.target, req.occ)
    /\ LotsReconcilable(req.target, req.occ)

CorrectionEvent(req, left) ==
    [dish |-> req.dish, occ |-> req.occ, left |-> left, active |-> TRUE,
     request |-> req, root |-> RootOf(req.target),
     acked |-> UnverifiedTombstones(req.target)]

\* Mutant: the lot keeps naming the event that was replaced.
LotsOfReplaced(o, e, left) ==
    IF meals[o].lots # {}
    THEN IF left = 0 THEN Without(lots, meals[o].lots)
         ELSE [l \in DOMAIN lots |->
                 IF l \in meals[o].lots THEN [lots[l] EXCEPT !.left = left] ELSE lots[l]]
    ELSE IF left > 0 THEN Put(lots, e, NewLot(o, e, left)) ELSE lots

\* Mutant: a lot that nothing is left of stays.
LotsKeptEmpty(o, e, left) ==
    IF meals[o].lots # {}
    THEN [l \in DOMAIN lots |->
            IF l \in meals[o].lots THEN NewLot(o, e, left) ELSE lots[l]]
    ELSE IF left > 0 THEN Put(lots, e, NewLot(o, e, left)) ELSE lots

\* The lots after a correction of the occurrence that leaves so many portions.
ReconciledLots(o, e, left) ==
    IF meals[o].lots # {}
    THEN IF left = 0 THEN Without(lots, meals[o].lots)
         ELSE [l \in DOMAIN lots |->
                 IF l \in meals[o].lots THEN NewLot(o, e, left) ELSE lots[l]]
    ELSE IF left > 0 THEN Put(lots, e, NewLot(o, e, left)) ELSE lots

ReconciledLinks(o, e, left) ==
    IF left = 0 THEN {} ELSE IF meals[o].lots # {} THEN meals[o].lots ELSE {e}

\* A correction retracts an active target, appends its replacement and moves
\* the row and the lot over to it; stock and prep stay as they are.
CorrectCooked(e, req, acks) ==
    LET t == req.target
        o == req.occ
        left == IF req.left = None THEN history[t].left ELSE req.left
    IN  /\ UnusedEvent(e)
        /\ Accepted(req, acks)
        /\ HistoryLoads
        /\ history' = Put(Retracted(history, t), e, CorrectionEvent(req, left))
        /\ meals' = [meals EXCEPT ![o] = CookedBy(@, e, ReconciledLinks(o, e, left))]
        /\ lots' = ReconciledLots(o, e, left)
        /\ RetainEffects(req.dish)
        /\ UNCHANGED plans

\* The row is reopened; a lot it made stays and keeps naming the event.
RetractCooked(e) ==
    /\ e \in DOMAIN history
    /\ history[e].active
    /\ HistoryLoads
    /\ history' = Retracted(history, e)
    /\ LET o == history[e].occ
       IN  IF o = None THEN UNCHANGED meals
           ELSE /\ AllReadable
                /\ o \in DOMAIN meals
                /\ meals[o].status = "cooked"
                /\ meals[o].event = e
                /\ meals' = [meals EXCEPT ![o] = Reopened(@)]
    /\ UNCHANGED <<plans, lots, fridge, prep>>

-----------------------------------------------------------------------------
(* The answer to a repeated correction request.  Only the command that     *)
(* finds its own earlier commit changes nothing and still answers.         *)

\* Mutant: a repeated request is held to its old revision.
CommittedAtRevision(req) ==
    {c \in Children(req.target) :
        /\ history[c].request = req
        /\ history[c].active
        /\ AllReadable
        /\ req.occ \in DOMAIN meals
        /\ meals[req.occ].rev = req.rev
        /\ meals[req.occ].event = c}

\* The event that the request committed and that still stands.
Committed(req) ==
    {c \in Children(req.target) :
        /\ Cardinality({d \in Children(req.target) : history[d].request = req}) = 1
        /\ history[c].request = req
        /\ history[c].active
        /\ AllReadable
        /\ req.occ \in DOMAIN meals
        /\ meals[req.occ].status = "cooked"
        /\ meals[req.occ].event = c}

\* The event a request is answered by without being carried out.
Answer(req) == IF Accepted(req, CookEvents) THEN {} ELSE Committed(req)

-----------------------------------------------------------------------------

NoDict == [x \in {} |-> None]

\* Dishes that no event used up, and uses of the prep item that none took.
InStock(h) == Dishes \ {h[e].dish : e \in {x \in DOMAIN h : h[x].request = None}}
UsesLeft(h) ==
    LET taken == Cardinality({e \in DOMAIN h : h[e].request = None})
    IN  IF taken < PrepUses THEN PrepUses - taken ELSE 0

InitFresh ==
    /\ plans = NoDict /\ meals = NoDict /\ lots = NoDict /\ history = NoDict

\* Files of an earlier version: an occurrence was cooked, retracted and cooked
\* again before corrections existed.
InitLegacy ==
    \E w \in Weeks, o \in Occurrences, d \in Dishes, e, f \in CookEvents :
        /\ e # f
        /\ plans = [x \in {w} |-> "active"]
        /\ meals = [x \in {o} |->
                       [NewMeal(w, d) EXCEPT !.status = "cooked", !.rev = 4, !.event = f]]
        /\ lots = NoDict
        /\ history = [x \in {e, f} |->
                         [PlainEvent(d, o, 0) EXCEPT !.active = (x = f)]]

Init ==
    /\ InitFresh \/ InitLegacy
    /\ fridge = InStock(history)
    /\ prep = UsesLeft(history)

\* Requests that name the current state of a row; others are refused.
Requests(o) ==
    [target: Linked(o), occ: {o}, dish: {meals[o].dish}, rev: {meals[o].rev},
     left: 0..MaxLeft \cup {None}]

\* The three forms of register_cooked_meal.
RegisterCooked(e) ==
    \/ \E o \in DOMAIN meals, left \in 0..MaxLeft :
          CookOccurrence(e, o, meals[o].rev, left)
    \/ \E d \in Dishes, left \in 0..MaxLeft : CookDish(e, d, left)
    \/ \E o \in DOMAIN meals : \E req \in Requests(o), acks \in {{}, CookEvents} :
          CorrectCooked(e, req, acks)

\* An event is named by its id or, when it is the only one, by its dish.
DeleteHistoryEntry ==
    \/ \E e \in DOMAIN history : RetractCooked(e)
    \/ \E d \in Dishes, e \in DOMAIN history :
          /\ {x \in DOMAIN history : history[x].active /\ history[x].dish = d} = {e}
          /\ RetractCooked(e)

Next ==
    \/ \E w \in Weeks : CreatePlan(w) \/ SetPlanStatus(w) \/ DeletePlan(w)
    \/ \E source, w \in Weeks : RepeatPlan(source, w)
    \/ \E o \in Occurrences, w \in Weeks, d \in Dishes :
          AddMeal(o, w, d) \/ WebAddMeal(o, w, d)
    \/ \E o \in Occurrences : CancelMeal(o) \/ WebCancelMeal(o)
    \/ \E o \in Occurrences, d \in Dishes : ReviseMeal(o, d)
    \/ \E e \in CookEvents : RegisterCooked(e)
    \/ DeleteHistoryEntry

Spec == Init /\ [][Next]_vars

-----------------------------------------------------------------------------
(* Properties. *)

\* Whatever cooks, corrections and retractions follow each other, history.json
\* passes validate_event_lineage when it is next read; a history that does not
\* would refuse every cooking command from then on.
HistoryAlwaysLoads == HistoryLoads

\* A row of a plan is cooked by an event exactly while that event is active in
\* the history: the two files never tell different stories about a meal.
CookedByActiveEvent ==
    /\ \A o \in DOMAIN meals :
          ActiveLinked(o) = IF meals[o].status = "cooked" THEN {meals[o].event} ELSE {}
    /\ \A o \in DOMAIN meals : meals[o].status # "cooked" => meals[o].event = None

\* The one thing that makes the program's own plan unreadable is the edit of a
\* meal that has a lot: cooks, corrections and retractions keep both in step.
OnlyEditsBreakPlans ==
    \A w \in DOMAIN plans :
        \/ Readable(w)
        \/ \E l \in LotsOf(w) : meals[lots[l].occ].dish # lots[l].dish

\* The row can still be corrected: it is not cancelled, its plan not archived,
\* and its dish is still the one that was cooked.
Correctable(o, t) ==
    /\ plans[meals[o].week] # "archived"
    /\ meals[o].status # "cancelled"
    /\ meals[o].dish = history[t].dish

\* A correction of the event that acknowledges every tombstone and names the
\* present revision of the row.
Correction(o, t) ==
    [target |-> t, occ |-> o, dish |-> history[t].dish, rev |-> meals[o].rev,
     left |-> None]

\* Corrections never jam: an event that nothing replaces yet can be corrected,
\* whatever earlier corrections and retractions left behind.  While it is active
\* this holds of every occurrence, also of one with tombstones of an earlier
\* version.  Once it is retracted, this holds only of an occurrence without them:
\* beside a tombstone the recovery of skill.md:90 is refused as ambiguous, also
\* when the retracted event is a correction that has acknowledged the tombstone.
CorrectionNeverJams ==
    AllReadable =>
        \A o \in DOMAIN meals : \A t \in Linked(o) :
            /\ Children(t) = {}
            /\ history[t].active \/ UnverifiedTombstones(t) = {}
            /\ Correctable(o, t)
            => Accepted(Correction(o, t), CookEvents)

\* One physical cook takes its ingredients and its prep once: stock and prep
\* are what the plain events took, however often these were corrected.
EffectsOnce == fridge = InStock(history) /\ prep = UsesLeft(history)

\* While a correction stands and the plans can be read, the request that made
\* it, repeated after a lost answer, is answered by that correction and is not
\* carried out a second time.
LostAnswerIsFound ==
    AllReadable =>
        \A c \in Corrections :
            /\ history[c].active
            /\ history[c].occ \in DOMAIN meals
            => Answer(history[c].request) = {c}

\* A row keeps its revision only while nothing about it changes: a client that
\* holds a revision acts on the meal it saw.
MealChangesAreVersioned ==
    [][\A o \in DOMAIN meals \cap DOMAIN meals' :
          meals[o] # meals'[o] => meals'[o].rev = meals[o].rev + 1]_vars

\* An event is never dropped from the history, changed or made active again:
\* all a later command may do is to retract it.
HistoryOnlyRetracts ==
    [][/\ DOMAIN history \subseteq DOMAIN history'
       /\ \A e \in DOMAIN history :
             history'[e] \in {history[e], [history[e] EXCEPT !.active = FALSE]}]_vars

\* The life of an occurrence as MealOccurrence tells it.
PhaseOf(o) ==
    IF o \notin DOMAIN meals
    THEN IF Linked(o) = {} THEN "absent" ELSE "gone"
    ELSE IF meals[o].status = "planned" /\ Linked(o) # {}
         THEN "reopened" ELSE meals[o].status

Abstract == INSTANCE MealOccurrence
                WITH phase <- [o \in Occurrences |-> PhaseOf(o)]

\* Plans, history and stock together implement MealOccurrence: a meal is cooked
\* physically once, and no correction, retraction or recovery uses prep again.
CookedOnce == Abstract!Spec

\* _validate_leftovers (plan.py:119): a lot has the dish of its occurrence.  The
\* loader asserts it of every plan file the program wrote itself.
PlansReadable == AllReadable
=============================================================================
