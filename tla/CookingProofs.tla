---------------------------- MODULE CookingProofs ----------------------------
(***************************************************************************)
(* For any plans, meals, events and dishes: the history always loads,      *)
(* plans and history agree, effects happen once, corrections never jam,    *)
(* and plans, history and stock together implement MealOccurrence.         *)
(***************************************************************************)
EXTENDS Cooking, TLAPS, FiniteSetTheorems

\* What a correction copies from its request.
RequestsFit == \A c \in Corrections : history[c].request.occ = history[c].occ

\* The occurrence was cooked once: no tombstones of an earlier version.
OnePlain(o) ==
    \A e, f \in Linked(o) : ~IsCorrection(e) /\ ~IsCorrection(f) => e = f

\* What was cooked once has one chain of corrections.
OneTip ==
    \A o \in Occurrences : OnePlain(o) => \A a, b \in Tips(o) : a = b

\* A lot belongs to a row of its own plan.
LotsHaveRows ==
    \A l \in DOMAIN lots :
        /\ lots[l].occ \in DOMAIN meals
        /\ meals[lots[l].occ].week = lots[l].week

\* The lot of a row names the last event of a chain; once the row is cooked,
\* the event that cooked it.
LotsNameTips ==
    \A o \in DOMAIN meals :
        /\ meals[o].lots = SourceLots(o)
        /\ \A k, l \in meals[o].lots : k = l
        /\ \A l \in meals[o].lots :
              /\ lots[l].event \in Tips(o)
              /\ meals[o].status = "cooked" => lots[l].event = meals[o].event

CookInv ==
    /\ TypeOK
    /\ IsFiniteSet(DOMAIN history)
    /\ HistoryLoads
    /\ RequestsFit
    /\ OneTip
    /\ CookedByActiveEvent
    /\ EffectsOnce
    /\ LotsHaveRows
    /\ LotsNameTips

-----------------------------------------------------------------------------
(* The history. *)

\* What the type invariant says of a row of the history.
LEMMA EventTypes ==
    ASSUME TypeOK, NEW e \in DOMAIN history
    PROVE  /\ history[e] \in Event
           /\ e \in CookEvents /\ e # None
           /\ IsCorrection(e) => history[e].request \in Request
BY CookingAssumption DEF TypeOK, Event, IsCorrection

\* The plain event e is added to a history that has none for its occurrence.
PlainAdded(e, d, o, left) ==
    /\ e \in CookEvents \ DOMAIN history
    /\ d \in Dishes /\ left \in 0..MaxLeft
    /\ \/ o = None
       \/ o \in Occurrences /\ Linked(o) = {}
    /\ history' = Put(history, e, PlainEvent(d, o, left))

LEMMA PlainFields ==
    ASSUME NEW e, NEW d, NEW o, NEW left, PlainAdded(e, d, o, left)
    PROVE  /\ DOMAIN history' = DOMAIN history \cup {e}
           /\ \A x \in DOMAIN history : history'[x] = history[x]
           /\ history'[e] = PlainEvent(d, o, left)
           /\ e \notin DOMAIN history
BY DEF PlainAdded, Put

LEMMA PlainLineage ==
    ASSUME TypeOK, PredecessorsFit,
           NEW e, NEW d, NEW o, NEW left, PlainAdded(e, d, o, left)
    PROVE  /\ Corrections' = Corrections
           /\ e \notin Corrections
           /\ \A x : Children(x)' = Children(x)
           /\ Children(e) = {}
           /\ \A x \in DOMAIN history : RootOf(x)' = RootOf(x)
           /\ \A p \in Occurrences : p # o => /\ Linked(p)' = Linked(p)
                                              /\ ActiveLinked(p)' = ActiveLinked(p)
                                              /\ Tips(p)' = Tips(p)
           /\ o # None => /\ Linked(o)' = {e} /\ ActiveLinked(o)' = {e}
                          /\ Tips(o)' = {e}
<1>a. /\ DOMAIN history' = DOMAIN history \cup {e}
      /\ \A x \in DOMAIN history : history'[x] = history[x]
      /\ history'[e] = PlainEvent(d, o, left)
      /\ e \notin DOMAIN history
  BY PlainFields
<1> USE <1>a
<1>1. Corrections' = Corrections /\ e \notin Corrections
  BY DEF Corrections, IsCorrection, PlainEvent
<1>2. \A x : Children(x)' = Children(x)
  BY <1>1 DEF Children, Corrections
<1>3. Children(e) = {}
  BY DEF Children, PredecessorsFit
<1>4. \A x \in DOMAIN history : RootOf(x)' = RootOf(x)
  BY DEF RootOf, IsCorrection
<1>5. \A p \in Occurrences : p # o => /\ Linked(p)' = Linked(p)
                                      /\ ActiveLinked(p)' = ActiveLinked(p)
  BY DEF Linked, ActiveLinked, PlainEvent
<1>6. \A p \in Occurrences : p # o => Tips(p)' = Tips(p)
  BY <1>2, <1>5 DEF Tips
<1>b. o # None => \A x \in DOMAIN history : history[x].occ # o
  BY DEF PlainAdded, Linked
<1>7. o # None => Linked(o)' = {e} /\ ActiveLinked(o)' = {e}
  BY <1>b DEF Linked, ActiveLinked, PlainEvent
<1>8. o # None => Tips(o)' = {e}
  BY <1>2, <1>3, <1>7 DEF Tips
<1> QED BY <1>1, <1>2, <1>3, <1>4, <1>5, <1>6, <1>7, <1>8

\* A new plain event of an occurrence without history keeps the history loadable.
LEMMA PlainLoads ==
    ASSUME TypeOK, HistoryLoads, RequestsFit,
           NEW e, NEW d, NEW o, NEW left, PlainAdded(e, d, o, left)
    PROVE  HistoryLoads' /\ RequestsFit'
<1>a. /\ DOMAIN history' = DOMAIN history \cup {e}
      /\ \A x \in DOMAIN history : history'[x] = history[x]
      /\ history'[e] = PlainEvent(d, o, left)
      /\ e \notin DOMAIN history
  BY PlainFields
<1> USE <1>a DEF HistoryLoads
<1>1. /\ Corrections' = Corrections /\ e \notin Corrections
      /\ \A x : Children(x)' = Children(x)
      /\ Children(e) = {}
      /\ \A x \in DOMAIN history : RootOf(x)' = RootOf(x)
  BY PlainLineage
<1>2. \A c \in Corrections : c \in DOMAIN history
  BY DEF Corrections
<1>b. o # None => \A x \in DOMAIN history : history[x].occ # o
  BY DEF PlainAdded, Linked
<1>3. OneActivePerOccurrence'
  BY <1>b DEF OneActivePerOccurrence, PlainEvent
<1>4. PredecessorsFit'
  BY <1>1, <1>2 DEF PredecessorsFit
<1>5. NoForks' /\ RequestsFit'
  BY <1>1, <1>2 DEF NoForks, RequestsFit
<1>6. NoCycles'
  BY <1>1, <1>2 DEF NoCycles
<1>7. RootsCovered'
  <2> SUFFICES ASSUME NEW x \in DOMAIN history', ~IsCorrection(x)',
                      NEW c \in Corrections, history'[c].occ = history'[x].occ
               PROVE  \E b \in Corrections :
                         /\ history[b].occ = history'[x].occ
                         /\ x = history[b].root \/ x \in history[b].acked
    BY <1>1, <1>2 DEF RootsCovered
  <2>1. x # e
    <3> SUFFICES ASSUME x = e PROVE FALSE
      OBVIOUS
    <3>1. history[c].occ = o
      BY <1>2 DEF PlainEvent
    <3>2. o # None
      <4>1. history[c].request \in Request /\ history[c].request.occ \in Occurrences
        BY <1>2, EventTypes DEF Corrections, Request
      <4> QED BY <4>1, <3>1, CookingAssumption DEF RequestsFit
    <3> QED BY <1>2, <3>1, <3>2 DEF PlainAdded, Linked
  <2> QED BY <2>1, <1>2 DEF RootsCovered, IsCorrection
<1>8. ActiveIsTip'
  BY <1>1 DEF ActiveIsTip
<1> QED BY <1>3, <1>4, <1>5, <1>6, <1>7, <1>8

\* Marking an event as retracted changes nothing else about the history.
LEMMA RetractionFields ==
    ASSUME TypeOK, NEW e \in DOMAIN history, history' = Retracted(history, e)
    PROVE  /\ DOMAIN history' = DOMAIN history
           /\ \A x \in DOMAIN history :
                 /\ history'[x].occ = history[x].occ
                 /\ history'[x].dish = history[x].dish
                 /\ history'[x].request = history[x].request
                 /\ history'[x].root = history[x].root
                 /\ history'[x].acked = history[x].acked
                 /\ history'[x].active <=> history[x].active /\ x # e
BY EventTypes DEF Retracted, Event

LEMMA RetractionLineage ==
    ASSUME TypeOK, NEW e \in DOMAIN history, history' = Retracted(history, e)
    PROVE  /\ Corrections' = Corrections
           /\ \A x : Children(x)' = Children(x)
           /\ \A x \in DOMAIN history : RootOf(x)' = RootOf(x)
           /\ \A p : /\ Linked(p)' = Linked(p)
                     /\ ActiveLinked(p)' = ActiveLinked(p) \ {e}
                     /\ Tips(p)' = Tips(p)
<1>a. /\ DOMAIN history' = DOMAIN history
      /\ \A x \in DOMAIN history :
            /\ history'[x].occ = history[x].occ
            /\ history'[x].request = history[x].request
            /\ history'[x].root = history[x].root
            /\ history'[x].active <=> history[x].active /\ x # e
  BY RetractionFields
<1> USE <1>a
<1>1. Corrections' = Corrections
  BY DEF Corrections, IsCorrection
<1>2. \A x : Children(x)' = Children(x)
  BY <1>1 DEF Children, Corrections
<1>3. \A x \in DOMAIN history : RootOf(x)' = RootOf(x)
  BY DEF RootOf, IsCorrection
<1>4. \A p : Linked(p)' = Linked(p)
  BY DEF Linked
<1>5. \A p : ActiveLinked(p)' = ActiveLinked(p) \ {e}
  BY <1>4 DEF ActiveLinked, Linked
<1>6. \A p : Tips(p)' = Tips(p)
  BY <1>2, <1>4 DEF Tips
<1> QED BY <1>1, <1>2, <1>3, <1>4, <1>5, <1>6

\* A retraction keeps the history loadable.
LEMMA RetractionLoads ==
    ASSUME TypeOK, HistoryLoads, RequestsFit,
           NEW e \in DOMAIN history, history' = Retracted(history, e)
    PROVE  HistoryLoads' /\ RequestsFit'
<1>a. /\ DOMAIN history' = DOMAIN history
      /\ \A x \in DOMAIN history :
            /\ history'[x].occ = history[x].occ
            /\ history'[x].dish = history[x].dish
            /\ history'[x].request = history[x].request
            /\ history'[x].root = history[x].root
            /\ history'[x].acked = history[x].acked
            /\ history'[x].active <=> history[x].active /\ x # e
  BY RetractionFields
<1>b. /\ Corrections' = Corrections
      /\ \A x : Children(x)' = Children(x)
      /\ \A x \in DOMAIN history : RootOf(x)' = RootOf(x)
  BY RetractionLineage
<1>c. \A c \in Corrections : c \in DOMAIN history
  BY DEF Corrections
<1> USE <1>a, <1>b, <1>c DEF HistoryLoads
<1>1. OneActivePerOccurrence'
  BY DEF OneActivePerOccurrence
<1>2. PredecessorsFit'
  BY DEF PredecessorsFit
<1>3. NoForks' /\ RequestsFit'
  BY DEF NoForks, RequestsFit
<1>4. NoCycles'
  BY DEF NoCycles
<1>5. RootsCovered'
  BY DEF RootsCovered, IsCorrection
<1>6. ActiveIsTip'
  BY DEF ActiveIsTip
<1> QED BY <1>1, <1>2, <1>3, <1>4, <1>5, <1>6

\* A correction is accepted, and its event e is added.
CorrectionAdded(e, req, acks, left) ==
    /\ e \in CookEvents \ DOMAIN history
    /\ req \in Request /\ left \in 0..MaxLeft
    /\ Accepted(req, acks)
    /\ history' = Put(Retracted(history, req.target), e, CorrectionEvent(req, left))

\* The history before and after, field by field.
CorrectionStep(e, req, left) ==
    /\ DOMAIN history' = DOMAIN history \cup {e}
    /\ \A x \in DOMAIN history :
          /\ history'[x].occ = history[x].occ
          /\ history'[x].dish = history[x].dish
          /\ history'[x].request = history[x].request
          /\ history'[x].root = history[x].root
          /\ history'[x].acked = history[x].acked
          /\ history'[x].active <=> history[x].active /\ x # req.target
    /\ history'[e] = CorrectionEvent(req, left)
    /\ e \notin DOMAIN history
    /\ req.target \in DOMAIN history
    /\ history[req.target].occ = req.occ
    /\ history[req.target].dish = req.dish
    /\ req.occ \in DOMAIN meals
    /\ Children(req.target) = {}
    /\ ActiveLinked(req.occ) \subseteq {req.target}
    /\ req # None

LEMMA CorrectionFields ==
    ASSUME TypeOK, NEW e, NEW req, NEW acks, NEW left,
           CorrectionAdded(e, req, acks, left)
    PROVE  CorrectionStep(e, req, left)
<1>1. req.target \in DOMAIN history /\ e \notin DOMAIN history
  BY DEF CorrectionAdded, Accepted
<1>2. history[req.target] \in Event
  BY <1>1, EventTypes
<1>3. DOMAIN Retracted(history, req.target) = DOMAIN history
  BY DEF Retracted
<1>4. /\ DOMAIN history' = DOMAIN history \cup {e}
      /\ history'[e] = CorrectionEvent(req, left)
      /\ \A x \in DOMAIN history : history'[x] = Retracted(history, req.target)[x]
  BY <1>1, <1>3 DEF CorrectionAdded, Put
<1>5. \A x \in DOMAIN history :
         /\ history'[x].occ = history[x].occ
         /\ history'[x].dish = history[x].dish
         /\ history'[x].request = history[x].request
         /\ history'[x].root = history[x].root
         /\ history'[x].acked = history[x].acked
         /\ history'[x].active <=> history[x].active /\ x # req.target
  BY <1>1, <1>4, EventTypes DEF Retracted, Event
<1>6. /\ history[req.target].occ = req.occ
      /\ history[req.target].dish = req.dish
      /\ req.occ \in DOMAIN meals
      /\ Children(req.target) = {}
      /\ ActiveLinked(req.occ) \subseteq {req.target}
  BY DEF CorrectionAdded, Accepted, Located, Replaceable
<1>7. req # None
  BY RequestAssumption DEF CorrectionAdded
<1> QED BY <1>1, <1>4, <1>5, <1>6, <1>7 DEF CorrectionStep

LEMMA CorrectionLineage ==
    ASSUME TypeOK, PredecessorsFit,
           NEW e, NEW req, NEW acks, NEW left, CorrectionAdded(e, req, acks, left)
    PROVE  /\ Corrections' = Corrections \cup {e}
           /\ e \notin Corrections
           /\ \A x : x # req.target => Children(x)' = Children(x)
           /\ Children(req.target)' = {e}
           /\ Children(e) = {}
           /\ \A x \in DOMAIN history : RootOf(x)' = RootOf(x)
           /\ \A p : p # req.occ => /\ Linked(p)' = Linked(p)
                                    /\ ActiveLinked(p)' = ActiveLinked(p)
                                    /\ Tips(p)' = Tips(p)
           /\ Linked(req.occ)' = Linked(req.occ) \cup {e}
           /\ ActiveLinked(req.occ)' = {e}
           /\ e \in Tips(req.occ)'
<1>a. CorrectionStep(e, req, left)
  BY CorrectionFields
<1> USE <1>a DEF CorrectionStep
<1>1. Corrections' = Corrections \cup {e} /\ e \notin Corrections
  BY DEF Corrections, IsCorrection, CorrectionEvent
<1>2. history'[e].request = req /\ history'[e].occ = req.occ /\ history'[e].active
  BY DEF CorrectionEvent
<1>b. \A c \in Corrections : c \in DOMAIN history
  BY DEF Corrections
<1>3. \A x : x # req.target => Children(x)' = Children(x)
  BY <1>1, <1>2, <1>b DEF Children
<1>4. Children(req.target)' = {e}
  BY <1>1, <1>2, <1>b DEF Children
<1>5. Children(e) = {}
  BY DEF Children, PredecessorsFit
<1>6. \A x \in DOMAIN history : RootOf(x)' = RootOf(x)
  BY DEF RootOf, IsCorrection
<1>7. /\ \A p : p # req.occ => Linked(p)' = Linked(p)
      /\ Linked(req.occ)' = Linked(req.occ) \cup {e}
  BY <1>2 DEF Linked
<1>8. /\ \A p : p # req.occ => ActiveLinked(p)' = ActiveLinked(p)
      /\ ActiveLinked(req.occ)' = {e}
  BY <1>2, <1>7 DEF ActiveLinked, Linked
<1>9. \A p : p # req.occ => Tips(p)' = Tips(p)
  <2> SUFFICES ASSUME NEW p, p # req.occ PROVE Tips(p)' = Tips(p)
    OBVIOUS
  <2>1. Linked(p)' = Linked(p) /\ req.target \notin Linked(p)
    BY <1>7 DEF Linked
  <2> QED BY <2>1, <1>3 DEF Tips
<1>10. e \in Tips(req.occ)'
  BY <1>3, <1>5, <1>7 DEF Tips
<1> QED BY <1>1, <1>3, <1>4, <1>5, <1>6, <1>7, <1>8, <1>9, <1>10

\* A correction that is accepted keeps the history loadable: it replaces the
\* last event of a chain, starts no cycle and answers for every plain event.
LEMMA CorrectionLoads ==
    ASSUME TypeOK, HistoryLoads, RequestsFit,
           NEW e, NEW req, NEW acks, NEW left, CorrectionAdded(e, req, acks, left)
    PROVE  HistoryLoads' /\ RequestsFit'
<1>a. CorrectionStep(e, req, left)
  BY CorrectionFields
<1>b. /\ Corrections' = Corrections \cup {e}
      /\ e \notin Corrections
      /\ \A x : x # req.target => Children(x)' = Children(x)
      /\ Children(e) = {}
      /\ \A x \in DOMAIN history : RootOf(x)' = RootOf(x)
  BY CorrectionLineage DEF HistoryLoads
<1>c. \A c \in Corrections :
         /\ c \in DOMAIN history
         /\ history[c].request.target \in DOMAIN history
         /\ history[c].request.target # req.target
  BY <1>a DEF CorrectionStep, Corrections, PredecessorsFit, Children, HistoryLoads
<1>d. /\ history'[e].request = req /\ history'[e].occ = req.occ
      /\ history'[e].dish = req.dish /\ history'[e].active
      /\ history'[e].root = RootOf(req.target)
      /\ history'[e].acked = UnverifiedTombstones(req.target)
  BY <1>a DEF CorrectionStep, CorrectionEvent
<1> USE <1>a, <1>b, <1>c, <1>d DEF CorrectionStep, HistoryLoads
<1>1. OneActivePerOccurrence'
  <2>1. \A x \in DOMAIN history : history'[x].active => history[x].occ # req.occ
    BY DEF ActiveLinked, Linked
  <2> QED BY <2>1 DEF OneActivePerOccurrence
<1>2. PredecessorsFit'
  BY DEF PredecessorsFit
<1>3. NoForks' /\ RequestsFit'
  BY DEF NoForks, RequestsFit
<1>4. NoCycles'
  <2> SUFFICES ASSUME NEW S \in SUBSET (Corrections \cup {e}), S # {}
               PROVE  \E c \in S : history'[c].request.target \notin S
    BY DEF NoCycles
  <2>1. CASE S = {e}
    BY <2>1
  <2>2. CASE S # {e}
    <3>1. S \ {e} \in SUBSET Corrections /\ S \ {e} # {}
      BY <2>2
    <3>2. PICK c \in S \ {e} : history[c].request.target \notin S \ {e}
      BY <3>1 DEF NoCycles
    <3> QED BY <3>1, <3>2
  <2> QED BY <2>1, <2>2
<1>5. RootsCovered'
  <2> SUFFICES ASSUME NEW x \in DOMAIN history, ~IsCorrection(x),
                      NEW c \in Corrections \cup {e}, history'[c].occ = history[x].occ
               PROVE  \E b \in Corrections \cup {e} :
                         /\ history'[b].occ = history[x].occ
                         /\ x = history'[b].root \/ x \in history'[b].acked
    BY DEF RootsCovered, IsCorrection
  <2>1. CASE history[x].occ = req.occ
    <3>1. x = RootOf(req.target) \/ x \in UnverifiedTombstones(req.target)
      BY <2>1 DEF UnverifiedTombstones, Linked
    <3> QED BY <3>1, <2>1
  <2>2. CASE history[x].occ # req.occ
    BY <2>2 DEF RootsCovered
  <2> QED BY <2>1, <2>2
<1>6. ActiveIsTip'
  BY DEF ActiveIsTip
<1> QED BY <1>1, <1>2, <1>3, <1>4, <1>5, <1>6

\* An occurrence that was cooked once keeps a single chain.
LEMMA PlainTips ==
    ASSUME TypeOK, PredecessorsFit, OneTip,
           NEW e, NEW d, NEW o, NEW left, PlainAdded(e, d, o, left)
    PROVE  OneTip'
<1> SUFFICES ASSUME NEW p \in Occurrences, OnePlain(p)',
                    NEW a \in Tips(p)', NEW b \in Tips(p)'
             PROVE  a = b
  BY DEF OneTip
<1>1. CASE p = o
  <2>1. o # None
    BY <1>1, CookingAssumption
  <2> QED BY <2>1, <1>1, PlainLineage
<1>2. CASE p # o
  <2>1. Linked(p)' = Linked(p) /\ Tips(p)' = Tips(p)
    BY <1>2, PlainLineage
  <2>2. \A x \in Linked(p) : history'[x] = history[x]
    BY PlainFields DEF Linked
  <2>3. OnePlain(p)
    BY <2>1, <2>2 DEF OnePlain, IsCorrection
  <2> QED BY <2>1, <2>3 DEF OneTip
<1> QED BY <1>1, <1>2

LEMMA RetractionTips ==
    ASSUME TypeOK, OneTip, NEW e \in DOMAIN history, history' = Retracted(history, e)
    PROVE  OneTip'
<1> SUFFICES ASSUME NEW p \in Occurrences, OnePlain(p)' PROVE OnePlain(p) /\ Tips(p)' = Tips(p)
  BY DEF OneTip
<1>1. Linked(p)' = Linked(p) /\ Tips(p)' = Tips(p)
  BY RetractionLineage
<1>2. \A x \in Linked(p) : history'[x].request = history[x].request
  BY RetractionFields DEF Linked
<1> QED BY <1>1, <1>2 DEF OnePlain, IsCorrection

\* The event that a correction replaces was the last of the only chain.
LEMMA CorrectionTips ==
    ASSUME TypeOK, PredecessorsFit, OneTip,
           NEW e, NEW req, NEW acks, NEW left, CorrectionAdded(e, req, acks, left)
    PROVE  OneTip'
<1>a. CorrectionStep(e, req, left)
  BY CorrectionFields
<1>1. \A p : Linked(p) \subseteq Linked(p)'
  BY CorrectionLineage
<1>2. \A p : \A x \in Linked(p) : history'[x].request = history[x].request
  BY <1>a DEF CorrectionStep, Linked
<1>3. \A p : OnePlain(p)' => OnePlain(p)
  BY <1>1, <1>2 DEF OnePlain, IsCorrection
<1> SUFFICES ASSUME NEW p \in Occurrences, OnePlain(p)',
                    NEW a \in Tips(p)', NEW b \in Tips(p)'
             PROVE  a = b
  BY DEF OneTip
<1>4. CASE p = req.occ
  <2>1. req.target \in Tips(p)
    BY <1>4, <1>a DEF CorrectionStep, Tips, Linked
  <2>2. Tips(p) = {req.target}
    BY <2>1, <1>3 DEF OneTip
  <2>3. Tips(p)' \subseteq {e} \cup (Tips(p) \ {req.target})
    <3>1. Children(req.target)' = {e} /\ \A x : x # req.target => Children(x)' = Children(x)
      BY CorrectionLineage
    <3>2. Linked(p)' = Linked(p) \cup {e}
      BY <1>4, CorrectionLineage
    <3> QED BY <3>1, <3>2 DEF Tips
  <2> QED BY <2>2, <2>3
<1>5. CASE p # req.occ
  <2>1. Tips(p)' = Tips(p)
    BY <1>5, CorrectionLineage
  <2> QED BY <2>1, <1>3 DEF OneTip
<1> QED BY <1>4, <1>5

-----------------------------------------------------------------------------
(* Stock and prep. *)

PlainEvents(h) == {e \in DOMAIN h : h[e].request = None}

\* A plain event uses up the dish's ingredients and one prep item.
LEMMA PlainEffects ==
    ASSUME TypeOK, IsFiniteSet(DOMAIN history), EffectsOnce,
           NEW e, NEW d, NEW o, NEW left, PlainAdded(e, d, o, left), Consume(d)
    PROVE  EffectsOnce' /\ IsFiniteSet(DOMAIN history')
<1>a. /\ DOMAIN history' = DOMAIN history \cup {e}
      /\ \A x \in DOMAIN history : history'[x] = history[x]
      /\ history'[e] = PlainEvent(d, o, left)
      /\ e \notin DOMAIN history
  BY PlainFields
<1>1. IsFiniteSet(DOMAIN history')
  BY <1>a, FS_AddElement
<1>2. PlainEvents(history') = PlainEvents(history) \cup {e}
  BY <1>a DEF PlainEvents, PlainEvent
<1>3. e \notin PlainEvents(history) /\ IsFiniteSet(PlainEvents(history))
  BY <1>a, FS_Subset DEF PlainEvents
<1>4. /\ Cardinality(PlainEvents(history)) \in Nat
      /\ Cardinality(PlainEvents(history')) = Cardinality(PlainEvents(history)) + 1
  BY <1>2, <1>3, FS_AddElement, FS_CardinalityType
<1>5. UsesLeft(history') = IF UsesLeft(history) > 0 THEN UsesLeft(history) - 1 ELSE 0
  BY <1>4, CookingAssumption DEF UsesLeft, PlainEvents
<1>6. InStock(history') = InStock(history) \ {d}
  <2>1. /\ \A x \in PlainEvents(history) : history'[x].dish = history[x].dish
        /\ history'[e].dish = d
    BY <1>a DEF PlainEvents, PlainEvent
  <2>2. {history'[x].dish : x \in PlainEvents(history')}
          = {history[x].dish : x \in PlainEvents(history)} \cup {d}
    BY <1>2, <2>1
  <2> QED BY <2>2 DEF InStock, PlainEvents
<1> QED BY <1>1, <1>5, <1>6 DEF EffectsOnce, Consume

\* A change of the history that adds no plain event and keeps their dishes.
LEMMA KeptEffects ==
    ASSUME EffectsOnce, UNCHANGED <<fridge, prep>>,
           PlainEvents(history') = PlainEvents(history),
           \A x \in PlainEvents(history) : history'[x].dish = history[x].dish
    PROVE  EffectsOnce'
<1>1. {history'[x].dish : x \in PlainEvents(history')}
        = {history[x].dish : x \in PlainEvents(history)}
  OBVIOUS
<1> QED BY <1>1 DEF EffectsOnce, InStock, UsesLeft, PlainEvents

-----------------------------------------------------------------------------
(* Plans. *)

\* The parts of the invariant that speak of the history and the stock alone.
HistoryPart ==
    /\ IsFiniteSet(DOMAIN history)
    /\ HistoryLoads
    /\ RequestsFit
    /\ OneTip
    /\ EffectsOnce

LEMMA SameHistory ==
    ASSUME HistoryPart, UNCHANGED <<history, fridge, prep>>
    PROVE  /\ HistoryPart'
           /\ \A p : Linked(p)' = Linked(p) /\ ActiveLinked(p)' = ActiveLinked(p)
                     /\ Tips(p)' = Tips(p)
BY DEF HistoryPart, HistoryLoads, OneActivePerOccurrence, PredecessorsFit, NoForks,
       NoCycles, RootsCovered, ActiveIsTip, RequestsFit, OneTip, OnePlain,
       EffectsOnce, InStock, UsesLeft,
       Corrections, IsCorrection, Children, RootOf, Linked, ActiveLinked, Tips

\* Rows of a plan that is written: new meals of that plan.
NewRows(w, rows) ==
    /\ DOMAIN rows \subseteq {o \in Occurrences : Unused(o)}
    /\ \A o \in DOMAIN rows : \E d \in Dishes : rows[o] = NewMeal(w, d)

LEMMA WritePlanKeeps ==
    ASSUME CookInv, NEW w \in Weeks, NEW rows, NewRows(w, rows), WritePlan(w, rows)
    PROVE  CookInv'
<1>a. UNCHANGED <<history, fridge, prep>>
  BY DEF WritePlan
<1>b. /\ HistoryPart'
      /\ \A p : Linked(p)' = Linked(p) /\ ActiveLinked(p)' = ActiveLinked(p)
                /\ Tips(p)' = Tips(p)
  BY <1>a, SameHistory DEF CookInv, HistoryPart
<1>1. /\ DOMAIN plans' = DOMAIN plans \cup {w}
      /\ \A v \in DOMAIN plans' : plans'[v] \in PlanStatus
      /\ plans' \in [DOMAIN plans' -> PlanStatus]
  BY DEF WritePlan, Put, CookInv, TypeOK, PlanStatus
<1>2. /\ DOMAIN meals' = (DOMAIN meals \ MealsOf(w)) \cup DOMAIN rows
      /\ \A o \in DOMAIN meals' :
            meals'[o] = IF o \in DOMAIN rows THEN rows[o] ELSE meals[o]
  BY DEF WritePlan
<1>3. /\ DOMAIN lots' = DOMAIN lots \ LotsOf(w)
      /\ \A l \in DOMAIN lots' : lots'[l] = lots[l] /\ l \in DOMAIN lots
  BY DEF WritePlan, Without
<1>4. \A o \in DOMAIN rows :
         /\ o \in Occurrences /\ o \notin DOMAIN meals /\ Linked(o) = {}
         /\ rows[o] \in Meal
         /\ rows[o].week = w /\ rows[o].status = "planned"
         /\ rows[o].event = None /\ rows[o].lots = {}
  BY DEF NewRows, NewMeal, Unused, Meal, MealStatus
<1>5. TypeOK'
  <2>1. meals' \in [DOMAIN meals' -> Meal] /\ DOMAIN meals' \subseteq Occurrences
    <3>1. \A o \in DOMAIN meals' : meals'[o] \in Meal
      BY <1>2, <1>4 DEF CookInv, TypeOK
    <3> QED BY <3>1, <1>2, <1>4 DEF WritePlan, CookInv, TypeOK
  <2>2. lots' \in [DOMAIN lots' -> Lot] /\ DOMAIN lots' \subseteq CookEvents
    BY <1>3 DEF WritePlan, Without, CookInv, TypeOK
  <2> QED BY <1>a, <1>1, <2>1, <2>2 DEF CookInv, TypeOK
<1>6. CookedByActiveEvent'
  BY <1>b, <1>2, <1>4 DEF CookInv, CookedByActiveEvent, ActiveLinked
<1>7. LotsHaveRows'
  BY <1>2, <1>3, <1>4 DEF CookInv, LotsHaveRows, MealsOf, LotsOf
<1>8. \A o \in DOMAIN meals' : SourceLots(o)' = meals'[o].lots
  <2>1. \A o \in DOMAIN rows : SourceLots(o)' = {}
    BY <1>2, <1>3, <1>4 DEF SourceLots, LotsOf, CookInv, LotsHaveRows
  <2>2. \A o \in DOMAIN meals \ MealsOf(w) : o \notin DOMAIN rows => SourceLots(o)' = SourceLots(o)
    BY <1>2, <1>3 DEF SourceLots, LotsOf, MealsOf
  <2> QED BY <2>1, <2>2, <1>2, <1>4 DEF CookInv, LotsNameTips
<1>9. LotsNameTips'
  <2> SUFFICES ASSUME NEW o \in DOMAIN meals'
               PROVE  /\ \A k, l \in meals'[o].lots : k = l
                      /\ \A l \in meals'[o].lots :
                            /\ lots'[l].event \in Tips(o)
                            /\ meals'[o].status = "cooked" => lots'[l].event = meals'[o].event
    BY <1>8, <1>b DEF LotsNameTips
  <2>1. CASE o \in DOMAIN rows
    BY <2>1, <1>2, <1>4
  <2>2. CASE o \notin DOMAIN rows
    <3>1. o \in DOMAIN meals /\ meals'[o] = meals[o]
      BY <2>2, <1>2
    <3>2. \A l \in meals'[o].lots : l \in DOMAIN lots'
      BY <1>8 DEF SourceLots, LotsOf
    <3> QED BY <3>1, <3>2, <1>3 DEF CookInv, LotsNameTips
  <2> QED BY <2>1, <2>2
<1> QED BY <1>b, <1>5, <1>6, <1>7, <1>9 DEF CookInv, HistoryPart

LEMMA CreatePlanKeeps ==
    ASSUME CookInv, NEW w \in Weeks, CreatePlan(w)
    PROVE  CookInv'
<1>1. NewRows(w, [o \in {} |-> None])
  BY DEF NewRows
<1> QED BY <1>1, WritePlanKeeps DEF CreatePlan

\* A repeated plan is written with new meals.
LEMMA RepeatWrites ==
    ASSUME CookInv, NEW source \in Weeks, NEW w \in Weeks, RepeatPlan(source, w)
    PROVE  \E rows : NewRows(w, rows) /\ WritePlan(w, rows)
<1> DEFINE copied == {o \in MealsOf(source) : meals[o].status # "cancelled"}
<1>1. PICK S \in SUBSET {o \in Occurrences : Unused(o)} :
        \E from \in [S -> copied] :
            WritePlan(w, [x \in S |-> NewMeal(w, meals[from[x]].dish)])
  BY DEF RepeatPlan
<1>2. PICK from \in [S -> copied] :
        WritePlan(w, [x \in S |-> NewMeal(w, meals[from[x]].dish)])
  BY <1>1
<1>3. PICK rows : rows = [x \in S |-> NewMeal(w, meals[from[x]].dish)]
  OBVIOUS
<1>4. \A x \in S : meals[from[x]].dish \in Dishes
  BY DEF MealsOf, CookInv, TypeOK, Meal
<1>5. NewRows(w, rows)
  BY <1>3, <1>4 DEF NewRows
<1> QED BY <1>2, <1>3, <1>5

LEMMA RepeatPlanKeeps ==
    ASSUME CookInv, NEW source \in Weeks, NEW w \in Weeks, RepeatPlan(source, w)
    PROVE  CookInv'
BY RepeatWrites, WritePlanKeeps

LEMMA SetPlanStatusKeeps ==
    ASSUME CookInv, NEW w \in Weeks, SetPlanStatus(w)
    PROVE  CookInv'
<1>1. /\ HistoryPart'
      /\ \A p : ActiveLinked(p)' = ActiveLinked(p) /\ Tips(p)' = Tips(p)
  BY SameHistory DEF CookInv, HistoryPart, SetPlanStatus
<1>a. w \in DOMAIN plans /\ NextStatus[plans[w]] \in PlanStatus
  <2>1. \A status \in DOMAIN NextStatus : NextStatus[status] \in PlanStatus
    BY DEF NextStatus, PlanStatus
  <2> QED BY <2>1 DEF SetPlanStatus, Loaded
<1>2. TypeOK'
  BY <1>a DEF SetPlanStatus, CookInv, TypeOK
<1>3. CookedByActiveEvent' /\ LotsHaveRows'
  BY <1>1 DEF SetPlanStatus, CookInv, CookedByActiveEvent, LotsHaveRows
<1>4. LotsNameTips'
  BY <1>1 DEF SetPlanStatus, CookInv, LotsNameTips, SourceLots, LotsOf
<1> QED BY <1>1, <1>2, <1>3, <1>4 DEF CookInv, HistoryPart

LEMMA DeletePlanKeeps ==
    ASSUME CookInv, NEW w \in Weeks, DeletePlan(w)
    PROVE  CookInv'
<1>1. /\ HistoryPart'
      /\ \A p : ActiveLinked(p)' = ActiveLinked(p) /\ Tips(p)' = Tips(p)
  BY SameHistory DEF CookInv, HistoryPart, DeletePlan
<1>2. TypeOK'
  BY DEF DeletePlan, Without, CookInv, TypeOK
<1>3. /\ DOMAIN meals' = DOMAIN meals \ MealsOf(w)
      /\ \A o \in DOMAIN meals' : meals'[o] = meals[o]
      /\ DOMAIN lots' = DOMAIN lots \ LotsOf(w)
      /\ \A l \in DOMAIN lots' : lots'[l] = lots[l]
  BY DEF DeletePlan, Without
<1>4. CookedByActiveEvent'
  BY <1>1, <1>3 DEF CookInv, CookedByActiveEvent
<1>5. LotsHaveRows'
  BY <1>3 DEF CookInv, LotsHaveRows, LotsOf, MealsOf
<1>6. \A o \in DOMAIN meals' : SourceLots(o)' = SourceLots(o) /\ SourceLots(o) \subseteq DOMAIN lots'
  BY <1>3 DEF SourceLots, LotsOf, MealsOf
<1>7. LotsNameTips'
  BY <1>1, <1>3, <1>6 DEF CookInv, LotsNameTips
<1> QED BY <1>1, <1>2, <1>4, <1>5, <1>7 DEF CookInv, HistoryPart

LEMMA AddMealKeeps ==
    ASSUME CookInv, NEW o \in Occurrences, NEW w \in Weeks, NEW d \in Dishes, AddMeal(o, w, d)
    PROVE  CookInv'
<1>1. /\ HistoryPart'
      /\ \A p : ActiveLinked(p)' = ActiveLinked(p) /\ Tips(p)' = Tips(p)
  BY SameHistory DEF CookInv, HistoryPart, AddMeal
<1>2. /\ DOMAIN meals' = DOMAIN meals \cup {o} /\ o \notin DOMAIN meals
      /\ \A p \in DOMAIN meals : meals'[p] = meals[p]
      /\ meals'[o] = NewMeal(w, d)
      /\ NewMeal(w, d) \in Meal
      /\ ActiveLinked(o) = {}
      /\ UNCHANGED lots
  BY DEF AddMeal, Put, Unused, ActiveLinked, NewMeal, Meal, MealStatus
<1>3. TypeOK'
  <2>1. meals' \in [DOMAIN meals' -> Meal]
    BY <1>2 DEF AddMeal, Put, CookInv, TypeOK
  <2> QED BY <2>1, <1>2 DEF AddMeal, CookInv, TypeOK
<1>4. CookedByActiveEvent'
  BY <1>1, <1>2 DEF CookInv, CookedByActiveEvent, NewMeal
<1>5. LotsHaveRows'
  BY <1>2 DEF CookInv, LotsHaveRows
<1>6. /\ SourceLots(o)' = {}
      /\ \A p \in DOMAIN meals : SourceLots(p)' = SourceLots(p)
  BY <1>2 DEF SourceLots, LotsOf, CookInv, LotsHaveRows
<1>7. LotsNameTips'
  <2>1. meals'[o].lots = {}
    BY <1>2 DEF NewMeal
  <2> QED BY <2>1, <1>1, <1>2, <1>6 DEF CookInv, LotsNameTips
<1> QED BY <1>1, <1>3, <1>4, <1>5, <1>7 DEF CookInv, HistoryPart

\* The row of a meal that was not cooked changes and stays so.
LEMMA RowKeeps ==
    ASSUME CookInv, NEW o \in DOMAIN meals, NEW row \in Meal,
           meals[o].status = "planned", row.status # "cooked",
           row.week = meals[o].week, row.event = meals[o].event, row.lots = meals[o].lots,
           meals' = [meals EXCEPT ![o] = row],
           UNCHANGED <<plans, lots, history, fridge, prep>>
    PROVE  CookInv'
<1>1. /\ HistoryPart'
      /\ \A p : ActiveLinked(p)' = ActiveLinked(p) /\ Tips(p)' = Tips(p)
  BY SameHistory DEF CookInv, HistoryPart
<1>2. TypeOK'
  BY DEF CookInv, TypeOK
<1>3. /\ DOMAIN meals' = DOMAIN meals
      /\ \A p \in DOMAIN meals : p # o => meals'[p] = meals[p]
      /\ meals'[o] = row
  OBVIOUS
<1>4. CookedByActiveEvent'
  BY <1>1, <1>3 DEF CookInv, CookedByActiveEvent
<1>5. LotsHaveRows'
  BY <1>3 DEF CookInv, LotsHaveRows
<1>6. \A p \in DOMAIN meals : SourceLots(p)' = SourceLots(p)
  BY <1>3 DEF SourceLots, LotsOf
<1>7. LotsNameTips'
  BY <1>1, <1>3, <1>6 DEF CookInv, LotsNameTips
<1> QED BY <1>1, <1>2, <1>4, <1>5, <1>7 DEF CookInv, HistoryPart

LEMMA RowTypes ==
    ASSUME NEW m \in Meal, NEW status \in MealStatus, NEW d \in Dishes,
           NEW row, row \in {Transition(m, status), Revised(m, d)}
    PROVE  /\ row \in Meal
           /\ row.rev = m.rev + 1 /\ row.week = m.week
           /\ row.event = m.event /\ row.lots = m.lots
           /\ row = Transition(m, status) => row.status = status /\ row.dish = m.dish
           /\ row = Revised(m, d) => row.status = m.status
<1>1. m.rev + 1 \in Nat \ {0}
  BY DEF Meal
<1> DEFINE t == [m EXCEPT !.status = status]
           r == [m EXCEPT !.dish = d]
<1>2. t \in Meal /\ t.rev = m.rev /\ r \in Meal /\ r.rev = m.rev
  BY DEF Meal
<1>3. [t EXCEPT !.rev = m.rev + 1] \in Meal /\ [r EXCEPT !.rev = m.rev + 1] \in Meal
  BY <1>1, <1>2 DEF Meal
<1>4. Transition(m, status) = [t EXCEPT !.rev = m.rev + 1]
  BY Zenon DEF Transition
<1>5. Revised(m, d) = [r EXCEPT !.rev = m.rev + 1]
  BY Zenon DEF Revised
<1>6. /\ row.rev = m.rev + 1 /\ row.week = m.week
      /\ row.event = m.event /\ row.lots = m.lots
      /\ row = Transition(m, status) => row.status = status /\ row.dish = m.dish
      /\ row = Revised(m, d) => row.status = m.status
  BY DEF Transition, Revised, Meal
<1> QED BY <1>3, <1>4, <1>5, <1>6

LEMMA CancelMealKeeps ==
    ASSUME CookInv, NEW o, CancelMeal(o)
    PROVE  CookInv'
<1>1. o \in DOMAIN meals /\ meals[o] \in Meal
  BY DEF CancelMeal, CookInv, TypeOK
<1>2. "cancelled" \in MealStatus /\ meals[o].dish \in Dishes
  BY <1>1 DEF MealStatus, Meal
<1> DEFINE row == Transition(meals[o], "cancelled")
<1>3. /\ row \in Meal /\ row.status = "cancelled" /\ row.week = meals[o].week
      /\ row.event = meals[o].event /\ row.lots = meals[o].lots
  BY <1>1, <1>2, RowTypes
<1>4. meals' = [meals EXCEPT ![o] = row] /\ meals[o].status = "planned"
      /\ UNCHANGED <<plans, lots, history, fridge, prep>>
  BY DEF CancelMeal
<1> HIDE DEF row
<1> QED BY <1>1, <1>3, <1>4, RowKeeps

LEMMA ReviseMealKeeps ==
    ASSUME CookInv, NEW o, NEW d \in Dishes, ReviseMeal(o, d)
    PROVE  CookInv'
<1>1. o \in DOMAIN meals /\ meals[o] \in Meal
  BY DEF ReviseMeal, CookInv, TypeOK
<1>2. "planned" \in MealStatus
  BY DEF MealStatus
<1> DEFINE row == Revised(meals[o], d)
<1>3. /\ row \in Meal /\ row.status = meals[o].status /\ row.week = meals[o].week
      /\ row.event = meals[o].event /\ row.lots = meals[o].lots
  BY <1>1, <1>2, RowTypes
<1>4. meals' = [meals EXCEPT ![o] = row] /\ meals[o].status = "planned"
      /\ UNCHANGED <<plans, lots, history, fridge, prep>>
  BY DEF ReviseMeal
<1> HIDE DEF row
<1> QED BY <1>1, <1>3, <1>4, RowKeeps

-----------------------------------------------------------------------------
(* Cooking. *)

\* A row that an event has cooked, and one that was reopened.
LEMMA CookedRow ==
    ASSUME NEW m \in Meal, NEW e \in CookEvents, NEW ls \in SUBSET CookEvents
    PROVE  /\ CookedBy(m, e, ls) \in Meal
           /\ CookedBy(m, e, ls).status = "cooked"
           /\ CookedBy(m, e, ls).event = e
           /\ CookedBy(m, e, ls).lots = ls
           /\ CookedBy(m, e, ls).week = m.week
           /\ CookedBy(m, e, ls).rev = m.rev + 1
<1>1. PICK t : t = Transition(m, "cooked")
  BY Zenon
<1>2. t \in Meal /\ t.status = "cooked" /\ t.week = m.week /\ t.rev = m.rev + 1
  <2>1. "cooked" \in MealStatus /\ m.dish \in Dishes
    BY DEF MealStatus, Meal
  <2> QED BY <1>1, <2>1, RowTypes
<1>3. PICK a : a = [t EXCEPT !.event = e]
  BY Zenon
<1>4. /\ a \in Meal /\ a.event = e /\ a.status = "cooked" /\ a.week = m.week
      /\ a.rev = m.rev + 1
  BY <1>2, <1>3 DEF Meal
<1>5. PICK b : b = [a EXCEPT !.lots = ls]
  BY Zenon
<1>6. /\ b \in Meal /\ b.event = e /\ b.status = "cooked" /\ b.week = m.week
      /\ b.rev = m.rev + 1 /\ b.lots = ls
  BY <1>4, <1>5 DEF Meal
<1>7. CookedBy(m, e, ls) = b
  BY <1>1, <1>3, <1>5, Zenon DEF CookedBy
<1> QED BY <1>6, <1>7

LEMMA ReopenedRow ==
    ASSUME NEW m \in Meal
    PROVE  /\ Reopened(m) \in Meal
           /\ Reopened(m).status = "planned" /\ Reopened(m).event = None
           /\ Reopened(m).lots = m.lots /\ Reopened(m).week = m.week
           /\ Reopened(m).rev = m.rev + 1
<1>1. PICK t : t = Transition(m, "planned")
  BY Zenon
<1>2. /\ t \in Meal /\ t.status = "planned" /\ t.week = m.week /\ t.lots = m.lots
      /\ t.rev = m.rev + 1
  <2>1. "planned" \in MealStatus /\ m.dish \in Dishes
    BY DEF MealStatus, Meal
  <2> QED BY <1>1, <2>1, RowTypes
<1>3. Reopened(m) = [t EXCEPT !.event = None]
  BY <1>1, Zenon DEF Reopened
<1> QED BY <1>2, <1>3 DEF Meal

\* The row and the lots of one occurrence follow its history, to the event e.
RowFollows(o, e, ls, row) ==
    /\ o \in DOMAIN meals /\ e \in CookEvents /\ ls \in SUBSET CookEvents
    /\ row \in Meal
    /\ row.status = "cooked" /\ row.event = e /\ row.lots = ls /\ row.week = meals[o].week
    /\ meals' = [meals EXCEPT ![o] = row]
    /\ \A k, l \in ls : k = l
    /\ ls \subseteq DOMAIN lots'
    /\ \A l \in ls : /\ lots'[l] \in Lot /\ lots'[l].occ = o /\ lots'[l].event = e
                     /\ lots'[l].week = meals[o].week
    /\ \A l \in DOMAIN lots' \ ls :
          l \in DOMAIN lots /\ lots'[l] = lots[l] /\ lots[l].occ # o
    /\ \A l \in DOMAIN lots : lots[l].occ # o => l \in DOMAIN lots' \ ls
    /\ ActiveLinked(o)' = {e} /\ e \in Tips(o)'
    /\ \A p \in Occurrences : p # o => /\ ActiveLinked(p)' = ActiveLinked(p)
                                       /\ Tips(p)' = Tips(p)

LEMMA CookedRowKeeps ==
    ASSUME CookInv, NEW o, NEW e, NEW ls, NEW row, RowFollows(o, e, ls, row)
    PROVE  /\ meals' \in [DOMAIN meals' -> Meal] /\ DOMAIN meals' = DOMAIN meals
           /\ CookedByActiveEvent' /\ LotsHaveRows' /\ LotsNameTips'
<1> USE DEF RowFollows
<1>1. meals[o] \in Meal /\ \A p \in DOMAIN meals : p \in Occurrences
  BY DEF CookInv, TypeOK
<1>3. /\ DOMAIN meals' = DOMAIN meals
      /\ \A p \in DOMAIN meals : p # o => meals'[p] = meals[p]
      /\ meals'[o] = row
  OBVIOUS
<1>4. meals' \in [DOMAIN meals' -> Meal]
  BY DEF CookInv, TypeOK
<1>5. CookedByActiveEvent'
  BY <1>1, <1>3 DEF CookInv, CookedByActiveEvent
<1>6. LotsHaveRows'
  BY <1>3 DEF CookInv, LotsHaveRows
<1>7. /\ \A p \in DOMAIN meals : p # o => SourceLots(p)' = SourceLots(p)
      /\ SourceLots(o)' = ls
  BY <1>3 DEF SourceLots, LotsOf
<1>8. \A p \in DOMAIN meals : p # o =>
         \A l \in SourceLots(p) : lots'[l] = lots[l]
  BY DEF SourceLots, LotsOf
<1>9. LotsNameTips'
  <2> SUFFICES ASSUME NEW p \in DOMAIN meals
               PROVE  /\ meals'[p].lots = SourceLots(p)'
                      /\ \A k, l \in meals'[p].lots : k = l
                      /\ \A l \in meals'[p].lots :
                            /\ lots'[l].event \in Tips(p)'
                            /\ meals'[p].status = "cooked" => lots'[l].event = meals'[p].event
    BY <1>3 DEF LotsNameTips
  <2>1. CASE p = o
    BY <2>1, <1>3, <1>7
  <2>2. CASE p # o
    BY <2>2, <1>1, <1>3, <1>7, <1>8 DEF CookInv, LotsNameTips
  <2> QED BY <2>1, <2>2
<1> QED BY <1>3, <1>4, <1>5, <1>6, <1>9

LEMMA PlainEventTypes ==
    ASSUME TypeOK, NEW e, NEW d, NEW o, NEW left, PlainAdded(e, d, o, left)
    PROVE  history' \in [DOMAIN history' -> Event] /\ DOMAIN history' \subseteq CookEvents
<1>1. PlainEvent(d, o, left) \in Event
  BY DEF PlainEvent, Event, PlainAdded
<1>a. /\ DOMAIN history' = DOMAIN history \cup {e}
      /\ \A x \in DOMAIN history : history'[x] = history[x]
      /\ history'[e] = PlainEvent(d, o, left)
  BY PlainFields
<1>2. \A x \in DOMAIN history' : history'[x] \in Event
  BY <1>1, <1>a DEF TypeOK
<1> QED BY <1>2 DEF PlainAdded, Put, TypeOK

LEMMA CookMealKeeps ==
    ASSUME CookInv, NEW e \in CookEvents, UnusedEvent(e), NEW o \in DOMAIN meals,
           NEW left \in 0..MaxLeft, CookMeal(e, o, left)
    PROVE  CookInv'
<1> DEFINE d == meals[o].dish
<1>1. meals[o] \in Meal /\ o \in Occurrences /\ o # None /\ d \in Dishes
  BY CookingAssumption DEF CookInv, TypeOK, Meal
<1>2. PlainAdded(e, d, o, left)
  BY <1>1 DEF PlainAdded, CookMeal, UnusedEvent
<1>3. HistoryLoads' /\ RequestsFit' /\ OneTip'
  BY <1>2, PlainLoads, PlainTips DEF CookInv, HistoryLoads
<1>4. /\ ActiveLinked(o)' = {e} /\ Tips(o)' = {e}
      /\ \A p \in Occurrences : p # o => /\ ActiveLinked(p)' = ActiveLinked(p)
                                         /\ Tips(p)' = Tips(p)
  BY <1>1, <1>2, PlainLineage DEF CookInv, HistoryLoads
<1>5. EffectsOnce' /\ IsFiniteSet(DOMAIN history')
  BY <1>2, PlainEffects DEF CookInv, CookMeal
<1>6. history' \in [DOMAIN history' -> Event] /\ DOMAIN history' \subseteq CookEvents
  BY <1>2, PlainEventTypes DEF CookInv
<1>7. \A l \in DOMAIN lots : lots[l].occ # o
  <2>1. Tips(o) = {}
    BY DEF Tips, CookMeal
  <2>2. SourceLots(o) = {}
    BY <2>1 DEF CookInv, LotsNameTips
  <2> QED BY <2>2 DEF SourceLots, LotsOf, CookInv, LotsHaveRows
<1>8. meals[o].lots = {}
  BY <1>7 DEF CookInv, LotsNameTips, SourceLots, LotsOf
<1> DEFINE L == IF left > 0 THEN {e} ELSE {}
<1>9. L \in SUBSET CookEvents /\ \A k, l \in L : k = l
  OBVIOUS
<1>a. PICK row : row = CookedBy(meals[o], e, L)
  BY Zenon
<1>b. /\ row \in Meal
      /\ row.status = "cooked" /\ row.event = e /\ row.lots = L
      /\ row.week = meals[o].week
  BY <1>1, <1>9, <1>a, CookedRow
<1>10. meals' = [meals EXCEPT ![o] = row]
  <2>1. (IF left > 0 THEN meals[o].lots \cup {e} ELSE meals[o].lots) = L
    BY <1>8
  <2> QED BY <2>1, <1>a DEF CookMeal, MarkCooked
<1>11. /\ DOMAIN lots' = DOMAIN lots \cup L
       /\ e \notin DOMAIN lots
       /\ \A l \in DOMAIN lots : lots'[l] = lots[l]
       /\ \A l \in L : lots'[l] = NewLot(o, e, left)
       /\ lots' \in [DOMAIN lots' -> Lot] /\ DOMAIN lots' \subseteq CookEvents
       /\ L # {} => NewLot(o, e, left) \in Lot
  <2>1. L # {} => NewLot(o, e, left) \in Lot
    BY <1>1, CookingAssumption DEF NewLot, Lot, Meal
  <2> QED BY <2>1 DEF CookMeal, MarkCooked, Put, UnusedEvent, CookInv, TypeOK
<1>12. NewLot(o, e, left).occ = o /\ NewLot(o, e, left).event = e
       /\ NewLot(o, e, left).week = meals[o].week
  BY DEF NewLot
<1> HIDE DEF L, d
<1>13. /\ meals' \in [DOMAIN meals' -> Meal] /\ DOMAIN meals' = DOMAIN meals
       /\ CookedByActiveEvent' /\ LotsHaveRows' /\ LotsNameTips'
  <2>1. /\ L \subseteq DOMAIN lots'
        /\ \A l \in L : lots'[l] \in Lot /\ lots'[l].occ = o /\ lots'[l].event = e
                        /\ lots'[l].week = meals[o].week
        /\ \A l \in DOMAIN lots' \ L :
               l \in DOMAIN lots /\ lots'[l] = lots[l] /\ lots[l].occ # o
        /\ \A l \in DOMAIN lots : lots[l].occ # o => l \in DOMAIN lots' \ L
    BY <1>7, <1>11, <1>12 DEF L
  <2>2. RowFollows(o, e, L, row)
    BY <2>1, <1>1, <1>4, <1>9, <1>b, <1>10 DEF RowFollows
  <2> QED BY <2>2, CookedRowKeeps
<1>14. TypeOK'
  <2>1. fridge' \subseteq Dishes /\ prep' \in Nat /\ plans' = plans
    BY DEF CookMeal, Consume, CookInv, TypeOK
  <2> QED BY <2>1, <1>6, <1>11, <1>13 DEF CookInv, TypeOK
<1> QED BY <1>3, <1>5, <1>13, <1>14 DEF CookInv

\* A dish is cooked that no planned meal asks for.
CookUnplanned(e, d, left) ==
    /\ history' = Put(history, e, PlainEvent(d, None, left))
    /\ Consume(d)
    /\ UNCHANGED <<plans, meals, lots>>

LEMMA CookUnplannedKeeps ==
    ASSUME CookInv, NEW e \in CookEvents, UnusedEvent(e), NEW d \in Dishes,
           NEW left \in 0..MaxLeft, CookUnplanned(e, d, left)
    PROVE  CookInv'
<1>1. PlainAdded(e, d, None, left)
  BY DEF PlainAdded, CookUnplanned, UnusedEvent
<1>2. HistoryLoads' /\ RequestsFit' /\ OneTip'
  BY <1>1, PlainLoads, PlainTips DEF CookInv, HistoryLoads
<1>3. \A p \in Occurrences : /\ ActiveLinked(p)' = ActiveLinked(p)
                             /\ Tips(p)' = Tips(p)
  <2>1. None \notin Occurrences
    BY CookingAssumption
  <2> QED BY <1>1, <2>1, PlainLineage DEF CookInv, HistoryLoads
<1>4. EffectsOnce' /\ IsFiniteSet(DOMAIN history')
  BY <1>1, PlainEffects DEF CookInv, CookUnplanned
<1>5. history' \in [DOMAIN history' -> Event] /\ DOMAIN history' \subseteq CookEvents
  BY <1>1, PlainEventTypes DEF CookInv
<1>6. TypeOK'
  BY <1>5 DEF CookUnplanned, Consume, CookInv, TypeOK
<1>7. CookedByActiveEvent' /\ LotsHaveRows'
  BY <1>3 DEF CookUnplanned, CookInv, TypeOK, CookedByActiveEvent, LotsHaveRows
<1>8. LotsNameTips'
  BY <1>3 DEF CookUnplanned, CookInv, TypeOK, LotsNameTips, SourceLots, LotsOf
<1> QED BY <1>2, <1>4, <1>6, <1>7, <1>8 DEF CookInv

LEMMA CorrectCookedKeeps ==
    ASSUME CookInv, NEW e \in CookEvents, NEW req \in Request, NEW acks,
           CorrectCooked(e, req, acks)
    PROVE  CookInv'
<1> DEFINE t == req.target
           o == req.occ
           left == IF req.left = None THEN history[t].left ELSE req.left
           ls == ReconciledLinks(o, e, left)
<1>1. /\ t \in DOMAIN history /\ history[t] \in Event /\ o \in DOMAIN meals
      /\ o \in Occurrences /\ meals[o] \in Meal /\ req.dish \in Dishes
  BY EventTypes DEF CorrectCooked, Accepted, Located, CookInv, TypeOK, Request
<1>2. left \in 0..MaxLeft
  BY <1>1 DEF Request, Event
<1>3. CorrectionAdded(e, req, acks, left)
  BY <1>2 DEF CorrectionAdded, CorrectCooked, UnusedEvent
<1>4. HistoryLoads' /\ RequestsFit' /\ OneTip'
  BY <1>3, CorrectionLoads, CorrectionTips DEF CookInv, HistoryLoads
<1>5. /\ Corrections' = Corrections \cup {e}
      /\ ActiveLinked(o)' = {e} /\ e \in Tips(o)'
      /\ \A p \in Occurrences : p # o => /\ ActiveLinked(p)' = ActiveLinked(p)
                                         /\ Tips(p)' = Tips(p)
  BY <1>3, CorrectionLineage DEF CookInv, HistoryLoads
<1>6. CorrectionStep(e, req, left)
  BY <1>3, CorrectionFields DEF CookInv
<1>7. EffectsOnce' /\ IsFiniteSet(DOMAIN history')
  <2>1. IsFiniteSet(DOMAIN history')
    BY <1>6, FS_AddElement DEF CorrectionStep, CookInv
  <2>2. PlainEvents(history') = PlainEvents(history)
    BY <1>6 DEF CorrectionStep, PlainEvents, CorrectionEvent
  <2>3. \A x \in PlainEvents(history) : history'[x].dish = history[x].dish
    BY <1>6 DEF CorrectionStep, PlainEvents
  <2> QED BY <2>1, <2>2, <2>3, KeptEffects DEF CookInv, CorrectCooked, RetainEffects
<1>8. history' \in [DOMAIN history' -> Event] /\ DOMAIN history' \subseteq CookEvents
  <2>1. CorrectionEvent(req, left) \in Event
    <3>1. RootOf(t) \in CookEvents \cup {None}
      BY <1>1 DEF RootOf, Event, CookInv, TypeOK
    <3>2. UnverifiedTombstones(t) \subseteq CookEvents
      BY DEF UnverifiedTombstones, Linked, CookInv, TypeOK
    <3> QED BY <1>1, <1>2, <3>1, <3>2 DEF CorrectionEvent, Event
  <2>2. \A x \in DOMAIN history : Retracted(history, t)[x] \in Event
    BY <1>1, EventTypes DEF Retracted, CookInv, Event
  <2>3. DOMAIN Retracted(history, t) = DOMAIN history
    BY DEF Retracted
  <2> QED BY <2>1, <2>2, <2>3 DEF CorrectCooked, Put, CookInv, TypeOK
<1>9. /\ meals[o].lots = SourceLots(o)
      /\ \A k, l \in meals[o].lots : k = l
      /\ meals[o].lots \subseteq CookEvents
  BY <1>1 DEF CorrectCooked, Accepted, LotsReconcilable, Meal
<1>10. \A l \in DOMAIN lots : lots[l].occ = o <=> l \in meals[o].lots
  BY <1>9 DEF SourceLots, LotsOf, CookInv, LotsHaveRows
<1>11. /\ NewLot(o, e, left).occ = o /\ NewLot(o, e, left).event = e
       /\ NewLot(o, e, left).week = meals[o].week
  BY DEF NewLot
<1>12. left > 0 => NewLot(o, e, left) \in Lot
  BY <1>1, <1>2, CookingAssumption DEF NewLot, Lot, Meal
<1>13. /\ ls \in SUBSET CookEvents
       /\ \A k, l \in ls : k = l
       /\ ls \subseteq DOMAIN lots'
       /\ \A l \in ls : lots'[l] = NewLot(o, e, left) /\ left > 0
       /\ \A l \in DOMAIN lots' \ ls :
             l \in DOMAIN lots /\ lots'[l] = lots[l] /\ lots[l].occ # o
       /\ \A l \in DOMAIN lots : lots[l].occ # o => l \in DOMAIN lots' \ ls
       /\ lots' \in [DOMAIN lots' -> Lot] /\ DOMAIN lots' \subseteq CookEvents
  <2> HIDE DEF left, o, t
  <2>0. lots' = ReconciledLots(o, e, left) /\ e \notin DOMAIN lots
    BY DEF CorrectCooked, UnusedEvent, o, t, left
  <2>1. CASE meals[o].lots # {} /\ left = 0
    BY <2>0, <2>1, <1>2, <1>10 DEF ReconciledLots, ReconciledLinks, Without, CookInv, TypeOK
  <2>2. CASE meals[o].lots # {} /\ left # 0
    <3>1. left > 0
      BY <2>2, <1>2, CookingAssumption
    <3>2. meals[o].lots \subseteq DOMAIN lots
      BY <1>9 DEF SourceLots, LotsOf
    <3> QED BY <2>0, <2>2, <3>1, <3>2, <1>9, <1>10, <1>12
            DEF ReconciledLots, ReconciledLinks, CookInv, TypeOK
  <2>3. CASE meals[o].lots = {} /\ left = 0
    BY <2>0, <2>3, <1>10 DEF ReconciledLots, ReconciledLinks, CookInv, TypeOK
  <2>4. CASE meals[o].lots = {} /\ left # 0
    <3>1. left > 0
      BY <2>4, <1>2, CookingAssumption
    <3> QED BY <2>0, <2>4, <3>1, <1>10, <1>12
            DEF ReconciledLots, ReconciledLinks, Put, CookInv, TypeOK
  <2> QED BY <2>1, <2>2, <2>3, <2>4
<1>14. PICK row : row = CookedBy(meals[o], e, ls)
  BY Zenon
<1>15. /\ row \in Meal
       /\ row.status = "cooked" /\ row.event = e /\ row.lots = ls
       /\ row.week = meals[o].week
  BY <1>1, <1>13, <1>14, CookedRow
<1>16. meals' = [meals EXCEPT ![o] = row]
  BY <1>14 DEF CorrectCooked
<1>17. RowFollows(o, e, ls, row)
  <2> HIDE DEF ls, left, o
  <2> QED BY <1>1, <1>5, <1>11, <1>12, <1>13, <1>15, <1>16 DEF RowFollows
<1>18. /\ meals' \in [DOMAIN meals' -> Meal] /\ DOMAIN meals' = DOMAIN meals
       /\ CookedByActiveEvent' /\ LotsHaveRows' /\ LotsNameTips'
  BY <1>17, CookedRowKeeps
<1>19. TypeOK'
  <2>1. UNCHANGED <<plans, fridge, prep>>
    BY DEF CorrectCooked, RetainEffects
  <2> QED BY <2>1, <1>8, <1>13, <1>18 DEF CookInv, TypeOK
<1> QED BY <1>4, <1>7, <1>18, <1>19 DEF CookInv

LEMMA RetractCookedKeeps ==
    ASSUME CookInv, NEW e, RetractCooked(e)
    PROVE  CookInv'
<1>o. PICK o : o = history[e].occ
  OBVIOUS
<1>1. e \in DOMAIN history /\ history[e] \in Event /\ history[e].active
      /\ history' = Retracted(history, e) /\ UNCHANGED <<plans, lots, fridge, prep>>
  BY EventTypes DEF RetractCooked, CookInv
<1>2. HistoryLoads' /\ RequestsFit' /\ OneTip'
  BY <1>1, RetractionLoads, RetractionTips DEF CookInv
<1>3. \A p : ActiveLinked(p)' = ActiveLinked(p) \ {e} /\ Tips(p)' = Tips(p)
  BY <1>1, RetractionLineage DEF CookInv
<1>4. EffectsOnce' /\ IsFiniteSet(DOMAIN history')
  <2>1. /\ DOMAIN history' = DOMAIN history
        /\ \A x \in DOMAIN history : /\ history'[x].dish = history[x].dish
                                     /\ history'[x].request = history[x].request
    BY <1>1, RetractionFields DEF CookInv
  <2>2. PlainEvents(history') = PlainEvents(history)
    BY <2>1 DEF PlainEvents
  <2>3. \A x \in PlainEvents(history) : history'[x].dish = history[x].dish
    BY <2>1 DEF PlainEvents
  <2> QED BY <1>1, <2>1, <2>2, <2>3, KeptEffects DEF CookInv
<1>5. history' \in [DOMAIN history' -> Event] /\ DOMAIN history' \subseteq CookEvents
  BY <1>1 DEF Retracted, CookInv, TypeOK, Event
<1>6. CASE o = None
  <2>1. UNCHANGED meals
    BY <1>6, <1>o DEF RetractCooked
  <2>2. \A p \in Occurrences : e \notin ActiveLinked(p)
    BY <1>6, <1>o, CookingAssumption DEF ActiveLinked, Linked
  <2>3. CookedByActiveEvent' /\ LotsHaveRows'
    BY <1>1, <1>3, <2>1, <2>2 DEF CookInv, TypeOK, CookedByActiveEvent, LotsHaveRows
  <2>4. LotsNameTips'
    BY <1>1, <1>3, <2>1 DEF CookInv, LotsNameTips, SourceLots, LotsOf
  <2>5. TypeOK'
    BY <1>1, <1>5, <2>1 DEF CookInv, TypeOK
  <2> QED BY <1>2, <1>4, <2>3, <2>4, <2>5 DEF CookInv
<1>7. CASE o # None
  <2> DEFINE row == Reopened(meals[o])
  <2>1. /\ o \in DOMAIN meals /\ meals[o] \in Meal
        /\ meals[o].status = "cooked" /\ meals[o].event = e
        /\ meals' = [meals EXCEPT ![o] = row]
    BY <1>7, <1>o DEF RetractCooked, CookInv, TypeOK
  <2>2. /\ row \in Meal /\ row.status = "planned" /\ row.event = None
        /\ row.lots = meals[o].lots /\ row.week = meals[o].week
    BY <2>1, ReopenedRow
  <2>3. \A p : p # o => e \notin ActiveLinked(p)
    BY <1>o DEF ActiveLinked, Linked
  <2> HIDE DEF row
  <2>4. /\ DOMAIN meals' = DOMAIN meals
        /\ \A p \in DOMAIN meals : p # o => meals'[p] = meals[p]
        /\ meals'[o] = row
    BY <2>1
  <2>5. ActiveLinked(o)' = {}
    BY <1>3, <2>1 DEF CookInv, CookedByActiveEvent
  <2>6. CookedByActiveEvent'
    BY <1>3, <2>2, <2>3, <2>4, <2>5 DEF CookInv, CookedByActiveEvent
  <2>7. LotsHaveRows'
    BY <1>1, <2>2, <2>4 DEF CookInv, LotsHaveRows
  <2>8. \A p \in DOMAIN meals : SourceLots(p)' = SourceLots(p)
    BY <1>1, <2>2, <2>4 DEF SourceLots, LotsOf
  <2>9. LotsNameTips'
    BY <1>1, <1>3, <2>2, <2>4, <2>8 DEF CookInv, LotsNameTips
  <2>10. TypeOK'
    BY <1>1, <1>5, <2>1, <2>2 DEF CookInv, TypeOK
  <2> QED BY <1>2, <1>4, <2>6, <2>7, <2>9, <2>10 DEF CookInv
<1> QED BY <1>6, <1>7

-----------------------------------------------------------------------------
(* Every reachable state. *)

LEMMA StockInit ==
    ASSUME Init PROVE EffectsOnce
BY DEF Init, EffectsOnce

LEMMA FreshHolds ==
    ASSUME Init, InitFresh PROVE CookInv
<1>1. DOMAIN plans = {} /\ DOMAIN meals = {} /\ DOMAIN lots = {} /\ DOMAIN history = {}
  BY DEF InitFresh, NoDict
<1>2. Corrections = {}
  BY <1>1 DEF Corrections
<1>3. HistoryLoads /\ RequestsFit /\ OneTip
  BY <1>1, <1>2 DEF OneTip, Tips, Linked, HistoryLoads, RequestsFit, OneActivePerOccurrence, PredecessorsFit,
                    NoForks, NoCycles, RootsCovered, ActiveIsTip
<1>4. IsFiniteSet(DOMAIN history)
  BY <1>1, FS_EmptySet
<1>5. TypeOK
  <2>1. Cardinality({x \in DOMAIN history : history[x].request = None}) = 0
    BY <1>1, FS_EmptySet
  <2>2. prep \in Nat /\ fridge \subseteq Dishes
    BY <2>1, CookingAssumption DEF Init, UsesLeft, InStock
  <2> QED BY <1>1, <2>2 DEF TypeOK, InitFresh, NoDict
<1> QED BY <1>1, <1>3, <1>4, <1>5, StockInit
        DEF CookInv, CookedByActiveEvent, LotsHaveRows, LotsNameTips

\* The row that a file of an earlier version holds.
LEMMA LegacyRow ==
    ASSUME NEW w, NEW d, NEW f
    PROVE  [NewMeal(w, d) EXCEPT !.status = "cooked", !.rev = 4, !.event = f]
             = [week |-> w, dish |-> d, status |-> "cooked", rev |-> 4,
                event |-> f, lots |-> {}]
<1>1. PICK a : a = [NewMeal(w, d) EXCEPT !.status = "cooked"]
  BY Zenon
<1>2. a = [week |-> w, dish |-> d, status |-> "cooked", rev |-> 1,
           event |-> None, lots |-> {}]
  BY <1>1 DEF NewMeal
<1>3. PICK b : b = [a EXCEPT !.rev = 4]
  BY Zenon
<1>4. b = [week |-> w, dish |-> d, status |-> "cooked", rev |-> 4,
           event |-> None, lots |-> {}]
  BY <1>2, <1>3
<1>5. [b EXCEPT !.event = f] = [week |-> w, dish |-> d, status |-> "cooked", rev |-> 4,
                                event |-> f, lots |-> {}]
  BY <1>4
<1>6. [NewMeal(w, d) EXCEPT !.status = "cooked", !.rev = 4, !.event = f]
        = [b EXCEPT !.event = f]
  BY <1>1, <1>3, Zenon
<1> QED BY <1>5, <1>6, Zenon

LEMMA LegacyHolds ==
    ASSUME Init, InitLegacy PROVE CookInv
<1>1. PICK w \in Weeks, o \in Occurrences, d \in Dishes, e \in CookEvents, f \in CookEvents :
        /\ e # f
        /\ plans = [x \in {w} |-> "active"]
        /\ meals = [x \in {o} |->
                       [NewMeal(w, d) EXCEPT !.status = "cooked", !.rev = 4, !.event = f]]
        /\ lots = NoDict
        /\ history = [x \in {e, f} |->
                         [PlainEvent(d, o, 0) EXCEPT !.active = (x = f)]]
  BY DEF InitLegacy
<1>2. /\ DOMAIN history = {e, f} /\ DOMAIN meals = {o} /\ DOMAIN lots = {}
      /\ \A x \in {e, f} :
            /\ history[x] \in Event
            /\ history[x].occ = o /\ history[x].request = None /\ history[x].dish = d
            /\ history[x].active <=> x = f
  <2>1. \A b \in BOOLEAN :
           [PlainEvent(d, o, 0) EXCEPT !.active = b]
             = [dish |-> d, occ |-> o, left |-> 0, active |-> b,
                request |-> None, root |-> None, acked |-> {}]
    BY DEF PlainEvent
  <2>2. \A x \in {e, f} :
           history[x] = [dish |-> d, occ |-> o, left |-> 0, active |-> (x = f),
                         request |-> None, root |-> None, acked |-> {}]
    BY <1>1, <2>1
  <2>3. 0 \in 0..MaxLeft
    BY CookingAssumption
  <2> QED BY <1>1, <2>2, <2>3 DEF NoDict, Event
<1>3. /\ meals[o] \in Meal
      /\ meals[o].status = "cooked" /\ meals[o].event = f
      /\ meals[o].lots = {} /\ meals[o].week = w
  <2>1. meals[o] = [week |-> w, dish |-> d, status |-> "cooked", rev |-> 4,
                    event |-> f, lots |-> {}]
    BY <1>1, LegacyRow, Zenon
  <2> QED BY <2>1 DEF Meal, MealStatus
<1>4. Corrections = {} /\ \A x : Children(x) = {}
  BY <1>2 DEF Corrections, IsCorrection, Children
<1>p. OneTip
  <2>1. \A p \in Occurrences : p # o => Tips(p) = {}
    BY <1>2 DEF Tips, Linked
  <2>2. e \in Linked(o) /\ f \in Linked(o) /\ ~IsCorrection(e) /\ ~IsCorrection(f)
    BY <1>2 DEF Linked, IsCorrection
  <2>3. ~OnePlain(o)
    BY <1>1, <2>2 DEF OnePlain
  <2> QED BY <2>1, <2>3 DEF OneTip
<1>5. HistoryLoads /\ RequestsFit
  BY <1>2, <1>4 DEF HistoryLoads, RequestsFit, OneActivePerOccurrence, PredecessorsFit,
                    NoForks, NoCycles, RootsCovered, ActiveIsTip
<1>6. IsFiniteSet(DOMAIN history)
  <2>1. IsFiniteSet({e})
    BY FS_Singleton
  <2>2. {e, f} = {e} \cup {f}
    OBVIOUS
  <2> QED BY <1>2, <2>1, <2>2, FS_AddElement
<1>7. ActiveLinked(o) = {f}
  BY <1>2 DEF ActiveLinked, Linked
<1>8. TypeOK
  <2>1. IsFiniteSet({x \in DOMAIN history : history[x].request = None})
    BY <1>6, FS_Subset
  <2>2. Cardinality({x \in DOMAIN history : history[x].request = None}) \in Nat
    BY <2>1, FS_CardinalityType
  <2>3. prep \in Nat /\ fridge \subseteq Dishes
    BY <2>2, CookingAssumption DEF Init, UsesLeft, InStock
  <2>4. history \in [DOMAIN history -> Event] /\ meals \in [DOMAIN meals -> Meal]
    BY <1>1, <1>2, <1>3, Zenon
  <2> QED BY <1>1, <1>2, <2>3, <2>4 DEF TypeOK, PlanStatus, NoDict
<1>9. CookedByActiveEvent
  BY <1>2, <1>3, <1>7 DEF CookedByActiveEvent
<1>10. LotsHaveRows /\ LotsNameTips
  BY <1>2, <1>3 DEF LotsHaveRows, LotsNameTips, SourceLots, LotsOf
<1> QED BY <1>p, <1>5, <1>6, <1>8, <1>9, <1>10, StockInit DEF CookInv

LEMMA RequestTypes ==
    ASSUME TypeOK, NEW o \in DOMAIN meals, NEW req \in Requests(o)
    PROVE  req \in Request
<1>1. meals[o] \in Meal /\ o \in Occurrences /\ Linked(o) \subseteq CookEvents
  BY DEF TypeOK, Linked
<1>2. /\ meals[o].dish \in Dishes /\ meals[o].rev \in Nat
  BY <1>1 DEF Meal
<1> QED BY <1>1, <1>2 DEF Requests, Request

LEMMA NextKeeps ==
    ASSUME CookInv, Next PROVE CookInv'
<1>1. CASE \E w \in Weeks : CreatePlan(w) \/ SetPlanStatus(w) \/ DeletePlan(w)
  BY <1>1, CreatePlanKeeps, SetPlanStatusKeeps, DeletePlanKeeps
<1>2. CASE \E source, w \in Weeks : RepeatPlan(source, w)
  BY <1>2, RepeatPlanKeeps
<1>3. CASE \E o \in Occurrences, w \in Weeks, d \in Dishes :
              AddMeal(o, w, d) \/ WebAddMeal(o, w, d)
  BY <1>3, AddMealKeeps DEF WebAddMeal
<1>4. CASE \E o \in Occurrences : CancelMeal(o) \/ WebCancelMeal(o)
  BY <1>4, CancelMealKeeps DEF WebCancelMeal
<1>5. CASE \E o \in Occurrences, d \in Dishes : ReviseMeal(o, d)
  BY <1>5, ReviseMealKeeps
<1>6. CASE \E e \in CookEvents : RegisterCooked(e)
  <2>1. PICK e \in CookEvents : RegisterCooked(e)
    BY <1>6
  <2>2. CASE \E o \in DOMAIN meals, left \in 0..MaxLeft :
                CookOccurrence(e, o, meals[o].rev, left)
    BY <2>2, CookMealKeeps DEF CookOccurrence
  <2>3. CASE \E d \in Dishes, left \in 0..MaxLeft : CookDish(e, d, left)
    <3>1. PICK d \in Dishes, left \in 0..MaxLeft : CookDish(e, d, left)
      BY <2>3
    <3>2. CASE \E o \in PlannedFor(d) : CookMeal(e, o, left)
      BY <3>1, <3>2, CookMealKeeps DEF CookDish, PlannedFor
    <3>3. CASE CookUnplanned(e, d, left)
      BY <3>1, <3>3, CookUnplannedKeeps DEF CookDish
    <3> QED BY <3>1, <3>2, <3>3 DEF CookDish, CookUnplanned
  <2>4. CASE \E o \in DOMAIN meals : \E req \in Requests(o), acks \in {{}, CookEvents} :
                CorrectCooked(e, req, acks)
    BY <2>4, RequestTypes, CorrectCookedKeeps DEF CookInv
  <2> QED BY <2>1, <2>2, <2>3, <2>4 DEF RegisterCooked
<1>7. CASE DeleteHistoryEntry
  BY <1>7, RetractCookedKeeps DEF DeleteHistoryEntry
<1> QED BY <1>1, <1>2, <1>3, <1>4, <1>5, <1>6, <1>7 DEF Next

LEMMA StutterKeeps ==
    ASSUME CookInv, UNCHANGED vars PROVE CookInv'
<1>1. HistoryPart' /\ \A p : ActiveLinked(p)' = ActiveLinked(p) /\ Tips(p)' = Tips(p)
  BY SameHistory DEF CookInv, HistoryPart, vars
<1>2. TypeOK' /\ CookedByActiveEvent' /\ LotsHaveRows'
  BY <1>1 DEF CookInv, vars, TypeOK, CookedByActiveEvent, LotsHaveRows
<1>3. LotsNameTips'
  BY <1>1 DEF CookInv, vars, LotsNameTips, SourceLots, LotsOf
<1> QED BY <1>1, <1>2, <1>3 DEF CookInv, HistoryPart

\* CookInv is inductive: what the history, the rows and the lots know of one
\* another survives every command.
THEOREM CookingInvariance == Spec => []CookInv
<1>1. Init => CookInv
  BY FreshHolds, LegacyHolds DEF Init
<1>2. CookInv /\ [Next]_vars => CookInv'
  BY NextKeeps, StutterKeeps
<1> QED BY <1>1, <1>2, PTL DEF Spec

\* TypeOK holds in every reachable state.
THEOREM CookingTypes == Spec => []TypeOK
BY CookingInvariance, PTL DEF CookInv

\* HistoryAlwaysLoads: validate_event_lineage accepts every history the
\* commands write, however many events, occurrences and legacy tombstones.
THEOREM HistoryNeverRefused == Spec => []HistoryAlwaysLoads
<1>1. CookInv => HistoryAlwaysLoads
  BY DEF CookInv, HistoryAlwaysLoads
<1> QED BY <1>1, CookingInvariance, PTL

\* CookedByActiveEvent: plan rows and history never disagree about a meal.
THEOREM PlansAgreeWithHistory == Spec => []CookedByActiveEvent
BY CookingInvariance, PTL DEF CookInv

\* EffectsOnce: stock and prep are what the plain events took, once each.
THEOREM StockTakenOnce == Spec => []EffectsOnce
BY CookingInvariance, PTL DEF CookInv

\* What CookedByActiveEvent says of the last events of a row.
LEMMA ActiveEvents ==
    ASSUME CookInv, NEW o \in DOMAIN meals
    PROVE  /\ meals[o].status = "cooked" =>
                 /\ meals[o].event \in Linked(o) /\ history[meals[o].event].active
                 /\ meals[o].event \in Tips(o) /\ meals[o].event # None
           /\ meals[o].status # "cooked" => meals[o].event = None
           /\ ActiveLinked(o) \subseteq Tips(o)
<1>1. ActiveLinked(o) \subseteq Tips(o)
  BY DEF CookInv, HistoryLoads, ActiveIsTip, ActiveLinked, Linked, Tips
<1>2. meals[o].status = "cooked" => meals[o].event \in ActiveLinked(o)
  BY DEF CookInv, CookedByActiveEvent
<1>3. \A x \in Linked(o) : x # None
  BY EventTypes DEF CookInv, Linked
<1> QED BY <1>1, <1>2, <1>3 DEF ActiveLinked, CookInv, CookedByActiveEvent

\* LostAnswerIsFound: the repeated request of a correction that still stands is
\* answered by it, in any history of any length.
THEOREM RetriesAreAnswered == Spec => []LostAnswerIsFound
<1>1. ASSUME CookInv PROVE LostAnswerIsFound
  <2> USE <1>1
  <2> SUFFICES ASSUME AllReadable, NEW c \in Corrections, history[c].active,
                      history[c].occ \in DOMAIN meals
               PROVE  Answer(history[c].request) = {c}
    BY DEF LostAnswerIsFound
  <2>1. PICK req : req = history[c].request
    OBVIOUS
  <2>2. c \in DOMAIN history /\ req.occ = history[c].occ
    BY <2>1 DEF Corrections, CookInv, RequestsFit
  <2>3. Children(req.target) = {c}
    BY <2>1 DEF CookInv, HistoryLoads, NoForks, Children
  <2>4. ~Accepted(req, CookEvents)
    BY <2>3 DEF Accepted, Replaceable
  <2>5. ActiveLinked(req.occ) = {meals[req.occ].event} /\ meals[req.occ].status = "cooked"
        /\ meals[req.occ].event = c
    <3>1. c \in ActiveLinked(req.occ)
      BY <2>2 DEF ActiveLinked, Linked
    <3> QED BY <3>1, <2>2 DEF CookInv, CookedByActiveEvent
  <2>6. Cardinality({x \in Children(req.target) : history[x].request = req}) = 1
    <3>1. {x \in Children(req.target) : history[x].request = req} = {c}
      BY <2>1, <2>3
    <3> QED BY <3>1, FS_Singleton
  <2>7. Committed(req) = {c}
    BY <2>1, <2>2, <2>3, <2>5, <2>6 DEF Committed
  <2> QED BY <2>1, <2>4, <2>7 DEF Answer
<1> QED BY <1>1, CookingInvariance, PTL

\* CorrectionNeverJams: an event that nothing replaces can be corrected: always
\* while it is active, and after its retraction when its occurrence was cooked
\* once, because it is then the last event of the only chain.
THEOREM CorrectionsAlwaysPossible == Spec => []CorrectionNeverJams
<1>1. ASSUME CookInv PROVE CorrectionNeverJams
  <2> USE <1>1
  <2> SUFFICES ASSUME AllReadable, NEW o \in DOMAIN meals, NEW t \in Linked(o),
                      Children(t) = {},
                      history[t].active \/ UnverifiedTombstones(t) = {},
                      Correctable(o, t), NEW req, req = Correction(o, t)
               PROVE  Accepted(req, CookEvents)
    BY DEF CorrectionNeverJams
  <2>1. /\ req.target = t /\ req.occ = o /\ req.dish = history[t].dish
        /\ req.rev = meals[o].rev
    BY DEF Correction
  <2>2. meals[o].status \in {"planned", "cooked"}
    BY DEF CookInv, TypeOK, Meal, MealStatus, Correctable
  <2>3. t \in DOMAIN history /\ history[t].occ = o /\ t \in Tips(o)
    BY DEF Tips, Linked
  <2>4. UnverifiedTombstones(t) \subseteq CookEvents
    BY DEF UnverifiedTombstones, Linked, CookInv, TypeOK
  <2>5. history[t].active => /\ ActiveLinked(o) = {t}
                             /\ meals[o].status = "cooked" /\ meals[o].event = t
    <3>1. history[t].active => t \in ActiveLinked(o)
      BY DEF ActiveLinked
    <3> QED BY <3>1 DEF CookInv, CookedByActiveEvent
  <2>6. ~history[t].active => Tips(o) = {t} /\ ActiveLinked(o) = {}
    <3> SUFFICES ASSUME ~history[t].active PROVE Tips(o) = {t} /\ ActiveLinked(o) = {}
      OBVIOUS
    <3>1. OnePlain(o)
      BY <2>3 DEF UnverifiedTombstones, OnePlain
    <3>2. o \in Occurrences
      BY DEF CookInv, TypeOK
    <3>3. Tips(o) = {t}
      BY <3>1, <3>2, <2>3 DEF CookInv, OneTip
    <3> QED BY <3>3, ActiveEvents DEF ActiveLinked
  <2>7. Replaceable(t, o)
    BY <2>2, <2>5, <2>6, ActiveEvents DEF Replaceable, CookInv, CookedByActiveEvent
  <2>8. LotsReconcilable(t, o)
    BY <2>5, <2>6 DEF LotsReconcilable, CookInv, LotsNameTips
  <2>9. Located(o, history[t].dish, meals[o].rev)
    BY DEF Located, Correctable
  <2> QED BY <2>1, <2>2, <2>3, <2>4, <2>7, <2>8, <2>9 DEF Accepted
<1> QED BY <1>1, CookingInvariance, PTL

\* OnlyEditsBreakPlans: cooks, corrections and retractions keep every plan
\* readable; only a row edited under its lot breaks one.
THEOREM OnlyEditsBreak == Spec => []OnlyEditsBreakPlans
<1>1. ASSUME CookInv PROVE OnlyEditsBreakPlans
  <2> USE <1>1
  <2> SUFFICES ASSUME NEW w \in DOMAIN plans,
                      \A l \in LotsOf(w) : meals[lots[l].occ].dish = lots[l].dish
               PROVE  Readable(w)
    BY DEF OnlyEditsBreakPlans
  <2>1. \A o \in MealsOf(w) : MealLoads(o)
    <3> SUFFICES ASSUME NEW o \in MealsOf(w) PROVE MealLoads(o)
      OBVIOUS
    <3>1. o \in DOMAIN meals
      BY DEF MealsOf
    <3>2. meals[o].status = "cooked" <=> meals[o].event # None
      BY <3>1, ActiveEvents
    <3> QED BY <3>1, <3>2 DEF MealLoads, CookInv, LotsNameTips, SourceLots
  <2>2. \A l \in LotsOf(w) : LotLoads(l)
    <3> SUFFICES ASSUME NEW l \in LotsOf(w) PROVE LotLoads(l)
      OBVIOUS
    <3>1. /\ l \in DOMAIN lots /\ lots[l].week = w
          /\ lots[l].occ \in DOMAIN meals /\ meals[lots[l].occ].week = w
      BY DEF LotsOf, CookInv, LotsHaveRows
    <3>2. l \in meals[lots[l].occ].lots
      BY <3>1 DEF CookInv, LotsNameTips, SourceLots, LotsOf
    <3> QED BY <3>1, <3>2 DEF LotLoads, MealsOf, CookInv, LotsNameTips
  <2> QED BY <2>1, <2>2 DEF Readable
<1> QED BY <1>1, CookingInvariance, PTL

-----------------------------------------------------------------------------
(* Steps. *)

\* The row o becomes row and every other row stays.
LEMMA OneRowVersioned ==
    ASSUME NEW o \in DOMAIN meals, NEW row, row.rev = meals[o].rev + 1,
           meals' = [meals EXCEPT ![o] = row]
    PROVE  \A p \in DOMAIN meals \cap DOMAIN meals' :
              meals[p] # meals'[p] => meals'[p].rev = meals[p].rev + 1
OBVIOUS

\* MealChangesAreVersioned: no command changes a row under its old revision.
THEOREM ChangesAreVersioned == Spec => MealChangesAreVersioned
<1> DEFINE A == \A o \in DOMAIN meals \cap DOMAIN meals' :
                   meals[o] # meals'[o] => meals'[o].rev = meals[o].rev + 1
<1>1. ASSUME CookInv, [Next]_vars PROVE A
  <2> USE <1>1
  <2>0. \A o \in DOMAIN meals : meals[o] \in Meal /\ meals[o].dish \in Dishes
    BY DEF CookInv, TypeOK, Meal
  <2>a. {"planned", "cooked", "cancelled"} = MealStatus
    BY DEF MealStatus
  <2>1. ASSUME NEW w \in Weeks, NEW rows, WritePlan(w, rows),
               DOMAIN rows \cap DOMAIN meals = {}
        PROVE  A
    BY <2>1 DEF WritePlan
  <2>2. CASE \E w \in Weeks : CreatePlan(w) \/ SetPlanStatus(w) \/ DeletePlan(w)
    <3>1. PICK w \in Weeks : CreatePlan(w) \/ SetPlanStatus(w) \/ DeletePlan(w)
      BY <2>2
    <3>2. CASE CreatePlan(w)
      BY <3>2, <2>1 DEF CreatePlan
    <3>3. CASE SetPlanStatus(w)
      BY <3>3 DEF SetPlanStatus
    <3>4. CASE DeletePlan(w)
      BY <3>4 DEF DeletePlan, Without
    <3> QED BY <3>1, <3>2, <3>3, <3>4
  <2>3. CASE \E source, w \in Weeks : RepeatPlan(source, w)
    <3>1. PICK source \in Weeks, w \in Weeks : RepeatPlan(source, w)
      BY <2>3
    <3>2. PICK rows : NewRows(w, rows) /\ WritePlan(w, rows)
      BY <3>1, RepeatWrites
    <3>3. DOMAIN rows \cap DOMAIN meals = {}
      BY <3>2 DEF NewRows, Unused
    <3> QED BY <3>2, <3>3, <2>1
  <2>4. CASE \E o \in Occurrences, w \in Weeks, d \in Dishes :
                AddMeal(o, w, d) \/ WebAddMeal(o, w, d)
    <3>1. PICK o \in Occurrences, w \in Weeks, d \in Dishes : AddMeal(o, w, d)
      BY <2>4 DEF WebAddMeal
    <3> QED BY <3>1 DEF AddMeal, Put, Unused
  <2>5. CASE \E o \in Occurrences : CancelMeal(o) \/ WebCancelMeal(o)
    <3>1. PICK o \in Occurrences : CancelMeal(o)
      BY <2>5 DEF WebCancelMeal
    <3>2. o \in DOMAIN meals /\ Transition(meals[o], "cancelled").rev = meals[o].rev + 1
      BY <3>1, <2>0, <2>a, RowTypes DEF CancelMeal
    <3> QED BY <3>1, <3>2, OneRowVersioned DEF CancelMeal
  <2>6. CASE \E o \in Occurrences, d \in Dishes : ReviseMeal(o, d)
    <3>1. PICK o \in Occurrences, d \in Dishes : ReviseMeal(o, d)
      BY <2>6
    <3>2. o \in DOMAIN meals /\ Revised(meals[o], d).rev = meals[o].rev + 1
      BY <3>1, <2>0, <2>a, RowTypes DEF ReviseMeal
    <3> QED BY <3>1, <3>2, OneRowVersioned DEF ReviseMeal
  <2>7. ASSUME NEW e \in CookEvents, NEW o \in DOMAIN meals, NEW left, CookMeal(e, o, left)
        PROVE  A
    <3>1. PICK ls : ls = IF left > 0 THEN meals[o].lots \cup {e} ELSE meals[o].lots
      OBVIOUS
    <3>2. ls \in SUBSET CookEvents
      BY <3>1, <2>0 DEF Meal
    <3>3. CookedBy(meals[o], e, ls).rev = meals[o].rev + 1
      BY <2>0, <3>2, CookedRow
    <3> QED BY <2>7, <3>1, <3>3, OneRowVersioned DEF CookMeal, MarkCooked
  <2>8. CASE \E e \in CookEvents : RegisterCooked(e)
    <3>1. PICK e \in CookEvents : RegisterCooked(e)
      BY <2>8
    <3>2. CASE \E o \in DOMAIN meals, left \in 0..MaxLeft :
                  CookOccurrence(e, o, meals[o].rev, left)
      BY <3>2, <2>7 DEF CookOccurrence
    <3>3. CASE \E d \in Dishes, left \in 0..MaxLeft : CookDish(e, d, left)
      BY <3>3, <2>7 DEF CookDish, PlannedFor
    <3>4. CASE \E o \in DOMAIN meals : \E req \in Requests(o), acks \in {{}, CookEvents} :
                  CorrectCooked(e, req, acks)
      <4>1. PICK o \in DOMAIN meals :
              \E req \in Requests(o), acks \in {{}, CookEvents} : CorrectCooked(e, req, acks)
        BY <3>4
      <4>2. PICK req \in Requests(o) : \E acks \in {{}, CookEvents} : CorrectCooked(e, req, acks)
        BY <4>1
      <4>3. req.occ = o
        BY DEF Requests
      <4>4. PICK ls : /\ ls \in {{}, meals[o].lots, {e}}
                      /\ meals' = [meals EXCEPT ![o] = CookedBy(@, e, ls)]
        BY <4>2, <4>3 DEF CorrectCooked, ReconciledLinks
      <4>5. ls \in SUBSET CookEvents
        BY <4>4, <2>0 DEF Meal
      <4>6. CookedBy(meals[o], e, ls).rev = meals[o].rev + 1
        BY <2>0, <4>5, CookedRow
      <4> QED BY <4>4, <4>6, OneRowVersioned
    <3> QED BY <3>1, <3>2, <3>3, <3>4 DEF RegisterCooked
  <2>9. CASE DeleteHistoryEntry
    <3>1. PICK e \in DOMAIN history : RetractCooked(e)
      BY <2>9 DEF DeleteHistoryEntry
    <3>2. CASE history[e].occ = None
      BY <3>1, <3>2 DEF RetractCooked
    <3>3. CASE history[e].occ # None
      <4>1. PICK o : o = history[e].occ
        OBVIOUS
      <4>2. o \in DOMAIN meals /\ meals' = [meals EXCEPT ![o] = Reopened(meals[o])]
        BY <3>1, <3>3, <4>1 DEF RetractCooked
      <4>3. Reopened(meals[o]).rev = meals[o].rev + 1
        BY <2>0, <4>2, ReopenedRow
      <4> QED BY <4>2, <4>3, OneRowVersioned
    <3> QED BY <3>2, <3>3
  <2>10. CASE UNCHANGED vars
    BY <2>10 DEF vars
  <2> QED BY <2>2, <2>3, <2>4, <2>5, <2>6, <2>8, <2>9, <2>10 DEF Next
<1>2. CookInv /\ [Next]_vars =>
        [\A o \in DOMAIN meals \cap DOMAIN meals' :
            meals[o] # meals'[o] => meals'[o].rev = meals[o].rev + 1]_vars
  BY <1>1
<1> HIDE DEF A
<1> QED BY <1>2, CookingInvariance, PTL DEF Spec, MealChangesAreVersioned

\* HistoryOnlyRetracts: the history grows, and of an event it holds only the
\* active flag changes, from true to false.
THEOREM HistoryIsKept == Spec => HistoryOnlyRetracts
<1> DEFINE A == /\ DOMAIN history \subseteq DOMAIN history'
                /\ \A e \in DOMAIN history :
                      history'[e] \in {history[e], [history[e] EXCEPT !.active = FALSE]}
<1>1. ASSUME CookInv, [Next]_vars PROVE A
  <2> USE <1>1
  <2>1. CASE UNCHANGED history
    BY <2>1
  <2>2. ASSUME NEW e, NEW d, NEW o, NEW left, UnusedEvent(e),
               history' = Put(history, e, PlainEvent(d, o, left))
        PROVE  A
    BY <2>2 DEF Put, UnusedEvent
  <2>3. ASSUME NEW e, NEW req, NEW acks, CorrectCooked(e, req, acks)
        PROVE  A
    <3>1. PICK row : history' = Put(Retracted(history, req.target), e, row)
      BY <2>3 DEF CorrectCooked
    <3> QED BY <2>3, <3>1 DEF CorrectCooked, Put, UnusedEvent, Retracted
  <2>4. ASSUME NEW e, RetractCooked(e) PROVE A
    BY <2>4 DEF RetractCooked, Retracted
  <2>5. CASE \E e \in CookEvents : RegisterCooked(e)
    BY <2>5, <2>2, <2>3 DEF RegisterCooked, CookOccurrence, CookDish, CookMeal
  <2>6. CASE DeleteHistoryEntry
    BY <2>6, <2>4 DEF DeleteHistoryEntry
  <2> QED BY <2>1, <2>5, <2>6
          DEF Next, vars, CreatePlan, SetPlanStatus, DeletePlan, RepeatPlan, WritePlan,
              WebAddMeal, AddMeal, WebCancelMeal, CancelMeal, ReviseMeal
<1>2. CookInv /\ [Next]_vars =>
        [/\ DOMAIN history \subseteq DOMAIN history'
         /\ \A e \in DOMAIN history :
               history'[e] \in {history[e], [history[e] EXCEPT !.active = FALSE]}]_vars
  BY <1>1
<1> HIDE DEF A
<1> QED BY <1>2, CookingInvariance, PTL DEF Spec, HistoryOnlyRetracts

-----------------------------------------------------------------------------
(* Refinement of MealOccurrence. *)

\* Rows and events come and go only as Rewritten allows.
Rewrites ==
    /\ UNCHANGED prep
    /\ \A o \in Occurrences : Abstract!Rewritten(PhaseOf(o), PhaseOf(o)')

LEMMA RewriteStep ==
    ASSUME TypeOK, TypeOK', Rewrites PROVE Abstract!Rewrite
<1>1. \A o \in Occurrences : PhaseOf(o)' \in Abstract!Phase
  BY DEF TypeOK, Meal, MealStatus, PhaseOf, Abstract!Phase
<1> QED BY <1>1 DEF Rewrites, Abstract!Rewrite

\* The phase of one occurrence changes.
LEMMA MoveStep ==
    ASSUME NEW o \in Occurrences, NEW from, NEW to,
           PhaseOf(o) = from, PhaseOf(o)' = to,
           \A p \in Occurrences : p # o => PhaseOf(p)' = PhaseOf(p)
    PROVE  Abstract!Move(o, from, to)
BY DEF Abstract!Move

LEMMA WritePlanMoves ==
    ASSUME CookInv, NEW w \in Weeks, NEW rows, NewRows(w, rows), WritePlan(w, rows)
    PROVE  Rewrites
<1>1. /\ DOMAIN meals' = (DOMAIN meals \ MealsOf(w)) \cup DOMAIN rows
      /\ \A o \in DOMAIN meals' :
            meals'[o] = IF o \in DOMAIN rows THEN rows[o] ELSE meals[o]
      /\ UNCHANGED <<history, prep>>
  BY DEF WritePlan
<1>2. \A o : Linked(o)' = Linked(o)
  BY <1>1 DEF Linked
<1>3. \A o \in DOMAIN rows :
         /\ rows[o].status = "planned" /\ o \notin DOMAIN meals /\ Linked(o) = {}
  BY DEF NewRows, NewMeal, Unused
<1>4. \A o \in DOMAIN meals : /\ meals[o].status \in MealStatus
                              /\ meals[o].status = "cooked" => Linked(o) # {}
  BY ActiveEvents DEF CookInv, TypeOK, Meal
<1>5. ASSUME NEW o \in Occurrences PROVE Abstract!Rewritten(PhaseOf(o), PhaseOf(o)')
  <2>1. CASE o \in DOMAIN rows
    BY <2>1, <1>1, <1>2, <1>3 DEF PhaseOf, Abstract!Rewritten
  <2>2. CASE o \notin DOMAIN rows /\ o \in MealsOf(w)
    <3>1. o \in DOMAIN meals /\ o \notin DOMAIN meals'
      BY <2>2, <1>1 DEF MealsOf
    <3> QED BY <3>1, <1>2, <1>4 DEF MealStatus, PhaseOf, Abstract!Rewritten
  <2>3. CASE o \notin DOMAIN rows /\ o \notin MealsOf(w)
    <3>1. o \in DOMAIN meals' <=> o \in DOMAIN meals
      BY <2>3, <1>1
    <3>2. o \in DOMAIN meals => meals'[o] = meals[o]
      BY <2>3, <3>1, <1>1
    <3> QED BY <3>1, <3>2, <1>2 DEF PhaseOf, Abstract!Rewritten
  <2> QED BY <2>1, <2>2, <2>3
<1> QED BY <1>1, <1>5 DEF Rewrites

LEMMA DeletePlanMoves ==
    ASSUME CookInv, NEW w \in Weeks, DeletePlan(w)
    PROVE  Rewrites
<1>1. /\ DOMAIN meals' = DOMAIN meals \ MealsOf(w)
      /\ \A o \in DOMAIN meals' : meals'[o] = meals[o]
      /\ UNCHANGED <<history, prep>>
  BY DEF DeletePlan, Without
<1>2. \A o : Linked(o)' = Linked(o)
  BY <1>1 DEF Linked
<1>3. \A o \in DOMAIN meals : /\ meals[o].status \in MealStatus
                              /\ meals[o].status = "cooked" => Linked(o) # {}
  BY ActiveEvents DEF CookInv, TypeOK, Meal
<1>4. ASSUME NEW o \in Occurrences PROVE Abstract!Rewritten(PhaseOf(o), PhaseOf(o)')
  <2>1. CASE o \in MealsOf(w)
    <3>1. o \in DOMAIN meals /\ o \notin DOMAIN meals'
      BY <2>1, <1>1 DEF MealsOf
    <3> QED BY <3>1, <1>2, <1>3 DEF MealStatus, PhaseOf, Abstract!Rewritten
  <2>2. CASE o \notin MealsOf(w)
    BY <2>2, <1>1, <1>2 DEF PhaseOf, Abstract!Rewritten
  <2> QED BY <2>1, <2>2
<1> QED BY <1>1, <1>4 DEF Rewrites

\* The row of o is given another status, and the history stays.
LEMMA RowMoves ==
    ASSUME NEW o \in DOMAIN meals, NEW row, meals' = [meals EXCEPT ![o] = row],
           UNCHANGED <<history, prep>>
    PROVE  /\ \A p \in Occurrences : p # o => PhaseOf(p)' = PhaseOf(p)
           /\ PhaseOf(o)' = IF row.status = "planned" /\ Linked(o) # {}
                            THEN "reopened" ELSE row.status
<1>1. \A p : Linked(p)' = Linked(p)
  BY DEF Linked
<1>2. /\ DOMAIN meals' = DOMAIN meals
      /\ \A p \in DOMAIN meals : p # o => meals'[p] = meals[p]
      /\ meals'[o] = row
  OBVIOUS
<1> QED BY <1>1, <1>2 DEF PhaseOf

\* The events of one occurrence change, and so does its row.
LEMMA CookMoves ==
    ASSUME CookInv, NEW o \in DOMAIN meals, NEW row, meals' = [meals EXCEPT ![o] = row],
           row.status # "planned" \/ Linked(o)' # {},
           \A p \in Occurrences : p # o => Linked(p)' = Linked(p)
    PROVE  /\ \A p \in Occurrences : p # o => PhaseOf(p)' = PhaseOf(p)
           /\ PhaseOf(o)' = IF row.status = "planned" THEN "reopened" ELSE row.status
<1>1. /\ DOMAIN meals' = DOMAIN meals
      /\ \A p \in DOMAIN meals : p # o => meals'[p] = meals[p]
      /\ meals'[o] = row
  OBVIOUS
<1> QED BY <1>1 DEF PhaseOf

LEMMA AbstractRow ==
    ASSUME CookInv, NEW o \in DOMAIN meals
    PROVE  o \in Occurrences /\ meals[o] \in Meal /\ {"planned", "cooked", "cancelled"} = MealStatus
BY DEF CookInv, TypeOK, MealStatus

\* One physical cook of a planned meal.
LEMMA CookMealMoves ==
    ASSUME CookInv, NEW e \in CookEvents, UnusedEvent(e), NEW o \in DOMAIN meals,
           NEW left \in 0..MaxLeft, CookMeal(e, o, left)
    PROVE  Abstract!Cook(o)
<1>1. o \in Occurrences /\ meals[o] \in Meal /\ o # None /\ meals[o].dish \in Dishes
  BY AbstractRow, CookingAssumption DEF Meal
<1>2. PlainAdded(e, meals[o].dish, o, left)
  BY <1>1 DEF PlainAdded, CookMeal, UnusedEvent
<1>3. /\ Linked(o)' = {e}
      /\ \A p \in Occurrences : p # o => Linked(p)' = Linked(p)
  BY <1>1, <1>2, PlainLineage DEF CookInv, HistoryLoads
<1>4. PICK ls : ls = IF left > 0 THEN meals[o].lots \cup {e} ELSE meals[o].lots
  OBVIOUS
<1>5. ls \in SUBSET CookEvents
  BY <1>1, <1>4 DEF Meal
<1>6. PICK row : row = CookedBy(meals[o], e, ls)
  BY Zenon
<1>7. row.status = "cooked"
  BY <1>1, <1>5, <1>6, CookedRow
<1>8. meals' = [meals EXCEPT ![o] = row]
  BY <1>4, <1>6 DEF CookMeal, MarkCooked
<1>9. /\ \A p \in Occurrences : p # o => PhaseOf(p)' = PhaseOf(p)
      /\ PhaseOf(o)' = "cooked"
  BY <1>3, <1>7, <1>8, CookMoves
<1>10. PhaseOf(o) = "planned"
  BY DEF CookMeal, PhaseOf
<1>11. Abstract!Move(o, "planned", "cooked")
  BY <1>1, <1>9, <1>10, MoveStep
<1> QED BY <1>11 DEF Abstract!Cook, Abstract!Use, CookMeal, Consume

LEMMA CookUnplannedMoves ==
    ASSUME CookInv, NEW e \in CookEvents, UnusedEvent(e), NEW d \in Dishes,
           NEW left \in 0..MaxLeft, CookUnplanned(e, d, left)
    PROVE  Abstract!CookUnplanned
<1>1. PlainAdded(e, d, None, left)
  BY DEF PlainAdded, CookUnplanned, UnusedEvent
<1>2. \A p \in Occurrences : Linked(p)' = Linked(p)
  <2>1. None \notin Occurrences
    BY CookingAssumption
  <2> QED BY <1>1, <2>1, PlainLineage DEF CookInv, HistoryLoads
<1>3. \A p \in Occurrences : PhaseOf(p)' = PhaseOf(p)
  BY <1>2 DEF PhaseOf, CookUnplanned
<1> QED BY <1>3 DEF Abstract!CookUnplanned, Abstract!Use, CookUnplanned, Consume

\* A correction is no physical cook: it redoes a meal that was undone, or
\* leaves a cooked one cooked.
LEMMA CorrectCookedMoves ==
    ASSUME CookInv, NEW e \in CookEvents, NEW req \in Request, NEW acks,
           CorrectCooked(e, req, acks)
    PROVE  Abstract!Redo(req.occ) \/ UNCHANGED Abstract!vars
<1>1. PICK o : o = req.occ
  OBVIOUS
<1>2. o \in DOMAIN meals /\ o \in Occurrences /\ meals[o] \in Meal
      /\ meals[o].status \in {"planned", "cooked"}
  BY <1>1, AbstractRow DEF CorrectCooked, Accepted, Located
<1> DEFINE left == IF req.left = None THEN history[req.target].left ELSE req.left
<1>3. left \in 0..MaxLeft
  BY EventTypes DEF CorrectCooked, Accepted, CookInv, Request, Event
<1>4. CorrectionAdded(e, req, acks, left)
  BY <1>3 DEF CorrectionAdded, CorrectCooked, UnusedEvent
<1>5. /\ Linked(o)' = Linked(o) \cup {e}
      /\ \A p : p # o => Linked(p)' = Linked(p)
  BY <1>1, <1>4, CorrectionLineage DEF CookInv, HistoryLoads
<1>6. Linked(o) # {}
  BY <1>1 DEF CorrectCooked, Accepted, Linked
<1>7. PICK ls : ls = ReconciledLinks(o, e, left)
  OBVIOUS
<1>8. ls \in SUBSET CookEvents
  BY <1>2, <1>7 DEF ReconciledLinks, Meal
<1>9. PICK row : row = CookedBy(meals[o], e, ls)
  BY Zenon
<1>10. row.status = "cooked"
  BY <1>2, <1>8, <1>9, CookedRow
<1>11. meals' = [meals EXCEPT ![o] = row]
  BY <1>1, <1>7, <1>9 DEF CorrectCooked
<1>12. /\ \A p \in Occurrences : p # o => PhaseOf(p)' = PhaseOf(p)
       /\ PhaseOf(o)' = "cooked"
  BY <1>2, <1>5, <1>10, <1>11, CookMoves
<1>13. UNCHANGED prep
  BY DEF CorrectCooked, RetainEffects
<1>14. CASE meals[o].status = "planned"
  <2>1. PhaseOf(o) = "reopened"
    BY <1>2, <1>6, <1>14 DEF PhaseOf
  <2>2. Abstract!Move(o, "reopened", "cooked")
    BY <1>2, <1>12, <2>1, MoveStep
  <2> QED BY <1>1, <1>13, <2>2 DEF Abstract!Redo
<1>15. CASE meals[o].status = "cooked"
  <2>1. \A p \in Occurrences : PhaseOf(p)' = PhaseOf(p)
    BY <1>2, <1>12, <1>15 DEF PhaseOf
  <2> QED BY <1>13, <2>1 DEF Abstract!vars
<1> QED BY <1>2, <1>14, <1>15

LEMMA RetractCookedMoves ==
    ASSUME CookInv, NEW e, RetractCooked(e)
    PROVE  (\E o \in Occurrences : Abstract!Undo(o)) \/ UNCHANGED Abstract!vars
<1>1. e \in DOMAIN history /\ history' = Retracted(history, e) /\ UNCHANGED prep
  BY DEF RetractCooked
<1>2. \A p : Linked(p)' = Linked(p)
  BY <1>1, RetractionLineage DEF CookInv
<1>3. PICK o : o = history[e].occ
  OBVIOUS
<1>4. CASE o = None
  <2>1. \A p \in Occurrences : PhaseOf(p)' = PhaseOf(p)
    BY <1>2, <1>3, <1>4 DEF RetractCooked, PhaseOf
  <2> QED BY <1>1, <2>1 DEF Abstract!vars
<1>5. CASE o # None
  <2>1. /\ o \in DOMAIN meals /\ meals[o].status = "cooked"
        /\ meals' = [meals EXCEPT ![o] = Reopened(meals[o])]
    BY <1>3, <1>5 DEF RetractCooked
  <2>2. o \in Occurrences /\ Reopened(meals[o]).status = "planned"
    BY <2>1, AbstractRow, ReopenedRow
  <2>3. Linked(o)' # {}
    BY <1>1, <1>2, <1>3 DEF Linked
  <2>4. /\ \A p \in Occurrences : p # o => PhaseOf(p)' = PhaseOf(p)
        /\ PhaseOf(o)' = "reopened"
    BY <1>2, <2>1, <2>2, <2>3, CookMoves
  <2>5. PhaseOf(o) = "cooked"
    BY <2>1 DEF PhaseOf
  <2>6. Abstract!Move(o, "cooked", "reopened")
    BY <2>2, <2>4, <2>5, MoveStep
  <2> QED BY <1>1, <2>2, <2>6 DEF Abstract!Undo
<1> QED BY <1>4, <1>5

LEMMA CancelMealMoves ==
    ASSUME CookInv, NEW o, CancelMeal(o)
    PROVE  o \in Occurrences /\ Abstract!Cancel(o)
<1>1. o \in DOMAIN meals /\ o \in Occurrences /\ meals[o] \in Meal
      /\ meals[o].dish \in Dishes /\ "cancelled" \in MealStatus
  BY AbstractRow DEF CancelMeal, Meal
<1>2. Transition(meals[o], "cancelled").status = "cancelled"
  BY <1>1, RowTypes
<1>3. /\ \A p \in Occurrences : p # o => PhaseOf(p)' = PhaseOf(p)
      /\ PhaseOf(o)' = "cancelled"
  BY <1>1, <1>2, RowMoves DEF CancelMeal
<1>4. PhaseOf(o) \in {"planned", "reopened"}
  BY DEF CancelMeal, PhaseOf
<1>5. Abstract!Move(o, PhaseOf(o), "cancelled")
  BY <1>1, <1>3, MoveStep
<1> QED BY <1>1, <1>4, <1>5 DEF Abstract!Cancel, CancelMeal

LEMMA ReviseMealMoves ==
    ASSUME CookInv, NEW o, NEW d \in Dishes, ReviseMeal(o, d)
    PROVE  UNCHANGED Abstract!vars
<1>1. o \in DOMAIN meals /\ o \in Occurrences /\ meals[o] \in Meal
      /\ "planned" \in MealStatus
  BY AbstractRow DEF ReviseMeal
<1>2. Revised(meals[o], d).status = meals[o].status
  BY <1>1, RowTypes
<1>3. /\ \A p \in Occurrences : p # o => PhaseOf(p)' = PhaseOf(p)
      /\ PhaseOf(o)' = PhaseOf(o)
  BY <1>1, <1>2, RowMoves DEF ReviseMeal, PhaseOf
<1> QED BY <1>3 DEF Abstract!vars, ReviseMeal

LEMMA AddMealMoves ==
    ASSUME CookInv, NEW o \in Occurrences, NEW w \in Weeks, NEW d \in Dishes, AddMeal(o, w, d)
    PROVE  Rewrites
<1>1. /\ DOMAIN meals' = DOMAIN meals \cup {o} /\ o \notin DOMAIN meals
      /\ \A p \in DOMAIN meals : meals'[p] = meals[p]
      /\ meals'[o].status = "planned"
      /\ UNCHANGED <<history, prep>> /\ Linked(o) = {}
  BY DEF AddMeal, Put, Unused, NewMeal
<1>2. \A p : Linked(p)' = Linked(p)
  BY <1>1 DEF Linked
<1> QED BY <1>1, <1>2 DEF Rewrites, PhaseOf, Abstract!Rewritten

LEMMA AbstractInit == Init => Abstract!Init
<1> SUFFICES ASSUME Init PROVE Abstract!Init
  OBVIOUS
<1>1. CookInv
  BY FreshHolds, LegacyHolds DEF Init
<1>2. \A o \in Occurrences : PhaseOf(o) \in {"absent", "cooked"}
  <2>1. CASE InitFresh
    BY <2>1 DEF InitFresh, NoDict, PhaseOf, Linked
  <2>2. CASE InitLegacy
    <3>1. PICK w \in Weeks, o \in Occurrences, d \in Dishes, e \in CookEvents, f \in CookEvents :
             /\ e # f
             /\ plans = [x \in {w} |-> "active"]
             /\ meals = [x \in {o} |->
                           [NewMeal(w, d) EXCEPT !.status = "cooked", !.rev = 4, !.event = f]]
             /\ lots = NoDict
             /\ history = [x \in {e, f} |-> [PlainEvent(d, o, 0) EXCEPT !.active = (x = f)]]
      BY <2>2 DEF InitLegacy
    <3>2. DOMAIN meals = {o} /\ DOMAIN history = {e, f}
      BY <3>1
    <3>3. meals[o].status = "cooked"
      <4>1. meals[o] = [week |-> w, dish |-> d, status |-> "cooked", rev |-> 4,
                        event |-> f, lots |-> {}]
        BY <3>1, LegacyRow, Zenon
      <4> QED BY <4>1
    <3>4. \A x \in DOMAIN history : history[x].occ = o
      BY <3>1 DEF PlainEvent
    <3> QED BY <3>2, <3>3, <3>4 DEF PhaseOf, Linked
  <2> QED BY <2>1, <2>2 DEF Init
<1> QED BY <1>1, <1>2 DEF Abstract!Init, CookInv, TypeOK

LEMMA AbstractStep ==
    ASSUME CookInv, CookInv', [Next]_vars
    PROVE  [Abstract!Next]_Abstract!vars
<1>1. ASSUME Rewrites PROVE Abstract!Next
  BY <1>1, RewriteStep DEF Abstract!Next, CookInv
<1>2. CASE \E w \in Weeks : CreatePlan(w) \/ SetPlanStatus(w) \/ DeletePlan(w)
  <2>1. PICK w \in Weeks : CreatePlan(w) \/ SetPlanStatus(w) \/ DeletePlan(w)
    BY <1>2
  <2>2. CASE CreatePlan(w)
    <3>1. NewRows(w, [o \in {} |-> None])
      BY DEF NewRows
    <3> QED BY <1>1, <2>2, <3>1, WritePlanMoves DEF CreatePlan
  <2>3. CASE SetPlanStatus(w)
    BY <2>3 DEF SetPlanStatus, Abstract!vars, PhaseOf, Linked
  <2>4. CASE DeletePlan(w)
    BY <1>1, <2>4, DeletePlanMoves
  <2> QED BY <2>1, <2>2, <2>3, <2>4
<1>3. CASE \E source, w \in Weeks : RepeatPlan(source, w)
  BY <1>1, <1>3, RepeatWrites, WritePlanMoves
<1>4. CASE \E o \in Occurrences, w \in Weeks, d \in Dishes :
              AddMeal(o, w, d) \/ WebAddMeal(o, w, d)
  BY <1>1, <1>4, AddMealMoves DEF WebAddMeal
<1>5. CASE \E o \in Occurrences : CancelMeal(o) \/ WebCancelMeal(o)
  BY <1>5, CancelMealMoves DEF WebCancelMeal, Abstract!Next
<1>6. CASE \E o \in Occurrences, d \in Dishes : ReviseMeal(o, d)
  BY <1>6, ReviseMealMoves
<1>7. CASE \E e \in CookEvents : RegisterCooked(e)
  <2>1. PICK e \in CookEvents : RegisterCooked(e)
    BY <1>7
  <2>2. CASE \E o \in DOMAIN meals, left \in 0..MaxLeft :
                CookOccurrence(e, o, meals[o].rev, left)
    BY <2>2, CookMealMoves, AbstractRow DEF CookOccurrence, Abstract!Next
  <2>3. CASE \E d \in Dishes, left \in 0..MaxLeft : CookDish(e, d, left)
    <3>1. PICK d \in Dishes, left \in 0..MaxLeft : CookDish(e, d, left)
      BY <2>3
    <3>2. CASE \E o \in PlannedFor(d) : CookMeal(e, o, left)
      BY <3>1, <3>2, CookMealMoves, AbstractRow DEF CookDish, PlannedFor, Abstract!Next
    <3>3. CASE CookUnplanned(e, d, left)
      BY <3>1, <3>3, CookUnplannedMoves DEF CookDish, Abstract!Next
    <3> QED BY <3>1, <3>2, <3>3 DEF CookDish, CookUnplanned
  <2>4. CASE \E o \in DOMAIN meals : \E req \in Requests(o), acks \in {{}, CookEvents} :
                CorrectCooked(e, req, acks)
    <3>1. PICK o \in DOMAIN meals :
            \E req \in Requests(o), acks \in {{}, CookEvents} : CorrectCooked(e, req, acks)
      BY <2>4
    <3>2. PICK req \in Requests(o) : \E acks \in {{}, CookEvents} : CorrectCooked(e, req, acks)
      BY <3>1
    <3>3. req \in Request /\ req.occ \in Occurrences
      BY <3>2, RequestTypes DEF CookInv, Request
    <3> QED BY <3>2, <3>3, CorrectCookedMoves DEF Abstract!Next
  <2> QED BY <2>1, <2>2, <2>3, <2>4 DEF RegisterCooked
<1>8. CASE DeleteHistoryEntry
  BY <1>8, RetractCookedMoves DEF DeleteHistoryEntry, Abstract!Next
<1>9. CASE UNCHANGED vars
  BY <1>9 DEF vars, Abstract!vars, PhaseOf, Linked
<1> QED BY <1>2, <1>3, <1>4, <1>5, <1>6, <1>7, <1>8, <1>9 DEF Next

\* CookedOnce: every step of plans, history and stock is a step of
\* MealOccurrence or none: a meal is cooked physically once.
THEOREM CookedPhysicallyOnce == Spec => CookedOnce
<1>1. Init => Abstract!Init
  BY AbstractInit
<1>2. CookInv /\ CookInv' /\ [Next]_vars => [Abstract!Next]_Abstract!vars
  BY AbstractStep
<1> QED BY <1>1, <1>2, CookingInvariance, PTL DEF Spec, CookedOnce, Abstract!Spec
=============================================================================
