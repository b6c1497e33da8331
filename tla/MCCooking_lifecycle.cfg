SPECIFICATION Spec
CONSTANTS
    Weeks = {w1, w2}
    Occurrences = {o1, o2}
    CookEvents = {e1, e2, e3}
    Dishes = {d1, d2}
    MaxLeft = 1
    MaxRevision = 4
    PrepUses = 2
    None = None
SYMMETRY Symmetry
CONSTRAINT SmallHousehold
INVARIANTS
    TypeOK
    HistoryAlwaysLoads
    CookedByActiveEvent
    CorrectionNeverJams
    OnlyEditsBreakPlans
    EffectsOnce
    LostAnswerIsFound
PROPERTIES
    MealChangesAreVersioned
    HistoryOnlyRetracts
    CookedOnce
