SPECIFICATION Spec
CONSTANTS
  egg = egg
  Processes = {p1, p2}
  Sessions = {s1}
  Ingredients = {egg}
  None = None
  Rankings <- EggLists
  PreSelect = {0, 1}
  Faults = {"session", "fridge", "dish", "rollback", "finalized"}
  TTL = 0
  Interval = 1
  MaxTime = 1
  MaxFaults = 2
  MaxCrashes = 1
  MaxCycle = 1
SYMMETRY Symmetry
INVARIANTS
  NothingOfferedTwice
  AnswersAreKept
  RecipeHasIngredients
PROPERTIES
  FailedFinalizeUndone
  RecommitsOnlyIfLost
