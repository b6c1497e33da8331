SPECIFICATION Spec
CONSTANTS
  egg = egg
  Processes = {p1}
  Sessions = {s1}
  Ingredients = {egg}
  None = None
  Rankings <- EggLists
  PreSelect = {1}
  Faults = {"finalized"}
  TTL = 1
  Interval = 2
  MaxTime = 2
  MaxFaults = 1
  MaxCrashes = 1
  MaxCycle = 1
PROPERTY SettledNeverRecommits
