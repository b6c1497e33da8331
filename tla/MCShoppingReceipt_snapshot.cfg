SPECIFICATION Spec
CONSTANTS
  Names = {milk, oat}
  Ids = {i1, i2}
  Manuals = {shopreq}
  None = None
  Unused = unused
  Merged = merged
  MaxCycle = 1
  MaxUses = 2
  MaxRequests = 2
CHECK_DEADLOCK FALSE
INVARIANTS
  PlanReadable
