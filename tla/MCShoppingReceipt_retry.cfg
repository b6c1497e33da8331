SPECIFICATION Spec
CONSTANTS
  Names = {milk, oat, soy}
  Ids = {i1, i2}
  Manuals = {shopreq}
  None = None
  Unused = unused
  Merged = merged
  MaxCycle = 1
  MaxUses = 2
  MaxRequests = 2
CONSTRAINT SmallShop
SYMMETRY Symmetry
CHECK_DEADLOCK FALSE
INVARIANTS
  TypeOK
  ReplayFindsProduct
  NeedsReceivable
  OneIdentityPerRequest
PROPERTIES
  WinnerIsFinal
