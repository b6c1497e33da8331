SPECIFICATION Spec
CONSTANTS
  Receipts = {r1, r2}
  Products = {p1, p2}
  Heads = {shop}
  Printed <- PrintedLines
  Hashes = {x}
  Reasons = {misread, double}
  None = None
  MaxLines = 2
  MaxRevisions = 3
CONSTRAINT SmallLedger
SYMMETRY Symmetry
INVARIANTS
  RepeatsAreAnswered
  LinksNameProducts
  CorrectionsKeepLinks
  EvidenceCanBeAttached
