SPECIFICATION Spec
CONSTANTS
    Weeks = {w1}
    Occurrences = {o1}
    CookEvents = {e1, e2}
    Dishes = {d1, d2}
    MaxLeft = 1
    MaxRevision = 4
    PrepUses = 2
    None = None
INVARIANT PlansReadable
