SPECIFICATION Spec
CONSTANTS
  Callers = {c1, c2, c3}
  Fetches = {f1, f2, f3}
  None = None
  MaxAttempts = 2
INVARIANTS TypeOK SingleFlight
PROPERTIES GivesUpOnce  SlotFreed
