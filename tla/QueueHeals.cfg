SPECIFICATION Spec
CONSTANTS
  Routes = {r1, r2}
  Versions = {v1}
  Producers = {e1, e2}
  Workers = {w1}
  BatchSize = 2
  None = None
  Kinds = {"withdraw"}
INVARIANTS DoneHasVector
  
