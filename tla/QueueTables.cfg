SPECIFICATION Spec
CONSTANTS
  Routes = {r1}
  Versions = {v1, v2}
  Producers = {e1, e2}
  Workers = {w1, w2}
  BatchSize = 1
  None = None
  Kinds = {"withdraw", "purge", "toggle", "stop"}
SYMMETRY Symmetry
INVARIANTS TypeOK OneWorkerPerJob
