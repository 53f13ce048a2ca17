SPECIFICATION Spec
CONSTANTS
  Tasks = {a, b, c}
  Loader = Loader
  Worker = Worker
  Providers = {p1, p2, p3}
  RowIds = {i1}
  None = None
  Kinds = {"enable", "disable", "describe", "restart"}
  AuthModes = {FALSE}
  MaxTries = 0
SYMMETRY Symmetry
INVARIANTS StatusMatchesMount
