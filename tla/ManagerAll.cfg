SPECIFICATION Spec
CONSTANTS
  Tasks = {a, b}
  Loader = Loader
  Worker = Worker
  Providers = {p1, p2, p3}
  RowIds = {i1, i2}
  None = None
  Kinds = {"test", "add", "remove", "enable", "disable", "describe", "worker", "exhaust"}
  AuthModes = {TRUE, FALSE}
  MaxTries = 0
SYMMETRY Symmetry
INVARIANTS RoutesFollowHandle MountedIsHandle
PROPERTIES ServedUntilAsked
