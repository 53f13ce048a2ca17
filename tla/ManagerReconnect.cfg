SPECIFICATION Spec
CONSTANTS
  Tasks = {a, b}
  Loader = Loader
  Worker = Worker
  Providers = {p1, p2, p3}
  RowIds = {i1}
  None = None
  Kinds = {"test", "describe", "worker", "exhaust"}
  AuthModes = {FALSE}
  MaxTries = 2
INVARIANTS TypeOK ActiveIsServed NoReconnectUnderMark
PROPERTIES OutageHeals
