SPECIFICATION Spec
CONSTANTS
  Calls = {t1, t2, t3}
  Proxies = {p1, p2}
  Global = Global
  MaxSessions = 1
  MaxTotal = 1
  MaxQueued = 1
  MaxAttempts = 2
INVARIANTS TypeOK SlotsAccounted NoLostWakeup
PROPERTIES BurstCountsOnce PoolSpec WaitersAnswered
