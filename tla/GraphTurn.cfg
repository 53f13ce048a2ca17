SPECIFICATION Spec
CONSTANTS
 GoapPlans <- SomePlans
 Drafts <- SomeDrafts
 Outcomes = {"ok", "recov"}
 MaxReplans = 1
 MaxIterations = 2
 MaxRetriages = 1
 LongChain = 2
 DecomposeFirst = TRUE
 EchoedWords = FALSE
 MaxAnswers = 1
 KeptRepeats = {0, 2}
INVARIANTS TypeOK    FailureReachesGoal FiledUnderOwnPlan
PROPERTIES  TurnEnds
CHECK_DEADLOCK FALSE
