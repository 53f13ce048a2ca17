SPECIFICATION Spec
CONSTANTS
 GoapPlans <- SomePlans
 Drafts <- SomeDrafts
 Outcomes = {"ok", "recov"}
 MaxReplans = 0
 MaxIterations = 1
 MaxRetriages = 0
 LongChain = 2
 DecomposeFirst = TRUE
 EchoedWords = FALSE
 MaxAnswers = 0
 KeptRepeats = {0}
INVARIANTS PeersRunOwnStep
CHECK_DEADLOCK FALSE
