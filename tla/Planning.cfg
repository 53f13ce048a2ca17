SPECIFICATION Spec
CONSTANTS
 Facts <- SomeFacts
 Problems <- SomeProblems
 MaxSteps = 2
 MaxExpansions = 5
 Awaited = {1}
INVARIANTS TypeOK SoundPlan CompleteSearch MinimalPlan 
CHECK_DEADLOCK FALSE
