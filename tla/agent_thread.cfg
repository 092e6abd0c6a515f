SPECIFICATION FairSpec
CONSTANTS
    MaxSteps = 2
    MaxCost = 2
    MaxReflexions = 1
    Reflexion = TRUE
    MaxTurns = 2
    MaxCuts = 1
INVARIANTS GuardedBeforeModel StepsBounded  ReflexionBounded FailureReflected CompletionOnce
PROPERTIES RunEnds
CHECK_DEADLOCK FALSE
