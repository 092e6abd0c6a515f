SPECIFICATION Spec
CONSTANTS
    MaxSteps = 2
    MaxCost = 2
    MaxReflexions = 0
    Reflexion = FALSE
    MaxTurns = 2
    MaxCuts = 0
PROPERTIES AcceptedTurnProceeds
CHECK_DEADLOCK FALSE
