SPECIFICATION LiveSpec
CONSTANTS
    p1 = p1
    Streams <- OnePage
    MaxTurns = 2
    MaxText = 1
    MaxQuestions = 1
    Admits <- FirstOnly
    Capacity = 1
    FaultKinds <- AllFaults
    MaxFaults = 1
 
PROPERTIES FinishedAnswerWhole AbandonedTurnStops
CHECK_DEADLOCK FALSE
