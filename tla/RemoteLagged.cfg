SPECIFICATION Spec
CONSTANTS
    p1 = p1
    Streams <- OnePage
    MaxTurns = 2
    MaxText = 2
    MaxQuestions = 1
    Admits <- FirstOnly
    Capacity = 2
    FaultKinds <- AllFaults
    MaxFaults = 0
INVARIANTS LaggedGuestSeesAnswer
CHECK_DEADLOCK FALSE
