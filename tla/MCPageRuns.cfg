SPECIFICATION FairPageSpec
CONSTANTS
    Tasks <- MCTasks
    Pages = {p1}
    Plans = {k1}
    Settings = {0}
    None = None
    Failed = Failed
    Refused = Refused
    MaxClears = 1
    MaxSwaps = 1
ACTION_CONSTRAINT NumberedInOrderOfArrival
INVARIANTS
    AnswersFit
    ComputedOnce
PROPERTIES
    EveryRequestAnswered
    ImplementsPageService
