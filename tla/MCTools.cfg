SPECIFICATION MCSpec
CONSTANTS
    Threads = {w1, w2}
    GateLo = 1
    GateHi = 2
    Cut = 3
    CutHard = 3
    Ceiling = 4
    Runs <- MCRuns
    Bodies = 2
    MaxRaises = 1
    mocr = mocr
    paddle = paddle
    gemma = gemma
    rtdetr = rtdetr
    Pages = {p1, p2}
    Models <- MCModels
    Heavy = {paddle}
    NeedsGpu = {paddle}
    ServerSide = {}
    Devices = {"cpu", "cuda"}
    Questions = {"q1"}
    Counts = {1, 2}
    Source = mocr
    Chars <- MCChars
    MaxChars = 3
    MaxPasses = 2
    MaxCuts = 1
    Inputs <- MCInputs
    Costs <- MCCosts
    Alphabet <- MCAlphabet
    PageTexts <- MCPageTexts
    Caps <- MCCaps
    Sweep <- MCSweep
CHECK_DEADLOCK FALSE
INVARIANTS
    HandedBack
    LoadIsGuarded
    StoresKeepAnswers
    ReportKeepsPages
PROPERTIES
    EveryToolEnds
