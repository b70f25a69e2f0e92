SPECIFICATION MCSpec
CONSTANTS
    Callers = {c1, c2}
    Engines = {a, b}
    None = None
    Known = {a}
    MaxPages = 1
    MaxUnloads = 1
    Tabs = {t1}
    Blocking = {b1}
    Workers = {w1, w2}
    Catalog = {a, b}
    Broken = {}
    MaxClicks = 2
    MaxCuts = 1
    Budget = 3
    LocalEngines = {"manga", "paddle"}
    Files = {"config", "weights"}
    Marker <- MCMarker
    Online <- MCOnline
    Cards = 1
    Nodes = {"amd"}
    CPU = CPU
    Indices = {1}
    Absent = Absent
    MaxPips = 1
    MaxBreaks = 1
    MaxTasks = 1
CHECK_DEADLOCK FALSE
INVARIANTS
    LoadsOnce
    OneMissIsSurvived
    ClaimsAreWorkers
    CauseIsSeen
PROPERTIES
    QueueDrains
    CardsSuspend
