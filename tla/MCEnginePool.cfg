SPECIFICATION Spec
CONSTANTS
    Runners = {r1, r2, r3}
    Admins = {a1}
    Names = {n1, n2}
    Configs = {c1}
    None = None
    MaxRequests = 1
    MaxTeardowns = 1
    MaxBreaks = 2
    MaxClock = 1
SYMMETRY Symmetry
INVARIANTS
    NeverShutMidMap
    InflightExact
    NoLostWakeup
    OneExecutor
    RegisteredRunsShareKey
    OneDeathIsSurvived
    NoBrokenPoolKept
