SPECIFICATION Spec
CONSTANTS
    Runners = {r1, r2}
    Admins = {a1}
    Names = {n1, n2}
    Configs = {c1}
    None = None
    MaxRequests = 1
    MaxTeardowns = 1
    MaxBreaks = 0
    MaxClock = 0
INVARIANT RunsOnEnsuredKey
