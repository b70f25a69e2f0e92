SPECIFICATION MCSpec
CONSTANTS
    Routes = {t1}
    Coros = {c1}
    Pages = {p1}
    Engines = {e1, e2}
    Langs = {ja}
    Devices = {gpu}
    Presets = {custom}
    Numbers = {2}
    None = None
    DefaultEngine = e1
    DefaultLang = ja
    EnvWorkers = 0
    MaxCalls = 1
    MaxPlans = 1
    MaxRestarts = 0
    Readers = {r1, r2, r3}
    Writers = {w1, w2}
    K = 2
CHECK_DEADLOCK FALSE
INVARIANT WriterExcludesInference
