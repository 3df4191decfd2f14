SPECIFICATION FairSpec
CONSTANTS
    Providers = {p1, p2}
    Confs = {c1, c2}
    Handlers = {h1}
    Sched = sched
    None = None
    MaxOps = 4
INVARIANTS SettingsHold DeletedStayAbsent
PROPERTIES LockFrees StatusCatchesUp
