SPECIFICATION Spec
CONSTANTS
    s1 = s1
    s2 = s2
    r1 = r1
    None = None
    NoRule = NoRule
    Keep = Keep
    Apps = {a1, a2}
    Pages = {home}
    Home = home
    Handlers = {h1}
    Sched = sched
    Sections <- MCSections
    Rules <- MCRules
    Facts <- MCFacts
    Verdict <- MCVerdict
    Requests <- MCRequests
    MaxItems = 2
    MaxOps = 3
PROPERTIES AddsPresentVisible
