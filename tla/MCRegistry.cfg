SPECIFICATION Spec
CONSTANTS
    a1 = a1
    a2 = a2
    a3 = a3
    None = None
    Unset = Unset
    Apps = {a1, a2, a3}
    Keys <- MCKeys
    Explicit <- MCExplicit
    Sources <- MCSources
    Scopes <- MCScopes
    Manual <- MCManual
    Traefik <- MCTraefik
    ScopeOf <- MCScopeOf
    Snapshots <- MCSnapshots
    Databases <- MCDatabases
    Texts <- MCTexts
    Patches <- MCPatches
    Handlers = {h1}
    Probers = {q1}
    MaxOps = 4
SYMMETRY AppSymmetry
INVARIANTS ReferencesHold SourcesFollowKeys
PROPERTIES CurationSurvivesScans ScansAreAtomic KeysStay ScansKeepOneID
CHECK_DEADLOCK FALSE
