SPECIFICATION Spec
CONSTANTS
    main = main
    side = side
    Apps = {a1, a2, a3}
    Sections <- MCSections
    Main = main
    None = None
    Columns = 2
    MinW = 1
    MaxW = 2
    MinH = 2
    MaxH = 2
    NewW = 1
    NewH = 2
    MaxRow = 2
    Asked <- MCAsked
    Editors = {e1}
    Rule = rule
    MaxOps = 4

SYMMETRY AppSymmetry
INVARIANTS GridOK EditsFit
PROPERTIES RuleRefusedAtLimit UntouchedStay
