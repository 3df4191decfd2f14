SPECIFICATION Spec
CONSTANTS
    Servers = {s1}
    Resets = {}
    Statements = 2
    Tokens = {t1}
    Absent = Absent
    Empty = Empty
    MaxExits = 1
CHECK_DEADLOCK FALSE
INVARIANTS SetupPossible
