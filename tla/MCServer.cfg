SPECIFICATION FairSpec
CONSTANTS
    Servers = {s1}
    Resets = {c1}
    Statements = 3
    Tokens = {t1}
    Absent = Absent
    Empty = Empty
    MaxExits = 4
INVARIANTS SchemaComplete
PROPERTIES VersionsAscend ComesUp StopsWhenTold
