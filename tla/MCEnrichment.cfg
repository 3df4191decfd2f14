SPECIFICATION FairSpec
CONSTANTS
    Apps = {a1}
    Urls = {u1, u2}
    Workers = {w1}
    Refreshers = {r1}
    Slots = 2
    None = None
    MaxIcons = 2
    MaxVersion = 1
    MaxOps = 3
INVARIANTS SlotsBalance RowsOfLiveApps
PROPERTIES MetadataCatchesUp ProbesEnd
