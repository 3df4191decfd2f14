SPECIFICATION ServiceFairSpec
CONSTANTS
    Systems = {"linux", "darwin", "windows"}
    Configs = {c1, c2}
    Foreign = Foreign
    None = None
    MaxCommands = 4
    MaxFaults = 4
CHECK_DEADLOCK FALSE
PROPERTIES InstallTakesEffect UninstallFinishes
