SPECIFICATION FairSpec
CONSTANTS
    btc = btc
    c1 = c1
    c2 = c2
    file = file
    Assets <- MCAssets
    Hours <- MCHours
    Conditions <- MCConditions
    Paths <- MCPaths
    Commands <- MCCommands
    HourTicks = 1
    Capacity = 2
    MaxLog = 3
    CrashKinds = {"process", "power"}
INVARIANTS
    RestartReproduces
PROPERTIES
    ShutdownEnds
CHECK_DEADLOCK FALSE
