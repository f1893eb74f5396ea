SPECIFICATION Spec
CONSTANTS
    None = None
    Peer = {a, b}
    Path = {x}
    Content = {c0, c1, c2}
    Policy = {"remote-wins"}
    Joining = {}
    Seed = c0
    SeedWriter = a
    Editors = {a, b}
    Calm = FALSE
    SteadyStart = TRUE
    Restarting = {}
    MaxEdits = 2
    MaxStops = 0
    MaxCrashes = 0
    MaxFaults = 0
    MaxAborts = 0
    MaxUpdates = 0
    MaxQueue = 2
CHECK_DEADLOCK FALSE
INVARIANT
    LoserSaved
