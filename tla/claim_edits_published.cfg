SPECIFICATION Spec
CONSTANTS
    None = None
    Peer = {a, b}
    Path = {x}
    Content = {c0, c1, c2}
    Policy = {"remote-wins"}
    Joining = {b}
    Seed = c0
    SeedWriter = a
    Editors = {b}
    Calm = TRUE
    SteadyStart = TRUE
    Restarting = {}
    MaxEdits = 1
    MaxStops = 0
    MaxCrashes = 0
    MaxFaults = 0
    MaxAborts = 0
    MaxUpdates = 0
    MaxQueue = 2
CHECK_DEADLOCK FALSE
INVARIANT
    EditsPublished
