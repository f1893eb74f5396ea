SPECIFICATION FairSpec
CONSTANTS
    None = None
    Peer = {a, b}
    Path = {x}
    Content = {c0, c1, c2}
    Policy = {"remote-wins"}
    Joining = {}
    Seed = c0
    SeedWriter = a
    Editors = {a}
    Calm = TRUE
    SteadyStart = TRUE
    Restarting = {b}
    MaxEdits = 3
    MaxStops = 1
    MaxCrashes = 2
    MaxFaults = 0
    MaxAborts = 1
    MaxUpdates = 0
    MaxQueue = 2
CHECK_DEADLOCK FALSE
INVARIANT
    FollowersKeepUp
PROPERTIES
    FollowersNeverRollBack
    EventuallyAtRest
