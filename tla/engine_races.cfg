SPECIFICATION Spec
CONSTANTS
    None = None
    Peer = {a, b}
    Path = {x}
    Content = {c0, c1, c2}
    Policy = {"remote-wins"}
    Joining = {}
    Seed = c0
    SeedWriter = a
    Editors = {a, b}
    Calm = FALSE
    SteadyStart = FALSE
    Restarting = {b}
    MaxEdits = 2
    MaxStops = 0
    MaxCrashes = 0
    MaxFaults = 1
    MaxAborts = 0
    MaxUpdates = 1
    MaxQueue = 2
CHECK_DEADLOCK FALSE
SYMMETRY ContentSymmetry
INVARIANTS
    TypeOK
    TrackedPublished
PROPERTY
    UnpublishedEditsSurvive
