SPECIFICATION JoinSpec
CONSTANTS
    None = None
    Peer = {a, b}
    Path = {x}
    Content = {c0, c1, c2}
    Policy = {"remote-wins", "local-wins", "keep-both"}
    Joining = {b}
    Seed = c0
    SeedWriter = a
    Editors = {a}
    Calm = TRUE
    SteadyStart = TRUE
    Restarting = {b}
    MaxEdits = 2
    MaxStops = 0
    MaxCrashes = 0
    MaxFaults = 0
    MaxAborts = 1
    MaxUpdates = 0
    MaxQueue = 2
CHECK_DEADLOCK FALSE
INVARIANT
    FoldersMatchManifest
PROPERTIES
    IncorporatedBeforeReplaced
    BroughtFilesSurvive
    PreviewKeptSaveDeletions
    OneSidedFilesMerged
    AuditMatchesSaveDeletions
