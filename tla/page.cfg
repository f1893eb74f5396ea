SPECIFICATION FairSpec
CONSTANTS
    Item <- Events
    Nothing = Nothing
    Capacity = 2
    FetchLimit = 2
    MaxShown = 2
    MaxCalls = 3
    MaxEvents = 3
    MaxDeaths = 1
CHECK_DEADLOCK FALSE
INVARIANTS
    PageTypeOK
    KeysUnique
    PipeShowsRecent
PROPERTIES
    DashboardStays
    RingKept
    CallsKept
    FormComesBack
    SocketHears
