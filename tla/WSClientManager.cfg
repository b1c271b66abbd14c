SPECIFICATION FairManagerSpec
CONSTANTS
    Components = {m1, m2}
    SessionIds = {page}
    NoSessionId = NoSessionId
    SendTypes <- Speech
    MaxConnects = 2
    MaxDisconnects = 2
    MaxFailures = 2
    MaxSends = 2
    MaxChunks = 1
CHECK_DEADLOCK FALSE
INVARIANTS
    WSTypeOK
    NothingLostOrReordered
    ActiveSessionAnnounced
    ReconnectPlanned
    ReconnectsOneAtATime
    StateHonest
    DisconnectStops
    MountedStaysConnected
    OnlyMountedAreCalled
PROPERTIES
    QueueDrains
    UnusedDisconnects
