SPECIFICATION WSSpec
CONSTANTS
    SessionIds = {page}
    NoSessionId = NoSessionId
    SendTypes <- Speech
    MaxConnects = 2
    MaxDisconnects = 0
    MaxFailures = 1
    MaxSends = 1
    MaxChunks = 0
CHECK_DEADLOCK FALSE
INVARIANTS
    AtMostOneLive
