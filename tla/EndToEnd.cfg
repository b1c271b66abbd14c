SPECIFICATION FairSpec
CONSTANTS
    SessionIds = {page}
    NoSessionId = NoSessionId
    SendTypes <- SpeechAndText
    MaxConnects = 1
    MaxDisconnects = 0
    MaxFailures = 2
    MaxSends = 4
    MaxChunks = 0
CHECK_DEADLOCK FALSE
INVARIANTS
    SessionsAgree
    ConnectedHonest
    UtterancesAccepted
PROPERTIES
    SessionReachesServer
