SPECIFICATION ChatSpec
CONSTANTS
    Page = page
    Conn = conn
    Sessions <- ThePage
    Callers <- TheConn
    NoSession = NoSession
    Texts = {hello}
    NoText = NoText
    VoiceText = VoiceText
    MaxGeneration = 2
    MaxQuestions = 2
    MaxToggles = 0
    MaxFaults = 0
CHECK_DEADLOCK FALSE
INVARIANTS
    RepliesChronological
