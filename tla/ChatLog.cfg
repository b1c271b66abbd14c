SPECIFICATION ChatSpec
CONSTANTS
    Page = page
    Conn = conn
    Sessions <- ThePage
    Callers <- TheConn
    NoSession = NoSession
    Texts = {hello}
    NoText = NoText
    VoiceText = VoiceText
    MaxGeneration = 3
    MaxQuestions = 3
    MaxToggles = 2
    MaxFaults = 1
CHECK_DEADLOCK FALSE
INVARIANTS
    ChatTypeOK
    EveryReplyOffered
    GenerationNamesOneMessage
    StaleHasNoAudio
PROPERTIES
    AudioStaysPut
