SPECIFICATION Spec
CONSTANTS
    Sessions = {s1, s2}
    NoSession = NoSession
    Callers = {c1, c2}
    LocalCallers = {c1, c2}
    Texts = {hello}
    NoText = NoText
    VoiceText = VoiceText
    MaxGeneration = 3
    MaxFrames = 2
    Requests <- RequestTypes
CHECK_DEADLOCK FALSE
SYMMETRY Symmetry
INVARIANTS
    SMTypeOK
    ConversationStateConsistent
    TranscriptsPairUp
    RepliesHaveOwnGeneration
    RepliesWrittenWhole
    PendingHasTimer
    PendingChunkIsNewest
PROPERTIES
    NoGenerationRevived
    ImplementsConversation
    TimeoutGivesUpOwnChunk
