SPECIFICATION Spec
CONSTANTS
    SpeechStartFrames = 2
    SpeechEndFrames = 3
    FrameSamples = 2
    SampleRate = 150
    ChunkDurationMs = 5
    MaxFrames = 11
    MaxLag = 3
CHECK_DEADLOCK FALSE
INVARIANTS
    VadMatchesDefinition
    ChunksContiguous
