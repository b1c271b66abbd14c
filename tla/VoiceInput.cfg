SPECIFICATION Spec
CONSTANTS
    MaxStarts = 3
    MaxLate = 1
CHECK_DEADLOCK FALSE
INVARIANTS
    TypeOK
    OneActiveCapture
    VoiceOnWorks
    PatientStopReleasesMic
    HeardInSession
