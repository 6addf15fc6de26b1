\* A muted application tap and a microphone, a queue of one buffer, three buffers,
\* pauses at any moment, one failed write and two runs of the daemon.
CONSTANTS
    app = app
    mic = mic
    Sessions <- AppAndMic
    Mics <- OneMic
    Mixed <- OneMixed
    Capacity = 1
    MaxBuffers = 3
    MaxFailures = 1
    MaxRuns = 2
    NoEntry = NoEntry
    NoJob = NoJob
SPECIFICATION FairSpec
INVARIANTS RowsHaveTheirClips SpeechIsInOnePlace RowsAreOneStretch PauseStopsWriting MicRowsClosedAtStop
PROPERTY EndsReachTheStore
CHECK_DEADLOCK FALSE
