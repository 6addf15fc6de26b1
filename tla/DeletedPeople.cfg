\* The user's microphone and a call, and a turn of each.
CONSTANTS
    call = call
    mic = mic
    a = a
    b = b
    Nobody = Nobody
    Sessions <- CallAndMic
    Bridging <- OneMic
    Voices <- TwoVoices
    Gap = 0
    RecentSpeakers = 1
    MinSegments = 1
    Batch = 1
    Width = 2
    Overlap = 1
    MaxWindows = 2
    MaxTurns = 2
    MaxTime = 3
    MaxLength = 1
    MaxUpsets = 0
SPECIFICATION HistorySpec
INVARIANT DeletedPeopleAreOwedNothing
CHECK_DEADLOCK FALSE
