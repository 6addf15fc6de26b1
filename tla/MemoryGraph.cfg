\* Three turns of two voices and of nobody known, in windows of two that share a turn,
\* conversations taken on one at a time, and one model call that fails or gate that closes.
CONSTANTS
    call = call
    mic = mic
    a = a
    b = b
    Nobody = Nobody
    Sessions <- OneCall
    Bridging <- NoSession
    Voices <- TwoVoices
    Gap = 0
    RecentSpeakers = 1
    MinSegments = 1
    Batch = 1
    Width = 2
    Overlap = 1
    MaxWindows = 2
    MaxTurns = 3
    MaxTime = 3
    MaxLength = 1
    MaxUpsets = 1
SPECIFICATION Spec
INVARIANTS
    RemovedVoicesAreGone
PROPERTIES
    PersonDecides
    RefusalsWereRead
    EveryConversationIsWalked
CHECK_DEADLOCK FALSE
