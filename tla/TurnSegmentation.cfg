\* Frames of two samples, buffers that are not whole frames, holes on both sides
\* of what the anchor notices, flaps on both sides of the silence that ends a segment.
CONSTANTS
    Frame = 2
    MinSpeech = 2
    MinSilence = 3
    Pad = 1
    MaxSegment = 8
    MergeGap = 6
    MaxSkew = 1
    Chunks <- OddBuffers
    Holes <- ShortAndLongHole
    Flaps <- ShortAndLongFlap
    MaxTime = 13
    NoTurn = NoTurn
SPECIFICATION Spec
INVARIANTS
    RingAligned
    OpenAudioIsKept
    NoSplice
    TurnsInOrder
    TurnsAreCapped
    SpeechIsKept
CHECK_DEADLOCK FALSE
