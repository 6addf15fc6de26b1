\* One person's stream, posted by two requests at a time, one frame sent twice, and
\* time enough for it to go quiet, be closed and be heard again.
CONSTANTS
    v = v
    p = p
    q = q
    Streams = {v}
    Posts <- TwoPosts
    IdleFor = 1
    MaxTime = 4
    MaxSessions = 2
    MaxResends = 1
    MaxQueue = 2
SPECIFICATION Spec
INVARIANTS
    NoSpliceOverALostFrame
    OnlyLateSessionsStayOpen
PROPERTIES
    QuietStreamsEnd
CHECK_DEADLOCK FALSE
