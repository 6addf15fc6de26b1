\* Both taps, the headset unpinned and the room's device chosen by requests, one at a
\* time; the graph changes twice, and one attach or stream fails.
CONSTANTS
    headset = headset
    desk = desk
    p = p
    q = q
    None = None
    Devices <- OneDevice
    MicPin = None
    Requests <- OneRequest
    MaxRequests = 2
    MaxGraph = 2
    MaxFailures = 1
SPECIFICATION MicSpec
INVARIANTS
    NoMicSessionDangles
PROPERTIES
    NoTapIsHeldGroundless
    WantedTapsOpen
CHECK_DEADLOCK FALSE
