\* One request of one client; the headset may leave or appear once, and nothing fails.
CONSTANTS
    headset = headset
    desk = desk
    p = p
    q = q
    None = None
    Devices <- OneDevice
    MicPin = None
    Requests <- OneRequest
    MaxRequests = 1
    MaxGraph = 1
    MaxFailures = 0
SPECIFICATION MicSpec
PROPERTY ClientsSeeTheMicrophone
CHECK_DEADLOCK FALSE
