\* Five events through a budget of three samples, closed at any moment.
CONSTANTS
    s1 = s1
    Sessions <- OneSession
    Weights <- SmallAndLarge
    CapacitySamples = 3
    MaxEvents = 5
SPECIFICATION FairSpec
INVARIANTS
    FirstInFirstOut
    ControlNeverEvicted
    NewestAudioKept
    BoundedBacklog
PROPERTIES
    IsLossyFifo
    ControlDelivered
    CloseDrains
CHECK_DEADLOCK FALSE
