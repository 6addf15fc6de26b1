\* Two events in each of two runs of the daemon, a ring of one and an outbox of two lines,
\* and one request that fails, times out or comes too early.
CONSTANTS
    ReplayCap = 1
    OutboxCap = 2
    MaxSeq = 2
    MaxBoots = 2
    MaxFailures = 1
SPECIFICATION Spec
INVARIANTS
    PositionIsHonest
    NothingIsSkipped
PROPERTY ViewSettles
CHECK_DEADLOCK FALSE
