\* Two turns, one of two people, cut once; one crash or unlink refused.
CONSTANTS
    said = said
    mixed = mixed
    Lines <- SaidAndMixed
    Mixed <- OnlyMixed
    MaxCuts = 1
    MaxFaults = 1
SPECIFICATION Spec
INVARIANT NamedClipsAreOnDisk
PROPERTY DeletedIsErased
CHECK_DEADLOCK FALSE
