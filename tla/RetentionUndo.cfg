\* One turn of two people, cut, swept and put back.
CONSTANTS
    said = said
    mixed = mixed
    Lines <- OnlyMixed
    Mixed <- OnlyMixed
    MaxCuts = 1
    MaxFaults = 0
SPECIFICATION Spec
INVARIANT UndoFindsTheClip
CHECK_DEADLOCK FALSE
