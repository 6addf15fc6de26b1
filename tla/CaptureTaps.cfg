\* Flaps, failures and one rule change over two applications, one of them allowed at
\* first, with and without flap tolerance.
CONSTANTS
    n1 = n1
    n2 = n2
    n3 = n3
    k1 = k1
    k2 = k2
    p1 = p1
    p2 = p2
    s1 = s1
    s2 = s2
    s3 = s3
    c1 = c1
    NoPid = NoPid
    NoSession = NoSession
    NoFlap = NoFlap
    NoKey = NoKey
    Nodes <- ThreeNodes
    Keys <- TwoKeys
    KeyOf <- TwoCopies
    PidOf <- TwoCopiesPid
    Sessions <- ThreeSessions
    Graces <- OnAndOff
    Clients <- OneClient
    InitialRules <- FirstAllowed
    MaxRuleChanges = 1
SPECIFICATION Spec
SYMMETRY SessionSymmetry
INVARIANTS
    OneFeedPerSession
    FedSessionsAreOpen
    SessionsKeepTheirSource
    StrictWithoutFlaps
    CapturingLightTrue
PROPERTY SessionsBeginOnlyIfAllowed
CHECK_DEADLOCK FALSE
