CONSTANTS
    t1 = t1
    t2 = t2
    n1 = n1
    n2 = n2
    n3 = n3
    n4 = n4
    n5 = n5
    u1 = u1
    u2 = u2
    Url = {u1, u2}
    OwnZtype = "PUSH"
    Type = {t1, t2}
    Node = {n1, n2, n3}
    InitTypes = {t1}
    NodeType <- TwoTypes
    NodeUrl <- SharedUrl
    NodeZtype <- Pulls
    MaxDrops = 1
SPECIFICATION Spec
INVARIANTS
    TypeOK
    PendingMatchesInFlight
    OneRoundAtATime
    NoLostWakeup
    RoundIsolation
    RefsCoverClaims
    SettledIsCurrent
PROPERTY RefinesDiscovery
CHECK_DEADLOCK FALSE
