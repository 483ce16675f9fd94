CONSTANTS
    t1 = t1
    t2 = t2
    n1 = n1
    n2 = n2
    n3 = n3
    n4 = n4
    n5 = n5
    u1 = u1
    u2 = u2
    Url = {u1, u2}
    OwnZtype = "PUSH"
    Type = {t1}
    InitTypes = {t1}
    Node = {n1, n2, n3, n4}
    NodeType <- FourTypes
    NodeUrl <- FourUrls
    NodeZtype <- FourPulls
    MaxDrops = 0
SPECIFICATION Spec
INVARIANT LivePeersConnected
CHECK_DEADLOCK FALSE
