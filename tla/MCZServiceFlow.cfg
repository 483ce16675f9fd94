CONSTANTS
    Monitor = {"zk", "_tick", "in", "out"}
    Flow <- ThreeMessages
    OutTypes = {"PUB", "PUSH"}
    HighWater = 2
SPECIFICATION FairSpec
INVARIANTS TypeOK MessagesStayWhole
PROPERTIES Replicated StopIsServed ExpiredStops
CHECK_DEADLOCK FALSE
