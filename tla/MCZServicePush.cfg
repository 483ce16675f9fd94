CONSTANTS
    Monitor = {"zk", "_tick", "in", "out"}
    Flow <- ThreeMessages
    OutTypes = {"PUSH"}
    HighWater = 2
SPECIFICATION Spec
INVARIANT SendSucceeds
CHECK_DEADLOCK FALSE
