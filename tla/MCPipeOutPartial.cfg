CONSTANTS
    Monitor = {"zk", "zsock", "stdin"}
    Text <- ThreeLines
    Pauses <- AnyWhere
    LineMax = 3
    BufferSize = 4
    HighWater = 1
    MaxAdoptions = 2
SPECIFICATION FairSpec
INVARIANT EofIsReal
CHECK_DEADLOCK FALSE
