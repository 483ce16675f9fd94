CONSTANTS
    Monitor = {"zk", "zsock", "stdin"}
    Text <- ThreeLines
    Pauses <- WholeLines
    LineMax = 3
    BufferSize = 4
    HighWater = 1
    MaxAdoptions = 2
SPECIFICATION FairSpec
INVARIANTS TypeOK OneSideWaited EofIsReal
PROPERTIES StopIsServed Drained
CHECK_DEADLOCK FALSE
