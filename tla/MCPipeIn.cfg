CONSTANTS
    Monitor = {"zk", "zsock", "stdout"}
    QueueMax = 2
    BufferSize = 2
    PipeMax = 2
SPECIFICATION FairSpec
INVARIANTS TypeOK NothingWithheld
PROPERTIES StopIsServed TextKeepsFlowing GoneReaderIsNoticed
CHECK_DEADLOCK FALSE
