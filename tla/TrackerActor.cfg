\* Two writes, one of them not waited for, and two reads.
SPECIFICATION FairSpec
CONSTANTS
    Writes = {w1, w2}
    Reads = {r1, r2}
    Unanswered = {w2}
    Stop = Stop
    NoAnswer = NoAnswer
    Capacity = 3
    MaxBatch = 0
INVARIANTS
    TypeOK
    HandledInOrder
    ReadsAreDurable
    ReadsSeeEarlierWrites
    GracefulStop
PROPERTIES
    ImplementsLog
    EveryoneIsAnswered
    WriteBatchesEnd
    DropTerminates
CHECK_DEADLOCK FALSE
