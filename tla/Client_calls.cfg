\* announce_all or query_all of two trackers, one at a time.
SPECIFICATION FairSpec
CONSTANTS
    a1 = a1 q1 = q1 d1 = d1 d2 = d2
    Call = {a1, q1}
    Announces = {a1}
    Conn = {d1, d2}
    On <- OwnConnections
    NoCall = NoCall
    Parallelism = 1
INVARIANTS
    TypeOK
    DoneOnce
    FailuresHaveCauses
PROPERTIES
    CallsEnd
    HandlersEnd
CHECK_DEADLOCK FALSE
