\* Two callers that may overlap, one key, two records and three packets.
SPECIFICATION FairSpec
CONSTANTS
    Callers = {c1, c2}
    Keys = {k}
    Records = {a, b}
    MaxStamp = 3
    None = None
INVARIANTS
    TasksEndWithTheirRecords
PROPERTIES
    RecordsStayResolvable
CHECK_DEADLOCK FALSE
