\* gc aborts the task of a host that announced after it made its list.
SPECIFICATION Spec
CONSTANTS
    h1 = h1 h2 = h2 c1 = c1 c2 = c2 t1 = t1 t2 = t2 t3 = t3
    NoHost = NoHost
    NoTask = NoTask
    Hosts = {h1}
    Handlers = {c1}
    Tasks = {t1, t2}
    Path <- OnePath
    U64 = 16
    OverflowChecks = FALSE
    AnnounceTimeout = 0
    AnnounceExpiry = 0
    ProbeTimeout = 0
    ProbeExpiry = 0
    StartTime = 1
    MaxTime = 4
    Stamps = {1}
    Unprobeable <- NoPath
    Logging = FALSE
    ClockSteps = FALSE
    Crashes = FALSE
INVARIANT HostsHaveTasks
CHECK_DEADLOCK FALSE
