\* Two handlers, two hosts, one of them with content that makes a probe
\* panic; crashes, restarts, failing logs and databases, a build that panics
\* on underflow and a clock that may step back.
SPECIFICATION Spec
CONSTANTS
    h1 = h1 h2 = h2 c1 = c1 c2 = c2 t1 = t1 t2 = t2 t3 = t3
    NoHost = NoHost
    NoTask = NoTask
    Hosts = {h1, h2}
    Handlers = {c1, c2}
    Tasks = {t1, t2, t3}
    Path <- OnePathPerHost
    U64 = 16
    OverflowChecks = TRUE
    AnnounceTimeout = 0
    AnnounceExpiry = 0
    ProbeTimeout = 0
    ProbeExpiry = 0
    StartTime = 0
    MaxTime = 1
    Stamps = {0}
    Unprobeable <- FirstPath
    Logging = TRUE
    ClockSteps = TRUE
    Crashes = TRUE
SYMMETRY Symmetry
VIEW NoHistory
INVARIANTS
    TypeOK
    NoLostTasks
CHECK_DEADLOCK FALSE
