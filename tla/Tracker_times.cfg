\* Announces old, on time and ahead of the clock, probes in racing rounds and
\* a fair gc loop, with crashes, restarts, failing logs and failing databases.
SPECIFICATION FairSpec
CONSTANTS
    h1 = h1 h2 = h2 c1 = c1 c2 = c2 t1 = t1 t2 = t2 t3 = t3
    NoHost = NoHost
    NoTask = NoTask
    Hosts = {h1}
    Handlers = {c1}
    Tasks = {t1, t2}
    Path <- OnePath
    U64 = 16
    OverflowChecks = FALSE
    AnnounceTimeout = 1
    AnnounceExpiry = 2
    ProbeTimeout = 1
    ProbeExpiry = 2
    StartTime = 1
    MaxTime = 5
    Stamps = {1, 3, 4}
    Unprobeable <- NoPath
    Logging = TRUE
    ClockSteps = FALSE
    Crashes = TRUE
INVARIANTS
    ServedAnnouncesAreRecent
    VerifiedMeansProbed
PROPERTIES
    FoundUntilTimeout
    GcKeepsVerified
    OrphanTasksEnd
    DeadActorExits
CHECK_DEADLOCK FALSE
