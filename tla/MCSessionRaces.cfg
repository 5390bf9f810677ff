\* Requests that are over leave the session at rest: a deadlock is not an error.
SPECIFICATION Spec
CONSTANTS
    Hosts = {h1, h2}
    Viewers = {v1, v2}
    NoHost = NoHost
    MaxViewers = 0
    h1 = h1
    h2 = h2
    v1 = v1
    v2 = v2
SYMMETRY Symmetry
INVARIANTS
    NoCloseCycle
    OfflineReportedOnce
    NoLeakedPublisher
    LastOneOutCloses
    ViewersAccountedFor
CHECK_DEADLOCK FALSE
