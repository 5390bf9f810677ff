\* Requests that are over leave the session at rest: a deadlock is not an error.
SPECIFICATION MCSpec
CONSTANTS
    Hosts = {h1}
    Viewers = {v1, v2}
    NoHost = NoHost
    MaxViewers = 1
    h1 = h1
    v1 = v1
    v2 = v2
    Watching = {v1}
    Impatient = {v1}
    ViewerInterval = 1
    HostInterval = 2
    MaxHosts = 2
    MaxTroubles = 1
INVARIANTS
    RequestsSpaced
PROPERTIES
    EveryCallReturns
    WaitingEnds
CHECK_DEADLOCK FALSE
