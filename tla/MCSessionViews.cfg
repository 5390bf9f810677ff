\* Requests that are over leave the session at rest: a deadlock is not an error.
SPECIFICATION MCSpec
CONSTANTS
    h1 = h1
    h2 = h2
    v1 = v1
    v2 = v2
    Hosts = {h1, h2}
    Viewers = {v1, v2}
    NoHost = NoHost
    MaxBusy = 3
    Streamer = Streamer
    Other = Other
    ProfileCalls = {r1, r2}
    Texts = {motd}
    Welcome = Welcome
    Partial = Partial
    Nothing = Nothing
    MaxToken = 2
    MaxFaults = 1
SYMMETRY Symmetry
INVARIANTS
    SnapshotAtRest
    OnlineAtRest
    ProfilesKept
PROPERTIES
    OthersKept
CHECK_DEADLOCK FALSE
