\* With no calls left and nothing pending the notifier is idle.
SPECIFICATION FairSpec
CONSTANTS
    k1 = k1
    k2 = k2
    k3 = k3
    Keys = {k1, k2, k3}
    OnlyKeys = {k1, k2}
    NoStream = NoStream
    QueueSize = 2
    Discord = TRUE
    MaxCalls = 7
INVARIANTS
    OneLiveMessage
    AnnouncedAtRest
PROPERTIES
    EndedOnlyWhileOffline
    AnnouncerSpec
    EndedEventually
CHECK_DEADLOCK FALSE
