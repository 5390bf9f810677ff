SPECIFICATION FairSpec
CONSTANTS
    Peers = {p1, p2}
    MaxHistory = 2
    QueueSize = 2
    MaxRooms = 2
    MaxMessages = 4
INVARIANTS
    OneRoom
    NoGap
    SubscriptionGivenBack
PROPERTY
    RoomExpires
CHECK_DEADLOCK FALSE
