\* Every clip published and deleted, and every channel closed, is an end.
SPECIFICATION MCSpec
CONSTANTS
    Clips = {1, 2}
    Deleters = {d1}
    Listers = {l1}
    MaxListed = 1
    NoList = NoList
    Clients = {c1}
    Burst = 2
    Interval = 2
    Forget = 4
    Window = 8
    NoLimiter = NoLimiter
    Requests = {r1, r2}
    NoEntry = NoEntry
    Query = Query
    Queries = {Query}
    Links = {page1, page2}
    Slink = Slink
    Klipy = Klipy
    PerHour = 2
    Hour = 2
    CacheSize = 1
    Lists = {ttv, bttv}
    TwitchLists = {ttv}
    NoToken = NoToken
    MaxVersion = 2
    MaxToken = 2
    Viewer2 = Viewer2
    Viewers = {Viewer1, Viewer2}
    Channel3 = Channel3
    Channels = {Channel1, Channel2, Channel3}
    NoChannel = NoChannel
    ViewerOf <- MCViewerOf
    MaxMessages = 2
SYMMETRY Symmetry
INVARIANTS
    ClipsKept
    RateKept
    SearchesKept
PROPERTIES
    EmotesKept
    ChannelsKept
CHECK_DEADLOCK FALSE
