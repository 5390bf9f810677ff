------------------------------ MODULE MCServices ------------------------------
(***************************************************************************)
(* Services that share no state, for TLC: published clips, the clients'    *)
(* limits, GIF searches, lists of emotes and data channels.  A behaviour is *)
(* one of a single service, the one `service` names.                       *)
(***************************************************************************)
EXTENDS ClipStore, TLC

CONSTANTS
    Clients, Burst, Interval, Forget, Window, NoLimiter,    \* ClientLimiter
    Requests, NoEntry,                                      \* of GIFs and of emotes
    Queries, Query, Links, Slink, Klipy, PerHour, Hour, CacheSize,   \* GifSearch
    Lists, TwitchLists, NoToken, MaxVersion, MaxToken,      \* EmoteLists
    Channels, Viewers, ViewerOf, Viewer2, Channel3, NoChannel, MaxMessages   \* DataChannels

VARIABLES
    service,
    limiters, granted,
    requests, lists, fetched, links, request, progress, spent,
    emotes, fetch, token, version, issued, refused, overtaken,
    peers, peer, isClosed, sending, removing, sent, relays, got

MCQueryOf == [l \in Links |-> Query]

\* Slink's lists go out of date sooner than KLIPY's.
MCDuration == [s \in {Slink, Klipy} |-> IF s = Slink THEN 1 ELSE 2]

\* One of the viewers has opened two channels.
MCViewerOf == [c \in Channels |->
    IF c = Channel3 THEN Viewer2 ELSE CHOOSE v \in Viewers : v # Viewer2]

\* Requests are interchangeable, and so are the pages of links.
Symmetry == Permutations(Requests) \cup Permutations(Links)

\* A channel is one viewer's; nil is no channel.
ASSUME ChannelsAssumption ==
    /\ ViewerOf \in [Channels -> Viewers]
    /\ NoChannel \notin Channels
    /\ MaxMessages \in Nat

\* Nil is no entry and no token of the bounds.
ASSUME EmotesAssumption ==
    /\ MaxVersion \in Nat \ {0} /\ MaxToken \in Nat
    /\ NoEntry \notin [version : 0..MaxVersion, fresh : BOOLEAN]
    /\ NoToken \notin 1..MaxToken

\* The settings of gifs.go are constants, and nil is no age and no entry.
ASSUME SearchesAssumption ==
    /\ PerHour \in Nat /\ Hour \in Nat \ {0} /\ CacheSize \in Nat \ {0}
    /\ Slink # Klipy /\ Query \in Queries
    /\ NoEntry \notin Nat \cup {"fresh", "expired"}

\* A client is forgotten when its bucket is full again.
ASSUME LimiterAssumption ==
    /\ Burst \in Nat /\ Interval \in Nat \ {0} /\ Forget \in Nat /\ Window \in Nat
    /\ Burst * Interval <= Forget + 1
    /\ NoLimiter \notin [tokens : 0..Burst * Interval, unseen : 0..Forget + 1]

L == INSTANCE ClientLimiter
G == INSTANCE GifSearch WITH
        QueryOf <- MCQueryOf, Sources <- {Slink, Klipy}, APIs <- {Klipy},
        LinkAPI <- Klipy, Duration <- MCDuration,
        cache <- lists, part <- progress, sent <- spent
E == INSTANCE EmoteLists WITH cache <- emotes
D == INSTANCE DataChannels

limiter == <<limiters, granted>>
gifs    == <<requests, lists, fetched, links, request, progress, spent>>
emote   == <<emotes, fetch, token, version, issued, refused, overtaken>>
channel == <<peers, peer, isClosed, sending, removing, sent, relays, got>>

MCInit ==
    /\ service \in {"clips", "limiter", "gifs", "emotes", "channels"}
    /\ Init /\ (service # "clips" => ~onS3)
    /\ L!Init /\ G!Init /\ E!Init /\ D!Init

Of(name, A) == service = name /\ A /\ UNCHANGED service

MCNext ==
    \/ Of("clips", Next)      /\ UNCHANGED <<limiter, gifs, emote, channel>>
    \/ Of("limiter", L!Next)  /\ UNCHANGED <<vars, gifs, emote, channel>>
    \/ Of("gifs", G!Next)     /\ UNCHANGED <<vars, limiter, emote, channel>>
    \/ Of("emotes", E!Next)   /\ UNCHANGED <<vars, limiter, gifs, channel>>
    \/ Of("channels", D!Next) /\ UNCHANGED <<vars, limiter, gifs, emote>>

MCSpec == MCInit /\ [][MCNext]_<<service, vars, limiter, gifs, emote, channel>>

-----------------------------------------------------------------------------

(* A client's requests in any window of time (ClientLimiter).              *)
RateKept == service = "limiter" => L!TypeOK /\ L!RateKept

(* The quota of an API, the age of an answer, the size of caches (GifSearch). *)
SearchesKept == service = "gifs" => G!SearchesKept

(* A failed fetch loses no list, a refused token is gone (EmoteLists).     *)
EmotesKept == E!EmotesKept

(* Who is in the table of channels, and in which order they hear            *)
(* (DataChannels).                                                         *)
ChannelsKept == D!ChannelsKept

=============================================================================
