------------------------------- MODULE GifSearch -------------------------------
(***************************************************************************)
(* internal/gifs: searches of the chat's GIF picker, and links to web      *)
(* pages resolved to the GIF behind them.  Every source's list is cached   *)
(* by query; a source with a quota is asked within an hourly budget that   *)
(* searches and links share.  Nothing is locked while a source is asked.   *)
(***************************************************************************)
EXTENDS Naturals, Sequences, FiniteSets, FiniteSetsExt

CONSTANTS
    Requests,   \* goroutines of GET /api/chat/gifs/search and /resolve
    Queries,
    Links,      \* web pages of GIFs
    QueryOf,    \* QueryOf[l]: the words of the page's name
    Sources,    \* the Slink instances and the API providers
    APIs,       \* the API providers among them
    LinkAPI,    \* KLIPY, which is searched for the pages of links
    PerHour,    \* perHour
    Hour,
    Duration,   \* Duration[s]: slinkCacheDuration or apiCacheDuration
    CacheSize,  \* cacheSize and linkCacheSize
    NoEntry     \* the absence of a key from a cache

VARIABLES
    requests,   \* apiProvider.requests: how long ago, up to an hour
    cache,      \* Service.cache: for how long each list has been there
    fetched,    \* fetched[k]: how long ago the list was fetched
    links,      \* linkResolver.cache: whether the entry of a link is up to date
    request,    \* request[r]: what r is doing
    part,       \* part[r][s]: how far its goroutine for source s has got
    sent        \* sent[s][a]: how often s was asked in the last a units of time and now

vars == <<requests, cache, fetched, links, request, part, sent>>

Keys == Sources \X Queries
Forever == 1 + Max({Duration[s] : s \in Sources})
Ages == 0..Forever

\* How far a goroutine is, the age of the list it has, which no longer matters
\* when it was out of date, and whether asking for a better one has failed.
NoPart == [at |-> "none", age |-> NoEntry, failed |-> FALSE]
Part == [at : {"none", "start", "stale", "asking", "done"},
         age : Ages \cup {NoEntry}, failed : BOOLEAN]
Idle == [at |-> "idle", query |-> NoEntry, link |-> NoEntry]

Init ==
    /\ requests = [s \in APIs |-> <<>>]
    /\ cache = [k \in Keys |-> NoEntry] /\ fetched = [k \in Keys |-> NoEntry]
    /\ links = [l \in Links |-> NoEntry]
    /\ request = [r \in Requests |-> Idle]
    /\ part = [r \in Requests |-> [s \in Sources |-> NoPart]]
    /\ sent = [s \in APIs |-> [a \in 0..Hour - 1 |-> 0]]

Key(r, s) == <<s, request[r].query>>
SetPart(r, s, p) == part' = [part EXCEPT ![r][s] = p]
Cached(c) == {k \in DOMAIN c : c[k] # NoEntry}

-----------------------------------------------------------------------------
(* Search, and cached for each source. *)

\* The API providers are asked when the viewer has pressed enter.
Search(r, q, S) ==
    /\ request[r].at = "idle"
    /\ Sources \ APIs \subseteq S
    /\ request' = [request EXCEPT ![r] = [Idle EXCEPT !.at = "search", !.query = q]]
    /\ part' = [part EXCEPT ![r] = [s \in Sources |->
          IF s \in S THEN [NoPart EXCEPT !.at = "start"] ELSE NoPart]]
    /\ UNCHANGED <<requests, cache, fetched, links, sent>>

Started(r, s) == /\ request[r].at \in {"search", "api"}
                 /\ part[r][s].at = "start"

LookUp(r, s) ==
    /\ Started(r, s)
    /\ LET age == cache[Key(r, s)] IN
          SetPart(r, s,
              IF age # NoEntry /\ age < Duration[s]
              THEN [at |-> "done", age |-> fetched[Key(r, s)], failed |-> FALSE]
              ELSE [at |-> IF s \in APIs THEN "stale" ELSE "asking",
                    age |-> IF age = NoEntry THEN NoEntry ELSE Forever, failed |-> FALSE])
    /\ UNCHANGED <<requests, cache, fetched, links, request, sent>>

\* The requests of the last hour, which are the last ones, as each was appended at its
\* time.
Recent(s) ==
    LET last == Len(requests[s])
        Young == {i \in 1..last : requests[s][i] < Hour}
    IN  SubSeq(requests[s], Min(Young \cup {last + 1}), last)

\* Fails with errBudgetUsedUp, which Search reports as limited.
TakeRequest(r, s) ==
    /\ part[r][s].at = "stale"
    /\ IF Len(Recent(s)) >= PerHour
       THEN /\ requests' = [requests EXCEPT ![s] = Recent(s)]
            /\ SetPart(r, s, [part[r][s] EXCEPT !.at = "done", !.failed = TRUE])
            /\ sent' = sent
       ELSE /\ requests' = [requests EXCEPT ![s] = Append(Recent(s), 0)]
            /\ SetPart(r, s, [part[r][s] EXCEPT !.at = "asking"])
            /\ sent' = [sent EXCEPT ![s] = [a \in 0..Hour - 1 |-> @[a] + 1]]
    /\ UNCHANGED <<cache, fetched, links, request>>

\* Slip: the old list is cached again.
AskFailsAndCaches(r, s) ==
    /\ part[r][s].at = "asking"
    /\ SetPart(r, s, [part[r][s] EXCEPT !.at = "done", !.failed = TRUE])
    /\ cache' = [cache EXCEPT ![Key(r, s)] = IF part[r][s].age = NoEntry THEN @ ELSE 0]
    /\ fetched' = [fetched EXCEPT
          ![Key(r, s)] = IF part[r][s].age = NoEntry THEN @ ELSE Forever]
    /\ UNCHANGED <<requests, links, request, sent>>

\* The old list, if there was one, is better than nothing.
AskFails(r, s) ==
    /\ part[r][s].at = "asking"
    /\ SetPart(r, s, [part[r][s] EXCEPT !.at = "done", !.failed = TRUE])
    /\ UNCHANGED <<requests, cache, fetched, links, request, sent>>

\* A full cache loses what is out of date, and in any case the entry at which the
\* loop over the map begins.
Evicted(expired) ==
    IF Cardinality(Cached(cache)) < CacheSize THEN {{}}
    ELSE {expired \cup {k} : k \in Cached(cache)}

AskSucceeds(r, s) ==
    /\ part[r][s].at = "asking"
    /\ \E gone \in Evicted({k \in Cached(cache) : cache[k] > Duration[k[1]]}) :
          LET with(c) == [k \in Keys |->
                  IF k = Key(r, s) THEN 0 ELSE IF k \in gone THEN NoEntry ELSE c[k]] IN
          cache' = with(cache) /\ fetched' = with(fetched)
    /\ SetPart(r, s, [at |-> "done", age |-> 0, failed |-> FALSE])
    /\ UNCHANGED <<requests, links, request, sent>>

Finished(r) == \A s \in Sources : part[r][s].at \in {"none", "done"}

ReturnResult(r) ==
    /\ request[r].at = "search" /\ Finished(r)
    /\ request' = [request EXCEPT ![r] = Idle]
    /\ part' = [part EXCEPT ![r] = [s \in Sources |-> NoPart]]
    /\ UNCHANGED <<requests, cache, fetched, links, sent>>

-----------------------------------------------------------------------------
(* ResolveLink of a KLIPY page. *)

\* What is in the cache, a GIF or that there was none, is answered at once and is
\* told apart by nothing here.
ResolveLink(r, l) ==
    /\ request[r].at = "idle"
    /\ links[l] \in {NoEntry, "expired"}
    /\ request' = [request EXCEPT ![r] = 
          [at |-> "page", query |-> QueryOf[l], link |-> l]]
    /\ UNCHANGED <<requests, cache, fetched, links, part, sent>>

\* The page is fetched; without a GIF on it KLIPY is searched, when configured.
FetchPage(r) ==
    /\ request[r].at = "page"
    /\ \/ /\ request' = [request EXCEPT ![r].at = "store"]
          /\ part' = part
       \/ /\ LinkAPI \in APIs
          /\ request' = [request EXCEPT ![r].at = "api"]
          /\ SetPart(r, LinkAPI, [NoPart EXCEPT !.at = "start"])
       \/ /\ LinkAPI \notin APIs
          /\ request' = [request EXCEPT ![r].at = "store"]
          /\ part' = part
    /\ UNCHANGED <<requests, cache, fetched, links, sent>>

\* Whether the link's page is in the list or not.
FindPage(r) ==
    /\ request[r].at = "api" /\ Finished(r)
    /\ request' = [request EXCEPT ![r].at = "store"]
    /\ part' = [part EXCEPT ![r] = [s \in Sources |-> NoPart]]
    /\ UNCHANGED <<requests, cache, fetched, links, sent>>

\* A full cache of links is emptied.
StoreLink(r) ==
    /\ request[r].at = "store"
    /\ LET full == Cardinality(Cached(links)) >= CacheSize IN
          links' = [l \in Links |->
              IF l = request[r].link THEN "fresh"
              ELSE IF full THEN NoEntry ELSE links[l]]
    /\ request' = [request EXCEPT ![r] = Idle]
    /\ UNCHANGED <<requests, cache, fetched, part, sent>>

\* After linkRetryDuration or linkCacheDuration.
LinkExpires(l) ==
    /\ links[l] = "fresh"
    /\ links' = [links EXCEPT ![l] = "expired"]
    /\ UNCHANGED <<requests, cache, fetched, request, part, sent>>

-----------------------------------------------------------------------------

Older(age) == IF age = NoEntry THEN NoEntry ELSE Min({age + 1, Forever})

Tick ==
    /\ requests' = [s \in APIs |-> [i \in DOMAIN requests[s] |-> Min({requests[s][i] + 1, Hour})]]
    /\ cache' = [k \in Keys |-> Older(cache[k])]
    /\ fetched' = [k \in Keys |-> Older(fetched[k])]
    /\ sent' = [s \in APIs |-> [a \in 0..Hour - 1 |-> IF a = 0 THEN 0 ELSE sent[s][a - 1]]]
    /\ UNCHANGED <<links, request, part>>

Next ==
    \/ \E r \in Requests :
          \/ \E q \in Queries, S \in SUBSET Sources : Search(r, q, S)
          \/ \E s \in Sources : \/ LookUp(r, s) \/ TakeRequest(r, s)
                              \/ AskFails(r, s) \/ AskSucceeds(r, s)
          \/ ReturnResult(r)
          \/ \E l \in Links : ResolveLink(r, l)
          \/ FetchPage(r) \/ FindPage(r) \/ StoreLink(r)
    \/ \E l \in Links : LinkExpires(l)
    \/ Tick

Spec == Init /\ [][Next]_vars

-----------------------------------------------------------------------------
(* Properties. *)

TypeOK ==
    /\ \A s \in APIs : requests[s] \in Seq(0..Hour)
    /\ {cache, fetched} \subseteq [Keys -> Ages \cup {NoEntry}]
    /\ links \in [Links -> {NoEntry, "fresh", "expired"}]
    /\ request \in [Requests -> [at : {"idle", "search", "page", "api", "store"},
                                 query : Queries \cup {NoEntry},
                                 link : Links \cup {NoEntry}]]
    /\ part \in [Requests -> [Sources -> Part]]
    /\ sent \in [APIs -> [0..Hour - 1 -> Nat]]

\* No source is asked more often within any hour than its quota allows, whoever
\* asks and however the hours are cut.
HourlyBudget == \A s \in APIs : sent[s][Hour - 1] <= PerHour

\* A list that is out of date is shown only by a search that has itself asked for
\* a better one in vain.
AnswersFresh ==
    \A r \in Requests, s \in Sources :
        part[r][s].at = "done" /\ ~part[r][s].failed => part[r][s].age < Duration[s]

\* Neither cache outgrows its size, however many searches end at one time.
CachesBounded ==
    /\ Cardinality(Cached(cache)) <= CacheSize
    /\ Cardinality(Cached(links)) <= CacheSize

\* What searches may ask for, show and keep.
SearchesKept == TypeOK /\ HourlyBudget /\ AnswersFresh /\ CachesBounded

=============================================================================
