------------------------------ MODULE EmoteLists ------------------------------
(***************************************************************************)
(* internal/emotes: the lists of emotes of Twitch, 7TV, BetterTTV and      *)
(* FrankerFaceZ.  A list is fetched when it is asked for and the cached    *)
(* one is out of date, by as many requests as ask for it; a fetch that     *)
(* fails caches the list it found before.  Twitch wants an access token,   *)
(* which it may refuse at any time.                                        *)
(***************************************************************************)
EXTENDS Naturals, FiniteSets

CONSTANTS
    Requests,   \* goroutines in ForStream
    Lists,      \* the lists of all providers
    TwitchLists,
    NoEntry,    \* the absence of a list from the cache
    NoToken,    \* the empty token
    MaxVersion, \* bound: changes of a list by its provider
    MaxToken    \* bound: tokens

VARIABLES
    cache,      \* Service.cache: the version of each list, and if it is fresh
    fetch,      \* fetch[r]: the list r is about to get, and what it has for it
    token,      \* twitchClient.token
    version,    \* version[k]: the provider's list; 0 is no list at all
    issued,     \* how many tokens Twitch has issued, the last of which is good
    refused,    \* the tokens after whose refusal twitchClient.token was cleared
    overtaken   \* the requests whose list another has cached since they looked

vars == <<cache, fetch, token, version, issued, refused, overtaken>>

Idle == [at |-> "idle", list |-> NoEntry, previous |-> 0, token |-> NoToken]

Init ==
    /\ cache = [k \in Lists |-> NoEntry]
    /\ fetch = [r \in Requests |-> Idle]
    /\ token = NoToken
    /\ version = [k \in Lists |-> 1]
    /\ issued = 0
    /\ refused = {}
    /\ overtaken = {}

-----------------------------------------------------------------------------
(* cached. *)

Fresh(k) == cache[k] # NoEntry /\ cache[k].fresh

\* A fresh list is returned at once; the old one is remembered.
LookUp(r, k) ==
    /\ fetch[r].at = "idle"
    /\ ~Fresh(k)
    /\ fetch' = [fetch EXCEPT ![r] =
          [at |-> IF k \in TwitchLists THEN "token" ELSE "asking", list |-> k,
           previous |-> IF cache[k] = NoEntry THEN 0 ELSE cache[k].version,
           token |-> NoToken]]
    /\ overtaken' = overtaken \ {r}
    /\ UNCHANGED <<cache, token, version, issued, refused>>

Store(r, v) ==
    LET k == fetch[r].list IN
    /\ cache' = [cache EXCEPT ![k] = [version |-> v, fresh |-> TRUE]]
    /\ overtaken' = overtaken \cup {o \in Requests : fetch[o].list = k}
    /\ fetch' = [fetch EXCEPT ![r] = Idle]

Succeed(r) ==
    /\ fetch[r].at = "asking"
    /\ fetch[r].list \in TwitchLists => fetch[r].token = issued
    /\ Store(r, version[fetch[r].list])
    /\ UNCHANGED <<token, version, issued, refused>>

\* Slip: the failed fetch caches what it has got, which is nothing.
FailEmpty(r) ==
    /\ fetch[r].at = "asking"
    /\ Store(r, 0)
    /\ UNCHANGED <<token, version, issued, refused>>

\* "Keep serving the previous list, and don't hammer a failing provider."
Fail(r) ==
    /\ fetch[r].at = "asking"
    /\ Store(r, fetch[r].previous)
    /\ UNCHANGED <<token, version, issued, refused>>

\* After cacheDuration, or errorRetryInterval.
Expire(k) ==
    /\ Fresh(k)
    /\ cache' = [cache EXCEPT ![k].fresh = FALSE]
    /\ UNCHANGED <<fetch, token, version, issued, refused, overtaken>>

-----------------------------------------------------------------------------
(* twitchClient. *)

\* accessToken holds its lock while it asks for a token, so that one is asked for.
UseToken(r) ==
    /\ fetch[r].at = "token"
    /\ token # NoToken
    /\ fetch' = [fetch EXCEPT ![r].at = "asking", ![r].token = token]
    /\ UNCHANGED <<cache, token, version, issued, refused, overtaken>>

GetToken(r) ==
    /\ fetch[r].at = "token"
    /\ token = NoToken
    /\ issued < MaxToken
    /\ issued' = issued + 1
    /\ token' = issued + 1
    /\ fetch' = [fetch EXCEPT ![r].at = "asking", ![r].token = issued + 1]
    /\ UNCHANGED <<cache, version, refused, overtaken>>

GetTokenFails(r) ==
    /\ fetch[r].at = "token"
    /\ token = NoToken
    /\ Store(r, fetch[r].previous)
    /\ UNCHANGED <<token, version, issued, refused>>

\* 401: the token is cleared, even if it is a newer one by now.
Refused(r) ==
    /\ fetch[r].at = "asking"
    /\ fetch[r].list \in TwitchLists
    /\ token' = NoToken
    /\ refused' = refused \cup {fetch[r].token}
    /\ Store(r, fetch[r].previous)
    /\ UNCHANGED <<version, issued>>

TokenExpires ==
    /\ token # NoToken
    /\ token' = NoToken
    /\ UNCHANGED <<cache, fetch, version, issued, refused, overtaken>>

-----------------------------------------------------------------------------

\* A provider changes a list.
Change(k) ==
    /\ version[k] < MaxVersion
    /\ version' = [version EXCEPT ![k] = @ + 1]
    /\ UNCHANGED <<cache, fetch, token, issued, refused, overtaken>>

Next ==
    \/ \E r \in Requests :
          \/ \E k \in Lists : LookUp(r, k)
          \/ Succeed(r) \/ Fail(r) \/ Refused(r)
          \/ UseToken(r) \/ GetToken(r) \/ GetTokenFails(r)
    \/ \E k \in Lists : Expire(k) \/ Change(k)
    \/ TokenExpires

Spec == Init /\ [][Next]_vars

-----------------------------------------------------------------------------
(* Properties. *)

TypeOK ==
    /\ \A k \in Lists : \/ cache[k] = NoEntry
                        \/ cache[k] \in [version : 0..MaxVersion, fresh : BOOLEAN]
    /\ \A r \in Requests : \/ fetch[r] = Idle
                           \/ fetch[r] \in [at : {"token", "asking"}, list : Lists,
                                  previous : 0..MaxVersion,
                                  token : 1..MaxToken \cup {NoToken}]
    /\ token \in 1..MaxToken \cup {NoToken}
    /\ version \in [Lists -> 1..MaxVersion]
    /\ issued \in 0..MaxToken
    /\ refused \subseteq 1..MaxToken
    /\ overtaken \subseteq Requests

Version(k) == IF cache[k] = NoEntry THEN 0 ELSE cache[k].version

\* No list goes back to what it was, or to nothing, when a fetch fails: except by
\* a request that has looked before another one cached the list.
ListsKept ==
    [][\A k \in Lists :
          cache'[k] # NoEntry => Version(k) <= cache'[k].version \/
              \E r \in overtaken : fetch[r].list = k /\ fetch'[r] = Idle]_vars

\* A token that Twitch has refused is not used for the next request.
RefusedNotKept == token \notin refused

\* What a failed fetch leaves as it was, and what it does not.
EmotesKept == []TypeOK /\ []RefusedNotKept /\ ListsKept

=============================================================================
