----------------------------- MODULE ClientLimiter -----------------------------
(***************************************************************************)
(* internal/clips/service.go, Allow: a client gets Burst requests and then *)
(* one in every Interval, from a token bucket of its own that cleanupLoop  *)
(* forgets when the client has not been seen for a while.  A client that   *)
(* comes back gets a new, full bucket.                                     *)
(***************************************************************************)
EXTENDS Naturals, FiniteSetsExt

CONSTANTS
    Clients,
    Burst,      \* the size of a bucket, in tokens
    Interval,   \* how long it takes to earn one
    Forget,     \* after how long a client is forgotten
    Window,     \* bound: for how long granted requests are remembered
    NoLimiter   \* the absence of a client from limiters

VARIABLES
    limiters,   \* Service.limiters: the tokens, in units of time, and lastSeen
    granted     \* granted[c][w]: how many requests were granted within the last w units

vars == <<limiters, granted>>

Full == Burst * Interval

Init ==
    /\ limiters = [c \in Clients |-> NoLimiter]
    /\ granted = [c \in Clients |-> [w \in 0..Window |-> 0]]

Entry(c) ==
    IF limiters[c] = NoLimiter THEN [tokens |-> Full, unseen |-> 0] ELSE limiters[c]

\* A request; one that is refused counts as seen, and takes no token.
Allow(c) ==
    LET entry == Entry(c)
        ok    == entry.tokens >= Interval IN
    /\ limiters' = [limiters EXCEPT ![c] =
          [tokens |-> IF ok THEN entry.tokens - Interval ELSE entry.tokens, unseen |-> 0]]
    /\ granted' = IF ok
                  THEN [granted EXCEPT ![c] = [w \in 0..Window |-> @[w] + 1]] ELSE granted

\* Slip: a client is forgotten as soon as it could make one more request.
ForgetClientEarly(c) ==
    /\ limiters[c] # NoLimiter
    /\ limiters[c].unseen >= Interval
    /\ limiters' = [limiters EXCEPT ![c] = NoLimiter]
    /\ UNCHANGED granted

\* cleanupLoop forgets a client, sooner or later.
ForgetClient(c) ==
    /\ limiters[c] # NoLimiter
    /\ limiters[c].unseen > Forget
    /\ limiters' = [limiters EXCEPT ![c] = NoLimiter]
    /\ UNCHANGED granted

\* Time passes: the buckets fill.
Tick ==
    /\ limiters' = [c \in Clients |->
          IF limiters[c] = NoLimiter THEN NoLimiter
          ELSE [tokens |-> Min({limiters[c].tokens + 1, Full}),
                unseen |-> Min({limiters[c].unseen + 1, Forget + 1})]]
    /\ granted' = [c \in Clients |->
          [w \in 0..Window |-> IF w = 0 THEN 0 ELSE granted[c][w - 1]]]

Next ==
    \/ \E c \in Clients : Allow(c) \/ ForgetClient(c)
    \/ Tick

Spec == Init /\ [][Next]_vars

-----------------------------------------------------------------------------

TypeOK ==
    /\ \A c \in Clients : \/ limiters[c] = NoLimiter
                          \/ limiters[c] \in [tokens : 0..Full, unseen : 0..Forget + 1]
    /\ granted \in [Clients -> [0..Window -> Nat]]

\* In every window of time a client is granted a burst and one request for every
\* interval of the window, whether it was forgotten in between or not.
RateKept == \A c \in Clients, w \in 0..Window : granted[c][w] <= Burst + w \div Interval

=============================================================================
