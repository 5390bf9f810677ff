---------------------------- MODULE ServicesProofs ----------------------------
(***************************************************************************)
(* Theorems about DataChannels, EmoteLists, ClientLimiter, ClipStore and   *)
(* GifSearch, for any number of channels, viewers, requests, clients and   *)
(* clips.                                                                  *)
(***************************************************************************)
EXTENDS MCServices, FiniteSetTheorems, SequenceTheorems, TLAPS

-----------------------------------------------------------------------------
(* Data channels. *)

\* A message waits for its recipients within the bound, and the next one of its
\* channel until they have it.
Relaying ==
    /\ \A c \in sending : sent[c] < MaxMessages
    /\ \A c \in sending : \A r \in relays : r.from # c


\* Every variable of DataChannels keeps its type.
THEOREM ChannelsTypeCorrect == D!Spec => [](D!TypeOK /\ Relaying)
<1> USE ChannelsAssumption
<1>1. D!Init => D!TypeOK /\ Relaying
  <2> SUFFICES ASSUME D!Init PROVE D!TypeOK /\ Relaying
    OBVIOUS
  <2>1. 0 \in 0..MaxMessages
    OBVIOUS
  <2>2. /\ sent \in [Channels -> 0..MaxMessages]
        /\ got \in [Channels -> [Channels -> 0..MaxMessages]]
        /\ peers \in [Viewers -> Channels \cup {NoChannel}]
    BY <2>1 DEF D!Init
  <2> QED
    BY <2>2 DEF D!Init, D!TypeOK, Relaying
<1>2. D!TypeOK /\ Relaying /\ [D!Next]_D!vars => (D!TypeOK /\ Relaying)'
  <2> SUFFICES ASSUME D!TypeOK, Relaying, [D!Next]_D!vars
               PROVE  D!TypeOK' /\ Relaying'
    OBVIOUS
  <2> USE DEF D!relaying
  <2>1. ASSUME NEW c \in Channels, D!Register(c)
        PROVE  /\ peers' \in [Viewers -> Channels \cup {NoChannel}]
               /\ peer' \subseteq Channels
    BY <2>1 DEF D!Register, D!TypeOK
  <2>2. ASSUME NEW c \in Channels, D!OnOpen(c)
        PROVE  D!TypeOK' /\ Relaying'
    BY <2>1, <2>2 DEF D!OnOpen, D!TypeOK, Relaying
  <2>3. ASSUME NEW c \in Channels, D!OnMessage(c)
        PROVE  D!TypeOK' /\ Relaying'
    <3>1. sending' \subseteq sending \cup {c}
      BY <2>3 DEF D!OnMessage
    <3> QED
      BY <2>1, <2>3, <3>1 DEF D!OnMessage, D!TypeOK, Relaying
  <2>4. ASSUME NEW c \in Channels, D!Broadcast(c)
        PROVE  D!TypeOK' /\ Relaying'
    <3>1. /\ c \in sending /\ sending' = sending \ {c}
          /\ UNCHANGED <<peers, peer, isClosed, removing, got>>
      BY <2>4 DEF D!Broadcast
    <3>2. CASE UNCHANGED <<sent, relays>>
      BY <3>1, <3>2 DEF D!TypeOK, Relaying
    <3>3. CASE /\ sent' = [sent EXCEPT ![c] = @ + 1]
               /\ relays' = relays \cup
                     {[from |-> c, n |-> sent[c] + 1, to |-> d] :
                         d \in D!Others(ViewerOf[c])}
      <4>1. sent[c] \in 0..MaxMessages /\ sent[c] < MaxMessages
        BY <3>1 DEF D!TypeOK, Relaying
      <4>2. sent[c] + 1 \in 1..MaxMessages /\ sent[c] + 1 \in 0..MaxMessages
        BY <4>1
      <4>3. sent' \in [Channels -> 0..MaxMessages]
        BY <3>3, <4>2 DEF D!TypeOK
      <4>4. D!Others(ViewerOf[c]) \subseteq Channels
        BY DEF D!Others, D!TypeOK
      <4>5. relays' \subseteq [from : Channels, n : 1..MaxMessages, to : Channels]
        BY <3>3, <4>2, <4>4 DEF D!TypeOK
      <4>6. \A e \in sending' : sent'[e] < MaxMessages
        BY <3>1, <3>3 DEF D!TypeOK, Relaying
      <4>7. \A e \in sending' : \A r \in relays' : r.from # e
        BY <3>1, <3>3 DEF Relaying
      <4> QED
        BY <3>1, <4>3, <4>5, <4>6, <4>7 DEF D!TypeOK, Relaying
    <3> QED
      BY <2>4, <3>2, <3>3 DEF D!Broadcast
  <2>5. ASSUME NEW r \in relays, D!Send(r)
        PROVE  D!TypeOK' /\ Relaying'
    <3>1. r \in [from : Channels, n : 1..MaxMessages, to : Channels]
      BY DEF D!TypeOK
    <3>2. got' \in [Channels -> [Channels -> 0..MaxMessages]]
      <4>1. /\ r.from \in Channels /\ r.to \in Channels /\ r.n \in 0..MaxMessages
            /\ got[r.to] \in [Channels -> 0..MaxMessages]
        BY <3>1 DEF D!TypeOK
      <4>2. CASE got' = [got EXCEPT ![r.to] = [got[r.to] EXCEPT ![r.from] = r.n]]
        <5>1. [got[r.to] EXCEPT ![r.from] = r.n] \in [Channels -> 0..MaxMessages]
          BY <4>1
        <5> QED
          BY <4>1, <4>2, <5>1 DEF D!TypeOK
      <4>3. CASE got' = got
        BY <4>3 DEF D!TypeOK
      <4> QED
        BY <2>5, <4>2, <4>3 DEF D!Send
    <3> QED
      BY <2>5, <3>2 DEF D!Send, D!TypeOK, Relaying
  <2>6. ASSUME NEW c \in Channels, D!OnClose(c)
        PROVE  D!TypeOK' /\ Relaying'
    BY <2>6 DEF D!OnClose, D!TypeOK, Relaying
  <2>7. ASSUME NEW c \in Channels, D!Remove(c)
        PROVE  D!TypeOK' /\ Relaying'
    <3>1. peers' \in [Viewers -> Channels \cup {NoChannel}]
      BY <2>7 DEF D!Remove, D!Without, D!TypeOK
    <3> QED
      BY <2>7, <3>1 DEF D!Remove, D!TypeOK, Relaying
  <2>8. CASE UNCHANGED D!vars
    BY <2>8 DEF D!vars, D!TypeOK, Relaying
  <2> QED
    BY <2>2, <2>3, <2>4, <2>5, <2>6, <2>7, <2>8 DEF D!Next
<1> QED
  BY <1>1, <1>2, PTL DEF D!Spec

\* Only a channel whose peer was made is in the table, under its own viewer.
InTable ==
    \A v \in Viewers : peers[v] # NoChannel => peers[v] \in peer /\ ViewerOf[peers[v]] = v

\* A channel that is closed is in the table only until its handler has removed it,
\* whatever messages come late and whichever channels the viewer opens meanwhile.
THEOREM ClosedChannelsGone == D!Spec => []D!ClosedGone
<1> USE ChannelsAssumption
<1>1. D!Init => InTable /\ D!ClosedGone
  BY DEF D!Init, InTable, D!ClosedGone
<1>2. D!TypeOK /\ InTable /\ D!ClosedGone /\ [D!Next]_D!vars => (InTable /\ D!ClosedGone)'
  <2> SUFFICES ASSUME D!TypeOK, InTable, D!ClosedGone, [D!Next]_D!vars
               PROVE  InTable' /\ D!ClosedGone'
    OBVIOUS
  <2>1. ASSUME NEW c \in Channels, D!Register(c), UNCHANGED <<isClosed, removing>>
        PROVE  InTable' /\ D!ClosedGone'
    <3>1. CASE c \in peer \cup isClosed
      BY <2>1, <3>1 DEF D!Register, D!TypeOK, InTable, D!ClosedGone
    <3>2. CASE c \notin peer \cup isClosed
      <4>1. /\ peers' = [peers EXCEPT ![ViewerOf[c]] = c]
            /\ peer' = peer \cup {c}
        BY <2>1, <3>2 DEF D!Register
      <4>2. \A v \in Viewers : peers'[v] = IF v = ViewerOf[c] THEN c ELSE peers[v]
        BY <4>1 DEF D!TypeOK
      <4>3. InTable'
        BY <4>1, <4>2 DEF InTable
      <4>4. \A e \in isClosed \ removing : e \in Channels /\ e # c
        BY <3>2 DEF D!TypeOK
      <4>5. D!ClosedGone'
        BY <2>1, <4>2, <4>4 DEF D!ClosedGone
      <4> QED
        BY <4>3, <4>5
    <3> QED
      BY <3>1, <3>2
  <2>2. ASSUME NEW c \in Channels, D!OnOpen(c)
        PROVE  InTable' /\ D!ClosedGone'
    BY <2>1, <2>2 DEF D!OnOpen
  <2>3. ASSUME NEW c \in Channels, D!OnMessage(c)
        PROVE  InTable' /\ D!ClosedGone'
    BY <2>1, <2>3 DEF D!OnMessage
  <2>4. CASE UNCHANGED <<peers, peer, isClosed, removing>>
    BY <2>4 DEF InTable, D!ClosedGone
  <2>5. ASSUME NEW c \in Channels, D!OnClose(c)
        PROVE  InTable' /\ D!ClosedGone'
    <3>1. c \notin peer => peers[ViewerOf[c]] # c
      BY DEF InTable
    <3> QED
      BY <2>5, <3>1 DEF D!OnClose, InTable, D!ClosedGone
  <2>6. ASSUME NEW c \in Channels, D!Remove(c)
        PROVE  InTable' /\ D!ClosedGone'
    <3>1. /\ peers' = D!Without(c) /\ removing' = removing \ {c}
          /\ UNCHANGED <<peer, isClosed>>
      BY <2>6 DEF D!Remove
    <3>2. \A v \in Viewers : peers'[v] = peers[v] \/ peers'[v] = NoChannel
      BY <3>1 DEF D!Without, D!TypeOK
    <3>3. peers'[ViewerOf[c]] # c
      BY <3>1 DEF D!Without, D!TypeOK
    <3>4. InTable'
      BY <3>1, <3>2 DEF InTable
    <3>5. D!ClosedGone'
      BY <3>1, <3>2, <3>3 DEF D!ClosedGone, D!TypeOK
    <3> QED
      BY <3>4, <3>5
  <2> QED
    BY <2>2, <2>3, <2>4, <2>5, <2>6
       DEF D!Next, D!Broadcast, D!Send, D!vars, D!relaying
<1> QED
  BY <1>1, <1>2, ChannelsTypeCorrect, PTL DEF D!Spec

\* The end of a channel takes only that channel out of the table: not the one its
\* viewer has opened since.
THEOREM SuccessorsKept == D!Spec => D!SuccessorKept
<1> USE ChannelsAssumption
<1>1. D!TypeOK /\ [D!Next]_D!vars
      => [\A v \in Viewers :
             peers[v] # NoChannel /\ peers'[v] = NoChannel => peers[v] \in isClosed]_D!vars
  <2> SUFFICES ASSUME D!TypeOK, D!Next, NEW v \in Viewers,
                      peers[v] # NoChannel, peers'[v] = NoChannel
               PROVE  peers[v] \in isClosed
    BY DEF D!vars
  <2>1. ~ UNCHANGED peers
    OBVIOUS
  <2>2. ASSUME NEW c \in Channels, D!Register(c)
        PROVE  FALSE
    BY <2>2 DEF D!Register, D!TypeOK
  <2>3. ASSUME NEW c \in Channels, D!Remove(c)
        PROVE  peers[v] \in isClosed
    <3>1. c \in isClosed /\ peers' = D!Without(c)
      BY <2>3 DEF D!Remove, D!TypeOK
    <3>2. peers[v] = c
      BY <3>1 DEF D!Without, D!TypeOK
    <3> QED
      BY <3>1, <3>2
  <2> QED
    BY <2>1, <2>2, <2>3
       DEF D!Next, D!OnOpen, D!OnMessage, D!Broadcast, D!Send, D!OnClose
<1> QED
  BY <1>1, ChannelsTypeCorrect, PTL DEF D!Spec, D!SuccessorKept

\* What is still to be sent is the last message of its channel, and nobody has got a
\* later one.
Latest ==
    /\ \A r \in relays : r.n = sent[r.from]
    /\ \A c, d \in Channels : got[c][d] <= sent[d]

\* The messages of a channel reach each of the others in the order they were sent.
THEOREM ChannelInOrder == D!Spec => D!RelayedInOrder
<1> USE ChannelsAssumption
<1>1. D!Init => Latest
  BY DEF D!Init, Latest
<1>2. D!TypeOK /\ Relaying /\ Latest /\ [D!Next]_D!vars => Latest'
  <2> SUFFICES ASSUME D!TypeOK, Relaying, Latest, [D!Next]_D!vars
               PROVE  Latest'
    OBVIOUS
  <2>1. CASE UNCHANGED <<sent, relays, got>>
    BY <2>1 DEF Latest
  <2>2. ASSUME NEW c \in Channels, D!Broadcast(c), ~ UNCHANGED <<sent, relays>>
        PROVE  Latest'
    <3>1. /\ c \in sending /\ got' = got
          /\ sent' = [sent EXCEPT ![c] = @ + 1]
          /\ relays' = relays \cup
                {[from |-> c, n |-> sent[c] + 1, to |-> d] : d \in D!Others(ViewerOf[c])}
      BY <2>2 DEF D!Broadcast
    <3>2. /\ \A d \in Channels : sent'[d] = IF d = c THEN sent[c] + 1 ELSE sent[d]
          /\ \A d \in Channels : sent[d] \in Nat
      BY <3>1 DEF D!TypeOK
    <3>3. ASSUME NEW r \in relays' PROVE r.n = sent'[r.from]
      <4>1. CASE r \in relays
        <5>1. r.from # c /\ r.from \in Channels /\ r.n = sent[r.from]
          BY <3>1, <4>1 DEF Relaying, D!TypeOK, Latest
        <5> QED
          BY <3>2, <5>1
      <4>2. CASE r \notin relays
        <5>1. r.from = c /\ r.n = sent[c] + 1
          BY <3>1, <4>2
        <5> QED
          BY <3>2, <5>1
      <4> QED
        BY <4>1, <4>2
    <3>4. ASSUME NEW d \in Channels, NEW e \in Channels PROVE got'[d][e] <= sent'[e]
      <4>1. got[d][e] \in Nat /\ got[d][e] <= sent[e]
        BY DEF D!TypeOK, Latest
      <4> QED
        BY <3>1, <3>2, <4>1
    <3> QED
      BY <3>3, <3>4 DEF Latest
  <2>3. ASSUME NEW r \in relays, D!Send(r)
        PROVE  Latest'
    <3>1. /\ r.from \in Channels /\ r.to \in Channels /\ r.n \in Nat
          /\ r.n = sent[r.from]
      BY DEF D!TypeOK, Latest
    <3>2. sent' = sent /\ relays' = relays \ {r}
      BY <2>3 DEF D!Send
    <3>3. ASSUME NEW c \in Channels, NEW d \in Channels PROVE got'[c][d] <= sent'[d]
      <4>1. got'[c][d] = got[c][d] \/ (got'[c][d] = r.n /\ d = r.from)
        BY <2>3, <3>1 DEF D!Send, D!TypeOK
      <4>2. got[c][d] <= sent[d] /\ sent[d] \in Nat
        BY DEF D!TypeOK, Latest
      <4> QED
        BY <3>1, <3>2, <4>1, <4>2
    <3> QED
      BY <3>2, <3>3 DEF Latest
  <2> QED
    BY <2>1, <2>2, <2>3
       DEF D!Next, D!OnOpen, D!OnMessage, D!Broadcast, D!OnClose, D!Remove, D!vars,
           D!relaying
<1>3. D!TypeOK /\ Latest /\ [D!Next]_D!vars
      => [\A c, d \in Channels : got'[c][d] >= got[c][d]]_D!vars
  <2> SUFFICES ASSUME D!TypeOK, Latest, D!Next, NEW c \in Channels, NEW d \in Channels
               PROVE  got'[c][d] >= got[c][d]
    BY DEF D!vars
  <2>1. got[c][d] \in Nat /\ got[c][d] <= sent[d]
    BY DEF D!TypeOK, Latest
  <2>2. CASE got' = got
    BY <2>1, <2>2
  <2>3. ASSUME NEW r \in relays, D!Send(r)
        PROVE  got'[c][d] >= got[c][d]
    <3>1. /\ r.from \in Channels /\ r.to \in Channels /\ r.n \in Nat
          /\ r.n = sent[r.from]
      BY DEF D!TypeOK, Latest
    <3>2. got'[c][d] = got[c][d] \/ (got'[c][d] = r.n /\ d = r.from)
      BY <2>3, <3>1 DEF D!Send, D!TypeOK
    <3> QED
      BY <2>1, <3>1, <3>2
  <2> QED
    BY <2>2, <2>3
       DEF D!Next, D!OnOpen, D!OnMessage, D!Broadcast, D!OnClose, D!Remove, D!relaying
<1> QED
  BY <1>1, <1>2, <1>3, ChannelsTypeCorrect, PTL DEF D!Spec, D!RelayedInOrder

\* What DataChannels promises about the table and about what it carries.
THEOREM ChannelsAreKept == D!Spec => D!ChannelsKept
BY ChannelsTypeCorrect, ClosedChannelsGone, SuccessorsKept, ChannelInOrder, PTL
   DEF D!ChannelsKept

-----------------------------------------------------------------------------
(* Lists of emotes. *)

Entries == [version : 0..MaxVersion, fresh : BOOLEAN]
Fetches == [at : {"token", "asking"}, list : Lists, previous : 0..MaxVersion,
            token : 1..MaxToken \cup {NoToken}]

\* The types, and which tokens can be in use: those that were issued, and in
\* twitchClient.token none that was refused.
TokensKept ==
    /\ emotes \in [Lists -> Entries \cup {NoEntry}]
    /\ fetch \in [Requests -> Fetches \cup {E!Idle}]
    /\ version \in [Lists -> 1..MaxVersion]
    /\ issued \in 0..MaxToken /\ overtaken \subseteq Requests
    /\ token \in 1..issued \cup {NoToken}
    /\ refused \subseteq 1..issued /\ token \notin refused
    /\ \A r \in Requests :
          fetch[r].at = "asking" /\ fetch[r].list \in TwitchLists => fetch[r].token \in 1..issued

\* What a request that is about to store v leaves.
LEMMA StoreKeeps ==
    ASSUME TokensKept, NEW r \in Requests, fetch[r].at # "idle", NEW v \in 0..MaxVersion,
           E!Store(r, v)
    PROVE  /\ fetch[r].list \in Lists
           /\ emotes' \in [Lists -> Entries \cup {NoEntry}]
           /\ \A k \in Lists : emotes'[k] = IF k = fetch[r].list
                                            THEN [version |-> v, fresh |-> TRUE]
                                            ELSE emotes[k]
           /\ fetch' \in [Requests -> Fetches \cup {E!Idle}]
           /\ \A o \in Requests : fetch'[o] = IF o = r THEN E!Idle ELSE fetch[o]
           /\ overtaken' = overtaken \cup {o \in Requests : fetch[o].list = fetch[r].list}
<1>1. fetch[r] \in Fetches
  BY DEF TokensKept, E!Idle
<1>2. fetch[r].list \in Lists
  BY <1>1 DEF Fetches
<1>3. [version |-> v, fresh |-> TRUE] \in Entries
  BY DEF Entries
<1>4. emotes' = [emotes EXCEPT ![fetch[r].list] = [version |-> v, fresh |-> TRUE]]
  BY DEF E!Store
<1>5. fetch' = [fetch EXCEPT ![r] = E!Idle]
  BY DEF E!Store
<1>6. emotes' \in [Lists -> Entries \cup {NoEntry}]
  BY <1>2, <1>3, <1>4 DEF TokensKept
<1>7. fetch' \in [Requests -> Fetches \cup {E!Idle}]
  BY <1>5 DEF TokensKept
<1> QED
  BY <1>2, <1>4, <1>5, <1>6, <1>7 DEF TokensKept, E!Store

\* Storing a list keeps what is known about tokens.
LEMMA StoreKeepsTokens ==
    ASSUME TokensKept, NEW r \in Requests, fetch[r].at # "idle", NEW v \in 0..MaxVersion,
           E!Store(r, v), UNCHANGED <<version, issued>>,
           token' \in {token, NoToken}, refused' \subseteq 1..issued, token' \notin refused'
    PROVE  TokensKept'
<1>1. \A o \in Requests :
         fetch'[o].at = "asking" /\ fetch'[o].list \in TwitchLists
           => fetch'[o].token \in 1..issued
  <2>1. \A o \in Requests : fetch'[o] = IF o = r THEN E!Idle ELSE fetch[o]
    BY StoreKeeps
  <2>2. E!Idle.at # "asking"
    BY DEF E!Idle
  <2> QED
    BY <2>1, <2>2 DEF TokensKept
<1>2. overtaken' \subseteq Requests
  BY StoreKeeps DEF TokensKept
<1> QED
  BY <1>1, <1>2, StoreKeeps DEF TokensKept

\* Only tokens that were issued and not refused are kept for the next request.
THEOREM TokensInvariant == E!Spec => []TokensKept
<1> USE EmotesAssumption
<1>1. E!Init => TokensKept
  <2> SUFFICES ASSUME E!Init PROVE TokensKept
    OBVIOUS
  <2>1. 1 \in 1..MaxVersion /\ 0 \in 0..MaxToken
    OBVIOUS
  <2>2. version \in [Lists -> 1..MaxVersion]
    BY <2>1 DEF E!Init
  <2>3. \A r \in Requests : fetch[r].at = "idle"
    BY DEF E!Init, E!Idle
  <2> QED
    BY <2>1, <2>2, <2>3 DEF E!Init, TokensKept
<1>2. TokensKept /\ [E!Next]_E!vars => TokensKept'
  <2> SUFFICES ASSUME TokensKept, [E!Next]_E!vars
               PROVE  TokensKept'
    OBVIOUS
  <2>0. \A r \in Requests : fetch[r].at # "idle" => fetch[r] \in Fetches
    BY DEF TokensKept, E!Idle
  <2>1. ASSUME NEW r \in Requests, NEW k \in Lists, E!LookUp(r, k)
        PROVE  TokensKept'
    <3> DEFINE f == [at |-> IF k \in TwitchLists THEN "token" ELSE "asking", list |-> k,
                     previous |-> IF emotes[k] = NoEntry THEN 0 ELSE emotes[k].version,
                     token |-> NoToken]
    <3>1. f \in Fetches
      BY DEF Fetches, Entries, TokensKept
    <3>2. fetch' = [fetch EXCEPT ![r] = f]
      BY <2>1 DEF E!LookUp
    <3>3. f.at = "asking" => f.list \notin TwitchLists
      OBVIOUS
    <3> HIDE DEF f
    <3>4. fetch' \in [Requests -> Fetches \cup {E!Idle}]
      BY <3>1, <3>2 DEF TokensKept
    <3>5. \A o \in Requests :
             fetch'[o].at = "asking" /\ fetch'[o].list \in TwitchLists
               => fetch'[o].token \in 1..issued
      BY <3>2, <3>3 DEF TokensKept
    <3> QED
      BY <2>1, <3>4, <3>5 DEF E!LookUp, TokensKept
  <2>2. ASSUME NEW r \in Requests, E!Succeed(r)
        PROVE  TokensKept'
    <3>1. fetch[r].at # "idle" /\ fetch[r].list \in Lists
      BY <2>0, <2>2 DEF E!Succeed, Fetches
    <3>2. version[fetch[r].list] \in 0..MaxVersion
      BY <3>1 DEF TokensKept
    <3> QED
      BY <2>2, <3>1, <3>2, StoreKeepsTokens DEF E!Succeed, TokensKept
  <2>3. ASSUME NEW r \in Requests, E!Fail(r) \/ E!GetTokenFails(r)
        PROVE  TokensKept'
    <3>1. fetch[r].at # "idle" /\ fetch[r].previous \in 0..MaxVersion
      BY <2>0, <2>3 DEF E!Fail, E!GetTokenFails, Fetches
    <3> QED
      BY <2>3, <3>1, StoreKeepsTokens DEF E!Fail, E!GetTokenFails, TokensKept
  <2>4. ASSUME NEW r \in Requests, E!Refused(r)
        PROVE  TokensKept'
    <3>1. fetch[r].at # "idle" /\ fetch[r].previous \in 0..MaxVersion
      BY <2>0, <2>4 DEF E!Refused, Fetches
    <3>2. /\ token' = NoToken /\ refused' = refused \cup {fetch[r].token}
          /\ fetch[r].token \in 1..issued
      BY <2>4 DEF E!Refused, TokensKept
    <3>3. NoToken \notin 1..issued
      BY DEF TokensKept
    <3>4. refused' \subseteq 1..issued /\ token' \notin refused'
      BY <3>2, <3>3 DEF TokensKept
    <3> QED
      BY <2>4, <3>1, <3>2, <3>4, StoreKeepsTokens DEF E!Refused
  <2>5. ASSUME NEW r \in Requests, E!UseToken(r)
        PROVE  TokensKept'
    <3> DEFINE f == [fetch[r] EXCEPT !.at = "asking", !.token = token]
    <3>1. fetch[r] \in Fetches /\ token \in 1..issued /\ token \in 1..MaxToken
      BY <2>0, <2>5 DEF E!UseToken, TokensKept
    <3>2. f \in Fetches /\ f.token = token
      BY <3>1 DEF Fetches
    <3>3. fetch' = [fetch EXCEPT ![r] = f]
      BY <2>5 DEF E!UseToken
    <3> HIDE DEF f
    <3>4. fetch' \in [Requests -> Fetches \cup {E!Idle}]
      BY <3>2, <3>3 DEF TokensKept
    <3>5. \A o \in Requests :
             fetch'[o].at = "asking" /\ fetch'[o].list \in TwitchLists
               => fetch'[o].token \in 1..issued
      BY <3>1, <3>2, <3>3 DEF TokensKept
    <3> QED
      BY <2>5, <3>4, <3>5 DEF E!UseToken, TokensKept
  <2>6. ASSUME NEW r \in Requests, E!GetToken(r)
        PROVE  TokensKept'
    <3> DEFINE f == [fetch[r] EXCEPT !.at = "asking", !.token = issued + 1]
    <3>1. /\ fetch[r] \in Fetches
          /\ issued' = issued + 1 /\ token' = issued + 1 /\ issued < MaxToken
          /\ issued \in 0..MaxToken
      BY <2>0, <2>6 DEF E!GetToken, TokensKept
    <3>2. issued + 1 \in 1..MaxToken /\ issued + 1 \in 1..issued'
      BY <3>1
    <3>3. f \in Fetches /\ f.token = issued + 1
      BY <3>1, <3>2 DEF Fetches
    <3>4. fetch' = [fetch EXCEPT ![r] = f]
      BY <2>6 DEF E!GetToken
    <3> HIDE DEF f
    <3>5. fetch' \in [Requests -> Fetches \cup {E!Idle}]
      BY <3>3, <3>4 DEF TokensKept
    <3>6. \A n \in 1..issued : n \in 1..issued' /\ n # issued + 1
      BY <3>1
    <3>7. \A o \in Requests :
             fetch'[o].at = "asking" /\ fetch'[o].list \in TwitchLists
               => fetch'[o].token \in 1..issued'
      BY <3>2, <3>3, <3>4, <3>6 DEF TokensKept
    <3>8. refused' \subseteq 1..issued' /\ token' \notin refused'
      BY <2>6, <3>1, <3>6 DEF E!GetToken, TokensKept
    <3>9. issued' \in 0..MaxToken /\ token' \in 1..issued' \cup {NoToken}
      BY <3>1, <3>2
    <3> QED
      BY <2>6, <3>5, <3>7, <3>8, <3>9 DEF E!GetToken, TokensKept
  <2>7. ASSUME NEW k \in Lists, E!Expire(k)
        PROVE  TokensKept'
    <3>1. emotes[k] \in Entries
      BY <2>7 DEF E!Expire, E!Fresh, TokensKept
    <3>2. [emotes[k] EXCEPT !.fresh = FALSE] \in Entries
      BY <3>1 DEF Entries
    <3>3. emotes' \in [Lists -> Entries \cup {NoEntry}]
      BY <2>7, <3>2 DEF E!Expire, TokensKept
    <3> QED
      BY <2>7, <3>3 DEF E!Expire, TokensKept
  <2>8. ASSUME NEW k \in Lists, E!Change(k)
        PROVE  TokensKept'
    <3>1. version' \in [Lists -> 1..MaxVersion]
      BY <2>8 DEF E!Change, TokensKept
    <3> QED
      BY <2>8, <3>1 DEF E!Change, TokensKept
  <2>9. CASE E!TokenExpires
    <3>1. NoToken \notin refused
      <4>1. 1..issued \subseteq 1..MaxToken
        BY DEF TokensKept
      <4> QED
        BY <4>1 DEF TokensKept
    <3> QED
      BY <2>9, <3>1 DEF E!TokenExpires, TokensKept
  <2>10. CASE UNCHANGED E!vars
    BY <2>10 DEF E!vars, TokensKept
  <2> QED
    BY <2>1, <2>2, <2>3, <2>4, <2>5, <2>6, <2>7, <2>8, <2>9, <2>10 DEF E!Next
<1> QED
  BY <1>1, <1>2, PTL DEF E!Spec

\* Every variable of EmoteLists keeps its type.
THEOREM EmotesTypeCorrect == E!Spec => []E!TypeOK
<1>1. TokensKept => E!TypeOK
  <2> SUFFICES ASSUME TokensKept PROVE E!TypeOK
    OBVIOUS
  <2>1. 1..issued \subseteq 1..MaxToken
    BY EmotesAssumption DEF TokensKept
  <2> QED
    BY <2>1 DEF TokensKept, E!TypeOK, Entries, Fetches
<1> QED
  BY <1>1, TokensInvariant, PTL

\* A token that Twitch has refused is not used for the next request, whichever
\* requests refuse and renew it at the same time.
THEOREM RefusedTokensDropped == E!Spec => []E!RefusedNotKept
<1>1. TokensKept => E!RefusedNotKept
  BY DEF TokensKept, E!RefusedNotKept
<1> QED
  BY <1>1, TokensInvariant, PTL

\* The version of list k in a cache c.
VersionIn(c, k) == IF c[k] = NoEntry THEN 0 ELSE c[k].version

\* A request that is not overtaken still knows the version that is cached; nobody
\* knows a later one than the provider's.
VersionsKnown ==
    /\ \A k \in Lists : VersionIn(emotes, k) <= version[k]
    /\ \A r \in Requests : fetch[r].at # "idle" =>
          /\ fetch[r].previous <= version[fetch[r].list]
          /\ r \notin overtaken => fetch[r].previous = VersionIn(emotes, fetch[r].list)

\* Versions are numbers, those of the provider positive.
LEMMA VersionIsNumber ==
    ASSUME TokensKept, NEW k \in Lists
    PROVE  VersionIn(emotes, k) \in 0..MaxVersion /\ version[k] \in 1..MaxVersion
BY EmotesAssumption DEF VersionIn, TokensKept, Entries

\* Storing a list that is not newer than the provider's keeps what is known of versions.
LEMMA StoreKeepsVersions ==
    ASSUME TokensKept, VersionsKnown, NEW r \in Requests, fetch[r].at # "idle",
           NEW v \in 0..MaxVersion, v <= version[fetch[r].list], E!Store(r, v),
           version' = version
    PROVE  VersionsKnown'
<1>1. \A k \in Lists :
         VersionIn(emotes', k) = IF k = fetch[r].list THEN v ELSE VersionIn(emotes, k)
  <2>1. [version |-> v, fresh |-> TRUE] # NoEntry
    <3>1. [version |-> v, fresh |-> TRUE] \in Entries
      BY DEF Entries
    <3> QED
      BY <3>1, EmotesAssumption DEF Entries
  <2>2. \A k \in Lists : emotes'[k] = IF k = fetch[r].list
                                      THEN [version |-> v, fresh |-> TRUE]
                                      ELSE emotes[k]
    BY StoreKeeps
  <2> QED
    BY <2>1, <2>2 DEF VersionIn
<1>2. \A k \in Lists : VersionIn(emotes', k) <= version'[k]
  BY <1>1 DEF VersionsKnown
<1>3. ASSUME NEW o \in Requests, fetch'[o].at # "idle"
      PROVE  /\ fetch'[o].previous <= version'[fetch'[o].list]
             /\ o \notin overtaken' => fetch'[o].previous = VersionIn(emotes', fetch'[o].list)
  <2>1. o # r /\ fetch'[o] = fetch[o]
    <3>1. fetch'[o] = IF o = r THEN E!Idle ELSE fetch[o]
      BY StoreKeeps
    <3> QED
      BY <1>3, <3>1 DEF E!Idle
  <2>2. fetch[o].list \in Lists
    BY <1>3, <2>1 DEF TokensKept, Fetches, E!Idle
  <2>3. o \notin overtaken' => o \notin overtaken /\ fetch[o].list # fetch[r].list
    BY StoreKeeps
  <2>4. fetch[o].previous <= version[fetch[o].list]
    BY <1>3, <2>1 DEF VersionsKnown
  <2>5. o \notin overtaken => fetch[o].previous = VersionIn(emotes, fetch[o].list)
    BY <1>3, <2>1 DEF VersionsKnown
  <2>6. fetch[o].list # fetch[r].list => VersionIn(emotes', fetch[o].list) = VersionIn(emotes, fetch[o].list)
    BY <1>1, <2>2
  <2>7. VersionIn(emotes', fetch'[o].list) = VersionIn(emotes', fetch[o].list)
    BY <2>1
  <2> QED
    BY <2>1, <2>3, <2>4, <2>5, <2>6, <2>7
<1> QED
  BY <1>2, <1>3 DEF VersionsKnown

\* Who is not overtaken knows what is cached, in every state.
THEOREM VersionsInvariant == E!Spec => []VersionsKnown
<1> USE EmotesAssumption
<1>1. E!Init => VersionsKnown
  <2> SUFFICES ASSUME E!Init PROVE VersionsKnown
    OBVIOUS
  <2>1. \A r \in Requests : fetch[r].at = "idle"
    BY DEF E!Init, E!Idle
  <2>2. \A k \in Lists : VersionIn(emotes, k) = 0 /\ version[k] = 1
    BY DEF E!Init, VersionIn
  <2> QED
    BY <2>1, <2>2 DEF VersionsKnown
<1>2. TokensKept /\ VersionsKnown /\ [E!Next]_E!vars => VersionsKnown'
  <2> SUFFICES ASSUME TokensKept, VersionsKnown, [E!Next]_E!vars
               PROVE  VersionsKnown'
    OBVIOUS
  <2>0. \A r \in Requests : fetch[r].at # "idle" => fetch[r] \in Fetches
    BY DEF TokensKept, E!Idle
  <2>1. ASSUME NEW r \in Requests, NEW k \in Lists, E!LookUp(r, k)
        PROVE  VersionsKnown'
    <3>1. /\ UNCHANGED <<emotes, version>> /\ overtaken' = overtaken \ {r}
          /\ fetch'[r].list = k /\ fetch'[r].previous = VersionIn(emotes, k)
          /\ \A o \in Requests \ {r} : fetch'[o] = fetch[o]
      BY <2>1 DEF E!LookUp, VersionIn, TokensKept
    <3>2. \A l : VersionIn(emotes', l) = VersionIn(emotes, l)
      BY <3>1 DEF VersionIn
    <3>3. VersionIn(emotes, k) <= version[k]
      BY DEF VersionsKnown
    <3>4. ASSUME NEW o \in Requests, fetch'[o].at # "idle"
          PROVE  /\ fetch'[o].previous <= version'[fetch'[o].list]
                 /\ o \notin overtaken' => fetch'[o].previous = VersionIn(emotes', fetch'[o].list)
      <4>1. CASE o = r
        BY <3>1, <3>3, <4>1 DEF VersionIn
      <4>2. CASE o # r
        <5>1. fetch'[o] = fetch[o] /\ (o \notin overtaken' => o \notin overtaken)
          BY <3>1, <4>2
        <5>2. fetch[o].at # "idle"
          BY <3>4, <5>1
        <5>3. /\ fetch[o].previous <= version[fetch[o].list]
              /\ o \notin overtaken => fetch[o].previous = VersionIn(emotes, fetch[o].list)
          BY <5>2 DEF VersionsKnown
        <5> QED
          BY <3>1, <5>1, <5>3 DEF VersionIn
      <4> QED
        BY <4>1, <4>2
    <3> QED
      BY <3>1, <3>2, <3>4 DEF VersionsKnown
  <2>2. ASSUME NEW r \in Requests, E!Succeed(r)
        PROVE  VersionsKnown'
    <3>1. fetch[r].at # "idle" /\ fetch[r].list \in Lists
      BY <2>0, <2>2 DEF E!Succeed, Fetches
    <3>2. /\ version[fetch[r].list] \in 0..MaxVersion
          /\ version[fetch[r].list] <= version[fetch[r].list]
      BY <3>1, VersionIsNumber
    <3> QED
      BY <2>2, <3>1, <3>2, StoreKeepsVersions DEF E!Succeed
  <2>3. ASSUME NEW r \in Requests, E!Fail(r) \/ E!GetTokenFails(r) \/ E!Refused(r)
        PROVE  VersionsKnown'
    <3>1. fetch[r].at # "idle" /\ fetch[r].previous \in 0..MaxVersion
      BY <2>0, <2>3 DEF E!Fail, E!GetTokenFails, E!Refused, Fetches
    <3>2. fetch[r].previous <= version[fetch[r].list]
      BY <3>1 DEF VersionsKnown
    <3>3. E!Store(r, fetch[r].previous) /\ version' = version
      BY <2>3 DEF E!Fail, E!GetTokenFails, E!Refused
    <3> QED
      BY <3>1, <3>2, <3>3, StoreKeepsVersions
  <2>4. ASSUME NEW r \in Requests, E!UseToken(r) \/ E!GetToken(r)
        PROVE  VersionsKnown'
    <3>1. /\ UNCHANGED <<emotes, version, overtaken>>
          /\ fetch[r].at # "idle"
      BY <2>4 DEF E!UseToken, E!GetToken
    <3>2. /\ fetch'[r].list = fetch[r].list /\ fetch'[r].previous = fetch[r].previous
          /\ \A o \in Requests \ {r} : fetch'[o] = fetch[o]
      <4>1. fetch[r] \in Fetches
        BY <2>0, <3>1
      <4> QED
        BY <2>4, <4>1 DEF E!UseToken, E!GetToken, TokensKept, Fetches
    <3>3. \A l : VersionIn(emotes', l) = VersionIn(emotes, l)
      BY <3>1 DEF VersionIn
    <3>4. ASSUME NEW o \in Requests, fetch'[o].at # "idle"
          PROVE  /\ fetch[o].at # "idle" /\ fetch'[o].list = fetch[o].list
                 /\ fetch'[o].previous = fetch[o].previous
      BY <3>1, <3>2, <3>4
    <3> QED
      BY <3>1, <3>3, <3>4 DEF VersionsKnown, VersionIn
  <2>5. ASSUME NEW k \in Lists, E!Expire(k)
        PROVE  VersionsKnown'
    <3>1. /\ UNCHANGED <<fetch, version, overtaken>>
          /\ emotes' = [emotes EXCEPT ![k].fresh = FALSE]
          /\ emotes[k] \in Entries
      BY <2>5 DEF E!Expire, E!Fresh, TokensKept
    <3>2. [emotes[k] EXCEPT !.fresh = FALSE] \in Entries
          /\ [emotes[k] EXCEPT !.fresh = FALSE].version = emotes[k].version
      BY <3>1 DEF Entries
    <3>3. NoEntry \notin Entries
      BY DEF Entries
    <3>4. \A l \in Lists : VersionIn(emotes', l) = VersionIn(emotes, l)
      BY <3>1, <3>2, <3>3 DEF VersionIn, TokensKept
    <3>5. \A o \in Requests : fetch[o].at # "idle" => fetch[o].list \in Lists
      BY <2>0 DEF Fetches
    <3> QED
      BY <3>1, <3>4, <3>5 DEF VersionsKnown
  <2>6. ASSUME NEW k \in Lists, E!Change(k)
        PROVE  VersionsKnown'
    <3>1. /\ UNCHANGED <<emotes, fetch, overtaken>>
          /\ version' = [version EXCEPT ![k] = @ + 1]
      BY <2>6 DEF E!Change
    <3>2. \A l \in Lists : version[l] <= version'[l] /\ version'[l] \in Nat
                           /\ version[l] \in Nat
      BY <3>1 DEF TokensKept
    <3>3. \A l : VersionIn(emotes', l) = VersionIn(emotes, l)
      BY <3>1 DEF VersionIn
    <3>4. ASSUME NEW o \in Requests, fetch[o].at # "idle"
          PROVE  fetch[o].list \in Lists /\ fetch[o].previous \in Nat
      BY <2>0, <3>4 DEF Fetches
    <3>5. \A l \in Lists : VersionIn(emotes, l) \in Nat
      BY VersionIsNumber
    <3>6. \A l \in Lists : VersionIn(emotes', l) <= version'[l]
      BY <3>2, <3>3, <3>5 DEF VersionsKnown
    <3>7. ASSUME NEW o \in Requests, fetch[o].at # "idle"
          PROVE  fetch[o].previous <= version'[fetch[o].list]
      <4>1. fetch[o].previous <= version[fetch[o].list]
        BY <3>7 DEF VersionsKnown
      <4> QED
        BY <3>2, <3>4, <3>7, <4>1
    <3> QED
      BY <3>1, <3>3, <3>6, <3>7 DEF VersionsKnown, VersionIn
  <2>7. CASE UNCHANGED <<emotes, fetch, version, overtaken>>
    BY <2>7 DEF VersionsKnown, VersionIn
  <2> QED
    BY <2>1, <2>2, <2>3, <2>4, <2>5, <2>6, <2>7 DEF E!Next, E!TokenExpires, E!vars
<1> QED
  BY <1>1, <1>2, TokensInvariant, PTL DEF E!Spec

\* A fetch that fails leaves no list older than it was, unless another request has
\* stored the list since.
THEOREM EmoteListsKept == E!Spec => E!ListsKept
<1> USE EmotesAssumption
<1>1. TokensKept /\ VersionsKnown /\ [E!Next]_E!vars
      => [\A k \in Lists :
             emotes'[k] # NoEntry => E!Version(k) <= emotes'[k].version \/
                 \E r \in overtaken : fetch[r].list = k /\ fetch'[r] = E!Idle]_E!vars
  <2> SUFFICES ASSUME TokensKept, VersionsKnown, E!Next, NEW k \in Lists,
                      emotes'[k] # NoEntry
               PROVE  VersionIn(emotes, k) <= emotes'[k].version \/
                          \E r \in overtaken : fetch[r].list = k /\ fetch'[r] = E!Idle
    BY DEF E!vars, E!Version, VersionIn
  <2>0. \A r \in Requests : fetch[r].at # "idle" => fetch[r] \in Fetches
    BY DEF TokensKept, E!Idle
  <2>1. VersionIn(emotes, k) \in Nat /\ version[k] \in Nat /\ VersionIn(emotes, k) <= version[k]
    BY VersionIsNumber DEF VersionsKnown
  <2>2. ASSUME NEW r \in Requests, NEW v \in 0..MaxVersion, fetch[r].at # "idle",
               E!Store(r, v),
               r \in overtaken \/ v = VersionIn(emotes, fetch[r].list) \/ v = version[fetch[r].list]
        PROVE  VersionIn(emotes, k) <= emotes'[k].version \/
                   \E o \in overtaken : fetch[o].list = k /\ fetch'[o] = E!Idle
    <3>0. \A j \in Lists : emotes'[j] = IF j = fetch[r].list
                                         THEN [version |-> v, fresh |-> TRUE]
                                         ELSE emotes[j]
      BY <2>2, StoreKeeps
    <3>1. CASE fetch[r].list = k
      <4>1. emotes'[k].version = v /\ fetch'[r] = E!Idle
        <5>1. k \in Lists /\ emotes'[k] = [version |-> v, fresh |-> TRUE]
          BY <3>0, <3>1
        <5> QED
          BY <2>2, <5>1, StoreKeeps
      <4> QED
        BY <2>1, <2>2, <3>1, <4>1
    <3>2. CASE fetch[r].list # k
      <4>1. emotes'[k] = emotes[k]
        BY <3>0, <3>2
      <4> QED
        BY <2>1, <4>1 DEF VersionIn
    <3> QED
      BY <3>1, <3>2
  <2>3. ASSUME NEW r \in Requests, E!Succeed(r)
        PROVE  VersionIn(emotes, k) <= emotes'[k].version \/
                   \E o \in overtaken : fetch[o].list = k /\ fetch'[o] = E!Idle
    <3>1. fetch[r].at # "idle" /\ fetch[r].list \in Lists
      BY <2>0, <2>3 DEF E!Succeed, Fetches
    <3>2. version[fetch[r].list] \in 0..MaxVersion
      BY <3>1, VersionIsNumber
    <3> QED
      BY <2>2, <2>3, <3>1, <3>2 DEF E!Succeed
  <2>4. ASSUME NEW r \in Requests, E!Fail(r) \/ E!GetTokenFails(r) \/ E!Refused(r)
        PROVE  VersionIn(emotes, k) <= emotes'[k].version \/
                   \E o \in overtaken : fetch[o].list = k /\ fetch'[o] = E!Idle
    <3>1. fetch[r].at # "idle" /\ fetch[r].previous \in 0..MaxVersion
      BY <2>0, <2>4 DEF E!Fail, E!GetTokenFails, E!Refused, Fetches
    <3>2. r \in overtaken \/ fetch[r].previous = VersionIn(emotes, fetch[r].list)
      BY <3>1 DEF VersionsKnown
    <3>3. E!Store(r, fetch[r].previous)
      BY <2>4 DEF E!Fail, E!GetTokenFails, E!Refused
    <3> QED
      BY <2>2, <3>1, <3>2, <3>3
  <2>5. ASSUME NEW l \in Lists, E!Expire(l)
        PROVE  VersionIn(emotes, k) <= emotes'[k].version
    <3>1. emotes[l] \in Entries /\ emotes' = [emotes EXCEPT ![l].fresh = FALSE]
      BY <2>5 DEF E!Expire, E!Fresh, TokensKept
    <3>2. [emotes[l] EXCEPT !.fresh = FALSE].version = emotes[l].version
      BY <3>1 DEF Entries
    <3>3. CASE k = l
      BY <2>1, <2>5, <3>1, <3>2, <3>3 DEF VersionIn, E!Expire, E!Fresh, TokensKept
    <3>4. CASE k # l
      BY <2>1, <3>1, <3>4 DEF VersionIn, TokensKept
    <3> QED
      BY <3>3, <3>4
  <2>6. CASE emotes' = emotes
    BY <2>1, <2>6 DEF VersionIn
  <2> QED
    BY <2>3, <2>4, <2>5, <2>6
       DEF E!Next, E!LookUp, E!UseToken, E!GetToken, E!Change, E!TokenExpires
<1> QED
  BY <1>1, TokensInvariant, VersionsInvariant, PTL DEF E!Spec, E!ListsKept

\* What EmoteLists promises about lists and tokens.
THEOREM EmotesAreKept == E!Spec => E!EmotesKept
BY EmotesTypeCorrect, RefusedTokensDropped, EmoteListsKept, PTL DEF E!EmotesKept

-----------------------------------------------------------------------------
(* The rate limit. *)

\* The smaller of two numbers.
LEMMA MinOfTwo == \A a, b \in Nat : L!Min({a, b}) = IF a <= b THEN a ELSE b
BY DEF L!Min

\* What is bounded by w in intervals is bounded by the intervals of w.
LEMMA WholeIntervals ==
    ASSUME NEW w \in Nat, NEW n \in Int, Interval * n <= w
    PROVE  n <= w \div Interval
BY LimiterAssumption

\* The tokens a client has, which are all of them when it is forgotten.
Tokens(c) == L!Entry(c).tokens

Buckets == [tokens : 0..L!Full, unseen : 0..Forget + 1]

\* Who has not been seen for a while has earned that much since, and what was granted
\* within w was paid for with a full bucket and what was earned within w.
PaidFor ==
    /\ limiters \in [Clients -> Buckets \cup {NoLimiter}]
    /\ granted \in [Clients -> [0..Window -> Nat]]
    /\ \A c \in Clients : LET entry == L!Entry(c) IN
          entry.tokens >= entry.unseen \/ entry.tokens = L!Full
    /\ \A c \in Clients, w \in 0..Window :
          Tokens(c) + Interval * granted[c][w] <= L!Full + w

\* What allow() looks up is a bucket, which holds no more than the burst.
LEMMA EntryIsBucket ==
    ASSUME PaidFor, NEW c \in Clients
    PROVE  L!Entry(c) \in Buckets /\ L!Full \in Nat /\ Tokens(c) \in 0..L!Full
<1>1. L!Full \in Nat
  BY LimiterAssumption DEF L!Full
<1>2. L!Entry(c) \in Buckets
  BY <1>1, LimiterAssumption DEF L!Entry, Buckets, PaidFor
<1> QED
  BY <1>1, <1>2 DEF Tokens, Buckets

\* Everything granted is paid for in every state, whichever clients are forgotten.
THEOREM PaidForInvariant == L!Spec => []PaidFor
<1> USE LimiterAssumption
<1>1. L!Init => PaidFor
  <2> SUFFICES ASSUME L!Init PROVE PaidFor
    OBVIOUS
  <2>1. L!Full \in Nat
    BY DEF L!Full
  <2>2. \A c \in Clients : L!Entry(c) = [tokens |-> L!Full, unseen |-> 0]
    BY DEF L!Init, L!Entry
  <2>3. granted \in [Clients -> [0..Window -> Nat]]
    BY DEF L!Init
  <2>4. limiters \in [Clients -> Buckets \cup {NoLimiter}]
    BY DEF L!Init
  <2>5. ASSUME NEW c \in Clients, NEW w \in 0..Window
        PROVE  Tokens(c) + Interval * granted[c][w] <= L!Full + w
    <3>1. granted[c][w] = 0 /\ Tokens(c) = L!Full
      BY <2>2 DEF L!Init, Tokens
    <3>2. Interval * granted[c][w] = 0
      BY <3>1
    <3> QED
      BY <2>1, <3>1, <3>2
  <2> QED
    BY <2>2, <2>3, <2>4, <2>5 DEF PaidFor
<1>2. PaidFor /\ [L!Next]_L!vars => PaidFor'
  <2> SUFFICES ASSUME PaidFor, [L!Next]_L!vars
               PROVE  PaidFor'
    OBVIOUS
  <2>0. L!Full \in Nat /\ L!Full <= Forget + 1
    BY DEF L!Full
  <2>1. ASSUME NEW c \in Clients, L!Allow(c)
        PROVE  PaidFor'
    <3> DEFINE entry == L!Entry(c)
               ok    == entry.tokens >= Interval
               new   == [tokens |-> IF ok THEN entry.tokens - Interval ELSE entry.tokens,
                         unseen |-> 0]
    <3>1. entry \in Buckets
      BY EntryIsBucket
    <3>2. /\ entry.tokens \in 0..L!Full
          /\ new.tokens \in 0..L!Full /\ new.unseen = 0
      BY <2>0, <3>1 DEF Buckets
    <3>3. new \in Buckets /\ new # NoLimiter
      BY <3>2 DEF Buckets, L!Full
    <3>4. limiters' = [limiters EXCEPT ![c] = new]
      BY <2>1 DEF L!Allow
    <3>5. granted' = IF ok THEN [granted EXCEPT ![c] = [w \in 0..Window |-> granted[c][w] + 1]]
                     ELSE granted
      BY <2>1 DEF L!Allow, PaidFor
    <3>6. ok => new.tokens + Interval = entry.tokens
      BY <3>2
    <3>7. ~ok => new.tokens = entry.tokens
      OBVIOUS
    <3> HIDE DEF entry, ok, new
    <3>8. limiters' \in [Clients -> Buckets \cup {NoLimiter}]
      BY <3>3, <3>4 DEF PaidFor
    <3>9. \A d \in Clients : L!Entry(d)' = IF d = c THEN new ELSE L!Entry(d)
      BY <3>3, <3>4 DEF L!Entry, PaidFor
    <3>10. granted' \in [Clients -> [0..Window -> Nat]]
      <4>1. [w \in 0..Window |-> granted[c][w] + 1] \in [0..Window -> Nat]
        BY DEF PaidFor
      <4> QED
        BY <3>5, <4>1 DEF PaidFor
    <3>11. \A d \in Clients : LET e == L!Entry(d)' IN
              e.tokens >= e.unseen \/ e.tokens = L!Full
      <4>1. new.tokens >= new.unseen
        BY <3>2
      <4> QED
        BY <3>9, <4>1 DEF PaidFor
    <3>12. ASSUME NEW d \in Clients, NEW w \in 0..Window
           PROVE  Tokens(d)' + Interval * granted'[d][w] <= L!Full + w
      <4>1. Tokens(d) + Interval * granted[d][w] <= L!Full + w
        BY DEF PaidFor
      <4>2. CASE d # c \/ ~ok
        <5>1. granted'[d][w] = granted[d][w]
          BY <3>5, <4>2 DEF PaidFor
        <5>2. Tokens(d)' = Tokens(d)
          BY <3>7, <3>9, <4>2 DEF Tokens, entry
        <5> QED
          BY <4>1, <5>1, <5>2
      <4>3. CASE d = c /\ ok
        <5>1. granted'[c][w] = granted[c][w] + 1 /\ granted[c][w] \in Nat
          BY <3>5, <4>3 DEF PaidFor
        <5>2. Tokens(c)' + Interval = Tokens(c) /\ Tokens(c)' \in Nat /\ Tokens(c) \in Nat
          BY <3>2, <3>6, <3>9, <4>3 DEF Tokens, entry
        <5>3. Interval * (granted[c][w] + 1) = Interval * granted[c][w] + Interval
          BY <5>1
        <5>4. Interval * granted[c][w] \in Nat
          BY <5>1
        <5> QED
          BY <2>0, <4>1, <4>3, <5>1, <5>2, <5>3, <5>4
      <4> QED
        BY <4>2, <4>3
    <3>13. \A d \in Clients, w \in 0..Window :
              Tokens(d)' + Interval * granted'[d][w] <= L!Full + w
      BY <3>12
    <3> QED
      BY <3>8, <3>10, <3>11, <3>13 DEF PaidFor, L!Full
  <2>2. ASSUME NEW c \in Clients, L!ForgetClient(c)
        PROVE  PaidFor'
    <3>1. /\ limiters[c] # NoLimiter /\ limiters[c].unseen > Forget
          /\ limiters' = [limiters EXCEPT ![c] = NoLimiter] /\ granted' = granted
      BY <2>2 DEF L!ForgetClient
    <3>2. limiters[c] \in Buckets /\ L!Entry(c) = limiters[c]
      BY <3>1 DEF PaidFor, L!Entry
    <3>3. Tokens(c) = L!Full
      <4>1. /\ limiters[c].unseen \in Nat /\ limiters[c].tokens \in 0..L!Full
            /\ limiters[c].tokens >= limiters[c].unseen \/ limiters[c].tokens = L!Full
        <5>1. limiters[c].unseen \in Nat /\ limiters[c].tokens \in 0..L!Full
          BY <3>2 DEF Buckets
        <5>2. L!Entry(c).tokens >= L!Entry(c).unseen \/ L!Entry(c).tokens = L!Full
          BY DEF PaidFor
        <5> QED
          BY <3>2, <5>1, <5>2
      <4> QED
        BY <2>0, <3>1, <3>2, <4>1 DEF Tokens
    <3>4. L!Entry(c)' = [tokens |-> L!Full, unseen |-> 0]
      BY <3>1 DEF L!Entry, PaidFor, L!Full
    <3>5. \A d \in Clients : d # c => L!Entry(d)' = L!Entry(d)
      BY <3>1 DEF L!Entry, PaidFor, L!Full
    <3>6. \A d \in Clients : Tokens(d)' = Tokens(d)
      BY <3>3, <3>4, <3>5 DEF Tokens
    <3>7. limiters' \in [Clients -> Buckets \cup {NoLimiter}]
      BY <3>1 DEF PaidFor
    <3>8. \A d \in Clients : LET e == L!Entry(d)' IN
              e.tokens >= e.unseen \/ e.tokens = L!Full
      <4>1. L!Entry(c)'.tokens = L!Full
        BY <3>4
      <4>2. \A d \in Clients :
               L!Entry(d).tokens >= L!Entry(d).unseen \/ L!Entry(d).tokens = L!Full
        BY DEF PaidFor
      <4> QED
        BY <3>5, <4>1, <4>2
    <3> QED
      BY <3>1, <3>6, <3>7, <3>8 DEF PaidFor, L!Full
  <2>3. CASE L!Tick
    <3> DEFINE older(c) ==
                  [tokens |-> L!Min({limiters[c].tokens + 1, L!Full}),
                   unseen |-> L!Min({limiters[c].unseen + 1, Forget + 1})]
    <3>1. /\ limiters' = [c \in Clients |->
                IF limiters[c] = NoLimiter THEN NoLimiter ELSE older(c)]
          /\ granted' = [c \in Clients |->
                [w \in 0..Window |-> IF w = 0 THEN 0 ELSE granted[c][w - 1]]]
      BY <2>3 DEF L!Tick
    <3>2. ASSUME NEW c \in Clients, limiters[c] # NoLimiter
          PROVE  /\ older(c) \in Buckets /\ older(c) # NoLimiter
                 /\ older(c).tokens >= older(c).unseen \/ older(c).tokens = L!Full
                 /\ older(c).tokens <= Tokens(c) + 1
                 /\ L!Entry(c) = limiters[c] /\ limiters[c] \in Buckets
      <4>1. /\ limiters[c] \in Buckets /\ L!Entry(c) = limiters[c]
            /\ Tokens(c) = limiters[c].tokens
        BY <3>2 DEF PaidFor, L!Entry, Tokens
      <4>2. /\ limiters[c].unseen \in 0..Forget + 1 /\ limiters[c].tokens \in 0..L!Full
            /\ limiters[c].tokens >= limiters[c].unseen \/ limiters[c].tokens = L!Full
        BY <4>1 DEF PaidFor, Buckets
      <4>3. /\ older(c).tokens = IF limiters[c].tokens + 1 <= L!Full
                                 THEN limiters[c].tokens + 1 ELSE L!Full
            /\ older(c).unseen = IF limiters[c].unseen + 1 <= Forget + 1
                                 THEN limiters[c].unseen + 1 ELSE Forget + 1
        BY <2>0, <4>2, MinOfTwo
      <4>4. older(c).tokens \in 0..L!Full /\ older(c).unseen \in 0..Forget + 1
        BY <2>0, <4>2, <4>3
      <4>5. older(c) \in Buckets /\ older(c) # NoLimiter
        BY <4>4 DEF Buckets, L!Full
      <4>6. /\ older(c).tokens >= older(c).unseen \/ older(c).tokens = L!Full
            /\ older(c).tokens <= Tokens(c) + 1
        BY <2>0, <4>1, <4>2, <4>3
      <4> QED
        BY <4>1, <4>5, <4>6
    <3> HIDE DEF older
    <3>3. limiters' \in [Clients -> Buckets \cup {NoLimiter}]
      BY <3>1, <3>2
    <3>4. granted' \in [Clients -> [0..Window -> Nat]]
      <4>1. \A c \in Clients : \A w \in 0..Window :
               (IF w = 0 THEN 0 ELSE granted[c][w - 1]) \in Nat
        BY DEF PaidFor
      <4>2. \A c \in Clients :
               [w \in 0..Window |-> IF w = 0 THEN 0 ELSE granted[c][w - 1]]
                 \in [0..Window -> Nat]
        BY <4>1
      <4> QED
        BY <3>1, <4>2
    <3>5. ASSUME NEW c \in Clients
          PROVE  L!Entry(c)' = IF limiters[c] = NoLimiter
                               THEN [tokens |-> L!Full, unseen |-> 0] ELSE older(c)
      BY <3>1, <3>2 DEF L!Entry, L!Full
    <3>6. \A c \in Clients : LET e == L!Entry(c)' IN
             e.tokens >= e.unseen \/ e.tokens = L!Full
      BY <3>2, <3>5
    <3>7. \A c \in Clients : /\ Tokens(c) \in 0..L!Full /\ Tokens(c)' \in 0..L!Full
                             /\ Tokens(c)' <= Tokens(c) + 1
      <4>1. ASSUME NEW c \in Clients, limiters[c] = NoLimiter
            PROVE  Tokens(c) = L!Full /\ Tokens(c)' = L!Full
        BY <3>5, <4>1 DEF Tokens, L!Entry
      <4>2. ASSUME NEW c \in Clients, limiters[c] # NoLimiter
            PROVE  /\ Tokens(c) \in 0..L!Full /\ Tokens(c)' \in 0..L!Full
                   /\ Tokens(c)' <= Tokens(c) + 1
        BY <3>2, <3>5, <4>2 DEF Tokens, Buckets
      <4> QED
        BY <2>0, <4>1, <4>2
    <3>8. ASSUME NEW c \in Clients, NEW w \in 0..Window
          PROVE  Tokens(c)' + Interval * granted'[c][w] <= L!Full + w
      <4>1. CASE w = 0
        <5>1. granted'[c][w] = 0
          BY <3>1, <4>1
        <5>2. Interval * granted'[c][w] = 0
          BY <5>1
        <5> QED
          BY <2>0, <3>7, <4>1, <5>2
      <4>2. CASE w # 0
        <5>1. w - 1 \in 0..Window /\ granted'[c][w] = granted[c][w - 1]
          BY <3>1, <4>2
        <5>2. Tokens(c) + Interval * granted[c][w - 1] <= L!Full + (w - 1)
          BY <5>1 DEF PaidFor
        <5>3. Interval * granted[c][w - 1] \in Nat
          BY <5>1 DEF PaidFor
        <5> QED
          BY <2>0, <3>7, <5>1, <5>2, <5>3
      <4> QED
        BY <4>1, <4>2
    <3>9. \A c \in Clients, w \in 0..Window :
             Tokens(c)' + Interval * granted'[c][w] <= L!Full + w
      BY <3>8
    <3> QED
      BY <3>3, <3>4, <3>6, <3>9 DEF PaidFor, L!Full
  <2>4. CASE UNCHANGED L!vars
    <3>1. limiters' = limiters /\ granted' = granted
      BY <2>4 DEF L!vars
    <3> QED
      BY <3>1 DEF PaidFor, Tokens, L!Entry
  <2> QED
    BY <2>1, <2>2, <2>3, <2>4 DEF L!Next
<1> QED
  BY <1>1, <1>2, PTL DEF L!Spec

\* Every variable of ClientLimiter keeps its type.
THEOREM LimiterTypeCorrect == L!Spec => []L!TypeOK
<1>1. PaidFor => L!TypeOK
  BY DEF PaidFor, L!TypeOK, Buckets
<1> QED
  BY <1>1, PaidForInvariant, PTL

\* In every window of time a client is granted a burst and one request for every
\* interval of it, however often it was forgotten.
THEOREM RateIsKept == L!Spec => []L!RateKept
<1>1. PaidFor => L!RateKept
  <2> SUFFICES ASSUME PaidFor, NEW c \in Clients, NEW w \in 0..Window
               PROVE  granted[c][w] <= Burst + w \div Interval
    BY DEF L!RateKept
  <2> DEFINE g == granted[c][w]
  <2>0. Tokens(c) \in Nat
    <3>1. L!Full \in Nat /\ Tokens(c) \in 0..L!Full
      BY EntryIsBucket
    <3> QED
      BY <3>1
  <2>1. /\ Tokens(c) + Interval * g <= L!Full + w
        /\ g \in Nat /\ Tokens(c) \in Nat /\ w \in Nat
    BY <2>0, LimiterAssumption DEF PaidFor
  <2> HIDE DEF g
  <2>2. Interval * (g - Burst) = Interval * g - Burst * Interval
    BY <2>1, LimiterAssumption
  <2>3. Interval * (g - Burst) <= w
    BY <2>1, <2>2, LimiterAssumption DEF L!Full
  <2>4. g - Burst <= w \div Interval
    BY <2>1, <2>3, WholeIntervals, LimiterAssumption
  <2>5. w \div Interval \in Int
    BY <2>1, LimiterAssumption
  <2> QED
    BY <2>1, <2>4, <2>5, LimiterAssumption DEF g
<1> QED
  BY <1>1, PaidForInvariant, PTL

-----------------------------------------------------------------------------
(* Published clips. *)

Deletions == [at : {"video", "metadata", "cache"}, clip : Clips, ok : BOOLEAN]
Listings == [at : {"idle", "reading"}, toRead : SUBSET Clips, clips : SUBSET Clips]

ClipShape ==
    /\ onS3 \in BOOLEAN
    /\ stored \subseteq Objects /\ partial \subseteq Objects
    /\ publisher \in [Clips -> Stages]
    /\ deleter \in [Deleters -> Deletions \cup {Idle}]
    /\ lister \in [Listers -> Listings]
    /\ cache = NoList \/ cache \in SUBSET Clips
    /\ asked \subseteq Clips /\ gone \subseteq Clips /\ unsure \subseteq Clips
    /\ behind \subseteq Listers
    /\ tainted \in BOOLEAN

\* Objects of two clips, or of two kinds, are not the same.
LEMMA ObjectsDiffer ==
    /\ \A c \in Clips : Video(c) \in Objects /\ Metadata(c) \in Objects
    /\ \A b, c : Video(b) # Metadata(c)
    /\ \A b, c : Video(b) = Video(c) => b = c
    /\ \A b, c : Metadata(b) = Metadata(c) => b = c
BY DEF Video, Metadata, Objects

\* What a deleter is doing.
LEMMA DeletionOf ==
    ASSUME ClipShape, NEW d \in Deleters, deleter[d].at \in {"video", "metadata", "cache"}
    PROVE  deleter[d] \in Deletions /\ deleter[d].clip \in Clips
BY DEF ClipShape, Deletions, Idle

\* The variables of ClipStore have these shapes in every state.
THEOREM ClipShapeKept == Spec => []ClipShape
<1>1. Init => ClipShape
  <2> SUFFICES ASSUME Init PROVE ClipShape
    OBVIOUS
  <2>1. lister \in [Listers -> Listings]
    BY DEF Init, Listings, NotListing
  <2> QED
    BY <2>1 DEF Init, ClipShape, Stages
<1>2. ClipShape /\ [Next]_vars => ClipShape'
  <2> SUFFICES ASSUME ClipShape, [Next]_vars
               PROVE  ClipShape'
    OBVIOUS
  <2>1. ASSUME NEW c \in Clips, Publish(c)
        PROVE  ClipShape'
    <3>1. publisher' \in [Clips -> Stages]
      BY <2>1 DEF Publish, ClipShape, Stages
    <3> QED
      BY <2>1, <3>1 DEF Publish, ClipShape
  <2>2. ASSUME NEW c \in Clips, CreateTemp(c)
        PROVE  ClipShape'
    BY <2>2, ObjectsDiffer DEF CreateTemp, Saving, ClipShape
  <2>3. ASSUME NEW c \in Clips, Save(c)
        PROVE  ClipShape'
    <3>1. publisher' \in [Clips -> Stages]
      BY <2>3 DEF Save, ClipShape, Stages
    <3>2. stored' \subseteq Objects /\ partial' \subseteq Objects
      BY <2>3, ObjectsDiffer DEF Save, Saving, ClipShape
    <3> QED
      BY <2>3, <3>1, <3>2 DEF Save, ClipShape
  <2>4. ASSUME NEW c \in Clips, SaveFails(c)
        PROVE  ClipShape'
    <3>1. publisher' \in [Clips -> Stages]
      BY <2>4 DEF SaveFails, ClipShape, Stages
    <3>2. stored' \subseteq Objects /\ partial' \subseteq Objects /\ unsure' \subseteq Clips
      BY <2>4, ObjectsDiffer DEF SaveFails, Saving, ClipShape
    <3> QED
      BY <2>4, <3>1, <3>2 DEF SaveFails, ClipShape
  <2>5. ASSUME NEW c \in Clips, ReturnClip(c)
        PROVE  ClipShape'
    <3>1. publisher' \in [Clips -> Stages]
      BY <2>5 DEF ReturnClip, ClipShape, Stages
    <3> QED
      BY <2>5, <3>1 DEF ReturnClip, Invalidate, ClipShape
  <2>6. ASSUME NEW l \in Listers, ListKeys(l)
        PROVE  ClipShape'
    <3>1. [at |-> "reading", toRead |-> First(MetadataKeys), clips |-> {}] \in Listings
      BY DEF Listings, First, MetadataKeys
    <3>2. lister' \in [Listers -> Listings]
      BY <2>6, <3>1 DEF ListKeys, ClipShape
    <3> QED
      BY <2>6, <3>2 DEF ListKeys, ClipShape
  <2>7. ASSUME NEW l \in Listers, NEW c \in Clips, ReadMetadata(l, c)
        PROVE  ClipShape'
    <3>1. PICK error \in BOOLEAN :
             LET read == ~error /\ Metadata(c) \in stored IN
             /\ lister' = [lister EXCEPT
                   ![l].toRead = @ \ {c},
                   ![l].clips = IF read THEN @ \cup {c} ELSE @]
             /\ behind' = IF error /\ Metadata(c) \in stored
                          THEN behind \cup {l} ELSE behind
      BY <2>7 DEF ReadMetadata
    <3>2. lister' \in [Listers -> Listings]
      <4>1. lister \in [Listers -> Listings] /\ lister[l] \in Listings
        BY DEF ClipShape
      <4>2. PICK to, cs :
              /\ lister' = [lister EXCEPT ![l].toRead = to, ![l].clips = cs]
              /\ to = lister[l].toRead \ {c}
              /\ cs = lister[l].clips \/ cs = lister[l].clips \cup {c}
        BY <3>1
      <4>3. to \in SUBSET Clips /\ cs \in SUBSET Clips
        BY <4>1, <4>2 DEF Listings
      <4> QED
        BY <4>1, <4>2, <4>3 DEF Listings
    <3>3. behind' \subseteq Listers
      BY <3>1 DEF ClipShape
    <3> QED
      BY <2>7, <3>2, <3>3 DEF ReadMetadata, ClipShape
  <2>8. ASSUME NEW l \in Listers, StoreList(l)
        PROVE  ClipShape'
    <3>1. lister[l].clips \in SUBSET Clips /\ NotListing \in Listings
      BY DEF ClipShape, Listings, NotListing
    <3>2. lister' \in [Listers -> Listings]
      BY <2>8, <3>1 DEF StoreList, ClipShape
    <3>3. tainted' \in BOOLEAN
      BY <2>8 DEF StoreList
    <3> QED
      BY <2>8, <3>1, <3>2, <3>3 DEF StoreList, ClipShape
  <2>9. ASSUME NEW d \in Deleters, NEW c \in Clips, Delete(d, c)
        PROVE  ClipShape'
    <3>1. [at |-> "video", clip |-> c, ok |-> TRUE] \in Deletions
      BY DEF Deletions
    <3>2. deleter' \in [Deleters -> Deletions \cup {Idle}]
      BY <2>9, <3>1 DEF Delete, ClipShape
    <3> QED
      BY <2>9, <3>2 DEF Delete, ClipShape
  <2>10. ASSUME NEW d \in Deleters, DeleteObject(d)
         PROVE  ClipShape'
    <3>1. PICK error \in BOOLEAN :
             /\ stored' = IF error THEN stored ELSE stored \ {Deleting(d)}
             /\ deleter' = [deleter EXCEPT
                   ![d].at = IF @ = "video" THEN "metadata" ELSE "cache",
                   ![d].ok = @ /\ ~error /\ (onS3 \/ Deleting(d) \in stored)]
      BY <2>10 DEF DeleteObject
    <3>2. deleter[d] \in Deletions
      BY <2>10, DeletionOf DEF DeleteObject
    <3>3. deleter' \in [Deleters -> Deletions \cup {Idle}]
      <4> DEFINE next == [deleter[d] EXCEPT
                   !.at = IF @ = "video" THEN "metadata" ELSE "cache",
                   !.ok = @ /\ ~error /\ (onS3 \/ Deleting(d) \in stored)]
      <4>1. next \in Deletions
        BY <3>2 DEF Deletions
      <4>2. deleter' = [deleter EXCEPT ![d] = next]
        BY <3>1
      <4> HIDE DEF next
      <4> QED
        BY <4>1, <4>2 DEF ClipShape
    <3>4. stored' \subseteq Objects
      BY <3>1 DEF ClipShape
    <3> QED
      BY <2>10, <3>3, <3>4 DEF DeleteObject, ClipShape
  <2>11. ASSUME NEW d \in Deleters, ReturnDeleted(d)
         PROVE  ClipShape'
    <3>1. deleter[d].clip \in Clips
      BY <2>11, DeletionOf DEF ReturnDeleted
    <3>2. deleter' \in [Deleters -> Deletions \cup {Idle}]
      BY <2>11 DEF ReturnDeleted, ClipShape
    <3> QED
      BY <2>11, <3>1, <3>2 DEF ReturnDeleted, Invalidate, ClipShape
  <2>12. CASE CacheExpires
    BY <2>12 DEF CacheExpires, ClipShape
  <2>13. CASE Restart
    <3>1. publisher' \in [Clips -> Stages]
      BY <2>13 DEF Restart, ClipShape, Stages
    <3>2. lister' \in [Listers -> Listings]
      BY <2>13 DEF Restart, Listings, NotListing
    <3>3. deleter' \in [Deleters -> Deletions \cup {Idle}]
      BY <2>13 DEF Restart
    <3> QED
      BY <2>13, <3>1, <3>2, <3>3 DEF Restart, ClipShape
  <2>14. CASE UNCHANGED vars
    BY <2>14 DEF vars, ClipShape
  <2> QED
    BY <2>1, <2>2, <2>3, <2>4, <2>5, <2>6, <2>7, <2>8, <2>9, <2>10, <2>11, <2>12,
       <2>13, <2>14 DEF Next
<1> QED
  BY <1>1, <1>2, PTL DEF Spec

\* Every variable of ClipStore keeps its type.
THEOREM ClipsTypeCorrect == Spec => []TypeOK
<1>1. ClipShape => TypeOK
  BY DEF ClipShape, TypeOK, Deletions, Listings
<1> QED
  BY <1>1, ClipShapeKept, PTL

-----------------------------------------------------------------------------
(* What is listed can be watched. *)

\* The video of a clip is stored before its metadata, and is there for as long as
\* anything leads to it: the metadata, a list, or the Publish that made it.
WholeInv ==
    /\ \A c \in Clips \ asked :
          /\ publisher[c] \in {"metadata", "saved", "published"} => Video(c) \in stored
          /\ publisher[c] \in {"saved", "published"} => Metadata(c) \in stored
          /\ Metadata(c) \in stored => Video(c) \in stored
          /\ cache # NoList /\ c \in cache => Video(c) \in stored
          /\ \A l \in Listers : c \in lister[l].clips => Video(c) \in stored
    /\ \A d \in Deleters : deleter[d].at # "idle" => deleter[d].clip \in asked

\* What is stored of a clip stays, of those nobody has asked to delete.
Remains == \A c \in Clips \ asked :
    /\ Video(c) \in stored => Video(c) \in stored'
    /\ Metadata(c) \in stored => Metadata(c) \in stored'

\* A Delete takes away what somebody has asked to delete, and nothing else.
LEMMA OnlyAskedDeleted ==
    ASSUME ClipShape, WholeInv, NEW d \in Deleters, DeleteObject(d)
    PROVE  Remains /\ stored' \subseteq stored
<1>1. deleter[d].clip \in asked
  BY DEF WholeInv, DeleteObject
<1>2. Deleting(d) \in {Video(deleter[d].clip), Metadata(deleter[d].clip)}
  BY DEF Deleting
<1>3. stored' = stored \/ stored' = stored \ {Deleting(d)}
  BY DEF DeleteObject
<1> QED
  BY <1>1, <1>2, <1>3, ObjectsDiffer DEF Remains

\* There is a video wherever something leads to one, in every state, with a failure or
\* a restart between any two calls of the storage.
THEOREM WholeInvariant == Spec => []WholeInv
<1>1. Init => WholeInv
  BY DEF Init, WholeInv, Idle, NotListing
<1>2. ClipShape /\ WholeInv /\ [Next]_vars => WholeInv'
  <2> SUFFICES ASSUME ClipShape, WholeInv, [Next]_vars
               PROVE  WholeInv'
    OBVIOUS
  <2>1. ASSUME NEW c \in Clips, Publish(c)
        PROVE  WholeInv'
    BY <2>1 DEF Publish, ClipShape, WholeInv
  <2>2. ASSUME NEW c \in Clips, CreateTemp(c)
        PROVE  WholeInv'
    BY <2>2 DEF CreateTemp, WholeInv
  <2>3. ASSUME NEW c \in Clips, Save(c)
        PROVE  WholeInv'
    <3>1. stored' = stored \cup {Saving(c)}
      BY <2>3 DEF Save
    <3>2. CASE publisher[c] = "video"
      <4>1. publisher' = [publisher EXCEPT ![c] = "metadata"]
        BY <2>3, <3>2 DEF Save
      <4>2. Saving(c) = Video(c)
        BY <3>2 DEF Saving
      <4> QED
        BY <2>3, <3>1, <4>1, <4>2, ObjectsDiffer DEF Save, ClipShape, WholeInv
    <3>3. CASE publisher[c] = "metadata"
      <4>1. publisher' = [publisher EXCEPT ![c] = "saved"]
        BY <2>3, <3>3 DEF Save
      <4>2. Saving(c) = Metadata(c)
        BY <3>3 DEF Saving
      <4> QED
        BY <2>3, <3>1, <3>3, <4>1, <4>2, ObjectsDiffer DEF Save, ClipShape, WholeInv
    <3> QED
      BY <2>3, <3>2, <3>3 DEF Save
  <2>4. ASSUME NEW c \in Clips, SaveFails(c)
        PROVE  WholeInv'
    <3>1. stored' = stored \/ stored' = stored \cup {Saving(c)}
      BY <2>4 DEF SaveFails
    <3>2. publisher' = [publisher EXCEPT ![c] = "failed"]
      BY <2>4 DEF SaveFails
    <3>3. Saving(c) = Video(c) \/ (Saving(c) = Metadata(c) /\ publisher[c] = "metadata")
      BY <2>4 DEF SaveFails, Saving
    <3> QED
      BY <2>4, <3>1, <3>2, <3>3, ObjectsDiffer DEF SaveFails, ClipShape, WholeInv
  <2>5. ASSUME NEW c \in Clips, ReturnClip(c)
        PROVE  WholeInv'
    BY <2>5 DEF ReturnClip, Invalidate, ClipShape, WholeInv
  <2>6. ASSUME NEW l \in Listers, ListKeys(l)
        PROVE  WholeInv'
    <3>1. \A m \in Listers : lister'[m].clips \subseteq lister[m].clips
      BY <2>6 DEF ListKeys, ClipShape
    <3> QED
      BY <2>6, <3>1 DEF ListKeys, WholeInv
  <2>7. ASSUME NEW l \in Listers, NEW c \in Clips, ReadMetadata(l, c)
        PROVE  WholeInv'
    <3>1. PICK error \in BOOLEAN :
             LET read == ~error /\ Metadata(c) \in stored IN
             /\ lister' = [lister EXCEPT
                   ![l].toRead = @ \ {c},
                   ![l].clips = IF read THEN @ \cup {c} ELSE @]
             /\ behind' = IF error /\ Metadata(c) \in stored
                          THEN behind \cup {l} ELSE behind
      BY <2>7 DEF ReadMetadata
    <3>2. \A m \in Listers : \A b \in lister'[m].clips :
              b \in lister[m].clips \/ Metadata(b) \in stored
      BY <3>1 DEF ClipShape, Listings
    <3> QED
      BY <2>7, <3>2 DEF ReadMetadata, WholeInv
  <2>8. ASSUME NEW l \in Listers, StoreList(l)
        PROVE  WholeInv'
    <3>1. \A m \in Listers : lister'[m].clips \subseteq lister[m].clips
      BY <2>8 DEF StoreList, ClipShape, NotListing
    <3> QED
      BY <2>8, <3>1 DEF StoreList, WholeInv
  <2>9. ASSUME NEW d \in Deleters, NEW c \in Clips, Delete(d, c)
        PROVE  WholeInv'
    BY <2>9 DEF Delete, ClipShape, WholeInv
  <2>10. ASSUME NEW d \in Deleters, DeleteObject(d)
         PROVE  WholeInv'
    <3>1. Remains /\ stored' \subseteq stored
      BY <2>10, OnlyAskedDeleted
    <3>2. \A e \in Deleters : deleter'[e].clip = deleter[e].clip
      BY <2>10 DEF DeleteObject, ClipShape
    <3>3. \A e \in Deleters : deleter'[e].at # "idle" => deleter[e].at # "idle"
      BY <2>10 DEF DeleteObject, ClipShape
    <3> QED
      BY <2>10, <3>1, <3>2, <3>3 DEF DeleteObject, Remains, WholeInv
  <2>11. ASSUME NEW d \in Deleters, ReturnDeleted(d)
         PROVE  WholeInv'
    BY <2>11 DEF ReturnDeleted, Invalidate, Idle, ClipShape, WholeInv
  <2>12. CASE CacheExpires
    BY <2>12 DEF CacheExpires, WholeInv
  <2>13. CASE Restart
    <3>1. \A c \in Clips : publisher'[c] \in {"metadata", "saved", "published"} =>
              publisher'[c] = publisher[c]
      BY <2>13 DEF Restart
    <3> QED
      BY <2>13, <3>1 DEF Restart, Idle, NotListing, WholeInv
  <2>14. CASE UNCHANGED vars
    BY <2>14 DEF vars, WholeInv
  <2> QED
    BY <2>1, <2>2, <2>3, <2>4, <2>5, <2>6, <2>7, <2>8, <2>9, <2>10, <2>11, <2>12,
       <2>13, <2>14 DEF Next
<1> QED
  BY <1>1, <1>2, ClipShapeKept, PTL DEF Spec

\* What can be listed can be watched, whenever the process stops between the two
\* calls of Save, unless somebody has asked to delete it.
THEOREM WhatIsListedPlays == Spec => []ListedPlays
<1>1. WholeInv => ListedPlays
  BY DEF WholeInv, ListedPlays, Listed
<1> QED
  BY <1>1, WholeInvariant, PTL

\* A clip that was published stays whole until somebody asks to delete it.
THEOREM WhatIsPublishedStays == Spec => []PublishedStays
<1>1. WholeInv => PublishedStays
  BY DEF WholeInv, PublishedStays
<1> QED
  BY <1>1, WholeInvariant, PTL

-----------------------------------------------------------------------------
(* What is deleted. *)

\* A clip can be asked for only when its Publish has stored all it ever will, so
\* that what a Delete has taken away nobody brings back.
DeletedInv ==
    /\ \A c \in Clips :
          /\ Video(c) \in stored => publisher[c] \notin {"new", "video"}
          /\ Metadata(c) \in stored \/ c \in asked =>
                publisher[c] \in {"saved", "published", "failed"}
    /\ \A d \in Deleters : deleter[d].ok =>
          /\ deleter[d].at \in {"metadata", "cache"} => Video(deleter[d].clip) \notin stored
          /\ deleter[d].at = "cache" => Metadata(deleter[d].clip) \notin stored
    /\ gone \subseteq asked
    /\ DeletedForGood

\* No Save brings back an object of a clip that somebody has asked to delete.
LEMMA AskedNotSaved ==
    ASSUME DeletedInv, NEW c \in Clips, publisher[c] \in {"video", "metadata"},
           stored' \subseteq stored \cup {Saving(c)}
    PROVE  \A b \in asked : /\ Video(b) \in stored' => Video(b) \in stored
                            /\ Metadata(b) \in stored' => Metadata(b) \in stored
<1>1. c \notin asked
  BY DEF DeletedInv
<1>2. Saving(c) \in {Video(c), Metadata(c)}
  BY DEF Saving
<1> QED
  BY <1>1, <1>2, ObjectsDiffer

\* What Delete has taken away is gone in every state.
THEOREM DeletedInvariant == Spec => []DeletedInv
<1>1. Init => DeletedInv
  BY DEF Init, DeletedInv, DeletedForGood, Idle
<1>2. ClipShape /\ WholeInv /\ DeletedInv /\ [Next]_vars => DeletedInv'
  <2> SUFFICES ASSUME ClipShape, WholeInv, DeletedInv, [Next]_vars
               PROVE  DeletedInv'
    OBVIOUS
  <2>1. ASSUME NEW c \in Clips, Publish(c)
        PROVE  DeletedInv'
    BY <2>1 DEF Publish, ClipShape, DeletedInv, DeletedForGood
  <2>2. ASSUME NEW c \in Clips, CreateTemp(c)
        PROVE  DeletedInv'
    BY <2>2 DEF CreateTemp, DeletedInv, DeletedForGood
  <2>3. ASSUME NEW c \in Clips, Save(c) \/ SaveFails(c)
        PROVE  DeletedInv'
    <3>1. /\ publisher[c] \in {"video", "metadata"}
          /\ stored' \subseteq stored \cup {Saving(c)}
          /\ UNCHANGED <<deleter, asked, gone>>
      BY <2>3 DEF Save, SaveFails
    <3>2. \A b \in asked : /\ Video(b) \in stored' => Video(b) \in stored
                           /\ Metadata(b) \in stored' => Metadata(b) \in stored
      BY <3>1, AskedNotSaved
    <3>3. \A b \in Clips :
             /\ Video(b) \in stored' => publisher'[b] \notin {"new", "video"}
             /\ Metadata(b) \in stored' \/ b \in asked' =>
                   publisher'[b] \in {"saved", "published", "failed"}
      <4>1. publisher' = [publisher EXCEPT ![c] = publisher'[c]]
        BY <2>3 DEF Save, SaveFails, ClipShape
      <4>2. \/ Saving(c) = Video(c) /\ publisher[c] = "video"
            \/ Saving(c) = Metadata(c) /\ publisher[c] = "metadata"
        BY <3>1 DEF Saving
      <4>3. /\ publisher'[c] \notin {"new", "video"}
            /\ publisher[c] = "metadata" => publisher'[c] \in {"saved", "failed"}
        BY <2>3 DEF Save, SaveFails, ClipShape
      <4> QED
        BY <3>1, <4>1, <4>2, <4>3, ObjectsDiffer DEF ClipShape, DeletedInv
    <3>4. \A d \in Deleters : deleter[d].at # "idle" => deleter[d].clip \in asked
      BY DEF WholeInv
    <3>5. \A d \in Deleters : deleter[d].ok =>
             /\ deleter[d].at \in {"metadata", "cache"} =>
                   Video(deleter[d].clip) \notin stored'
             /\ deleter[d].at = "cache" => Metadata(deleter[d].clip) \notin stored'
      BY <3>2, <3>4 DEF DeletedInv
    <3>6. gone' \subseteq asked' /\ DeletedForGood'
      BY <3>1, <3>2 DEF DeletedInv, DeletedForGood
    <3> QED
      BY <3>1, <3>3, <3>5, <3>6 DEF DeletedInv
  <2>4. ASSUME NEW c \in Clips, ReturnClip(c)
        PROVE  DeletedInv'
    BY <2>4 DEF ReturnClip, ClipShape, DeletedInv, DeletedForGood
  <2>5. ASSUME NEW l \in Listers,
               ListKeys(l) \/ StoreList(l) \/ \E c \in Clips : ReadMetadata(l, c)
        PROVE  DeletedInv'
    BY <2>5 DEF ListKeys, StoreList, ReadMetadata, DeletedInv, DeletedForGood
  <2>6. ASSUME NEW d \in Deleters, NEW c \in Clips, Delete(d, c)
        PROVE  DeletedInv'
    BY <2>6 DEF Delete, ClipShape, DeletedInv, DeletedForGood
  <2>7. ASSUME NEW d \in Deleters, DeleteObject(d)
        PROVE  DeletedInv'
    <3>1. stored' \subseteq stored
      BY <2>7 DEF DeleteObject
    <3>2. \A e \in Deleters \ {d} : deleter'[e] = deleter[e]
      BY <2>7 DEF DeleteObject, ClipShape
    <3>3. /\ deleter'[d].clip = deleter[d].clip
          /\ deleter[d].at = "video" => deleter'[d].at = "metadata"
          /\ deleter[d].at = "metadata" => deleter'[d].at = "cache"
      BY <2>7, DeletionOf DEF DeleteObject, ClipShape, Deletions
    <3>4. deleter'[d].ok => deleter[d].ok /\ Deleting(d) \notin stored'
      <4>1. PICK error \in BOOLEAN :
               /\ stored' = IF error THEN stored ELSE stored \ {Deleting(d)}
               /\ deleter' = [deleter EXCEPT
                     ![d].at = IF @ = "video" THEN "metadata" ELSE "cache",
                     ![d].ok = @ /\ ~error /\ (onS3 \/ Deleting(d) \in stored)]
        BY <2>7 DEF DeleteObject
      <4>2. deleter[d] \in Deletions
        BY <2>7, DeletionOf DEF DeleteObject
      <4>3. deleter'[d].ok = (deleter[d].ok /\ ~error /\ (onS3 \/ Deleting(d) \in stored))
        BY <4>1, <4>2, Zenon DEF ClipShape, Deletions
      <4>4. ~error => stored' = stored \ {Deleting(d)}
        BY <4>1
      <4> QED
        BY <4>3, <4>4
    <3>5. deleter'[d].ok =>
             /\ Video(deleter'[d].clip) \notin stored'
             /\ deleter'[d].at = "cache" => Metadata(deleter'[d].clip) \notin stored'
      BY <2>7, <3>1, <3>3, <3>4 DEF DeleteObject, Deleting, DeletedInv
    <3>6. \A e \in Deleters : deleter'[e].ok =>
             /\ deleter'[e].at \in {"metadata", "cache"} =>
                   Video(deleter'[e].clip) \notin stored'
             /\ deleter'[e].at = "cache" => Metadata(deleter'[e].clip) \notin stored'
      BY <3>1, <3>2, <3>5 DEF DeletedInv
    <3>7. UNCHANGED <<publisher, asked, gone>>
      BY <2>7 DEF DeleteObject
    <3> QED
      BY <3>1, <3>6, <3>7 DEF DeletedInv, DeletedForGood
  <2>8. ASSUME NEW d \in Deleters, ReturnDeleted(d)
        PROVE  DeletedInv'
    <3>1. \A e \in Deleters : deleter'[e] = deleter[e] \/ deleter'[e].at = "idle"
      BY <2>8 DEF ReturnDeleted, Idle, ClipShape
    <3>2. deleter[d].ok => /\ deleter[d].clip \in asked
                           /\ Video(deleter[d].clip) \notin stored
                           /\ Metadata(deleter[d].clip) \notin stored
      BY <2>8 DEF ReturnDeleted, WholeInv, DeletedInv
    <3>3. UNCHANGED <<publisher, asked, stored>>
      BY <2>8 DEF ReturnDeleted
    <3>4. gone' = gone \/ (deleter[d].ok /\ gone' = gone \cup {deleter[d].clip})
      BY <2>8 DEF ReturnDeleted
    <3> QED
      BY <3>1, <3>2, <3>3, <3>4 DEF DeletedInv, DeletedForGood
  <2>9. CASE CacheExpires
    BY <2>9 DEF CacheExpires, DeletedInv, DeletedForGood
  <2>10. CASE Restart
    BY <2>10 DEF Restart, Idle, ClipShape, Stages, DeletedInv, DeletedForGood
  <2>11. CASE UNCHANGED vars
    BY <2>11 DEF vars, DeletedInv, DeletedForGood
  <2> QED
    BY <2>1, <2>2, <2>3, <2>4, <2>5, <2>6, <2>7, <2>8, <2>9, <2>10, <2>11 DEF Next
<1> QED
  BY <1>1, <1>2, ClipShapeKept, WholeInvariant, PTL DEF Spec

\* A clip that Delete has removed does not come back, not even half of it.
THEOREM DeletedStaysDeleted == Spec => []DeletedForGood
<1>1. DeletedInv => DeletedForGood
  BY DEF DeletedInv
<1> QED
  BY <1>1, DeletedInvariant, PTL

-----------------------------------------------------------------------------
(* Cached lists. *)

\* A list that is being built, of which a change has not made the keys out of date:
\* what it has read and has yet to read are the clips to list.
ListingRight ==
    unsure = {} /\ ~Changing =>
        \A l \in Listers \ behind : lister[l].at = "reading" =>
            lister[l].toRead \cup lister[l].clips = First(MetadataKeys)

ListsInv == CachedListRight /\ ListingRight

\* After a step, if nothing is changing, nothing was before it, and the same clips
\* are stored.
Settled == unsure' = {} /\ ~Changing' =>
    unsure = {} /\ ~Changing /\ MetadataKeys' = MetadataKeys

\* A step that leaves the lists alone keeps them right.
LEMMA ListsLeftAlone ==
    ASSUME ListsInv, Settled, UNCHANGED <<lister, cache, behind, tainted>>
    PROVE  ListsInv'
<1>1. First(MetadataKeys)' = First(MetadataKeys')
  BY DEF First
<1> QED
  BY <1>1 DEF ListsInv, Settled, CachedListRight, ListingRight

\* A change that takes the cache away leaves no list of which it matters.
LEMMA ListsForgotten ==
    ASSUME ClipShape, Invalidate, UNCHANGED lister
    PROVE  ListsInv'
BY DEF Invalidate, ListsInv, CachedListRight, ListingRight

\* Lists that are cached, or will be, are right in every state.
THEOREM ListsInvariant == Spec => []ListsInv
<1>1. Init => ListsInv
  BY DEF Init, ListsInv, CachedListRight, ListingRight, NotListing
<1>2. ClipShape /\ ListsInv /\ [Next]_vars => ListsInv'
  <2> SUFFICES ASSUME ClipShape, ListsInv, [Next]_vars
               PROVE  ListsInv'
    OBVIOUS
  <2>1. ASSUME NEW c \in Clips, Publish(c)
        PROVE  ListsInv'
    <3>1. \A b \in Clips : publisher[b] = "saved" => publisher'[b] = "saved"
      BY <2>1 DEF Publish, ClipShape
    <3>2. Settled
      BY <2>1, <3>1 DEF Publish, Settled, Changing, MetadataKeys
    <3> QED
      BY <2>1, <3>2, ListsLeftAlone DEF Publish
  <2>2. ASSUME NEW c \in Clips, CreateTemp(c)
        PROVE  ListsInv'
    <3>1. Settled
      BY <2>2 DEF CreateTemp, Settled, Changing, MetadataKeys
    <3> QED
      BY <2>2, <3>1, ListsLeftAlone DEF CreateTemp
  <2>3. ASSUME NEW c \in Clips, Save(c)
        PROVE  ListsInv'
    <3>1. \A b \in Clips : publisher[b] = "saved" => publisher'[b] = "saved"
      BY <2>3 DEF Save, ClipShape
    <3>2. publisher[c] = "metadata" => publisher'[c] = "saved"
      BY <2>3 DEF Save, ClipShape
    <3>3. publisher[c] = "video" => MetadataKeys' = MetadataKeys
      BY <2>3, ObjectsDiffer DEF Save, Saving, MetadataKeys
    <3>4. Settled
      BY <2>3, <3>1, <3>2, <3>3 DEF Save, Settled, Changing
    <3> QED
      BY <2>3, <3>4, ListsLeftAlone DEF Save
  <2>4. ASSUME NEW c \in Clips, SaveFails(c)
        PROVE  ListsInv'
    <3>1. \A b \in Clips : publisher[b] = "saved" => publisher'[b] = "saved"
      BY <2>4 DEF SaveFails, ClipShape
    <3>2. unsure' = {} => unsure = {} /\ MetadataKeys' = MetadataKeys
      BY <2>4, ObjectsDiffer DEF SaveFails, Saving, MetadataKeys
    <3>3. Settled
      BY <2>4, <3>1, <3>2 DEF SaveFails, Settled, Changing
    <3> QED
      BY <2>4, <3>3, ListsLeftAlone DEF SaveFails
  <2>5. ASSUME NEW c \in Clips, ReturnClip(c)
        PROVE  ListsInv'
    BY <2>5, ListsForgotten DEF ReturnClip
  <2>6. ASSUME NEW l \in Listers, ListKeys(l)
        PROVE  ListsInv'
    <3>1. lister'[l].toRead \cup lister'[l].clips = First(MetadataKeys)
      BY <2>6 DEF ListKeys, ClipShape
    <3>2. \A m \in Listers \ {l} : lister'[m] = lister[m]
      BY <2>6 DEF ListKeys, ClipShape
    <3>3. /\ MetadataKeys' = MetadataKeys /\ Changing' = Changing
          /\ UNCHANGED <<unsure, cache>> /\ cache = NoList /\ behind' = behind \ {l}
      BY <2>6 DEF ListKeys, MetadataKeys, Changing
    <3>4. First(MetadataKeys)' = First(MetadataKeys)
      BY <3>3 DEF First
    <3>5. ListingRight'
      BY <3>1, <3>2, <3>3, <3>4 DEF ListsInv, ListingRight
    <3> QED
      BY <3>3, <3>5 DEF ListsInv, CachedListRight
  <2>7. ASSUME NEW l \in Listers, NEW c \in Clips, ReadMetadata(l, c)
        PROVE  ListsInv'
    <3>1. PICK error \in BOOLEAN :
             LET read == ~error /\ Metadata(c) \in stored IN
             /\ lister' = [lister EXCEPT
                   ![l].toRead = @ \ {c},
                   ![l].clips = IF read THEN @ \cup {c} ELSE @]
             /\ behind' = IF error /\ Metadata(c) \in stored
                          THEN behind \cup {l} ELSE behind
      BY <2>7 DEF ReadMetadata
    <3>2. \A m \in Listers \ {l} : lister'[m] = lister[m]
      BY <3>1 DEF ClipShape
    <3>3. /\ MetadataKeys' = MetadataKeys /\ Changing' = Changing
          /\ UNCHANGED <<unsure, cache, tainted>> /\ behind \subseteq behind'
      BY <2>7, <3>1 DEF ReadMetadata, MetadataKeys, Changing
    <3>4. First(MetadataKeys)' = First(MetadataKeys)
      BY <3>3 DEF First
    <3>5. ASSUME Metadata(c) \in stored, l \notin behind'
          PROVE  lister'[l].toRead \cup lister'[l].clips
                     = lister[l].toRead \cup lister[l].clips
      <4>1. ~error
        BY <3>1, <3>5
      <4>2. /\ lister'[l].toRead = lister[l].toRead \ {c}
            /\ lister'[l].clips = lister[l].clips \cup {c}
        BY <3>1, <3>5, <4>1 DEF ClipShape, Listings
      <4> QED
        BY <2>7, <4>2 DEF ReadMetadata
    <3>6. Metadata(c) \notin stored => c \notin First(MetadataKeys)
      BY DEF First, MetadataKeys
    <3>7. ListingRight'
      <4> SUFFICES ASSUME unsure = {}, ~Changing, NEW m \in Listers \ behind',
                          lister'[m].at = "reading"
                   PROVE  lister'[m].toRead \cup lister'[m].clips = First(MetadataKeys)
        BY <3>3, <3>4 DEF ListingRight
      <4>1. lister[m].at = "reading" => 
               lister[m].toRead \cup lister[m].clips = First(MetadataKeys)
        BY <3>3 DEF ListsInv, ListingRight
      <4>2. CASE m # l
        BY <3>2, <4>1, <4>2
      <4>3. CASE m = l
        BY <2>7, <3>5, <3>6, <4>1, <4>3 DEF ReadMetadata
      <4> QED
        BY <4>2, <4>3
    <3> QED
      BY <3>3, <3>4, <3>7 DEF ListsInv, CachedListRight
  <2>8. ASSUME NEW l \in Listers, StoreList(l)
        PROVE  ListsInv'
    <3>1. /\ lister'[l].at = "idle"
          /\ \A m \in Listers \ {l} : lister'[m] = lister[m]
      BY <2>8 DEF StoreList, NotListing, ClipShape
    <3>2. /\ MetadataKeys' = MetadataKeys /\ Changing' = Changing
          /\ UNCHANGED unsure /\ behind' = behind \ {l}
      BY <2>8 DEF StoreList, MetadataKeys, Changing
    <3>3. First(MetadataKeys)' = First(MetadataKeys)
      BY <3>2 DEF First
    <3>4. unsure = {} /\ ~Changing /\ ~tainted' => cache' = First(MetadataKeys)
      <4>1. /\ lister[l].at = "reading" /\ lister[l].toRead = {}
            /\ cache' = lister[l].clips /\ (~tainted' => l \notin behind)
        BY <2>8 DEF StoreList
      <4>2. lister[l].toRead \cup lister[l].clips = lister[l].clips
        BY <4>1
      <4> QED
        BY <4>1, <4>2 DEF ListsInv, ListingRight
    <3>5. CachedListRight'
      BY <3>2, <3>3, <3>4 DEF CachedListRight
    <3>6. ListingRight'
      BY <3>1, <3>2, <3>3 DEF ListsInv, ListingRight
    <3> QED
      BY <3>5, <3>6 DEF ListsInv
  <2>9. ASSUME NEW d \in Deleters, NEW c \in Clips, Delete(d, c)
        PROVE  ListsInv'
    <3>1. \A e \in Deleters : deleter[e].at \in {"metadata", "cache"} =>
              deleter'[e].at \in {"metadata", "cache"}
      BY <2>9 DEF Delete, ClipShape
    <3>2. Settled
      BY <2>9, <3>1 DEF Delete, Settled, Changing, MetadataKeys
    <3> QED
      BY <2>9, <3>2, ListsLeftAlone DEF Delete
  <2>10. ASSUME NEW d \in Deleters, DeleteObject(d)
         PROVE  ListsInv'
    <3>1. deleter'[d].at \in {"metadata", "cache"}
      BY <2>10, DeletionOf DEF DeleteObject, ClipShape, Deletions
    <3>2. Settled
      BY <3>1 DEF Settled, Changing
    <3> QED
      BY <2>10, <3>2, ListsLeftAlone DEF DeleteObject
  <2>11. ASSUME NEW d \in Deleters, ReturnDeleted(d)
         PROVE  ListsInv'
    BY <2>11, ListsForgotten DEF ReturnDeleted
  <2>12. CASE CacheExpires
    <3>1. /\ MetadataKeys' = MetadataKeys /\ Changing' = Changing
          /\ UNCHANGED <<unsure, lister, behind>> /\ cache' = NoList
      BY <2>12 DEF CacheExpires, MetadataKeys, Changing
    <3>2. First(MetadataKeys)' = First(MetadataKeys)
      BY <3>1 DEF First
    <3> QED
      BY <3>1, <3>2 DEF ListsInv, CachedListRight, ListingRight
  <2>13. CASE Restart
    BY <2>13 DEF Restart, NotListing, ListsInv, CachedListRight, ListingRight
  <2>14. CASE UNCHANGED vars
    <3>1. Settled
      BY <2>14 DEF vars, Settled, Changing, MetadataKeys
    <3> QED
      BY <2>14, <3>1, ListsLeftAlone DEF vars
  <2> QED
    BY <2>1, <2>2, <2>3, <2>4, <2>5, <2>6, <2>7, <2>8, <2>9, <2>10, <2>11, <2>12,
       <2>13, <2>14 DEF Next
<1> QED
  BY <1>1, <1>2, ClipShapeKept, PTL DEF Spec

\* A list from the cache holds the newest clips that are stored, but for the races
\* that CachedListRight names.
THEOREM CachedListsAreRight == Spec => []CachedListRight
<1>1. ListsInv => CachedListRight
  BY DEF ListsInv
<1> QED
  BY <1>1, ListsInvariant, PTL

\* What Publish, Delete and List promise about a clip.
THEOREM ClipsAreKept == Spec => []ClipsKept
<1>1. TypeOK /\ ListedPlays /\ PublishedStays /\ DeletedForGood /\ CachedListRight
          => ClipsKept
  BY DEF ClipsKept
<1> QED
  BY <1>1, ClipsTypeCorrect, WhatIsListedPlays, WhatIsPublishedStays,
     DeletedStaysDeleted, CachedListsAreRight, PTL

-----------------------------------------------------------------------------
(* GIF searches: types. *)

\* The ages of lists that are told apart.
LEMMA ForeverIs == G!Forever = 3 /\ G!Ages = 0..3
<1> DEFINE S == {MCDuration[s] : s \in {Slink, Klipy}}
<1>1. S = {1, 2}
  BY SearchesAssumption DEF MCDuration
<1>2. G!Max(S) = 2
  BY <1>1 DEF G!Max
<1> QED
  BY <1>2 DEF G!Forever, G!Ages

\* The smaller of two ages.
LEMMA YoungerOf == \A a, b \in Nat : G!Min({a, b}) = IF a <= b THEN a ELSE b
BY DEF G!Min

\* A list that is not there has no age, and one that is grows older.
LEMMA OlderThan ==
    ASSUME NEW age \in G!Ages \cup {NoEntry}
    PROVE  /\ G!Older(age) \in G!Ages \cup {NoEntry}
           /\ G!Older(age) = NoEntry <=> age = NoEntry
<1> USE SearchesAssumption
<1>1. CASE age = NoEntry
  BY <1>1 DEF G!Older
<1>2. CASE age # NoEntry
  <2>1. age \in 0..3 /\ age + 1 \in Nat
    BY <1>2, ForeverIs
  <2>2. G!Older(age) = IF age + 1 <= 3 THEN age + 1 ELSE 3
    BY <1>2, <2>1, ForeverIs, YoungerOf DEF G!Older
  <2>3. G!Older(age) \in 0..3
    BY <2>1, <2>2
  <2> QED
    BY <1>2, <2>3, ForeverIs
<1> QED
  BY <1>1, <1>2

\* How far a search has got with a source: only the API is asked within a budget, and
\* an answer is a list that is up to date, or the best there was.
PartRight(s, p) ==
    /\ p \in G!Part
    /\ p.at = "stale" => s = Klipy
    /\ p.at = "done" /\ ~p.failed => p.age \in Nat /\ p.age < MCDuration[s]

\* A list is as old as its entry in the cache, who searches has words to search for,
\* and every part of a search is right.
SearchShape ==
    /\ lists \in [G!Keys -> G!Ages \cup {NoEntry}] /\ fetched = lists
    /\ links \in [Links -> {NoEntry, "fresh", "expired"}]
    /\ request \in [Requests -> [at : {"idle", "search", "page", "api", "store"},
                                 query : Queries \cup {NoEntry},
                                 link : Links \cup {NoEntry}]]
    /\ \A r \in Requests :
          request[r].at \in {"search", "page", "api"} => request[r].query \in Queries
    /\ progress \in [Requests -> [{Slink, Klipy} -> G!Part]]
    /\ \A r \in Requests, s \in {Slink, Klipy} : PartRight(s, progress[r][s])

\* One part of a search goes on.
LEMMA PartSet ==
    ASSUME SearchShape, NEW r \in Requests, NEW s \in {Slink, Klipy}, NEW p,
           PartRight(s, p), G!SetPart(r, s, p)
    PROVE  /\ progress' \in [Requests -> [{Slink, Klipy} -> G!Part]]
           /\ \A q \in Requests, t \in {Slink, Klipy} : PartRight(t, progress'[q][t])
<1>1. progress \in [Requests -> [{Slink, Klipy} -> G!Part]] /\ p \in G!Part
  BY DEF SearchShape, PartRight
<1>2. progress' = [progress EXCEPT ![r][s] = p]
  BY DEF G!SetPart
<1>3. progress' \in [Requests -> [{Slink, Klipy} -> G!Part]]
  BY <1>1, <1>2
<1>4. ASSUME NEW q \in Requests, NEW t \in {Slink, Klipy} PROVE PartRight(t, progress'[q][t])
  <2>1. CASE q = r /\ t = s
    <3>1. progress'[q][t] = p
      BY <1>1, <1>2, <2>1
    <3> QED
      BY <2>1, <3>1
  <2>2. CASE ~(q = r /\ t = s)
    <3>1. progress'[q][t] = progress[q][t]
      BY <1>1, <1>2, <2>2
    <3> QED
      BY <3>1 DEF SearchShape
  <2> QED
    BY <2>1, <2>2
<1> QED
  BY <1>3, <1>4

\* The parts of a search that begins or ends.
LEMMA PartsSet ==
    ASSUME SearchShape, NEW r \in Requests, NEW f \in [{Slink, Klipy} -> G!Part],
           \A s \in {Slink, Klipy} : PartRight(s, f[s]),
           progress' = [progress EXCEPT ![r] = f]
    PROVE  /\ progress' \in [Requests -> [{Slink, Klipy} -> G!Part]]
           /\ \A q \in Requests, t \in {Slink, Klipy} : PartRight(t, progress'[q][t])
<1>1. progress \in [Requests -> [{Slink, Klipy} -> G!Part]]
  BY DEF SearchShape
<1>2. progress' \in [Requests -> [{Slink, Klipy} -> G!Part]]
  BY <1>1
<1>3. \A q \in Requests : progress'[q] = IF q = r THEN f ELSE progress[q]
  BY <1>1
<1> QED
  BY <1>2, <1>3 DEF SearchShape

\* Neither nothing nor a part that starts is an answer.
LEMMA NoAnswerYet ==
    \A s : PartRight(s, G!NoPart) /\ PartRight(s, [G!NoPart EXCEPT !.at = "start"])
BY DEF PartRight, G!NoPart, G!Part

\* No search shows a list that is out of date, unless it has asked in vain.
THEOREM SearchShapeInvariant == G!Spec => []SearchShape
<1> USE SearchesAssumption
<1>1. G!Init => SearchShape
  <2> SUFFICES ASSUME G!Init PROVE SearchShape
    OBVIOUS
  <2>1. G!NoPart \in G!Part
    BY NoAnswerYet DEF PartRight
  <2> QED
    BY <2>1, NoAnswerYet DEF G!Init, G!Idle, SearchShape
<1>2. SearchShape /\ [G!Next]_G!vars => SearchShape'
  <2> SUFFICES ASSUME SearchShape, [G!Next]_G!vars PROVE SearchShape'
    OBVIOUS
  <2> DEFINE Request == [at : {"idle", "search", "page", "api", "store"},
                         query : Queries \cup {NoEntry}, link : Links \cup {NoEntry}]
  <2>0. /\ lists \in [G!Keys -> G!Ages \cup {NoEntry}] /\ fetched = lists
        /\ links \in [Links -> {NoEntry, "fresh", "expired"}]
        /\ request \in [Requests -> Request]
        /\ progress \in [Requests -> [{Slink, Klipy} -> G!Part]]
    BY DEF SearchShape
  <2>1. ASSUME NEW r \in Requests, NEW q \in Queries, NEW S \in SUBSET {Slink, Klipy},
               G!Search(r, q, S)
        PROVE  SearchShape'
    <3> DEFINE f == [s \in {Slink, Klipy} |->
                       IF s \in S THEN [G!NoPart EXCEPT !.at = "start"] ELSE G!NoPart]
    <3>1. f \in [{Slink, Klipy} -> G!Part] /\ \A s \in {Slink, Klipy} : PartRight(s, f[s])
      BY NoAnswerYet DEF PartRight
    <3>2. /\ progress' \in [Requests -> [{Slink, Klipy} -> G!Part]]
          /\ \A p \in Requests, t \in {Slink, Klipy} : PartRight(t, progress'[p][t])
      BY <2>1, <3>1, PartsSet DEF G!Search
    <3> HIDE DEF f
    <3> QED
      BY <2>0, <2>1, <3>2 DEF G!Search, G!Idle, SearchShape
  <2>2. ASSUME NEW r \in Requests, NEW s \in {Slink, Klipy}, G!LookUp(r, s)
        PROVE  SearchShape'
    <3> DEFINE key == <<s, request[r].query>>
               p == IF lists[key] # NoEntry /\ lists[key] < MCDuration[s]
                    THEN [at |-> "done", age |-> fetched[key], failed |-> FALSE]
                    ELSE [at |-> IF s \in {Klipy} THEN "stale" ELSE "asking",
                          age |-> IF lists[key] = NoEntry THEN NoEntry ELSE G!Forever,
                          failed |-> FALSE]
    <3>1. key \in G!Keys
      BY <2>2 DEF G!LookUp, G!Started, G!Keys, SearchShape
    <3>2. lists[key] \in 0..3 \cup {NoEntry} /\ fetched[key] = lists[key]
      BY <2>0, <3>1, ForeverIs
    <3>3. PartRight(s, p)
      BY <3>2, ForeverIs DEF PartRight, G!Part
    <3>4. G!SetPart(r, s, p)
      BY <2>2 DEF G!LookUp, G!Key
    <3>5. UNCHANGED <<lists, fetched, links, request>>
      BY <2>2 DEF G!LookUp
    <3> HIDE DEF p
    <3> QED
      BY <3>3, <3>4, <3>5, PartSet DEF SearchShape
  <2>3. ASSUME NEW r \in Requests, NEW s \in {Slink, Klipy}, G!TakeRequest(r, s)
        PROVE  SearchShape'
    <3> DEFINE p == progress[r][s]
    <3>1. PartRight(s, p) /\ p.at = "stale"
      BY <2>3 DEF G!TakeRequest, SearchShape
    <3>2. /\ PartRight(s, [p EXCEPT !.at = "done", !.failed = TRUE])
          /\ PartRight(s, [p EXCEPT !.at = "asking"])
      BY <3>1 DEF PartRight, G!Part
    <3>3. /\ \/ G!SetPart(r, s, [p EXCEPT !.at = "done", !.failed = TRUE])
             \/ G!SetPart(r, s, [p EXCEPT !.at = "asking"])
          /\ UNCHANGED <<lists, fetched, links, request>>
      BY <2>3 DEF G!TakeRequest
    <3> HIDE DEF p
    <3> QED
      BY <3>2, <3>3, PartSet DEF SearchShape
  <2>4. ASSUME NEW r \in Requests, NEW s \in {Slink, Klipy}, G!AskFails(r, s)
        PROVE  SearchShape'
    <3> DEFINE p == progress[r][s]
    <3>1. PartRight(s, p)
      BY DEF SearchShape
    <3>2. PartRight(s, [p EXCEPT !.at = "done", !.failed = TRUE])
      BY <3>1 DEF PartRight, G!Part
    <3>3. /\ G!SetPart(r, s, [p EXCEPT !.at = "done", !.failed = TRUE])
          /\ UNCHANGED <<lists, fetched, links, request>>
      BY <2>4 DEF G!AskFails
    <3> HIDE DEF p
    <3> QED
      BY <3>2, <3>3, PartSet DEF SearchShape
  <2>5. ASSUME NEW r \in Requests, NEW s \in {Slink, Klipy}, G!AskSucceeds(r, s)
        PROVE  SearchShape'
    <3>1. PartRight(s, [at |-> "done", age |-> 0, failed |-> FALSE])
      BY ForeverIs DEF PartRight, G!Part, MCDuration
    <3>2. /\ G!SetPart(r, s, [at |-> "done", age |-> 0, failed |-> FALSE])
          /\ UNCHANGED <<links, request>>
      BY <2>5 DEF G!AskSucceeds
    <3>3. lists' \in [G!Keys -> G!Ages \cup {NoEntry}] /\ fetched' = lists'
      <4>1. PICK lost :
               /\ lists' = [k \in G!Keys |-> IF k = G!Key(r, s) THEN 0
                              ELSE IF k \in lost THEN NoEntry ELSE lists[k]]
               /\ fetched' = [k \in G!Keys |-> IF k = G!Key(r, s) THEN 0
                                ELSE IF k \in lost THEN NoEntry ELSE fetched[k]]
        BY <2>5 DEF G!AskSucceeds
      <4> QED
        BY <2>0, <4>1, ForeverIs
    <3> QED
      BY <3>1, <3>2, <3>3, PartSet DEF SearchShape
  <2>6. ASSUME NEW r \in Requests, G!ReturnResult(r) \/ G!FindPage(r)
        PROVE  SearchShape'
    <3> DEFINE f == [s \in {Slink, Klipy} |-> G!NoPart]
    <3>1. f \in [{Slink, Klipy} -> G!Part] /\ \A s \in {Slink, Klipy} : PartRight(s, f[s])
      BY NoAnswerYet DEF PartRight
    <3>2. /\ progress' \in [Requests -> [{Slink, Klipy} -> G!Part]]
          /\ \A q \in Requests, t \in {Slink, Klipy} : PartRight(t, progress'[q][t])
      BY <2>6, <3>1, PartsSet DEF G!ReturnResult, G!FindPage
    <3> HIDE DEF f
    <3>3. /\ UNCHANGED <<lists, fetched, links>>
          /\ request' \in [Requests -> Request]
          /\ \A q \in Requests : request'[q] = request[q]
                                 \/ request'[q].at \in {"idle", "store"}
      <4>1. CASE G!ReturnResult(r)
        BY <2>0, <4>1 DEF G!ReturnResult, G!Idle
      <4>2. CASE G!FindPage(r)
        BY <2>0, <4>2 DEF G!FindPage
      <4> QED
        BY <2>6, <4>1, <4>2
    <3> QED
      BY <3>2, <3>3 DEF SearchShape
  <2>7. ASSUME NEW r \in Requests, NEW l \in Links, G!ResolveLink(r, l)
        PROVE  SearchShape'
    <3>1. MCQueryOf[l] \in Queries
      BY DEF MCQueryOf
    <3>2. /\ UNCHANGED <<lists, fetched, links, progress>>
          /\ request' \in [Requests -> Request]
          /\ \A q \in Requests : request'[q] = request[q] \/ request'[q].query \in Queries
      BY <2>0, <2>7, <3>1 DEF G!ResolveLink
    <3> QED
      BY <3>2 DEF SearchShape
  <2>8. ASSUME NEW r \in Requests, G!FetchPage(r)
        PROVE  SearchShape'
    <3>1. /\ UNCHANGED <<lists, fetched, links>>
          /\ request' \in [Requests -> Request]
          /\ \A q \in Requests :
                request'[q].at \in {"search", "page", "api"} => request'[q].query \in Queries
      <4>1. /\ UNCHANGED <<lists, fetched, links>>
            /\ \/ request' = [request EXCEPT ![r].at = "store"]
               \/ request' = [request EXCEPT ![r].at = "api"]
            /\ request[r].at = "page"
        BY <2>8 DEF G!FetchPage
      <4>2. request[r].query \in Queries
        BY <4>1 DEF SearchShape
      <4>3. PICK at \in {"store", "api"} : request' = [request EXCEPT ![r].at = at]
        BY <4>1
      <4>4. /\ request' \in [Requests -> Request]
            /\ request'[r].query = request[r].query
            /\ \A q \in Requests : q # r => request'[q] = request[q]
        BY <2>0, <4>3
      <4> QED
        BY <4>1, <4>2, <4>4 DEF SearchShape
    <3>2. \/ progress' = progress
          \/ G!SetPart(r, Klipy, [G!NoPart EXCEPT !.at = "start"])
      BY <2>8 DEF G!FetchPage
    <3> QED
      BY <3>1, <3>2, NoAnswerYet, PartSet DEF SearchShape
  <2>9. ASSUME NEW r \in Requests, G!StoreLink(r)
        PROVE  SearchShape'
    <3>1. links' \in [Links -> {NoEntry, "fresh", "expired"}]
      BY <2>0, <2>9 DEF G!StoreLink
    <3>2. /\ UNCHANGED <<lists, fetched, progress>>
          /\ request' \in [Requests -> Request]
          /\ \A q \in Requests : request'[q] = request[q] \/ request'[q].at = "idle"
      BY <2>0, <2>9 DEF G!StoreLink, G!Idle
    <3> QED
      BY <3>1, <3>2 DEF SearchShape
  <2>10. ASSUME NEW l \in Links, G!LinkExpires(l)
         PROVE  SearchShape'
    BY <2>10 DEF G!LinkExpires, SearchShape
  <2>11. CASE G!Tick
    <3>1. lists' \in [G!Keys -> G!Ages \cup {NoEntry}] /\ fetched' = lists'
      BY <2>0, <2>11, OlderThan DEF G!Tick
    <3>2. UNCHANGED <<links, request, progress>>
      BY <2>11 DEF G!Tick
    <3> QED
      BY <3>1, <3>2 DEF SearchShape
  <2>12. CASE UNCHANGED G!vars
    BY <2>12 DEF G!vars, SearchShape
  <2> QED
    BY <2>1, <2>2, <2>3, <2>4, <2>5, <2>6, <2>7, <2>8, <2>9, <2>10, <2>11, <2>12
       DEF G!Next
<1> QED
  BY <1>1, <1>2, PTL DEF G!Spec

\* An answer is up to date unless its search has asked for a better one in vain.
THEOREM AnswersAreFresh == G!Spec => []G!AnswersFresh
<1>1. SearchShape => G!AnswersFresh
  BY DEF SearchShape, PartRight, G!AnswersFresh
<1> QED
  BY <1>1, SearchShapeInvariant, PTL

-----------------------------------------------------------------------------
(* GIF searches: the caches. *)

\* The module counts as the library does.
LEMMA EntriesCount == \A S : G!Cardinality(S) = Cardinality(S)
BY DEF G!Cardinality, Cardinality

CachesSmall ==
    /\ IsFiniteSet(G!Cached(lists)) /\ Cardinality(G!Cached(lists)) <= CacheSize
    /\ IsFiniteSet(G!Cached(links)) /\ Cardinality(G!Cached(links)) <= CacheSize

\* One more, or some of them.
LEMMA OneMoreEntry ==
    ASSUME NEW S, IsFiniteSet(S), NEW x, NEW T, T \subseteq S \cup {x}
    PROVE  /\ IsFiniteSet(T) /\ Cardinality(S) \in Nat /\ Cardinality(T) \in Nat
           /\ Cardinality(T) <= Cardinality(S) + 1
<1>1. /\ IsFiniteSet(S \cup {x}) /\ Cardinality(S) \in Nat
      /\ Cardinality(S \cup {x}) = IF x \in S THEN Cardinality(S) ELSE Cardinality(S) + 1
  BY FS_AddElement, FS_CardinalityType
<1>2. T \in SUBSET (S \cup {x})
  OBVIOUS
<1>3. IsFiniteSet(T) /\ Cardinality(T) <= Cardinality(S \cup {x}) /\ Cardinality(T) \in Nat
  BY <1>1, <1>2, FS_Subset, FS_CardinalityType
<1> QED
  BY <1>1, <1>3

\* A set has room for one more when it is not full or has lost one of its own.
LEMMA RoomForOne ==
    ASSUME NEW S, IsFiniteSet(S), Cardinality(S) <= CacheSize, NEW x, NEW T,
           T \subseteq S \cup {x},
           Cardinality(S) < CacheSize \/ \E y \in S : T \subseteq (S \ {y}) \cup {x}
    PROVE  IsFiniteSet(T) /\ Cardinality(T) <= CacheSize
<1> USE SearchesAssumption
<1>1. IsFiniteSet(T) /\ Cardinality(S) \in Nat /\ Cardinality(T) <= Cardinality(S) + 1
      /\ Cardinality(T) \in Nat
  BY OneMoreEntry
<1>2. CASE Cardinality(S) < CacheSize
  BY <1>1, <1>2
<1>3. ASSUME NEW y \in S, T \subseteq (S \ {y}) \cup {x}
      PROVE  Cardinality(T) <= CacheSize
  <2>1. IsFiniteSet(S \ {y}) /\ Cardinality(S \ {y}) = Cardinality(S) - 1
    BY FS_RemoveElement
  <2>2. Cardinality(T) <= Cardinality(S \ {y}) + 1
    BY <1>3, <2>1, OneMoreEntry
  <2> QED
    BY <1>1, <2>1, <2>2
<1> QED
  BY <1>1, <1>2, <1>3

\* Neither cache outgrows its size.
THEOREM CachesAreBounded == G!Spec => [](CachesSmall /\ G!CachesBounded)
<1> USE SearchesAssumption
<1>1. G!Init => CachesSmall
  <2> SUFFICES ASSUME G!Init PROVE CachesSmall
    OBVIOUS
  <2>1. G!Cached(lists) = {} /\ G!Cached(links) = {}
    BY DEF G!Init, G!Cached
  <2> QED
    BY <2>1, FS_EmptySet DEF CachesSmall
<1>2. SearchShape /\ CachesSmall /\ [G!Next]_G!vars => CachesSmall'
  <2> SUFFICES ASSUME SearchShape, CachesSmall, [G!Next]_G!vars PROVE CachesSmall'
    OBVIOUS
  <2>0. lists \in [G!Keys -> G!Ages \cup {NoEntry}] /\ links \in [Links -> {NoEntry, "fresh", "expired"}]
    BY DEF SearchShape
  <2>1. CASE UNCHANGED <<lists, links>>
    BY <2>1 DEF CachesSmall, G!Cached
  <2>2. ASSUME NEW r \in Requests, NEW s \in {Slink, Klipy}, G!AskSucceeds(r, s)
        PROVE  CachesSmall'
    <3> DEFINE old == G!Cached(lists)
               key == G!Key(r, s)
    <3>1. PICK lost \in G!Evicted({k \in old : lists[k] > MCDuration[k[1]]}) :
             lists' = [k \in G!Keys |-> IF k = key THEN 0
                            ELSE IF k \in lost THEN NoEntry ELSE lists[k]]
      BY <2>2 DEF G!AskSucceeds
    <3>2. links' = links
      BY <2>2 DEF G!AskSucceeds
    <3>3. /\ G!Cached(lists') \subseteq old \cup {key}
          /\ \A k \in G!Cached(lists') : k = key \/ k \notin lost
      BY <2>0, <3>1 DEF G!Cached
    <3>4. IsFiniteSet(old) /\ Cardinality(old) <= CacheSize /\ Cardinality(old) \in Nat
      BY FS_CardinalityType DEF CachesSmall
    <3> HIDE DEF old, key
    <3>5. CASE Cardinality(old) < CacheSize
      BY <3>2, <3>3, <3>4, <3>5, RoomForOne DEF CachesSmall
    <3>6. CASE ~(Cardinality(old) < CacheSize)
      <4>1. PICK y \in old : y \in lost
        BY <3>1, <3>6, EntriesCount DEF G!Evicted, old
      <4>2. G!Cached(lists') \subseteq (old \ {y}) \cup {key}
        BY <3>3, <4>1
      <4> QED
        BY <3>2, <3>3, <3>4, <4>1, <4>2, RoomForOne DEF CachesSmall
    <3> QED
      BY <3>5, <3>6
  <2>3. ASSUME NEW r \in Requests, G!StoreLink(r)
        PROVE  CachesSmall'
    <3> DEFINE old == G!Cached(links)
               l == request[r].link
    <3>1. /\ links' = [k \in Links |-> IF k = l THEN "fresh"
                         ELSE IF Cardinality(old) >= CacheSize THEN NoEntry ELSE links[k]]
          /\ lists' = lists
      BY <2>3, EntriesCount DEF G!StoreLink
    <3>2. G!Cached(links') \subseteq old \cup {l}
      BY <2>0, <3>1 DEF G!Cached
    <3>3. Cardinality(old) >= CacheSize => G!Cached(links') \subseteq {l}
      BY <2>0, <3>1 DEF G!Cached
    <3>4. IsFiniteSet(old) /\ Cardinality(old) <= CacheSize /\ Cardinality(old) \in Nat
      BY FS_CardinalityType DEF CachesSmall
    <3> HIDE DEF old, l
    <3>5. CASE Cardinality(old) < CacheSize
      BY <3>1, <3>2, <3>4, <3>5, RoomForOne DEF CachesSmall
    <3>6. CASE ~(Cardinality(old) < CacheSize)
      <4>1. IsFiniteSet({l})
        BY FS_Singleton
      <4>2. Cardinality({l}) = 1
        BY FS_Singleton
      <4>3. G!Cached(links') \in SUBSET {l}
        BY <3>3, <3>4, <3>6
      <4>4. IsFiniteSet(G!Cached(links')) /\ Cardinality(G!Cached(links')) <= CacheSize
        BY <4>1, <4>2, <4>3, FS_Subset, FS_CardinalityType
      <4> QED
        BY <3>1, <4>4 DEF CachesSmall
    <3> QED
      BY <3>5, <3>6
  <2>4. ASSUME NEW l \in Links, G!LinkExpires(l)
        PROVE  CachesSmall'
    <3>1. G!Cached(links') = G!Cached(links)
      BY <2>0, <2>4 DEF G!LinkExpires, G!Cached
    <3> QED
      BY <2>4, <3>1 DEF G!LinkExpires, CachesSmall
  <2>5. CASE G!Tick
    <3>1. G!Cached(lists') = G!Cached(lists)
      BY <2>0, <2>5, OlderThan DEF G!Tick, G!Cached
    <3> QED
      BY <2>5, <3>1 DEF G!Tick, CachesSmall
  <2> QED
    BY <2>1, <2>2, <2>3, <2>4, <2>5
       DEF G!Next, G!vars, G!Search, G!LookUp, G!TakeRequest, G!AskFails, G!ReturnResult,
           G!ResolveLink, G!FetchPage, G!FindPage
<1>3. CachesSmall => G!CachesBounded
  BY EntriesCount DEF CachesSmall, G!CachesBounded
<1> QED
  BY <1>1, <1>2, <1>3, SearchShapeInvariant, PTL DEF G!Spec

-----------------------------------------------------------------------------
(* GIF searches: the hourly budget. *)

\* The requests of the last a units of time are the last times[a] of the list.
Counted(list, times) ==
    /\ list \in Seq(0..Hour) /\ times \in [0..Hour - 1 -> Nat]
    /\ \A a \in 0..Hour - 1 :
          /\ times[a] <= Len(list)
          /\ \A i \in 1..Len(list) : list[i] <= a <=> i > Len(list) - times[a]

\* The list counts what was sent, and what was sent in the last hour is in the budget.
Budgeted ==
    /\ requests \in [{Klipy} -> Seq(0..Hour)]
    /\ spent \in [{Klipy} -> [0..Hour - 1 -> Nat]]
    /\ Counted(requests[Klipy], spent[Klipy])
    /\ spent[Klipy][Hour - 1] <= PerHour

\* A longer time has as many requests or more.
LEMMA MoreInLongerTime ==
    ASSUME NEW list, NEW times, Counted(list, times),
           NEW a \in 0..Hour - 1, NEW b \in 0..Hour - 1, a <= b
    PROVE  times[a] <= times[b]
<1> USE SearchesAssumption
<1> DEFINE l == Len(list)
<1>1. /\ l \in Nat /\ times[a] \in Nat /\ times[b] \in Nat
      /\ times[a] <= l /\ times[b] <= l
      /\ \A i \in 1..l : list[i] \in 0..Hour
  BY DEF Counted
<1>2. /\ \A i \in 1..l : list[i] <= a <=> i > l - times[a]
      /\ \A i \in 1..l : list[i] <= b <=> i > l - times[b]
  BY DEF Counted
<1> HIDE DEF l
<1>3. CASE times[a] = 0
  BY <1>1, <1>3
<1>4. CASE times[a] # 0
  <2>1. l - times[a] + 1 \in 1..l /\ l - times[a] + 1 > l - times[a]
    BY <1>1, <1>4
  <2>2. list[l - times[a] + 1] <= a /\ list[l - times[a] + 1] \in 0..Hour
    BY <1>1, <1>2, <2>1
  <2>3. list[l - times[a] + 1] <= b
    BY <2>2
  <2>4. l - times[a] + 1 > l - times[b]
    BY <1>2, <2>1, <2>3
  <2> QED
    BY <1>1, <2>4
<1> QED
  BY <1>3, <1>4

\* What is left of the requests are those of the last hour, counted as before.
LEMMA RecentAreCounted ==
    ASSUME Counted(requests[Klipy], spent[Klipy])
    PROVE  /\ Counted(G!Recent(Klipy), spent[Klipy])
           /\ Len(G!Recent(Klipy)) = spent[Klipy][Hour - 1]
<1> USE SearchesAssumption
<1> DEFINE n == spent[Klipy][Hour - 1]
           l == Len(requests[Klipy])
           Young == {i \in 1..l : requests[Klipy][i] < Hour}
           S == Young \cup {l + 1}
<1>0. Hour - 1 \in 0..Hour - 1
  OBVIOUS
<1>1. /\ requests[Klipy] \in Seq(0..Hour) /\ l \in Nat
      /\ \A i \in 1..l : requests[Klipy][i] \in 0..Hour
      /\ n \in Nat /\ n <= l
  BY <1>0 DEF Counted
<1>2. \A i \in 1..l : requests[Klipy][i] <= Hour - 1 <=> i > l - n
  BY <1>0 DEF Counted
<1>3. \A i \in 1..l : requests[Klipy][i] < Hour <=> i > l - n
  BY <1>1, <1>2
<1>4. Young = {i \in 1..l : i > l - n}
  BY <1>3
<1> HIDE DEF n, l, Young
<1>5. l - n + 1 \in S /\ \A i \in S : i \in Int /\ l - n + 1 <= i
  BY <1>1, <1>4
<1> HIDE DEF S
<1>6. G!Min(S) = l - n + 1
  BY <1>1, <1>5 DEF G!Min
<1> DEFINE rec == SubSeq(requests[Klipy], l - n + 1, l)
<1>7. G!Recent(Klipy) = rec
  BY <1>6 DEF G!Recent, S, Young, l
<1>8. /\ rec \in Seq(0..Hour) /\ Len(rec) = n
      /\ \A i \in 1..n : rec[i] = requests[Klipy][l - n + i]
  <2>1. /\ l - n + 1 \in Int /\ l \in Int
        /\ \A i \in l - n + 1..l : requests[Klipy][i] \in 0..Hour
        /\ l - (l - n + 1) + 1 = n /\ (l - n + 1 <= l <=> n # 0)
        /\ \A i \in 1..n : (l - n + 1) + i - 1 = l - n + i
    BY <1>1
  <2> QED
    BY <2>1, SubSeqProperties
<1> HIDE DEF rec
<1>9. ASSUME NEW a \in 0..Hour - 1
      PROVE  spent[Klipy][a] <= n /\ \A i \in 1..n : rec[i] <= a <=> i > n - spent[Klipy][a]
  <2>1. spent[Klipy][a] \in Nat
    BY DEF Counted
  <2>2. spent[Klipy][a] <= n
    BY <1>0, MoreInLongerTime DEF n
  <2>3. \A i \in 1..l : requests[Klipy][i] <= a <=> i > l - spent[Klipy][a]
    BY DEF Counted, l
  <2>4. ASSUME NEW i \in 1..n PROVE rec[i] <= a <=> i > n - spent[Klipy][a]
    <3>0. i \in Nat /\ 1 <= i /\ i <= n /\ l \in Nat /\ n \in Nat /\ n <= l
      BY <1>1
    <3>1. /\ l - n + i \in 1..l
          /\ l - n + i > l - spent[Klipy][a] <=> i > n - spent[Klipy][a]
      BY <2>1, <3>0
    <3>2. rec[i] = requests[Klipy][l - n + i]
      BY <1>8
    <3> QED
      BY <2>3, <3>1, <3>2
  <2> QED
    BY <2>2, <2>4
<1>10. spent[Klipy] \in [0..Hour - 1 -> Nat]
  BY DEF Counted
<1> QED
  BY <1>7, <1>8, <1>9, <1>10 DEF Counted, n

\* A new request is the last one, and one more of any time.
LEMMA OneMoreCounted ==
    ASSUME NEW list, NEW times, Counted(list, times)
    PROVE  Counted(Append(list, 0), [a \in 0..Hour - 1 |-> times[a] + 1])
<1> USE SearchesAssumption
<1> DEFINE l == Len(list)
           more == [a \in 0..Hour - 1 |-> times[a] + 1]
           longer == Append(list, 0)
<1>1. /\ list \in Seq(0..Hour) /\ l \in Nat
      /\ \A a \in 0..Hour - 1 : times[a] \in Nat /\ times[a] <= l
  BY DEF Counted
<1>2. 0 \in 0..Hour
  OBVIOUS
<1>3. /\ longer \in Seq(0..Hour) /\ Len(longer) = l + 1 /\ longer[l + 1] = 0
      /\ \A i \in 1..l : longer[i] = list[i]
  BY <1>1, <1>2
<1>4. /\ more \in [0..Hour - 1 -> Nat]
      /\ \A a \in 0..Hour - 1 : more[a] = times[a] + 1
  BY <1>1
<1> HIDE DEF more, longer, l
<1>5. ASSUME NEW a \in 0..Hour - 1, NEW i \in 1..l + 1
      PROVE  longer[i] <= a <=> i > (l + 1) - more[a]
  <2>0. l \in Nat /\ times[a] \in Nat /\ more[a] = times[a] + 1
    BY <1>1, <1>4
  <2>1. (l + 1) - more[a] = l - times[a] /\ times[a] \in Nat
    BY <2>0
  <2>2. CASE i = l + 1
    <3>1. longer[i] <= a
      BY <1>3, <2>2
    <3>2. i > l - times[a]
      BY <1>1, <2>1, <2>2
    <3> QED
      BY <2>1, <3>1, <3>2
  <2>3. CASE i # l + 1
    <3>1. i \in 1..l
      BY <1>1, <2>3
    <3>2. list[i] <= a <=> i > l - times[a]
      BY <3>1 DEF Counted, l
    <3> QED
      BY <1>3, <2>1, <3>1, <3>2
  <2> QED
    BY <2>2, <2>3
<1>6. \A a \in 0..Hour - 1 : more[a] <= l + 1
  <2> SUFFICES ASSUME NEW a \in 0..Hour - 1 PROVE more[a] <= l + 1
    OBVIOUS
  <2>1. l \in Nat /\ times[a] \in Nat /\ times[a] <= l /\ more[a] = times[a] + 1
    BY <1>1, <1>4
  <2> QED
    BY <2>1
<1>7. Counted(longer, more)
  BY <1>3, <1>4, <1>5, <1>6 DEF Counted
<1> QED
  BY <1>7 DEF longer, more

\* When time passes, what was of the last a units is of the last a + 1.
LEMMA OlderAreCounted ==
    ASSUME NEW list, NEW times, Counted(list, times)
    PROVE  Counted([i \in DOMAIN list |-> G!Min({list[i] + 1, Hour})],
                   [a \in 0..Hour - 1 |-> IF a = 0 THEN 0 ELSE times[a - 1]])
<1> USE SearchesAssumption
<1> DEFINE l == Len(list)
           aged == [i \in DOMAIN list |-> G!Min({list[i] + 1, Hour})]
           later == [a \in 0..Hour - 1 |-> IF a = 0 THEN 0 ELSE times[a - 1]]
<1>1. /\ list \in Seq(0..Hour) /\ l \in Nat /\ DOMAIN list = 1..l
      /\ \A i \in 1..l : list[i] \in 0..Hour
      /\ \A a \in 0..Hour - 1 : times[a] \in Nat /\ times[a] <= l
  BY DEF Counted
<1>2. \A i \in 1..l : aged[i] = IF list[i] + 1 <= Hour THEN list[i] + 1 ELSE Hour
  <2> SUFFICES ASSUME NEW i \in 1..l
               PROVE  aged[i] = IF list[i] + 1 <= Hour THEN list[i] + 1 ELSE Hour
    OBVIOUS
  <2>1. aged[i] = G!Min({list[i] + 1, Hour})
    BY <1>1
  <2>2. list[i] + 1 \in Nat
    BY <1>1
  <2> QED
    BY <2>1, <2>2, YoungerOf
<1>3. \A a \in 0..Hour - 1 : a # 0 => a - 1 \in 0..Hour - 1
  OBVIOUS
<1>4. \A a \in 0..Hour - 1 : later[a] = IF a = 0 THEN 0 ELSE times[a - 1]
  OBVIOUS
<1>5. later \in [0..Hour - 1 -> Nat]
  BY <1>1, <1>3
<1>6. DOMAIN aged = 1..l
  BY <1>1
<1> HIDE DEF l, later
<1>7. \A i \in 1..l : aged[i] \in 0..Hour
  <2> HIDE DEF aged
  <2> SUFFICES ASSUME NEW i \in 1..l PROVE aged[i] \in 0..Hour
    OBVIOUS
  <2>1. list[i] \in 0..Hour
    BY <1>1
  <2>2. aged[i] = IF list[i] + 1 <= Hour THEN list[i] + 1 ELSE Hour
    BY <1>2
  <2> QED
    BY <2>1, <2>2
<1>8. aged \in Seq(0..Hour) /\ Len(aged) = l
  <2>1. aged = [i \in 1..l |-> aged[i]]
    BY <1>1
  <2> HIDE DEF aged
  <2> QED
    BY <1>1, <1>7, <2>1
<1> HIDE DEF aged
<1>9. ASSUME NEW a \in 0..Hour - 1
      PROVE  later[a] <= l /\ \A i \in 1..l : aged[i] <= a <=> i > l - later[a]
  <2>1. CASE a = 0
    <3>1. later[a] = 0
      BY <1>4, <2>1
    <3>2. ASSUME NEW i \in 1..l PROVE ~(aged[i] <= a) /\ ~(i > l - 0)
      <4>1. list[i] \in 0..Hour
        BY <1>1
      <4>2. aged[i] >= 1 /\ aged[i] \in Nat
        BY <1>2, <4>1
      <4> QED
        BY <1>1, <2>1, <4>2
    <3> QED
      BY <1>1, <3>1, <3>2
  <2>2. CASE a # 0
    <3>1. a - 1 \in 0..Hour - 1 /\ later[a] = times[a - 1]
      BY <1>3, <1>4, <2>2
    <3>2. later[a] <= l
      BY <1>1, <3>1
    <3>3. ASSUME NEW i \in 1..l PROVE aged[i] <= a <=> i > l - later[a]
      <4>1. list[i] <= a - 1 <=> i > l - times[a - 1]
        BY <3>1 DEF Counted, l
      <4>2. list[i] \in 0..Hour
        BY <1>1
      <4>3. aged[i] <= a <=> list[i] <= a - 1
        BY <1>2, <4>2
      <4> QED
        BY <3>1, <4>1, <4>3
    <3> QED
      BY <3>2, <3>3
  <2> QED
    BY <2>1, <2>2
<1>10. Counted(aged, later)
  BY <1>5, <1>8, <1>9 DEF Counted
<1> QED
  BY <1>10 DEF aged, later

\* No source is asked more often in any hour than its quota allows.
THEOREM BudgetInvariant == G!Spec => []Budgeted
<1> USE SearchesAssumption
<1>0. Hour - 1 \in 0..Hour - 1
  OBVIOUS
<1>1. G!Init => Budgeted
  <2> SUFFICES ASSUME G!Init PROVE Budgeted
    OBVIOUS
  <2>1. /\ requests = [s \in {Klipy} |-> <<>>]
        /\ spent = [s \in {Klipy} |-> [a \in 0..Hour - 1 |-> 0]]
    BY DEF G!Init
  <2>2. <<>> \in Seq(0..Hour) /\ Len(<<>>) = 0
    OBVIOUS
  <2>3. /\ requests[Klipy] = <<>> /\ spent[Klipy] = [a \in 0..Hour - 1 |-> 0]
        /\ \A a \in 0..Hour - 1 : spent[Klipy][a] = 0
    BY <2>1
  <2>4. Counted(requests[Klipy], spent[Klipy])
    BY <2>2, <2>3 DEF Counted
  <2> QED
    BY <1>0, <2>1, <2>2, <2>3, <2>4 DEF Budgeted
<1>2. SearchShape /\ Budgeted /\ [G!Next]_G!vars => Budgeted'
  <2> SUFFICES ASSUME SearchShape, Budgeted, [G!Next]_G!vars PROVE Budgeted'
    OBVIOUS
  <2> DEFINE rec == G!Recent(Klipy)
  <2>0. /\ requests \in [{Klipy} -> Seq(0..Hour)]
        /\ spent \in [{Klipy} -> [0..Hour - 1 -> Nat]]
        /\ Counted(requests[Klipy], spent[Klipy])
        /\ spent[Klipy][Hour - 1] <= PerHour
        /\ \A a \in 0..Hour - 1 : spent[Klipy][a] \in Nat
    BY DEF Budgeted
  <2>1. CASE UNCHANGED <<requests, spent>>
    BY <2>1 DEF Budgeted, Counted
  <2>2. ASSUME NEW r \in Requests, NEW s \in {Slink, Klipy}, G!TakeRequest(r, s)
        PROVE  Budgeted'
    <3>1. s = Klipy
      BY <2>2 DEF G!TakeRequest, SearchShape, PartRight
    <3>2. /\ rec \in Seq(0..Hour) /\ Len(rec) = spent[Klipy][Hour - 1]
          /\ Counted(rec, spent[Klipy])
      BY <2>0, RecentAreCounted DEF Counted
    <3>3. CASE Len(rec) >= PerHour
      <4>1. requests' = [requests EXCEPT ![Klipy] = rec] /\ spent' = spent
        BY <2>2, <3>1, <3>3 DEF G!TakeRequest
      <4> HIDE DEF rec
      <4>2. requests' \in [{Klipy} -> Seq(0..Hour)] /\ requests'[Klipy] = rec
        BY <2>0, <3>2, <4>1
      <4>3. Counted(requests[Klipy], spent[Klipy])'
        BY <3>2, <4>1, <4>2 DEF Counted
      <4> QED
        BY <2>0, <4>1, <4>2, <4>3 DEF Budgeted
    <3>4. CASE ~(Len(rec) >= PerHour)
      <4> DEFINE longer == Append(rec, 0)
                 more == [a \in 0..Hour - 1 |-> spent[Klipy][a] + 1]
      <4>1. /\ requests' = [requests EXCEPT ![Klipy] = longer]
            /\ spent' = [spent EXCEPT ![Klipy] = more]
        BY <2>2, <3>1, <3>4 DEF G!TakeRequest
      <4>2. Counted(longer, more) /\ more[Hour - 1] = spent[Klipy][Hour - 1] + 1
        BY <1>0, <3>2, OneMoreCounted
      <4>3. longer \in Seq(0..Hour) /\ more \in [0..Hour - 1 -> Nat]
        BY <4>2 DEF Counted
      <4> HIDE DEF longer, more, rec
      <4>4. /\ requests' \in [{Klipy} -> Seq(0..Hour)] /\ requests'[Klipy] = longer
            /\ spent' \in [{Klipy} -> [0..Hour - 1 -> Nat]] /\ spent'[Klipy] = more
        BY <2>0, <4>1, <4>3
      <4>5. Counted(requests[Klipy], spent[Klipy])'
        BY <4>2, <4>4 DEF Counted
      <4>6. spent'[Klipy][Hour - 1] <= PerHour
        BY <1>0, <2>0, <3>2, <3>4, <4>2, <4>4
      <4> QED
        BY <4>4, <4>5, <4>6 DEF Budgeted
    <3> QED
      BY <3>3, <3>4
  <2>3. CASE G!Tick
    <3> DEFINE aged == [i \in DOMAIN requests[Klipy] |->
                           G!Min({requests[Klipy][i] + 1, Hour})]
               later == [a \in 0..Hour - 1 |-> IF a = 0 THEN 0 ELSE spent[Klipy][a - 1]]
    <3>1. /\ requests' = [s \in {Klipy} |-> [i \in DOMAIN requests[s] |->
                                               G!Min({requests[s][i] + 1, Hour})]]
          /\ spent' = [s \in {Klipy} |-> [a \in 0..Hour - 1 |->
                                            IF a = 0 THEN 0 ELSE spent[s][a - 1]]]
      BY <2>3 DEF G!Tick
    <3>2. Counted(aged, later)
      <4>1. Counted(requests[Klipy], spent[Klipy])
        BY <2>0
      <4> QED
        BY <4>1, OlderAreCounted
    <3>3. aged \in Seq(0..Hour) /\ later \in [0..Hour - 1 -> Nat]
      BY <3>2 DEF Counted
    <3>4. later[Hour - 1] = IF Hour - 1 = 0 THEN 0 ELSE spent[Klipy][Hour - 1 - 1]
      BY <1>0
    <3>5. DOMAIN requests' = {Klipy} /\ requests'[Klipy] = aged
      BY <3>1
    <3>6. DOMAIN spent' = {Klipy} /\ spent'[Klipy] = later
      BY <3>1
    <3>7. requests' = [s \in {Klipy} |-> aged] /\ spent' = [s \in {Klipy} |-> later]
      BY <3>1
    <3> HIDE DEF aged, later
    <3>8. /\ requests' \in [{Klipy} -> Seq(0..Hour)]
          /\ spent' \in [{Klipy} -> [0..Hour - 1 -> Nat]]
      BY <3>3, <3>7
    <3>9. Counted(requests[Klipy], spent[Klipy])'
      BY <3>2, <3>5, <3>6 DEF Counted
    <3>10. later[Hour - 1] <= PerHour
      <4>1. CASE Hour - 1 = 0
        BY <3>4, <4>1
      <4>2. CASE Hour - 1 # 0
        <5>1. Hour - 1 - 1 \in 0..Hour - 1 /\ Hour - 1 - 1 <= Hour - 1
          BY <4>2
        <5>2. spent[Klipy][Hour - 1 - 1] <= spent[Klipy][Hour - 1]
          BY <1>0, <2>0, <5>1, MoreInLongerTime
        <5> QED
          BY <1>0, <2>0, <3>4, <4>2, <5>1, <5>2
      <4> QED
        BY <4>1, <4>2
    <3> QED
      BY <3>6, <3>8, <3>9, <3>10 DEF Budgeted
  <2> QED
    BY <2>1, <2>2, <2>3
       DEF G!Next, G!vars, G!Search, G!LookUp, G!AskFails, G!AskSucceeds, G!ReturnResult,
           G!ResolveLink, G!FetchPage, G!FindPage, G!StoreLink, G!LinkExpires
<1> QED
  BY <1>1, <1>2, SearchShapeInvariant, PTL DEF G!Spec

\* What searches ask for, show and keep, in the component's own specification.
THEOREM SearchesAreKept == G!Spec => []G!SearchesKept
<1>1. SearchShape /\ Budgeted => G!TypeOK /\ G!HourlyBudget
  BY SearchesAssumption DEF SearchShape, Budgeted, G!TypeOK, G!HourlyBudget
<1> QED
  BY <1>1, SearchShapeInvariant, AnswersAreFresh, CachesAreBounded, BudgetInvariant, PTL
     DEF G!SearchesKept

-----------------------------------------------------------------------------
(* The services together: what the run checks, for all constants. *)

\* A step of the composition is one of each part, or leaves it alone.
LEMMA StepsOfEach ==
    [MCNext]_<<service, vars, limiter, gifs, emote, channel>> =>
        /\ [Next]_vars /\ [L!Next]_L!vars /\ [G!Next]_G!vars
        /\ [E!Next]_E!vars /\ [D!Next]_D!vars
<1> SUFFICES ASSUME [MCNext]_<<service, vars, limiter, gifs, emote, channel>>
             PROVE  /\ [Next]_vars /\ [L!Next]_L!vars /\ [G!Next]_G!vars
                    /\ [E!Next]_E!vars /\ [D!Next]_D!vars
  OBVIOUS
<1> USE DEF limiter, gifs, emote, channel, L!vars, G!vars, E!vars, D!vars, D!relaying
<1>1. CASE UNCHANGED <<vars, limiter, gifs, emote, channel>>
  BY <1>1
<1>2. CASE Next /\ UNCHANGED <<limiter, gifs, emote, channel>>
  BY <1>2
<1>3. CASE L!Next /\ UNCHANGED <<vars, gifs, emote, channel>>
  BY <1>3
<1>4. CASE G!Next /\ UNCHANGED <<vars, limiter, emote, channel>>
  BY <1>4
<1>5. CASE E!Next /\ UNCHANGED <<vars, limiter, gifs, channel>>
  BY <1>5
<1>6. CASE D!Next /\ UNCHANGED <<vars, limiter, gifs, emote>>
  BY <1>6
<1> QED
  BY <1>1, <1>2, <1>3, <1>4, <1>5, <1>6 DEF MCNext, Of

\* A behaviour of the composition is one of each part.
LEMMA SpecOfEach == MCSpec => Spec /\ L!Spec /\ G!Spec /\ E!Spec /\ D!Spec
<1>1. MCInit => Init /\ L!Init /\ G!Init /\ E!Init /\ D!Init
  BY DEF MCInit
<1> QED
  BY <1>1, StepsOfEach, PTL DEF MCSpec, Spec, L!Spec, G!Spec, E!Spec, D!Spec

\* Clips are kept, with any number of clips, deleters and listers.
THEOREM ClipsKeptAlways == MCSpec => []ClipsKept
BY SpecOfEach, ClipsAreKept, PTL

\* No client exceeds its rate, for any burst, interval and window.
THEOREM RateKeptAlways == MCSpec => []RateKept
<1>1. L!TypeOK /\ L!RateKept => RateKept
  BY DEF RateKept
<1> QED
  BY <1>1, SpecOfEach, LimiterTypeCorrect, RateIsKept, PTL

\* No quota is exceeded, no old answer passes for a fresh one and no cache outgrows its
\* size, for any quota and hour and any number of requests, queries and links.
THEOREM SearchesKeptAlways == MCSpec => []SearchesKept
<1>1. G!SearchesKept => SearchesKept
  BY DEF SearchesKept
<1> QED
  BY <1>1, SpecOfEach, SearchesAreKept, PTL

\* Lists and tokens of emotes are kept, with any number of fetches and lists.
THEOREM EmotesKeptAlways == MCSpec => EmotesKept
BY SpecOfEach, EmotesAreKept DEF EmotesKept

\* Data channels are kept, with any number of viewers and channels.
THEOREM ChannelsKeptAlways == MCSpec => ChannelsKept
BY SpecOfEach, ChannelsAreKept DEF ChannelsKept

=============================================================================
