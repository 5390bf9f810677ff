---------------------------- MODULE ChatRoomProofs ----------------------------
(***************************************************************************)
(* Theorems about ChatRoom for any number of data channels, any history    *)
(* and queue sizes.                                                        *)
(***************************************************************************)
EXTENDS ChatRoom, TLAPS

-----------------------------------------------------------------------------
(* Type correctness. *)

\* A full history gives up its oldest event for the new one.
LEMMA RememberBounds ==
    ASSUME NEW h \in Seq(Nat), NEW id \in Nat, Len(h) <= MaxHistory
    PROVE  Remember(h, id) \in Seq(Nat) /\ Len(Remember(h, id)) <= MaxHistory
<1>1. CASE Len(h) >= MaxHistory
  <2>1. h # <<>> /\ Tail(h) \in Seq(Nat) /\ Len(Tail(h)) = Len(h) - 1
    BY <1>1, HistoryHasRoom
  <2>2. Remember(h, id) = Append(Tail(h), id)
    BY <1>1 DEF Remember
  <2> QED
    BY <2>1, <2>2, HistoryHasRoom
<1>2. CASE ~(Len(h) >= MaxHistory)
  <2>1. Remember(h, id) = Append(h, id)
    BY <1>2 DEF Remember
  <2> QED
    BY <1>2, <2>1, HistoryHasRoom
<1> QED
  BY <1>1, <1>2

\* Every variable keeps its type; the history and the subscribers' channels keep
\* their bounds.
THEOREM TypeCorrect == Spec => []TypeOK
<1>1. Init => TypeOK
  <2> SUFFICES ASSUME Init PROVE TypeOK
    OBVIOUS
  <2>1. idle \in [Rooms -> BOOLEAN]
    BY DEF Init
  <2>2. \A r \in Rooms : history[r] = <<>> /\ nextID[r] = 1
    BY DEF Init
  <2>3. \A p \in Peers : queue[p] = <<>>
    BY DEF Init
  <2> QED
    BY <2>1, <2>2, <2>3, HistoryHasRoom, QueueHasRoom, BoundsAreNat
       DEF Init, TypeOK, Rooms, NoRoom
<1>2. TypeOK /\ [Next]_vars => TypeOK'
  <2> SUFFICES ASSUME TypeOK, [Next]_vars
               PROVE  TypeOK'
    OBVIOUS
  <2> USE BoundsAreNat DEF TypeOK, store, dc, Goto, Rooms, NoRoom
  <2>1. CASE TtlPasses
    <3>1. idle' \in [Rooms -> BOOLEAN]
      BY <2>1, Zenon DEF TtlPasses
    <3> QED
      BY <2>1, <3>1 DEF TtlPasses
  <2>2. CASE Cleanup
    BY <2>2 DEF Cleanup
  <2>3. ASSUME NEW p \in Peers, Open(p) PROVE TypeOK'
    BY <2>3 DEF Open
  <2>4. ASSUME NEW r \in Rooms, GetOrCreateRoom(r)
        PROVE  /\ made' \in Rooms \cup {NoRoom} /\ room' \in {NoRoom, made'}
               /\ idle' \in [Rooms -> BOOLEAN]
    <3>1. idle' \in [Rooms -> BOOLEAN]
      BY <2>4, Zenon DEF GetOrCreateRoom
    <3> QED
      BY <2>4, <3>1 DEF GetOrCreateRoom
  <2>5. ASSUME NEW p \in Peers, LookUpRoom(p) PROVE TypeOK'
    <3>1. PICK r \in Rooms : GetOrCreateRoom(r) /\ at' = [at EXCEPT ![p] = r]
      BY <2>5 DEF LookUpRoom
    <3>2. UNCHANGED <<history, nextID>>
      BY <3>1 DEF GetOrCreateRoom
    <3>3. at' \in [Peers -> Rooms \cup {NoRoom}] /\ at'[p] = r
      BY <3>1
    <3>4. \A q \in Peers : pc'[q] \notin {"idle", "lookUp"} => at'[q] # NoRoom
      BY <2>5, <3>1, <3>3 DEF LookUpRoom
    <3> QED
      BY <2>4, <2>5, <3>1, <3>2, <3>3, <3>4 DEF LookUpRoom
  <2>6. ASSUME NEW p \in Peers, Subscribe(p) PROVE TypeOK'
    <3>1. idle' \in [Rooms -> BOOLEAN]
      BY <2>6, Zenon DEF Subscribe
    <3> QED
      BY SMTT(20), <2>6, <3>1 DEF Subscribe
  <2>7. ASSUME NEW p \in Peers, AssignClose(p) PROVE TypeOK'
    BY <2>7 DEF AssignClose
  <2>8. ASSUME NEW p \in Peers, SendConnected(p) PROVE TypeOK'
    BY <2>8 DEF SendConnected, Sends
  <2>9. ASSUME NEW p \in Peers, SendHistory(p) PROVE TypeOK'
    <3>1. backlog' \in [Peers -> Seq(Nat)] /\ got' \in [Peers -> Seq(Nat)]
      <4>1. CASE UNCHANGED <<got, backlog>>
        BY <4>1
      <4>2. CASE /\ got' = [got EXCEPT ![p] = backlog[p]]
                 /\ backlog' = [backlog EXCEPT ![p] = <<>>]
        BY <4>2
      <4>3. \/ UNCHANGED <<got, backlog>>
            \/ /\ got' = [got EXCEPT ![p] = backlog[p]]
               /\ backlog' = [backlog EXCEPT ![p] = <<>>]
        <5>1. CASE Sent(p)
          BY <2>9, <5>1 DEF SendHistory
        <5>2. CASE ~Sent(p)
          BY <2>9, <5>2 DEF SendHistory
        <5> QED
          BY <5>1, <5>2
      <4> QED
        BY <4>1, <4>2, <4>3
    <3> QED
      BY <2>9, <3>1 DEF SendHistory, Sends
  <2>10. ASSUME NEW p \in Peers, SendEvent(p) PROVE TypeOK'
    <3>0. queue[p] \in Seq(Nat) /\ queue[p] # <<>> /\ Len(queue[p]) <= QueueSize
      BY <2>10 DEF SendEvent
    <3>1. /\ Head(queue[p]) \in Nat /\ Tail(queue[p]) \in Seq(Nat)
          /\ Len(Tail(queue[p])) <= QueueSize
      <4> HIDE DEF TypeOK
      <4>1. Len(Tail(queue[p])) = Len(queue[p]) - 1 /\ Len(queue[p]) \in Nat
        BY ONLY <3>0
      <4>2. Head(queue[p]) \in Nat /\ Tail(queue[p]) \in Seq(Nat)
        BY ONLY <3>0
      <4> QED
        BY ONLY <3>0, <4>1, <4>2, QueueHasRoom
    <3>2. Append(got[p], Head(queue[p])) \in Seq(Nat)
      BY <3>1
    <3> QED
      BY <2>10, <3>1, <3>2 DEF SendEvent, Sends
  <2>11. ASSUME NEW p \in Peers, LoopEnds(p) \/ GiveUp(p) PROVE TypeOK'
    <3>1. ASSUME Forget(p)
          PROVE  /\ queue' \in [Peers -> Seq(Nat)]
                 /\ \A q \in Peers : Len(queue'[q]) <= QueueSize
                 /\ backlog' \in [Peers -> Seq(Nat)] /\ got' \in [Peers -> Seq(Nat)]
                 /\ missed' \subseteq Peers
      BY <3>1, QueueHasRoom DEF Forget
    <3>2. CASE LoopEnds(p)
      BY <3>1, <3>2 DEF LoopEnds
    <3>3. CASE GiveUp(p)
      <4>1. subs' \in [Rooms -> SUBSET Peers]
        BY <3>3 DEF GiveUp, RunCloseSubscription
      <4> QED
        BY <3>1, <3>3, <4>1 DEF GiveUp
    <3> QED
      BY <2>11, <3>2, <3>3
  <2>12. ASSUME NEW p \in Peers, ChannelCloses(p) \/ OnClose(p) PROVE TypeOK'
    <3>1. CASE ChannelCloses(p)
      BY <3>1 DEF ChannelCloses
    <3>2. CASE OnClose(p)
      <4>1. subs' \in [Rooms -> SUBSET Peers]
        BY <3>2 DEF OnClose, RunCloseSubscription
      <4> QED
        BY <3>2, <4>1 DEF OnClose
    <3> QED
      BY <2>12, <3>1, <3>2
  <2>13. ASSUME NEW p \in Peers, LookUpToSend(p) PROVE TypeOK'
    <3>1. PICK r \in Rooms : GetOrCreateRoom(r) /\ posting' = [posting EXCEPT ![p] = r]
      BY <2>13 DEF LookUpToSend
    <3>2. UNCHANGED <<history, nextID>>
      BY <3>1 DEF GetOrCreateRoom
    <3> QED
      BY <2>4, <2>13, <3>1, <3>2 DEF LookUpToSend
  <2>14. ASSUME NEW p \in Peers, SendToRoom(p) PROVE TypeOK'
    <3> DEFINE r == posting[p]
    <3>1. idle' \in [Rooms -> BOOLEAN]
      BY <2>14, Zenon DEF SendToRoom
    <3>2. r \in Rooms /\ nextID[r] \in Nat /\ nextID' \in [Rooms -> Nat \ {0}]
      BY SMTT(20), <2>14 DEF SendToRoom
    <3>3. /\ history' \in [Rooms -> Seq(Nat)]
          /\ \A s \in Rooms : Len(history'[s]) <= MaxHistory
      BY <2>14, <3>2, RememberBounds DEF SendToRoom
    <3>4. /\ queue' \in [Peers -> Seq(Nat)]
          /\ \A q \in Peers : Len(queue'[q]) <= QueueSize
      <4>1. ASSUME NEW q \in Peers, ~Full(q)
            PROVE  /\ Append(queue[q], nextID[r]) \in Seq(Nat)
                   /\ Len(Append(queue[q], nextID[r])) <= QueueSize
        BY <3>2, <4>1, QueueHasRoom DEF Full
      <4> QED
        BY <2>14, <4>1 DEF SendToRoom
    <3> QED
      BY <2>14, <3>1, <3>2, <3>3, <3>4 DEF SendToRoom
  <2>15. CASE UNCHANGED vars
    BY <2>15 DEF vars
  <2> QED
    BY <2>1, <2>2, <2>3, <2>5, <2>6, <2>7, <2>8, <2>9, <2>10, <2>11, <2>12, <2>13,
       <2>14, <2>15 DEF Next, OnOpen
<1> QED
  BY <1>1, <1>2, PTL DEF Spec

-----------------------------------------------------------------------------
(* One room.                                                               *)

\* While a call is under way its room is fresh, and so cannot expire.
Fresh == UnderWay => room # NoRoom /\ ~idle[room]

\* What the proof needs to know of a step about rooms: it makes no subscriber or
\* call of another room.
LEMMA RoomStep ==
    ASSUME TypeOK, OneRoom, Fresh,
           UNCHANGED <<room, posting>>,
           room # NoRoom => (idle'[room] => idle[room]),
           \A r \in Rooms : r # room => subs'[r] \subseteq subs[r],
           \A p \in Peers : pc'[p] = "subscribe" =>
               pc[p] = "subscribe" /\ at'[p] = at[p]
    PROVE  OneRoom' /\ Fresh'
  BY DEF TypeOK, OneRoom, Fresh, UnderWay, Rooms, NoRoom

\* Those who are in the chat are in the room that the next ones find.
THEOREM OneRoomInvariant == Spec => [](OneRoom /\ Fresh)
<1>1. Init => OneRoom /\ Fresh
  BY DEF Init, OneRoom, Fresh, UnderWay
<1>2. TypeOK /\ OneRoom /\ Fresh /\ [Next]_vars => OneRoom' /\ Fresh'
  <2> SUFFICES ASSUME TypeOK, OneRoom, Fresh, [Next]_vars
               PROVE  OneRoom' /\ Fresh'
    OBVIOUS
  <2> USE DEF store, dc, Goto
  <2>0. /\ idle \in [Rooms -> BOOLEAN] /\ pc = [p \in Peers |-> pc[p]]
        /\ subs \in [Rooms -> SUBSET Peers]
    BY DEF TypeOK
  <2>1. CASE TtlPasses
    BY <2>1 DEF TtlPasses, OneRoom, Fresh, UnderWay
  <2>2. CASE Cleanup
    <3>1. ~UnderWay
      BY <2>2 DEF Cleanup, Fresh
    <3>2. \A r \in Rooms : subs[r] = {}
      BY <2>2 DEF Cleanup, OneRoom
    <3> QED
      BY <2>2, <3>1, <3>2 DEF Cleanup, OneRoom, Fresh, UnderWay
  \* The room that a call finds or makes.
  <2>3. ASSUME NEW r \in Rooms, GetOrCreateRoom(r), UNCHANGED subs,
               \A p \in Peers : /\ pc'[p] = "subscribe" =>
                                       pc[p] = "subscribe" /\ at'[p] \in {at[p], r}
                                /\ posting'[p] \in {posting[p], r}
        PROVE  OneRoom' /\ Fresh'
    <3>1. room' = r /\ r # NoRoom /\ ~idle'[r]
      BY <2>0, <2>3 DEF GetOrCreateRoom, Rooms, NoRoom
    <3>2. CASE room # NoRoom
      <4>1. r = room
        BY <2>3, <3>2 DEF GetOrCreateRoom
      <4> QED
        BY <2>3, <3>1, <4>1 DEF OneRoom, Fresh, UnderWay
    <3>3. CASE room = NoRoom
      <4>1. ~UnderWay /\ \A s \in Rooms : subs[s] = {}
        BY <3>3 DEF OneRoom, Fresh, Rooms, NoRoom
      <4> QED
        BY <2>3, <3>1, <4>1 DEF OneRoom, Fresh, UnderWay
    <3> QED
      BY <3>2, <3>3
  <2>4. ASSUME NEW p \in Peers, LookUpRoom(p) PROVE OneRoom' /\ Fresh'
    <3>1. PICK r \in Rooms : GetOrCreateRoom(r) /\ at' = [at EXCEPT ![p] = r]
      BY <2>4 DEF LookUpRoom
    <3>2. UNCHANGED <<subs, posting>> /\ pc' = [pc EXCEPT ![p] = "subscribe"]
      BY <2>4 DEF LookUpRoom
    <3>3. room' = r /\ r # NoRoom /\ ~idle'[r]
      BY <2>0, <3>1 DEF GetOrCreateRoom, Rooms, NoRoom
    <3>4. at'[p] = r /\ \A q \in Peers : q # p => at'[q] = at[q] /\ pc'[q] = pc[q]
      BY <3>1, <3>2 DEF TypeOK
    <3>5. CASE room # NoRoom
      <4>1. r = room
        BY <3>1, <3>5 DEF GetOrCreateRoom
      <4> QED
        BY <3>2, <3>3, <3>4, <4>1 DEF OneRoom, Fresh, UnderWay
    <3>6. CASE room = NoRoom
      <4>1. ~UnderWay /\ \A s \in Rooms : subs[s] = {}
        BY <3>6 DEF OneRoom, Fresh, Rooms, NoRoom
      <4> QED
        BY <3>2, <3>3, <3>4, <4>1 DEF OneRoom, Fresh, UnderWay
    <3> QED
      BY <3>5, <3>6
  <2>5. ASSUME NEW p \in Peers, LookUpToSend(p) PROVE OneRoom' /\ Fresh'
    <3>1. PICK r \in Rooms : GetOrCreateRoom(r) /\ posting' = [posting EXCEPT ![p] = r]
      BY <2>5 DEF LookUpToSend
    <3> QED
      BY <2>3, <2>5, <3>1 DEF LookUpToSend, TypeOK
  <2>6. ASSUME NEW p \in Peers, Subscribe(p) PROVE OneRoom' /\ Fresh'
    <3>1. at[p] = room
      BY <2>6 DEF Subscribe, OneRoom
    <3> QED
      BY <2>0, <2>6, <3>1, RoomStep DEF Subscribe
  <2>7. ASSUME NEW p \in Peers, SendToRoom(p) PROVE OneRoom' /\ Fresh'
    <3>1. posting[p] = room /\ room # NoRoom
      BY <2>7 DEF SendToRoom, OneRoom
    <3>2. UNCHANGED <<room, subs, pc, at>> /\ ~idle'[room]
      BY <2>0, <2>7, <3>1 DEF SendToRoom, TypeOK, Rooms, NoRoom
    <3>3. \A q \in Peers : posting'[q] \in {NoRoom, posting[q]}
      BY <2>7 DEF SendToRoom, TypeOK
    <3> QED
      BY <3>1, <3>2, <3>3 DEF OneRoom, Fresh, UnderWay
  <2>8. ASSUME NEW p \in Peers, RunCloseSubscription(p)
        PROVE  \A r \in Rooms : subs'[r] \subseteq subs[r]
    BY <2>0, <2>8 DEF RunCloseSubscription
  <2>9. ASSUME NEW p \in Peers, GiveUp(p) \/ OnClose(p) PROVE OneRoom' /\ Fresh'
    BY <2>0, <2>8, <2>9, RoomStep DEF GiveUp, OnClose
  <2>10. ASSUME NEW p \in Peers,
                Open(p) \/ AssignClose(p) \/ LoopEnds(p) \/ ChannelCloses(p)
         PROVE  OneRoom' /\ Fresh'
    BY <2>0, <2>10, RoomStep DEF Open, AssignClose, LoopEnds, ChannelCloses
  <2>11. ASSUME NEW p \in Peers, SendConnected(p) \/ SendHistory(p) \/ SendEvent(p)
         PROVE  OneRoom' /\ Fresh'
    BY <2>0, <2>11, RoomStep DEF SendConnected, SendHistory, SendEvent, Sends
  <2>12. CASE UNCHANGED vars
    BY <2>12, RoomStep DEF vars
  <2> QED
    BY <2>1, <2>2, <2>4, <2>5, <2>6, <2>7, <2>9, <2>10, <2>11, <2>12 DEF Next, OnOpen
<1> QED
  BY <1>1, <1>2, TypeCorrect, PTL DEF Spec

-----------------------------------------------------------------------------
(* Subscriptions. *)

\* A subscription is where OnOpen made it, and can be closed from the step on that
\* assigns closeSubscription; once OnClose has run, an OnOpen that is past its
\* first message has none.
SubscriptionPlaces ==
    \A p \in Peers :
        /\ pc[p] \in {"idle", "lookUp", "subscribe"} 
            => \A r \in Rooms : p \notin subs[r]
        /\ \A r \in Rooms : p \in subs[r] => r = at[p]
        /\ pc[p] \in {"connected", "history", "loop", "giveUp", "done"}
            => p \in canClose
        /\ channel[p] = "connecting" => pc[p] = "idle"
        /\ closer[p] # "idle" => channel[p] = "closed"
        /\ pc[p] = "done" \/ (closer[p] = "done" /\ pc[p] \in {"history", "loop"})
              => \A r \in Rooms : p \notin subs[r]

\* SubscriptionPlaces holds in every state: an OnOpen that goes on after OnClose has
\* run finds the channel closed.
THEOREM SubscriptionInvariant == Spec => []SubscriptionPlaces
<1>1. Init => SubscriptionPlaces
  BY DEF Init, SubscriptionPlaces
<1>2. TypeOK /\ SubscriptionPlaces /\ [Next]_vars => SubscriptionPlaces'
  <2> SUFFICES ASSUME TypeOK, SubscriptionPlaces, [Next]_vars
               PROVE  SubscriptionPlaces'
    OBVIOUS
  <2> USE DEF SubscriptionPlaces, dc, Goto
  <2>0. /\ pc = [p \in Peers |-> pc[p]] /\ at \in [Peers -> Rooms \cup {NoRoom}]
        /\ subs \in [Rooms -> SUBSET Peers]
        /\ channel = [p \in Peers |-> channel[p]]
        /\ closer = [p \in Peers |-> closer[p]]
    BY DEF TypeOK
  <2>1. ASSUME UNCHANGED <<subs, channel, closer, pc, at, canClose>>
        PROVE  SubscriptionPlaces'
    BY <2>1
  <2>2. ASSUME NEW p \in Peers, Open(p) PROVE SubscriptionPlaces'
    BY <2>0, <2>2 DEF Open
  <2>3. ASSUME NEW p \in Peers, LookUpRoom(p) PROVE SubscriptionPlaces'
    BY <2>0, <2>3 DEF LookUpRoom
  <2>4. ASSUME NEW p \in Peers, Subscribe(p) PROVE SubscriptionPlaces'
    BY <2>0, <2>4 DEF Subscribe
  <2>5. ASSUME NEW p \in Peers, AssignClose(p) PROVE SubscriptionPlaces'
    BY <2>0, <2>5 DEF AssignClose
  <2>6. ASSUME NEW p \in Peers, SendConnected(p) \/ SendHistory(p) \/ SendEvent(p)
        PROVE SubscriptionPlaces'
    BY <2>0, <2>6 DEF SendConnected, SendHistory, SendEvent, Sends
  <2>7. ASSUME NEW p \in Peers, LoopEnds(p) PROVE SubscriptionPlaces'
    BY <2>0, <2>7 DEF LoopEnds
  <2>8. ASSUME NEW p \in Peers, GiveUp(p) PROVE SubscriptionPlaces'
    <3>1. p \in canClose
      BY <2>8 DEF GiveUp
    <3> QED
      BY <2>0, <2>8, <3>1 DEF GiveUp, RunCloseSubscription
  <2>9. ASSUME NEW p \in Peers, ChannelCloses(p) PROVE SubscriptionPlaces'
    BY <2>0, <2>9 DEF ChannelCloses
  <2>10. ASSUME NEW p \in Peers, OnClose(p) PROVE SubscriptionPlaces'
    BY <2>0, <2>10 DEF OnClose, RunCloseSubscription
  <2>11. CASE TtlPasses \/ Cleanup \/ UNCHANGED vars
    BY <2>1, <2>11 DEF TtlPasses, Cleanup, vars
  <2>12. ASSUME NEW p \in Peers, LookUpToSend(p) \/ SendToRoom(p)
         PROVE  SubscriptionPlaces'
    BY <2>1, <2>12 DEF LookUpToSend, SendToRoom
  <2> QED
    BY <2>2, <2>3, <2>4, <2>5, <2>6, <2>7, <2>8, <2>9, <2>10, <2>11, <2>12
       DEF Next, OnOpen
<1> QED
  BY <1>1, <1>2, TypeCorrect, PTL DEF Spec

\* Every subscription is given back, whichever of the handlers was first.
THEOREM GivenBack == Spec => []SubscriptionGivenBack
<1>1. SubscriptionPlaces => SubscriptionGivenBack
  BY DEF SubscriptionPlaces, SubscriptionGivenBack
<1> QED
  BY <1>1, SubscriptionInvariant, PTL

-----------------------------------------------------------------------------
(* What a peer is sent. *)

Follows(a, b, gaps) == IF gaps THEN a < b ELSE b = a + 1

\* The last event is older than the next one, and just before it in a feed that has
\* missed nothing so far.
UpTo(last, next, current) == last < next /\ (current => last = next - 1)

\* What was said and what is queued fit together and lead up to the event `next`.
Fits(said, queued, gaps, next, current) ==
    /\ InOrder(said, gaps) /\ InOrder(queued, gaps)
    /\ said # <<>> /\ queued # <<>> => Follows(said[Len(said)], queued[1], gaps)
    /\ queued # <<>> => UpTo(queued[Len(queued)], next, current)
    /\ queued = <<>> /\ said # <<>> => UpTo(said[Len(said)], next, current)
    /\ queued = <<>> /\ said = <<>> /\ current => next = 1

\* What is appended is the last element.
LEMMA AppendOf ==
    ASSUME NEW s \in Seq(Nat), NEW n \in Nat
    PROVE  Append(s, n) # <<>> /\ Append(s, n)[Len(Append(s, n))] = n
OBVIOUS

\* What is left of a sequence without its first element.
LEMMA TailOf ==
    ASSUME NEW s \in Seq(Nat), s # <<>>
    PROVE  /\ Len(s) \in Nat \ {0} /\ Len(Tail(s)) = Len(s) - 1
           /\ \A i \in 1..Len(Tail(s)) : Tail(s)[i] = s[i + 1]
<1>1. Len(s) \in Nat \ {0} /\ Len(Tail(s)) = Len(s) - 1
  OBVIOUS
<1>2. \A i \in 1..Len(Tail(s)) : Tail(s)[i] = s[i + 1]
  OBVIOUS
<1> QED
  BY <1>1, <1>2

\* The empty sequence adds nothing.
LEMMA ConcatEmpty == \A s \in Seq(Nat) : s \o <<>> = s /\ <<>> \o s = s
OBVIOUS

\* Messages in order stay so when the next one is appended,
LEMMA OrderAppend ==
    ASSUME NEW s \in Seq(Nat), NEW n \in Nat, NEW gaps \in BOOLEAN, InOrder(s, gaps),
           s # <<>> => Follows(s[Len(s)], n, gaps)
    PROVE  InOrder(Append(s, n), gaps)
<1> DEFINE t == Append(s, n)
<1>1. Len(t) = Len(s) + 1 /\ Len(s) \in Nat /\ t[Len(s) + 1] = n
  OBVIOUS
<1>2. \A i \in 1..Len(s) : t[i] = s[i]
  OBVIOUS
<1> SUFFICES ASSUME NEW i \in 1..Len(t) - 1
             PROVE  Follows(t[i], t[i + 1], gaps)
  BY DEF InOrder, Follows
<1> HIDE DEF t
<1>3. CASE i = Len(s)
  <2>1. s # <<>> /\ t[i] = s[Len(s)] /\ t[i + 1] = n
    BY <1>1, <1>2, <1>3
  <2> QED
    BY <2>1
<1>4. CASE i # Len(s)
  <2>1. i \in 1..Len(s) - 1 /\ i + 1 \in 1..Len(s)
    BY <1>1, <1>4
  <2>2. t[i] = s[i] /\ t[i + 1] = s[i + 1]
    BY <1>1, <1>2, <2>1
  <2> QED
    BY <2>1, <2>2 DEF InOrder, Follows
<1> QED
  BY <1>3, <1>4

\* when the first is taken,
LEMMA OrderTail ==
    ASSUME NEW s \in Seq(Nat), NEW gaps \in BOOLEAN, InOrder(s, gaps), s # <<>>
    PROVE  InOrder(Tail(s), gaps)
<1> DEFINE t == Tail(s)
<1>1. Len(t) = Len(s) - 1 /\ Len(s) \in Nat
  OBVIOUS
<1>2. \A i \in 1..Len(t) : t[i] = s[i + 1]
  OBVIOUS
<1> SUFFICES ASSUME NEW i \in 1..Len(t) - 1
             PROVE  Follows(t[i], t[i + 1], gaps)
  BY DEF InOrder, Follows
<1> HIDE DEF t
<1>3. i + 1 \in 1..Len(s) - 1 /\ i \in 1..Len(t) /\ i + 1 \in 1..Len(t)
  BY <1>1
<1>4. t[i] = s[i + 1] /\ t[i + 1] = s[i + 1 + 1]
  BY <1>2, <1>3
<1> QED
  BY <1>3, <1>4 DEF InOrder, Follows

\* and when one sequence leads up to another.
LEMMA OrderConcat ==
    ASSUME NEW s \in Seq(Nat), NEW t \in Seq(Nat), NEW gaps \in BOOLEAN,
           InOrder(s, gaps), InOrder(t, gaps),
           s # <<>> /\ t # <<>> => Follows(s[Len(s)], t[1], gaps)
    PROVE  InOrder(s \o t, gaps)
<1> DEFINE u == s \o t
<1>1. Len(u) = Len(s) + Len(t) /\ Len(s) \in Nat /\ Len(t) \in Nat
  OBVIOUS
<1>2. /\ \A i \in 1..Len(s) : u[i] = s[i]
      /\ \A i \in 1..Len(t) : u[Len(s) + i] = t[i]
  OBVIOUS
<1> SUFFICES ASSUME NEW i \in 1..Len(u) - 1
             PROVE  Follows(u[i], u[i + 1], gaps)
  BY DEF InOrder, Follows
<1> HIDE DEF u
<1>3. CASE i < Len(s)
  <2>1. i \in 1..Len(s) - 1 /\ i \in 1..Len(s) /\ i + 1 \in 1..Len(s)
    BY <1>1, <1>3
  <2>2. u[i] = s[i] /\ u[i + 1] = s[i + 1]
    BY <1>2, <2>1
  <2> QED
    BY <2>1, <2>2 DEF InOrder, Follows
<1>4. CASE i = Len(s)
  <2>1. i \in 1..Len(s) /\ 1 \in 1..Len(t) /\ s # <<>> /\ t # <<>>
    BY <1>1, <1>4
  <2>2. u[i] = s[Len(s)] /\ u[i + 1] = t[1]
    BY <1>2, <1>4, <2>1
  <2> QED
    BY <2>1, <2>2
<1>5. CASE i > Len(s)
  <2> DEFINE j == i - Len(s)
  <2>1. /\ j \in 1..Len(t) - 1 /\ j \in 1..Len(t) /\ j + 1 \in 1..Len(t)
        /\ i = Len(s) + j /\ i + 1 = Len(s) + (j + 1)
    BY <1>1, <1>5
  <2> HIDE DEF j
  <2>2. u[i] = t[j] /\ u[i + 1] = t[j + 1]
    BY <1>2, <2>1
  <2> QED
    BY <2>1, <2>2 DEF InOrder, Follows
<1> QED
  BY <1>1, <1>3, <1>4, <1>5

\* The next event comes to a subscriber's channel.
LEMMA FitsQueued ==
    ASSUME NEW said \in Seq(Nat), NEW queued \in Seq(Nat), NEW gaps \in BOOLEAN,
           NEW next \in Nat, NEW current \in BOOLEAN,
           Fits(said, queued, gaps, next, current), gaps \/ current
    PROVE  Fits(said, Append(queued, next), gaps, next + 1, current)
<1> DEFINE q == Append(queued, next)
<1>0. /\ Len(queued) \in Nat /\ Len(q) = Len(queued) + 1 /\ q \in Seq(Nat)
      /\ q[Len(queued) + 1] = next
      /\ \A i \in 1..Len(queued) : q[i] = queued[i]
      /\ queued = <<>> <=> Len(queued) = 0
      /\ q = <<>> <=> Len(q) = 0
  OBVIOUS
<1>1. /\ q # <<>> /\ q[Len(q)] = next
      /\ queued = <<>> => q[1] = next
      /\ queued # <<>> => q[1] = queued[1]
  <2> HIDE DEF q
  <2> QED
    BY <1>0
<1>2. /\ queued # <<>> => queued[Len(queued)] \in Nat
      /\ said # <<>> => said[Len(said)] \in Nat
  OBVIOUS
<1>3. queued # <<>> => Follows(queued[Len(queued)], next, gaps)
  BY <1>2 DEF Fits, UpTo, Follows
<1>4. InOrder(q, gaps)
  BY <1>3, OrderAppend DEF Fits
<1>5. said # <<>> => Follows(said[Len(said)], q[1], gaps)
  BY <1>1, <1>2 DEF Fits, UpTo, Follows
<1>6. UpTo(q[Len(q)], next + 1, current)
  BY <1>1 DEF UpTo
<1> SUFFICES Fits(said, q, gaps, next + 1, current)
  OBVIOUS
<1> HIDE DEF q
<1> QED
  BY <1>1, <1>4, <1>5, <1>6 DEF Fits

\* The next event comes, but not to this channel, which was full or is no longer
\* subscribed.
LEMMA FitsMissed ==
    ASSUME NEW said \in Seq(Nat), NEW queued \in Seq(Nat), NEW gaps \in BOOLEAN,
           NEW next \in Nat, NEW current \in BOOLEAN,
           Fits(said, queued, gaps, next, current)
    PROVE  /\ Fits(said, queued, TRUE, next + 1, FALSE)
           /\ Fits(said, queued, gaps, next + 1, FALSE)
           /\ Fits(said, queued, gaps, next, FALSE)
<1>1. /\ queued # <<>> => queued[Len(queued)] \in Nat /\ queued[1] \in Nat
      /\ said # <<>> => said[Len(said)] \in Nat
  OBVIOUS
<1>2. \A s \in Seq(Nat) : InOrder(s, gaps) => InOrder(s, TRUE)
  BY DEF InOrder
<1>3. \A last \in Nat : UpTo(last, next, current) =>
          UpTo(last, next + 1, FALSE) /\ UpTo(last, next, FALSE)
  BY DEF UpTo
<1>4. \A a, b \in Nat : Follows(a, b, gaps) => Follows(a, b, TRUE)
  BY DEF Follows
<1> QED
  BY <1>1, <1>2, <1>3, <1>4 DEF Fits

\* The goroutine sends the first event of the channel.
LEMMA FitsSent ==
    ASSUME NEW said \in Seq(Nat), NEW queued \in Seq(Nat), NEW gaps \in BOOLEAN,
           NEW next \in Nat, NEW current \in BOOLEAN,
           Fits(said, queued, gaps, next, current), queued # <<>>
    PROVE  Fits(Append(said, Head(queued)), Tail(queued), gaps, next, current)
<1> DEFINE a == Append(said, Head(queued))
           q == Tail(queued)
<1>0. /\ Len(queued) \in Nat \ {0} /\ queued[1] \in Nat /\ Head(queued) = queued[1]
      /\ Len(q) = Len(queued) - 1
      /\ \A i \in 1..Len(q) : q[i] = queued[i + 1]
      /\ q = <<>> <=> Len(q) = 0
  <2>1. Len(queued) \in Nat \ {0} /\ queued[1] \in Nat /\ Head(queued) = queued[1]
    OBVIOUS
  <2>2. q \in Seq(Nat) /\ Len(q) = Len(queued) - 1
    BY <2>1
  <2>3. \A i \in 1..Len(q) : q[i] = queued[i + 1]
    BY <2>1
  <2>4. \A s \in Seq(Nat) : s = <<>> <=> Len(s) = 0
    OBVIOUS
  <2> QED
    BY <2>1, <2>2, <2>3, <2>4
<1>1. a # <<>> /\ a[Len(a)] = queued[1] /\ queued[1] \in Nat /\ Head(queued) = queued[1]
  <2>1. \A n \in Nat : Append(said, n) # <<>> /\ Append(said, n)[Len(Append(said, n))] = n
    OBVIOUS
  <2> QED
    BY <1>0, <2>1
<1>2. InOrder(a, gaps)
  BY <1>1, OrderAppend DEF Fits
<1>3. InOrder(q, gaps)
  BY OrderTail DEF Fits
<1>4. q # <<>> => /\ q[1] = queued[2] /\ q[Len(q)] = queued[Len(queued)]
                  /\ 1 \in 1..Len(queued) - 1
  <2> HIDE DEF q
  <2> QED
    BY <1>0
<1>5. q = <<>> => Len(queued) = 1
  BY <1>0
<1>6. q # <<>> => Follows(queued[1], queued[1 + 1], gaps)
  BY <1>4 DEF Fits, InOrder, Follows
<1> SUFFICES Fits(a, q, gaps, next, current)
  OBVIOUS
<1> HIDE DEF a, q
<1> QED
  BY <1>1, <1>2, <1>3, <1>4, <1>5, <1>6 DEF Fits

\* What was said and what is queued, taken together.
LEMMA FitsWhole ==
    ASSUME NEW said \in Seq(Nat), NEW queued \in Seq(Nat), NEW gaps \in BOOLEAN,
           NEW next \in Nat, NEW current \in BOOLEAN,
           Fits(said, queued, gaps, next, current)
    PROVE  /\ InOrder(said \o queued, gaps)
           /\ current /\ next # 1 =>
                 said \o queued # <<>> /\ (said \o queued)[Len(said \o queued)] = next - 1
<1> DEFINE feed == said \o queued
<1>1. InOrder(feed, gaps)
  BY OrderConcat DEF Fits
<1>2. ASSUME current, next # 1
      PROVE  feed # <<>> /\ feed[Len(feed)] = next - 1
  <2>1. CASE queued = <<>>
    <3>1. said # <<>> /\ said[Len(said)] = next - 1
      BY <1>2, <2>1 DEF Fits, UpTo
    <3>2. feed = said
      BY <2>1
    <3> QED
      BY <3>1, <3>2
  <2>2. CASE queued # <<>>
    <3>1. queued[Len(queued)] = next - 1
      BY <1>2, <2>2 DEF Fits, UpTo
    <3>2. feed # <<>> /\ feed[Len(feed)] = queued[Len(queued)]
      BY <2>2
    <3> QED
      BY <3>1, <3>2
  <2> QED
    BY <2>1, <2>2
<1> QED
  BY <1>1, <1>2

\* A full history gives up its oldest event, and fits what comes all the same.
LEMMA RememberFits ==
    ASSUME NEW h \in Seq(Nat), NEW next \in Nat, Len(h) <= MaxHistory,
           Fits(<<>>, h, FALSE, next, TRUE)
    PROVE  Fits(<<>>, Remember(h, next), FALSE, next + 1, TRUE)
<1> DEFINE old == IF Len(h) >= MaxHistory THEN Tail(h) ELSE h
<1>1. old \in Seq(Nat) /\ InOrder(old, FALSE) /\ (old # <<>> => old[Len(old)] = next - 1)
  <2>1. CASE Len(h) >= MaxHistory
    <3>1. h # <<>> /\ old = Tail(h) /\ old \in Seq(Nat)
      BY <2>1, HistoryHasRoom
    <3>2. InOrder(old, FALSE)
      BY <3>1, OrderTail DEF Fits
    <3>3. old # <<>> => old[Len(old)] = h[Len(h)]
      <4>1. Len(h) \in Nat /\ Len(old) = Len(h) - 1
        BY <3>1, TailOf
      <4>2. \A i \in 1..Len(old) : old[i] = h[i + 1]
        <5>1. \A i \in 1..Len(Tail(h)) : Tail(h)[i] = h[i + 1]
          BY <3>1, TailOf
        <5> QED
          BY <3>1, <5>1
      <4> HIDE DEF old
      <4>3. old # <<>> => Len(old) \in Nat \ {0}
        BY <3>1
      <4> QED
        BY <4>1, <4>2, <4>3
    <3>4. h[Len(h)] = next - 1
      BY <3>1 DEF Fits, UpTo
    <3> HIDE DEF old
    <3> QED
      BY <3>1, <3>2, <3>3, <3>4
  <2>2. CASE ~(Len(h) >= MaxHistory)
    BY <2>2 DEF Fits, UpTo
  <2> QED
    BY <2>1, <2>2
<1>2. Remember(h, next) = Append(old, next)
  BY DEF Remember
<1> HIDE DEF old
<1>3. InOrder(Append(old, next), FALSE)
  <2>1. old # <<>> => Follows(old[Len(old)], next, FALSE)
    BY <1>1 DEF Follows
  <2> QED
    BY <1>1, <2>1, OrderAppend
<1>4. Append(old, next) # <<>> /\ Append(old, next)[Len(Append(old, next))] = next
  BY <1>1, AppendOf
<1>5. InOrder(<<>>, FALSE)
  BY DEF InOrder
<1>6. UpTo(next, next + 1, TRUE)
  BY DEF UpTo
<1> QED
  BY <1>2, <1>3, <1>4, <1>5, <1>6 DEF Fits

\* A copy of the history is what a new subscriber has to be told.
LEMMA HistoryCopied ==
    ASSUME NEW h \in Seq(Nat), NEW next \in Nat, Fits(<<>>, h, FALSE, next, TRUE)
    PROVE  Fits(h, <<>>, FALSE, next, TRUE)
BY DEF Fits

\* What comes before the events in p's channel: the copy of the history until it is
\* sent, and then what has been sent.
Said(p) == IF pc[p] = "loop" THEN got[p] ELSE backlog[p]

\* p has missed nothing and will be told what comes.
Current(p) == p \in subs[at[p]] \ missed

FeedFits(p) ==
    /\ pc[p] \in {"idle", "lookUp", "subscribe"}
          => got[p] = <<>> /\ queue[p] = <<>> /\ p \notin missed
    /\ pc[p] \in {"assign", "connected", "history"} => got[p] = <<>>
    /\ pc[p] = "loop" => backlog[p] = <<>>
    /\ InOrder(got[p], p \in missed)
    /\ Sending(p) => Fits(Said(p), queue[p], p \in missed, nextID[at[p]], Current(p))

HistoriesFit == \A r \in Rooms : Fits(<<>>, history[r], FALSE, nextID[r], TRUE)

FeedsFit == HistoriesFit /\ \A p \in Peers : FeedFits(p)

\* What the sequences are, and of which room a peer is sent the messages.
LEMMA FeedTypes ==
    ASSUME TypeOK, NEW p \in Peers
    PROVE  /\ got[p] \in Seq(Nat) /\ backlog[p] \in Seq(Nat) /\ queue[p] \in Seq(Nat)
           /\ Said(p) \in Seq(Nat)
           /\ Current(p) \in BOOLEAN
           /\ Sending(p) => at[p] \in Rooms /\ nextID[at[p]] \in Nat
<1>1. got[p] \in Seq(Nat) /\ backlog[p] \in Seq(Nat) /\ queue[p] \in Seq(Nat)
  BY DEF TypeOK
<1>2. Current(p) \in BOOLEAN
  BY DEF Current
<1>3. Sending(p) => at[p] \in Rooms
  BY DEF TypeOK, Sending
<1>4. \A r \in Rooms : nextID[r] \in Nat
  BY DEF TypeOK
<1> QED
  BY <1>1, <1>2, <1>3, <1>4 DEF Said

\* A peer that is told nothing and misses nothing in a step.
LEMMA FeedLeftAlone ==
    ASSUME TypeOK, NEW p \in Peers, FeedFits(p),
           got'[p] = got[p], backlog'[p] = backlog[p], queue'[p] = queue[p],
           p \in missed' <=> p \in missed,
           Sending(p) => /\ at'[p] = at[p] /\ nextID'[at[p]] = nextID[at[p]]
                         /\ p \in subs'[at[p]] => p \in subs[at[p]],
           \/ pc'[p] = pc[p] \/ pc'[p] = "giveUp"
           \/ pc[p] = "assign" /\ pc'[p] = "connected"
           \/ pc[p] = "connected" /\ pc'[p] = "history"
           \/ pc[p] = "idle" /\ pc'[p] = "lookUp"
           \/ pc[p] = "lookUp" /\ pc'[p] = "subscribe"
    PROVE  FeedFits(p)'
<1>1. InOrder(got[p], p \in missed)'
  <2>1. CASE p \in missed
    BY <2>1 DEF FeedFits, InOrder
  <2>2. CASE p \notin missed
    BY <2>2 DEF FeedFits, InOrder
  <2> QED
    BY <2>1, <2>2
<1>2. ASSUME Sending(p)'
      PROVE  Fits(Said(p), queue[p], p \in missed, nextID[at[p]], Current(p))'
  <2>1. Sending(p) /\ Said(p)' = Said(p)
    BY <1>2 DEF Sending, Said
  <2>2. Fits(Said(p), queue[p], p \in missed, nextID[at[p]], Current(p))
    BY <2>1 DEF FeedFits
  <2>3. Current(p)' => Current(p)
    BY <2>1 DEF Current
  <2>4. Fits(Said(p), queue[p], p \in missed, nextID[at[p]], FALSE)
    <3>1. /\ Said(p) \in Seq(Nat) /\ queue[p] \in Seq(Nat) /\ nextID[at[p]] \in Nat
          /\ (p \in missed) \in BOOLEAN /\ Current(p) \in BOOLEAN
      BY <2>1, FeedTypes
    <3> QED
      BY <2>2, <3>1, FitsMissed
  <2> DEFINE said == Said(p)
             next == nextID[at[p]]
  <2>5. UNCHANGED <<said, queue[p], next>> /\ (p \in missed)' = (p \in missed)
    BY <2>1
  <2>6. Fits(said, queue[p], p \in missed, next, Current(p)')
    BY <2>2, <2>3, <2>4 DEF Fits, UpTo
  <2> QED
    BY <2>5, <2>6 DEF Fits, InOrder, UpTo, Follows
<1> QED
  BY <1>1, <1>2 DEF FeedFits

\* The feed of every peer fits together in every state.
THEOREM FeedsInvariant == Spec => []FeedsFit
<1>1. Init => FeedsFit
  <2> SUFFICES ASSUME Init PROVE FeedsFit
    OBVIOUS
  <2>1. \A p \in Peers : got[p] = <<>> /\ queue[p] = <<>> /\ pc[p] = "idle" /\ missed = {}
    BY DEF Init
  <2>2. \A gaps : InOrder(<<>>, gaps)
    BY DEF InOrder
  <2>3. HistoriesFit
    BY <2>2 DEF Init, HistoriesFit, Fits
  <2> QED
    BY <2>1, <2>2, <2>3 DEF FeedsFit, FeedFits, Sending
<1>2. TypeOK /\ SubscriptionPlaces /\ FeedsFit /\ [Next]_vars => FeedsFit'
  <2> SUFFICES ASSUME TypeOK, SubscriptionPlaces, FeedsFit, [Next]_vars
               PROVE  FeedsFit'
    OBVIOUS
  <2> USE DEF store, dc, Goto
  <2>0. /\ pc = [p \in Peers |-> pc[p]] /\ at = [p \in Peers |-> at[p]]
        /\ subs \in [Rooms -> SUBSET Peers]
        /\ got = [p \in Peers |-> got[p]] /\ backlog = [p \in Peers |-> backlog[p]]
        /\ queue = [p \in Peers |-> queue[p]]
    BY DEF TypeOK
  <2>1. UNCHANGED <<history, nextID>> => HistoriesFit'
    BY DEF FeedsFit, HistoriesFit
  \* The steps of which the feeds take no notice.
  <2>2. ASSUME UNCHANGED <<history, nextID, got, backlog, queue, missed>>,
               \A p \in Peers : Sending(p) =>
                   at'[p] = at[p] /\ (p \in subs'[at[p]] => p \in subs[at[p]]),
               \A p \in Peers :
                   \/ pc'[p] = pc[p] \/ pc'[p] = "giveUp"
                   \/ pc[p] = "assign" /\ pc'[p] = "connected"
                   \/ pc[p] = "connected" /\ pc'[p] = "history"
                   \/ pc[p] = "idle" /\ pc'[p] = "lookUp"
                   \/ pc[p] = "lookUp" /\ pc'[p] = "subscribe"
        PROVE  FeedsFit'
    <3>1. ASSUME NEW p \in Peers
          PROVE  FeedFits(p)'
      BY <2>2, FeedLeftAlone DEF FeedsFit
    <3> QED
      BY <2>1, <2>2, <3>1 DEF FeedsFit
  <2>3. CASE TtlPasses \/ Cleanup \/ UNCHANGED vars
    BY <2>2, <2>3 DEF TtlPasses, Cleanup, vars
  <2>4. ASSUME NEW p \in Peers, Open(p) \/ LookUpRoom(p)
        PROVE  FeedsFit'
    <3>1. UNCHANGED <<history, nextID, got, backlog, queue, missed, subs>>
      BY <2>4 DEF Open, LookUpRoom, GetOrCreateRoom
    <3>2. channel[p] = "connecting" => pc[p] = "idle"
      BY DEF SubscriptionPlaces
    <3>3. \A q \in Peers : \/ pc'[q] = pc[q]
                           \/ pc[q] = "idle" /\ pc'[q] = "lookUp"
                           \/ pc[q] = "lookUp" /\ pc'[q] = "subscribe"
      BY <2>0, <2>4, <3>2 DEF Open, LookUpRoom
    <3>4. \A q \in Peers : Sending(q) => at'[q] = at[q]
      <4>1. CASE Open(p)
        BY <4>1 DEF Open
      <4>2. CASE LookUpRoom(p)
        <5>1. PICK r \in Rooms : at' = [at EXCEPT ![p] = r]
          BY <4>2 DEF LookUpRoom
        <5>2. ~Sending(p)
          BY <4>2 DEF LookUpRoom, Sending
        <5> QED
          BY <2>0, <5>1, <5>2
      <4> QED
        BY <2>4, <4>1, <4>2
    <3> QED
      BY <2>2, <3>1, <3>3, <3>4
  <2>5. ASSUME NEW p \in Peers, Subscribe(p)
        PROVE  FeedsFit'
    <3>1. pc[p] = "subscribe" /\ at[p] \in Rooms
      BY <2>5 DEF Subscribe, TypeOK
    <3>2. /\ got[p] = <<>> /\ queue[p] = <<>> /\ p \notin missed
          /\ Fits(<<>>, history[at[p]], FALSE, nextID[at[p]], TRUE)
      BY <3>1 DEF FeedsFit, HistoriesFit, FeedFits
    <3>3. Fits(history[at[p]], <<>>, FALSE, nextID[at[p]], TRUE)
      <4>1. history[at[p]] \in Seq(Nat) /\ nextID[at[p]] \in Nat
        BY <3>1 DEF TypeOK
      <4> QED
        BY <3>2, <4>1, HistoryCopied
    <3>4. /\ UNCHANGED <<history, nextID, got, queue, missed, at>>
          /\ backlog'[p] = history[at[p]] /\ pc'[p] = "assign"
          /\ p \in subs'[at[p]]
          /\ \A q \in Peers \ {p} : /\ pc'[q] = pc[q] /\ backlog'[q] = backlog[q]
                                    /\ \A r \in Rooms : q \in subs'[r] => q \in subs[r]
      BY <2>0, <2>5, <3>1 DEF Subscribe
    <3>5. FeedFits(p)'
      <4>1. Said(p)' = history[at[p]] /\ Current(p)' = TRUE /\ (p \in missed)' = FALSE
        BY <3>2, <3>4 DEF Said, Current
      <4>2. Fits(Said(p)', <<>>, (p \in missed)', nextID[at[p]], Current(p)')
        BY <3>3, <4>1
      <4>3. Fits(Said(p), queue[p], p \in missed, nextID[at[p]], Current(p))'
        BY <3>2, <3>4, <4>2 DEF Fits, InOrder, UpTo, Follows
      <4>4. InOrder(got[p], p \in missed)'
        BY <3>2, <3>4 DEF InOrder
      <4> QED
        BY <3>2, <3>4, <4>3, <4>4 DEF FeedFits
    <3>6. ASSUME NEW q \in Peers \ {p}
          PROVE  FeedFits(q)'
      <4>1. Sending(q) => at[q] \in Rooms
        BY FeedTypes
      <4> QED
        BY <3>4, <4>1, FeedLeftAlone DEF FeedsFit
    <3> QED
      BY <2>1, <3>4, <3>5, <3>6 DEF FeedsFit
  <2>6. ASSUME NEW p \in Peers, AssignClose(p) \/ SendConnected(p)
        PROVE  FeedsFit'
    BY <2>0, <2>2, <2>6 DEF AssignClose, SendConnected, Sends
  <2>7. ASSUME NEW p \in Peers, SendHistory(p)
        PROVE  FeedsFit'
    <3>1. /\ UNCHANGED <<history, nextID, queue, missed, at, subs>>
          /\ \A q \in Peers \ {p} : /\ pc'[q] = pc[q] /\ backlog'[q] = backlog[q]
                                    /\ got'[q] = got[q]
          /\ pc[p] = "history" /\ pc'[p] \in {"loop", "giveUp"}
      BY <2>0, <2>7 DEF SendHistory, Sends
    <3>2. \A q \in Peers \ {p} : FeedFits(q)'
      BY <3>1, FeedLeftAlone DEF FeedsFit
    <3>3. FeedFits(p)'
      <4>1. CASE pc'[p] = "giveUp" /\ got'[p] = got[p] /\ backlog'[p] = backlog[p]
        BY <3>1, <4>1, FeedLeftAlone DEF FeedsFit
      <4>2. CASE pc'[p] = "loop" /\ got'[p] = backlog[p] /\ backlog'[p] = <<>>
        <5>1. Said(p)' = Said(p) /\ Sending(p) /\ got'[p] = Said(p) /\ Current(p)' = Current(p)
          BY <3>1, <4>2 DEF Said, Sending, Current
        <5>2. Fits(Said(p), queue[p], p \in missed, nextID[at[p]], Current(p))
          BY <5>1 DEF FeedsFit, FeedFits
        <5>3. Fits(Said(p), queue[p], p \in missed, nextID[at[p]], Current(p))'
          BY <3>1, <5>1, <5>2 DEF Fits, InOrder, UpTo, Follows
        <5>4. InOrder(got[p], p \in missed)'
          BY <3>1, <5>1, <5>2 DEF Fits, InOrder
        <5> QED
          BY <3>1, <4>2, <5>3, <5>4 DEF FeedFits
      <4>3. got[p] = <<>>
        BY <3>1 DEF FeedsFit, FeedFits
      <4>4. \/ pc'[p] = "giveUp" /\ got'[p] = got[p] /\ backlog'[p] = backlog[p]
            \/ pc'[p] = "loop" /\ got'[p] = backlog[p] /\ backlog'[p] = <<>>
        <5>1. CASE backlog[p] = <<>>
          BY <2>0, <2>7, <4>3, <5>1 DEF SendHistory
        <5>2. CASE backlog[p] # <<>> /\ pc'[p] = "giveUp"
          BY <2>0, <2>7, <5>2 DEF SendHistory, Sent
        <5>3. CASE backlog[p] # <<>> /\ pc'[p] # "giveUp"
          BY <2>0, <2>7, <3>1, <5>3 DEF SendHistory, Sent
        <5> QED
          BY <5>1, <5>2, <5>3
      <4> QED
        BY <4>1, <4>2, <4>4
    <3> QED
      BY <2>1, <3>1, <3>2, <3>3 DEF FeedsFit
  <2>8. ASSUME NEW p \in Peers, SendEvent(p)
        PROVE  FeedsFit'
    <3>1. /\ UNCHANGED <<history, nextID, missed, at, subs, backlog>>
          /\ \A q \in Peers \ {p} : /\ pc'[q] = pc[q] /\ queue'[q] = queue[q]
                                    /\ got'[q] = got[q]
          /\ pc[p] = "loop" /\ queue[p] # <<>> /\ queue'[p] = Tail(queue[p])
          /\ \/ pc'[p] = "giveUp" /\ got'[p] = got[p]
             \/ pc'[p] = "loop" /\ got'[p] = Append(got[p], Head(queue[p]))
      BY <2>0, <2>8 DEF SendEvent, Sends, Sent
    <3>2. \A q \in Peers \ {p} : FeedFits(q)'
      BY <3>1, FeedLeftAlone DEF FeedsFit
    <3>3. FeedFits(p)'
      <4>1. CASE pc'[p] = "giveUp" /\ got'[p] = got[p]
        <5>1. InOrder(got[p], p \in missed)'
          BY <3>1, <4>1 DEF FeedsFit, FeedFits, InOrder
        <5> QED
          BY <4>1, <5>1 DEF FeedFits, Sending
      <4>2. CASE pc'[p] = "loop" /\ got'[p] = Append(got[p], Head(queue[p]))
        <5>1. Sending(p) /\ Said(p) = got[p] /\ Said(p)' = got'[p] /\ Current(p)' = Current(p)
          BY <3>1, <4>2 DEF Said, Sending, Current
        <5>2. Fits(got[p], queue[p], p \in missed, nextID[at[p]], Current(p))
          BY <5>1 DEF FeedsFit, FeedFits
        <5>3. Fits(got'[p], queue'[p], p \in missed, nextID[at[p]], Current(p))
          <6>1. /\ got[p] \in Seq(Nat) /\ queue[p] \in Seq(Nat) /\ nextID[at[p]] \in Nat
                /\ (p \in missed) \in BOOLEAN /\ Current(p) \in BOOLEAN
            BY <5>1, FeedTypes
          <6>2. Fits(Append(got[p], Head(queue[p])), Tail(queue[p]), p \in missed,
                     nextID[at[p]], Current(p))
            <7>1. queue[p] # <<>>
              BY <3>1
            <7> QED
              BY <5>2, <6>1, <7>1, FitsSent
          <6> QED
            BY <3>1, <4>2, <6>2
        <5>4. Fits(Said(p), queue[p], p \in missed, nextID[at[p]], Current(p))'
          BY <3>1, <5>1, <5>3 DEF Fits, InOrder, UpTo, Follows
        <5>5. InOrder(got[p], p \in missed)'
          BY <3>1, <5>3 DEF Fits, InOrder
        <5>6. backlog'[p] = <<>>
          BY <3>1 DEF FeedsFit, FeedFits
        <5> QED
          BY <3>1, <4>2, <5>4, <5>5, <5>6 DEF FeedFits
      <4> QED
        BY <3>1, <4>1, <4>2
    <3> QED
      BY <2>1, <3>1, <3>2, <3>3 DEF FeedsFit
  <2>9. ASSUME NEW p \in Peers, LoopEnds(p) \/ GiveUp(p)
        PROVE  FeedsFit'
    <3>1. /\ UNCHANGED <<history, nextID, at>>
          /\ got'[p] = <<>> /\ pc'[p] = "done"
          /\ \A q \in Peers \ {p} : /\ pc'[q] = pc[q] /\ queue'[q] = queue[q]
                                    /\ got'[q] = got[q] /\ backlog'[q] = backlog[q]
                                    /\ (q \in missed' <=> q \in missed)
                                    /\ \A r \in Rooms : q \in subs'[r] => q \in subs[r]
      BY <2>0, <2>9 DEF LoopEnds, GiveUp, Forget, RunCloseSubscription
    <3>2. ASSUME NEW q \in Peers \ {p}
          PROVE  FeedFits(q)'
      <4>1. Sending(q) => at[q] \in Rooms
        BY FeedTypes
      <4> QED
        BY <3>1, <4>1, FeedLeftAlone DEF FeedsFit
    <3>3. FeedFits(p)'
      BY <3>1 DEF FeedFits, Sending, InOrder
    <3> QED
      BY <2>1, <3>1, <3>2, <3>3 DEF FeedsFit
  <2>10. ASSUME NEW p \in Peers, ChannelCloses(p) \/ OnClose(p)
         PROVE  FeedsFit'
    <3>1. /\ UNCHANGED <<history, nextID, got, backlog, queue, missed, pc, at>>
          /\ \A q \in Peers : \A r \in Rooms : q \in subs'[r] => q \in subs[r]
      BY <2>0, <2>10 DEF ChannelCloses, OnClose, RunCloseSubscription
    <3>2. \A q \in Peers : Sending(q) => at[q] \in Rooms
      BY FeedTypes
    <3> QED
      BY <2>2, <3>1, <3>2
  <2>11. ASSUME NEW p \in Peers, LookUpToSend(p)
         PROVE  FeedsFit'
    <3>1. UNCHANGED <<history, nextID, got, backlog, queue, missed, pc, at, subs>>
      BY <2>11 DEF LookUpToSend, GetOrCreateRoom
    <3> QED
      BY <2>2, <3>1
  <2>12. ASSUME NEW p \in Peers, SendToRoom(p)
         PROVE  FeedsFit'
    <3> DEFINE r == posting[p]
               id == nextID[r]
    <3>1. r \in Rooms /\ id \in Nat
      BY <2>12 DEF SendToRoom, TypeOK, NoRoom
    <3>2. /\ UNCHANGED <<got, backlog, pc, at, subs>>
          /\ nextID' = [nextID EXCEPT ![r] = id + 1]
          /\ history' = [history EXCEPT ![r] = Remember(history[r], id)]
          /\ \A q \in Peers : queue'[q] = IF q \in subs[r] /\ ~Full(q)
                                          THEN Append(queue[q], id) ELSE queue[q]
          /\ missed' = missed \cup {q \in subs[r] : Full(q)}
      BY <2>12 DEF SendToRoom
    <3>3. HistoriesFit'
      <4>1. Fits(<<>>, Remember(history[r], id), FALSE, id + 1, TRUE)
        <5>1. Fits(<<>>, history[r], FALSE, id, TRUE)
          BY <3>1 DEF FeedsFit, HistoriesFit
        <5>2. history[r] \in Seq(Nat) /\ Len(history[r]) <= MaxHistory
          BY <3>1 DEF TypeOK
        <5> QED
          BY <3>1, <5>1, <5>2, RememberFits
      <4>2. /\ history'[r] = Remember(history[r], id) /\ nextID'[r] = id + 1
            /\ \A s \in Rooms \ {r} : history'[s] = history[s] /\ nextID'[s] = nextID[s]
        BY <3>1, <3>2 DEF TypeOK
      <4> QED
        BY <4>1, <4>2 DEF FeedsFit, HistoriesFit
    <3>4. ASSUME NEW q \in Peers
          PROVE  FeedFits(q)'
      <4>1. q \in subs[r] => r = at[q] /\ pc[q] \notin {"idle", "lookUp", "subscribe"}
        BY <3>1 DEF SubscriptionPlaces
      <4>2. InOrder(got[q], q \in missed)'
        <5>1. got'[q] = got[q] /\ got[q] \in Seq(Nat) /\ (q \in missed => q \in missed')
          BY <3>2 DEF TypeOK
        <5>2. InOrder(got[q], q \in missed)
          BY DEF FeedsFit, FeedFits
        <5>3. InOrder(got[q], q \in missed')
          BY <5>1, <5>2 DEF InOrder
        <5> QED
          BY <5>1, <5>3 DEF InOrder
      <4>3. CASE q \notin subs[r] /\ ~(Sending(q) /\ at[q] = r)
        <5>1. Sending(q) => nextID'[at[q]] = nextID[at[q]]
          BY <3>1, <3>2, <4>3, FeedTypes DEF TypeOK
        <5>2. queue'[q] = queue[q] /\ (q \in missed' <=> q \in missed)
          BY <3>2, <4>3
        <5> QED
          BY <3>2, <5>1, <5>2, FeedLeftAlone DEF FeedsFit
      <4>4. CASE q \in subs[r] /\ ~Sending(q)
        <5>1. pc'[q] \in {"giveUp", "done"}
          BY <3>2, <4>1, <4>4 DEF Sending, TypeOK
        <5> QED
          BY <4>2, <5>1 DEF FeedFits, Sending
      <4>5. CASE Sending(q) /\ at[q] = r
        <5> DEFINE gaps == q \in missed
                   said == Said(q)
        <5>1. /\ said \in Seq(Nat) /\ queue[q] \in Seq(Nat)
              /\ gaps \in BOOLEAN /\ Current(q) \in BOOLEAN
          BY FeedTypes
        <5>2. Fits(said, queue[q], gaps, id, Current(q))
          BY <4>5 DEF FeedsFit, FeedFits
        <5>3. nextID'[at[q]] = id + 1 /\ Said(q)' = said /\ Sending(q)' = Sending(q)
          BY <3>1, <3>2, <4>5 DEF TypeOK, Said, Sending
        <5>4. Fits(said, queue'[q], q \in missed', id + 1, Current(q)')
          <6>1. CASE q \notin subs[r]
            <7>1. queue'[q] = queue[q] /\ (q \in missed') = gaps /\ Current(q)' = FALSE
              BY <3>2, <4>5, <6>1 DEF Current
            <7>2. Fits(said, queue[q], gaps, id + 1, FALSE)
              BY <3>1, <5>1, <5>2, FitsMissed
            <7> QED
              BY <7>1, <7>2
          <6>2. CASE q \in subs[r] /\ Full(q)
            <7>1. queue'[q] = queue[q] /\ (q \in missed') = TRUE /\ Current(q)' = FALSE
              BY <3>2, <6>2 DEF Current
            <7>2. Fits(said, queue[q], TRUE, id + 1, FALSE)
              BY <3>1, <5>1, <5>2, FitsMissed
            <7> QED
              BY <7>1, <7>2
          <6>3. CASE q \in subs[r] /\ ~Full(q)
            <7>1. /\ queue'[q] = Append(queue[q], id)
                  /\ (q \in missed') = gaps /\ Current(q)' = Current(q)
              <8>1. queue'[q] = Append(queue[q], id)
                BY <3>2, <6>3
              <8>2. q \in missed' <=> q \in missed
                BY <3>2, <6>3
              <8> QED
                BY <3>2, <8>1, <8>2 DEF Current
            <7>2. gaps \/ Current(q)
              BY <4>5, <6>3 DEF Current
            <7>3. Fits(said, Append(queue[q], id), gaps, id + 1, Current(q))
              BY <3>1, <5>1, <5>2, <7>2, FitsQueued
            <7> QED
              BY <7>1, <7>3
          <6> QED
            BY <6>1, <6>2, <6>3
        <5>5. Fits(Said(q), queue[q], q \in missed, nextID[at[q]], Current(q))'
          BY <3>2, <5>3, <5>4 DEF Fits, InOrder, UpTo, Follows
        <5> QED
          BY <3>2, <4>2, <4>5, <5>3, <5>5 DEF FeedsFit, FeedFits, Sending
      <4> QED
        BY <4>1, <4>3, <4>4, <4>5
    <3> QED
      BY <3>3, <3>4 DEF FeedsFit
  <2> QED
    BY <2>3, <2>4, <2>5, <2>6, <2>7, <2>8, <2>9, <2>10, <2>11, <2>12 DEF Next, OnOpen
<1> QED
  BY <1>1, <1>2, TypeCorrect, SubscriptionInvariant, PTL DEF Spec

\* Nobody's feed has a gap, a repetition or a change of order, and it leads up to the
\* last message, unless the channel of the subscription was full.
THEOREM NoGaps == Spec => []NoGap
<1>1. TypeOK /\ FeedsFit => NoGap
  <2> SUFFICES ASSUME TypeOK, FeedsFit, NEW p \in Peers, Sending(p)
               PROVE  /\ InOrder(Feed(p), p \in missed)
                      /\ Current(p) /\ Messages(at[p]) > 0
                            => Feed(p) # <<>> /\ Feed(p)[Len(Feed(p))] = Messages(at[p])
    BY DEF FeedsFit, FeedFits, NoGap, Current
  <2> DEFINE said == Said(p)
  <2>1. /\ said \in Seq(Nat) /\ queue[p] \in Seq(Nat) /\ nextID[at[p]] \in Nat
        /\ (p \in missed) \in BOOLEAN /\ Current(p) \in BOOLEAN
    BY FeedTypes
  <2>2. Fits(said, queue[p], p \in missed, nextID[at[p]], Current(p))
    BY DEF FeedsFit, FeedFits
  <2>3. Feed(p) = said \o queue[p]
    <3>1. got[p] \o backlog[p] = said
      <4>1. got[p] \in Seq(Nat) /\ backlog[p] \in Seq(Nat)
        BY DEF TypeOK
      <4>2. IF pc[p] = "loop" THEN backlog[p] = <<>> ELSE got[p] = <<>>
        BY DEF FeedsFit, FeedFits, Sending
      <4> QED
        BY <4>1, <4>2, ConcatEmpty DEF Said
    <3> QED
      BY <3>1 DEF Feed
  <2>4. /\ InOrder(Feed(p), p \in missed)
        /\ Current(p) /\ nextID[at[p]] # 1
              => Feed(p) # <<>> /\ Feed(p)[Len(Feed(p))] = nextID[at[p]] - 1
    <3> DEFINE gaps == p \in missed
               next == nextID[at[p]]
               queued == queue[p]
               current == Current(p)
    <3> HIDE DEF said, gaps, next, queued, current
    <3>1. /\ InOrder(said \o queued, gaps)
          /\ current /\ next # 1 => /\ said \o queued # <<>>
                                    /\ (said \o queued)[Len(said \o queued)] = next - 1
      <4>1. /\ said \in Seq(Nat) /\ queued \in Seq(Nat) /\ next \in Nat
            /\ gaps \in BOOLEAN /\ current \in BOOLEAN
        BY <2>1 DEF gaps, next, queued, current
      <4>2. Fits(said, queued, gaps, next, current)
        BY <2>2 DEF gaps, next, queued, current
      <4> QED
        BY <4>1, <4>2, FitsWhole
    <3> QED
      BY <2>3, <3>1 DEF gaps, next, queued, current
  <2> QED
    BY <2>1, <2>4 DEF Messages
<1> QED
  BY <1>1, TypeCorrect, FeedsInvariant, PTL

=============================================================================
