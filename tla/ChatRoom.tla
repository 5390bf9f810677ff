-------------------------------- MODULE ChatRoom --------------------------------
(***************************************************************************)
(* The chat of one stream: the room in the InMemoryStore (internal/chat)   *)
(* and the data channels of those who read and write it                    *)
(* (internal/webrtc/chatdc).  A peer is one data channel, whose handlers   *)
(* for opening, closing and messages run on goroutines of their own.       *)
(***************************************************************************)
EXTENDS Naturals, Sequences, FiniteSets, FiniteSetsExt

CONSTANTS
    Peers,        \* data channels with the label of the chat
    MaxHistory,   \* CHAT_MAX_HISTORY
    QueueSize,    \* the capacity of a subscriber's channel, 100 in the code
    MaxRooms,     \* bound: rooms made for the stream, one after the other
    MaxMessages   \* bound: messages in all rooms together

ASSUME HistoryHasRoom == MaxHistory \in Nat \ {0}
ASSUME QueueHasRoom == QueueSize \in Nat \ {0}
ASSUME BoundsAreNat == MaxRooms \in Nat /\ MaxMessages \in Nat

VARIABLES
    room,       \* the room of the stream in InMemoryStore.rooms, 0 when it has none
    made,       \* how many rooms were made; a room is its number
    idle,       \* idle[r]: lastActivity of room r is longer ago than the ttl
    history,    \* history[r]: the IDs of the events in room r's history
    nextID,     \* nextID[r]: nextEventID of room r
    subs,       \* subs[r]: the peers with a subscription in room r
    queue,      \* queue[p]: the channel of peer p's subscription
    channel,    \* channel[p]: ReadyState of the data channel
    pc,         \* pc[p]: where OnOpen, and then the goroutine it starts, is
    at,         \* at[p]: the room OnOpen has looked up
    backlog,    \* backlog[p]: the copy of the history that OnOpen has still to send
    closer,     \* closer[p]: where OnClose is
    canClose,   \* the peers whose closeSubscription is set
    posting,    \* posting[p]: the room OnMessage has looked up, 0 when it does not run
    got,        \* got[p]: the events peer p was sent, in order, while it is served
    missed      \* the peers whose channel was full when an event came

vars == <<room, made, idle, history, nextID, subs, queue, channel, pc, at, backlog,
          closer, canClose, posting, got, missed>>

store == <<room, made, idle, history, nextID>>
dc    == <<channel, closer, posting>>

NoRoom == 0
Rooms  == 1..MaxRooms

Init ==
    /\ room = NoRoom
    /\ made = 0
    /\ idle = [r \in Rooms |-> FALSE]
    /\ history = [r \in Rooms |-> <<>>]
    /\ nextID = [r \in Rooms |-> 1]
    /\ subs = [r \in Rooms |-> {}]
    /\ queue = [p \in Peers |-> <<>>]
    /\ channel = [p \in Peers |-> "connecting"]
    /\ pc = [p \in Peers |-> "idle"]
    /\ at = [p \in Peers |-> NoRoom]
    /\ backlog = [p \in Peers |-> <<>>]
    /\ closer = [p \in Peers |-> "idle"]
    /\ canClose = {}
    /\ posting = [p \in Peers |-> NoRoom]
    /\ got = [p \in Peers |-> <<>>]
    /\ missed = {}

-----------------------------------------------------------------------------
(* The store. *)

\* A call that has looked its room up and not used it yet.
UnderWay == \E p \in Peers : pc[p] = "subscribe" \/ posting[p] # NoRoom

\* The ttl passes without activity; it is longer than any call takes.
TtlPasses ==
    /\ room # NoRoom
    /\ ~UnderWay
    /\ ~idle[room]
    /\ idle' = [idle EXCEPT ![room] = TRUE]
    /\ UNCHANGED <<room, made, history, nextID, subs, queue, dc, pc, at, backlog,
                   canClose, got, missed>>

\* Slip: a room with subscribers expires like any other.
CleanupSubscribed ==
    /\ room # NoRoom
    /\ idle[room]
    /\ room' = NoRoom
    /\ UNCHANGED <<made, idle, history, nextID, subs, queue, dc, pc, at, backlog,
                   canClose, got, missed>>

Cleanup ==
    /\ room # NoRoom
    /\ subs[room] = {} /\ idle[room]
    /\ room' = NoRoom
    /\ UNCHANGED <<made, idle, history, nextID, subs, queue, dc, pc, at, backlog,
                   canClose, got, missed>>

\* getOrCreateRoomLocked: the room r that the stream has afterwards.
GetOrCreateRoom(r) ==
    /\ IF room # NoRoom
       THEN r = room /\ made' = made
       ELSE r = made + 1 /\ r \in Rooms /\ made' = r
    /\ room' = r
    /\ idle' = [idle EXCEPT ![r] = FALSE]
    /\ UNCHANGED <<history, nextID>>

-----------------------------------------------------------------------------
(* OnOpen: the subscription, the history, and the goroutine that follows.   *)

Goto(p, label) == pc' = [pc EXCEPT ![p] = label]

\* The data channel opens; its handler runs on a goroutine of its own.
Open(p) ==
    /\ channel[p] = "connecting"
    /\ channel' = [channel EXCEPT ![p] = "open"]
    /\ Goto(p, "lookUp")
    /\ UNCHANGED <<store, subs, queue, at, backlog, closer, canClose, posting, got,
                   missed>>

LookUpRoom(p) ==
    /\ pc[p] = "lookUp"
    /\ \E r \in Rooms : GetOrCreateRoom(r) /\ at' = [at EXCEPT ![p] = r]
    /\ Goto(p, "subscribe")
    /\ UNCHANGED <<subs, queue, dc, backlog, canClose, got, missed>>

\* subscribeToRoom: the history is copied in the lock section that subscribes.
Subscribe(p) ==
    /\ pc[p] = "subscribe"
    /\ idle' = [idle EXCEPT ![at[p]] = FALSE]
    /\ subs' = [subs EXCEPT ![at[p]] = @ \cup {p}]
    /\ backlog' = [backlog EXCEPT ![p] = history[at[p]]]
    /\ Goto(p, "assign")
    /\ UNCHANGED <<room, made, history, nextID, queue, dc, at, canClose, got, missed>>

\* Under closeLock; until here closing the channel closes no subscription.
AssignClose(p) ==
    /\ pc[p] = "assign"
    /\ canClose' = canClose \cup {p}
    /\ Goto(p, "connected")
    /\ UNCHANGED <<store, subs, queue, dc, at, backlog, got, missed>>

\* SendText succeeds only on an open channel, and may fail on any.
Sends(p, next) ==
    \/ channel[p] = "open" /\ Goto(p, next)
    \/ Goto(p, "giveUp")
Sent(p) == pc'[p] # "giveUp"

\* Slip: the subscription is not given back when the first message fails.
SendConnectedLeaky(p) ==
    /\ pc[p] = "connected"
    /\ \/ channel[p] = "open" /\ Goto(p, "history")
       \/ Goto(p, "done")
    /\ UNCHANGED <<store, subs, queue, dc, at, backlog, canClose, got, missed>>

SendConnected(p) ==
    /\ pc[p] = "connected"
    /\ Sends(p, "history")
    /\ UNCHANGED <<store, subs, queue, dc, at, backlog, canClose, got, missed>>

\* An empty history is not sent.
SendHistory(p) ==
    /\ pc[p] = "history"
    /\ \/ /\ backlog[p] # <<>>
          /\ Sends(p, "loop")
          /\ got' = [got EXCEPT ![p] = IF Sent(p) THEN backlog[p] ELSE @]
          /\ backlog' = [backlog EXCEPT ![p] = IF Sent(p) THEN <<>> ELSE @]
       \/ backlog[p] = <<>> /\ Goto(p, "loop") /\ UNCHANGED <<got, backlog>>
    /\ UNCHANGED <<store, subs, queue, dc, at, canClose, missed>>

\* The goroutine: an event that cannot be sent ends it.
SendEvent(p) ==
    /\ pc[p] = "loop"
    /\ queue[p] # <<>>
    /\ queue' = [queue EXCEPT ![p] = Tail(@)]
    /\ Sends(p, "loop")
    /\ got' = [got EXCEPT ![p] = IF Sent(p) THEN Append(@, Head(queue[p])) ELSE @]
    /\ UNCHANGED <<store, subs, dc, at, backlog, canClose, missed>>

\* Nobody will read what is left in the copy of the history and in the channel.
Forget(p) ==
    /\ queue' = [queue EXCEPT ![p] = <<>>]
    /\ backlog' = [backlog EXCEPT ![p] = <<>>]
    /\ got' = [got EXCEPT ![p] = <<>>]
    /\ missed' = missed \ {p}

\* The channel of the subscription is drained and closed.
LoopEnds(p) ==
    /\ pc[p] = "loop"
    /\ queue[p] = <<>> /\ p \notin subs[at[p]]
    /\ Goto(p, "done")
    /\ Forget(p)
    /\ UNCHANGED <<store, subs, dc, at, canClose>>

\* runCloseSubscription: closeSubscription does nothing the second time.
RunCloseSubscription(p) ==
    subs' = IF p \in canClose THEN [subs EXCEPT ![at[p]] = @ \ {p}] ELSE subs

GiveUp(p) ==
    /\ pc[p] = "giveUp"
    /\ RunCloseSubscription(p)
    /\ Goto(p, "done")
    /\ Forget(p)
    /\ UNCHANGED <<store, dc, at, canClose>>

-----------------------------------------------------------------------------
(* The end of a data channel: its state changes first, OnClose runs later,  *)
(* and OnError like it.                                                     *)

ChannelCloses(p) ==
    /\ channel[p] = "open"
    /\ channel' = [channel EXCEPT ![p] = "closed"]
    /\ closer' = [closer EXCEPT ![p] = "run"]
    /\ UNCHANGED <<store, subs, queue, pc, at, backlog, canClose, posting, got, missed>>

\* Slip: the subscription is left to the goroutine that sends.
OnCloseNothing(p) ==
    /\ closer[p] = "run"
    /\ closer' = [closer EXCEPT ![p] = "done"]
    /\ UNCHANGED <<store, subs, queue, channel, posting, pc, at, backlog, canClose,
                   got, missed>>

OnClose(p) ==
    /\ closer[p] = "run"
    /\ RunCloseSubscription(p)
    /\ closer' = [closer EXCEPT ![p] = "done"]
    /\ UNCHANGED <<store, queue, channel, posting, pc, at, backlog, canClose, got,
                   missed>>

-----------------------------------------------------------------------------
(* OnMessage: a message that is valid and within the rate limit.  The others *)
(* change nothing.                                                          *)

Messages(r) == nextID[r] - 1

\* The bound on messages, those under way included.
MoreMessages ==
    MapThenSumSet(Messages, Rooms) + Cardinality({p \in Peers : posting[p] # NoRoom})
        < MaxMessages

LookUpToSend(p) ==
    /\ channel[p] = "open"
    /\ posting[p] = NoRoom
    /\ MoreMessages
    /\ \E r \in Rooms : GetOrCreateRoom(r) /\ posting' = [posting EXCEPT ![p] = r]
    /\ UNCHANGED <<subs, queue, channel, closer, pc, at, backlog, canClose, got,
                   missed>>

Full(p) == Len(queue[p]) >= QueueSize

\* Slip: a full history keeps its oldest events.
RememberOldest(h, id) == IF Len(h) >= MaxHistory THEN h ELSE Append(h, id)

Remember(h, id) == Append(IF Len(h) >= MaxHistory THEN Tail(h) ELSE h, id)

\* sendToRoom, one lock section: into the history and to every subscriber who has
\* room for it.  The acknowledgement that follows changes nothing.
SendToRoom(p) ==
    LET r == posting[p] IN
    /\ r # NoRoom
    /\ idle' = [idle EXCEPT ![r] = FALSE]
    /\ nextID' = [nextID EXCEPT ![r] = @ + 1]
    /\ history' = [history EXCEPT ![r] = Remember(@, nextID[r])]
    /\ queue' = [q \in Peers |-> IF q \in subs[r] /\ ~Full(q)
                                 THEN Append(queue[q], nextID[r]) ELSE queue[q]]
    /\ missed' = missed \cup {q \in subs[r] : Full(q)}
    /\ posting' = [posting EXCEPT ![p] = NoRoom]
    /\ UNCHANGED <<room, made, subs, channel, closer, pc, at, backlog, canClose, got>>

-----------------------------------------------------------------------------
OnOpen(p) ==
    \/ LookUpRoom(p) \/ Subscribe(p) \/ AssignClose(p) \/ SendConnected(p)
    \/ SendHistory(p) \/ SendEvent(p) \/ LoopEnds(p) \/ GiveUp(p)

Next ==
    \/ TtlPasses \/ Cleanup
    \/ \E p \in Peers : \/ Open(p) \/ OnOpen(p)
                        \/ ChannelCloses(p) \/ OnClose(p)
                        \/ LookUpToSend(p) \/ SendToRoom(p)

Spec == Init /\ [][Next]_vars

\* Time passes, the cleanup's ticker ticks and every handler goes on.
FairSpec ==
    /\ Spec
    /\ WF_vars(TtlPasses) /\ WF_vars(Cleanup)
    /\ \A p \in Peers : /\ WF_vars(OnOpen(p)) /\ WF_vars(OnClose(p))
                        /\ WF_vars(SendToRoom(p))

-----------------------------------------------------------------------------
(* Properties. *)

TypeOK ==
    /\ made \in Rooms \cup {NoRoom}
    /\ room \in {NoRoom, made}
    /\ idle \in [Rooms -> BOOLEAN]
    /\ history \in [Rooms -> Seq(Nat)] /\ \A r \in Rooms : Len(history[r]) <= MaxHistory
    /\ nextID \in [Rooms -> Nat \ {0}]
    /\ subs \in [Rooms -> SUBSET Peers]
    /\ queue \in [Peers -> Seq(Nat)] /\ \A p \in Peers : Len(queue[p]) <= QueueSize
    /\ channel \in [Peers -> {"connecting", "open", "closed"}]
    /\ pc \in [Peers -> {"idle", "lookUp", "subscribe", "assign", "connected",
                         "history", "loop", "giveUp", "done"}]
    /\ at \in [Peers -> Rooms \cup {NoRoom}]
    /\ \A p \in Peers : pc[p] \notin {"idle", "lookUp"} => at[p] # NoRoom
    /\ closer \in [Peers -> {"idle", "run", "done"}]
    /\ canClose \subseteq Peers /\ missed \subseteq Peers
    /\ posting \in [Peers -> Rooms \cup {NoRoom}]
    /\ backlog \in [Peers -> Seq(Nat)] /\ got \in [Peers -> Seq(Nat)]

\* Everybody who reads or writes the chat of a stream is in the same room, the one
\* that those who come next will find: a room does not expire while somebody
\* is in it or on the way in.
OneRoom ==
    /\ \A r \in Rooms : subs[r] # {} => r = room
    /\ \A p \in Peers : /\ pc[p] = "subscribe" => at[p] = room
                        /\ posting[p] \in {NoRoom, room}

\* Each event has the number after the one before it, or, where the channel was
\* full in between, a higher one.
InOrder(feed, gaps) ==
    \A i \in 1..Len(feed) - 1 :
        IF gaps THEN feed[i] < feed[i + 1] ELSE feed[i + 1] = feed[i] + 1

\* What peer p was sent and will be sent.
Feed(p) == got[p] \o backlog[p] \o queue[p]

Sending(p) == pc[p] \in {"assign", "connected", "history", "loop"}

\* The history and the live messages fit together, without a gap, a repetition or
\* a change of order, however a message and the subscription cross; and they
\* lead up to the room's last message, unless the subscriber's channel was full.
NoGap ==
    \A p \in Peers :
        /\ InOrder(got[p], p \in missed)
        /\ Sending(p) => InOrder(Feed(p), p \in missed)
        /\ Sending(p) /\ p \in subs[at[p]] \ missed /\ Messages(at[p]) > 0
               => Feed(p) # <<>> /\ Feed(p)[Len(Feed(p))] = Messages(at[p])

\* When OnClose has run the subscription is closed, or OnOpen will still find that
\* it cannot send and close it: whichever was first, none is left behind by a
\* data channel that has gone, and none by a handler that has ended.
SubscriptionGivenBack ==
    \A p \in Peers :
        pc[p] = "done" \/ (closer[p] = "done" /\ pc[p] \in {"history", "loop"})
            => \A r \in Rooms : p \notin subs[r]

\* When all have gone for good, the room is forgotten.
RoomExpires ==
    <>[](\A p \in Peers : channel[p] = "closed") => <>[](room = NoRoom)

=============================================================================
