----------------------------- MODULE ChatForwarder -----------------------------
(***************************************************************************)
(* internal/chat/ssn.go: chat messages are queued for a WebSocket that one *)
(* goroutine owns.  It dials, writes what is queued, and after a failure   *)
(* sleeps and dials again with the message it was writing still in hand.   *)
(*                                                                         *)
(* A write that returns no error says that the connection has taken the    *)
(* message, not that the message arrives: a connection may be broken long  *)
(* before a write, a ping or the reader (which has no deadline) learns it. *)
(***************************************************************************)
EXTENDS Integers, Sequences, FiniteSets

CONSTANTS
    Keys,         \* stream keys somebody chats on
    StreamKeys,   \* SSN_STREAM_KEYS; none means all of them
    QueueSize,    \* ssnQueueSize
    MaxAge,       \* ssnMaxMessageAge
    MinBackoff,   \* ssnMinBackoff
    MaxBackoff,   \* ssnMaxBackoff
    Stable,       \* ssnStableConnection
    MaxMessages   \* bound: messages that pass the filter

VARIABLES
    messages,   \* the channel; a message is its number
    made,       \* how many messages there were
    age,        \* age[m]: the time since queuedAt, as far as it matters
    pc,         \* where run is: "dialing", "serving" or "sleeping"
    pending,    \* the message in hand, 0 when there is none
    backoff,
    pause,      \* how long the last sleep was, or is
    left,       \* how much of it is left
    up,         \* the time since connectedAt, as far as it matters
    short,      \* attempts in a row without a stable connection, as far as it matters
    broken,     \* what the connection takes does not arrive, which is not known yet
    last,       \* the last message that a connection has taken
    arrived,    \* those taken by one that was not broken
    twice,      \* those that arrived more than once
    vanished,   \* those taken, without an error, by one that was broken
    failed,     \* those with a write that has failed
    dropped     \* those that were dropped, by age or because the queue was full

queueing == <<messages, made>>
sleeping == <<backoff, pause, left, up, short>>
receiver == <<last, arrived, twice>>
network  == <<broken, vanished>>
vars == <<queueing, age, pc, pending, sleeping, receiver, network, failed, dropped>>

None == 0
Messages == 1..MaxMessages

Least(a, b) == IF a < b THEN a ELSE b

Init ==
    /\ messages = <<>> /\ made = 0
    /\ age = [m \in Messages |-> 0]
    /\ pc = "dialing"
    /\ pending = None
    /\ backoff = MinBackoff /\ pause = MinBackoff /\ left = 0
    /\ up = 0 /\ short = 0
    /\ last = None /\ arrived = {} /\ twice = {}
    /\ broken = FALSE /\ vanished = {}
    /\ failed = {} /\ dropped = {}

\* forward, called by whoever sends a message; one on another stream is left out.
Forward(key) ==
    /\ StreamKeys = {} \/ key \in StreamKeys
    /\ made < MaxMessages
    /\ made' = made + 1
    /\ IF Len(messages) < QueueSize
       THEN messages' = Append(messages, made + 1) /\ UNCHANGED dropped
       ELSE dropped' = dropped \cup {made + 1} /\ UNCHANGED messages
    /\ UNCHANGED <<age, pc, pending, sleeping, receiver, network, failed>>

-----------------------------------------------------------------------------
(* run. *)

Sleep(time) ==
    /\ pc' = "sleeping"
    /\ pause' = time /\ left' = time
    /\ backoff' = Least(time * 2, MaxBackoff)

DialFails ==
    /\ pc = "dialing"
    /\ Sleep(backoff)
    /\ short' = Least(short + 1, 2)
    /\ UNCHANGED <<queueing, age, pending, up, receiver, network, failed, dropped>>

Connect ==
    /\ pc = "dialing"
    /\ pc' = "serving"
    /\ up' = 0
    /\ broken' = FALSE
    /\ UNCHANGED <<queueing, age, pending, backoff, pause, left, short, receiver, vanished,
                   failed, dropped>>

\* The other end is gone, or the way to it, and nothing comes back that would say so.
Break ==
    /\ pc = "serving" /\ ~broken
    /\ broken' = TRUE
    /\ UNCHANGED <<queueing, age, pc, pending, sleeping, receiver, vanished, failed, dropped>>

\* serve has returned: only a connection that was stable resets the backoff.
Disconnect ==
    /\ Sleep(IF up > Stable THEN MinBackoff ELSE backoff)
    /\ short' = IF up > Stable THEN 0 ELSE Least(short + 1, 2)

Wake ==
    /\ pc = "sleeping"
    /\ left = 0
    /\ pc' = "dialing"
    /\ UNCHANGED <<queueing, age, pending, sleeping, receiver, network, failed, dropped>>

-----------------------------------------------------------------------------
(* serve. *)

Fresh(m) == age[m] <= MaxAge

\* The connection has taken the message, which arrives unless the connection is broken.
Takes(m) ==
    /\ last' = m
    /\ IF broken THEN UNCHANGED <<arrived, twice>>
       ELSE /\ arrived' = arrived \cup {m}
            /\ twice' = IF m \in arrived THEN twice \cup {m} ELSE twice

\* No error: the message is no longer in hand, whether it arrives or not.
Write ==
    /\ pc = "serving" /\ pending # None
    /\ Fresh(pending)
    /\ Takes(pending)
    /\ vanished' = IF broken THEN vanished \cup {pending} ELSE vanished
    /\ pending' = None
    /\ UNCHANGED <<queueing, age, pc, sleeping, broken, failed, dropped>>

\* Slip: the message goes behind those that wait.
WriteFailsAndRotates ==
    /\ pc = "serving" /\ pending # None
    /\ Fresh(pending)
    /\ failed' = failed \cup {pending}
    /\ pending' = Head(Append(messages, pending))
    /\ messages' = Tail(Append(messages, pending))
    /\ Disconnect
    /\ UNCHANGED <<made, age, up, receiver, network, dropped>>

\* The connection may have taken a message all the same: it is kept in either case.
WriteFails ==
    /\ pc = "serving" /\ pending # None
    /\ Fresh(pending)
    /\ failed' = failed \cup {pending}
    /\ Takes(pending) \/ UNCHANGED receiver
    /\ Disconnect
    /\ UNCHANGED <<queueing, age, pending, up, network, dropped>>

DropOld ==
    /\ pc = "serving" /\ pending # None
    /\ ~Fresh(pending)
    /\ dropped' = dropped \cup {pending}
    /\ pending' = None
    /\ UNCHANGED <<queueing, age, pc, sleeping, receiver, network, failed>>

Take ==
    /\ pc = "serving" /\ pending = None
    /\ messages # <<>>
    /\ pending' = Head(messages)
    /\ messages' = Tail(messages)
    /\ UNCHANGED <<made, age, pc, sleeping, receiver, network, failed, dropped>>

\* A ping that cannot be written, or the end of what can be read.
Lost ==
    /\ pc = "serving" /\ pending = None
    /\ Disconnect
    /\ UNCHANGED <<queueing, age, pending, up, receiver, network, failed, dropped>>

-----------------------------------------------------------------------------

Tick ==
    /\ age' = [m \in Messages |->
          IF m <= made /\ age[m] <= MaxAge THEN age[m] + 1 ELSE age[m]]
    /\ up' = IF pc = "serving" /\ up <= Stable THEN up + 1 ELSE up
    /\ left' = IF left > 0 THEN left - 1 ELSE left
    /\ UNCHANGED <<queueing, pc, pending, backoff, pause, short, receiver, network,
                   failed, dropped>>

Serve == Write \/ WriteFails \/ DropOld

Next ==
    \/ \E key \in Keys : Forward(key)
    \/ DialFails \/ Connect \/ Break \/ Wake
    \/ Serve \/ Take \/ Lost
    \/ Tick

Spec == Init /\ [][Next]_vars

\* The goroutine runs and time passes.  The other end can be reached again and again,
\* and select does not pass over a message for ever.
Fairness ==
    /\ WF_vars(Tick) /\ WF_vars(Wake) /\ WF_vars(Serve)
    /\ SF_vars(Connect) /\ SF_vars(Take)

FairSpec == Spec /\ Fairness

-----------------------------------------------------------------------------
(* Properties. *)

Waiting == {messages[i] : i \in 1..Len(messages)} \cup ({pending} \ {None})

TypeOK ==
    /\ messages \in Seq(Messages) /\ Len(messages) <= QueueSize
    /\ made \in 0..MaxMessages
    /\ age \in [Messages -> 0..MaxAge + 1]
    /\ pc \in {"dialing", "serving", "sleeping"}
    /\ pending \in Messages \cup {None} /\ last \in Messages \cup {None}
    /\ {backoff, pause} \subseteq MinBackoff..MaxBackoff
    /\ left \in 0..pause /\ up \in 0..Stable + 1 /\ short \in 0..2
    /\ arrived \subseteq Messages /\ twice \subseteq arrived
    /\ broken \in BOOLEAN /\ vanished \subseteq Messages
    /\ failed \subseteq Messages /\ dropped \subseteq Messages

\* Connections take messages in the order they were forwarded, over all reconnects.
TakenInOrder == [][last' >= last]_vars

\* A message that did not have to wait too long, and found room, arrives or waits, unless
\* a connection took it that was broken and did not say so: a write that has failed is
\* made again.  It arrives once, unless a write that has failed was not in vain.
NoneLost ==
    /\ 1..made \subseteq arrived \cup Waiting \cup dropped \cup vanished
    /\ twice \subseteq failed

\* "A server that accepts and immediately drops us isn't hammered": when one attempt
\* after the other leads to nothing, whether it was to dial or a connection that did
\* not last, each sleep is twice as long as the one before, up to the maximum.
NotHammered ==
    [][pc # "sleeping" /\ pc' = "sleeping" /\ short' > 1 =>
           pause' >= Least(pause * 2, MaxBackoff)]_vars

\* No message waits for ever, also when each of its writes fails.
Handled == \A m \in Messages : (m \in Waiting) ~> (m \notin Waiting)

\* What may happen to a message on its way, and to the server it is for.
MessagesKept == []TypeOK /\ []NoneLost /\ NotHammered /\ TakenInOrder

=============================================================================
