------------------------------- MODULE Notifier -------------------------------
(***************************************************************************)
(* internal/notify: the webhook notifier.  Publishers come and go on many  *)
(* goroutines, which put events into a bounded channel; one goroutine, run,*)
(* takes them out and keeps a liveStream per announced stream.  The end of *)
(* a stream is confirmed by a timer whose goroutine sends to the same      *)
(* channel, and may still do so after the timer has been stopped.          *)
(***************************************************************************)
EXTENDS Naturals, Sequences

CONSTANTS
    Keys,       \* stream keys
    OnlyKeys,   \* NOTIFY_STREAM_KEYS, all streams when empty
    NoStream,   \* the absence of a key from Notifier.streams
    QueueSize,  \* eventQueueSize
    Discord,    \* isDiscord: the webhook returns message IDs and allows edits
    MaxCalls    \* bound: calls of StreamOnline and StreamOffline

LiveStream == [messageID : BOOLEAN, timer : Nat, generation : Nat]

ASSUME NoStreamIsNil == NoStream \notin LiveStream
ASSUME QueueHasRoom == QueueSize \in Nat \ {0}
ASSUME MaxCallsIsNat == MaxCalls \in Nat
ASSUME DiscordIsBoolean == Discord \in BOOLEAN

VARIABLES
    streams,    \* Notifier.streams
    events,     \* the channel Notifier.events
    serial,     \* how many timers were made; a timer is its number, nil is 0
    armed,      \* the timers that will fire
    firing,     \* fired timers whose goroutine has still to send its event
    shown,      \* shown[k]: messages in the chat that say stream k is live
    calls,      \* calls of StreamOnline and StreamOffline so far
    up,         \* up[k]: what the last of them said of stream k
    heard,      \* heard[k]: what the last of them that run handled said
    lost,       \* the keys of the events dropped because the channel was full
    failed      \* the keys of which a request to the webhook has failed

vars == <<streams, events, serial, armed, firing, shown, calls, up, heard, lost,
          failed>>

NoTimer == 0

Timer      == [id : Nat, key : Keys, generation : Nat]
Event      == [kind : {"online", "offline", "confirmed"}, key : Keys,
               generation : Nat]

Init ==
    /\ streams = [k \in Keys |-> NoStream]
    /\ events = <<>>
    /\ serial = 0
    /\ armed = {}
    /\ firing = {}
    /\ shown = [k \in Keys |-> 0]
    /\ calls = 0
    /\ up = [k \in Keys |-> "offline"]
    /\ heard = [k \in Keys |-> "offline"]
    /\ lost = {}
    /\ failed = {}

-----------------------------------------------------------------------------
(* The goroutines that send. *)

Full == Len(events) >= QueueSize

\* Slip: a timer's goroutine drops its event like everybody else.
SendConfirmedOrDrop(t) ==
    /\ t \in firing
    /\ firing' = firing \ {t}
    /\ events' = IF Full THEN events
                 ELSE Append(events, [kind |-> "confirmed", key |-> t.key,
                                      generation |-> t.generation])
    /\ UNCHANGED <<streams, serial, armed, shown, calls, up, heard, lost, failed>>

\* Slip: NOTIFY_STREAM_KEYS is not looked at.
EnqueueUnfiltered(k, kind) ==
    /\ calls < MaxCalls
    /\ calls' = calls + 1
    /\ up' = [up EXCEPT ![k] = kind]
    /\ IF Full
       THEN lost' = lost \cup {k} /\ events' = events
       ELSE /\ events' = Append(events, [kind |-> kind, key |-> k,
                                         generation |-> 0])
            /\ lost' = lost
    /\ UNCHANGED <<streams, serial, armed, firing, shown, heard, failed>>

\* StreamOnline and StreamOffline: enqueue never blocks.
Enqueue(k, kind) ==
    /\ calls < MaxCalls
    /\ calls' = calls + 1
    /\ up' = [up EXCEPT ![k] = kind]
    /\ IF OnlyKeys # {} /\ k \notin OnlyKeys
       THEN UNCHANGED <<events, lost>>
       ELSE IF Full
       THEN lost' = lost \cup {k} /\ events' = events
       ELSE /\ events' = Append(events, [kind |-> kind, key |-> k,
                                         generation |-> 0])
            /\ lost' = lost
    /\ UNCHANGED <<streams, serial, armed, firing, shown, heard, failed>>

\* The grace period of a timer is over.
Fire(t) ==
    /\ t \in armed
    /\ armed' = armed \ {t}
    /\ firing' = firing \cup {t}
    /\ UNCHANGED <<streams, events, serial, shown, calls, up, heard, lost, failed>>

\* The timer's goroutine sends, as soon as there is room.
SendConfirmed(t) ==
    /\ t \in firing
    /\ ~Full
    /\ firing' = firing \ {t}
    /\ events' = Append(events, [kind |-> "confirmed", key |-> t.key,
                                 generation |-> t.generation])
    /\ UNCHANGED <<streams, serial, armed, shown, calls, up, heard, lost, failed>>

-----------------------------------------------------------------------------
(* run: one handler at a time, none of which sends to the channel. *)

Receive(kind) ==
    /\ events # <<>>
    /\ Head(events).kind = kind
    /\ events' = Tail(events)

\* Each timer that is set or stopped starts a new generation.
NextGeneration(s, timer) ==
    [messageID |-> s.messageID, timer |-> timer, generation |-> s.generation + 1]

\* Slip: a reconnect stops the timer and leaves the generation alone.
HandleOnlineSameGeneration ==
    LET k == Head(events).key IN
    /\ Receive("online")
    /\ heard' = [heard EXCEPT ![k] = "online"]
    /\ IF streams[k] # NoStream
       THEN /\ armed' = {t \in armed : t.id # streams[k].timer}
            /\ streams' = [streams EXCEPT ![k].timer = NoTimer]
            /\ shown' = shown
       ELSE /\ streams' = [streams EXCEPT ![k] =
                  [messageID |-> Discord, timer |-> NoTimer, generation |-> 0]]
            /\ shown' = [shown EXCEPT ![k] = @ + 1]
            /\ armed' = armed
    /\ UNCHANGED <<serial, firing, calls, up, lost, failed>>

\* A known stream that comes back within its grace period stays announced; an
\* unknown one is posted, which may fail, or succeed without a message ID.
HandleOnline ==
    LET k == Head(events).key IN
    /\ Receive("online")
    /\ heard' = [heard EXCEPT ![k] = "online"]
    /\ \/ /\ streams[k] # NoStream
          /\ streams[k].timer = NoTimer
          /\ UNCHANGED <<streams, armed, shown, failed>>
       \/ /\ streams[k] # NoStream
          /\ streams[k].timer # NoTimer
          /\ armed' = {t \in armed : t.id # streams[k].timer}
          /\ streams' = [streams EXCEPT ![k] = NextGeneration(@, NoTimer)]
          /\ UNCHANGED <<shown, failed>>
       \/ /\ streams[k] = NoStream
          /\ \E posted, id \in BOOLEAN :
                /\ id => posted /\ Discord
                /\ failed' = IF posted /\ id = Discord THEN failed ELSE failed \cup {k}
                /\ shown' = [shown EXCEPT ![k] = IF posted THEN @ + 1 ELSE @]
                /\ streams' = [streams EXCEPT ![k] =
                      [messageID |-> id, timer |-> NoTimer, generation |-> 0]]
          /\ armed' = armed
    /\ UNCHANGED <<serial, firing, calls, up, lost>>

\* The first Offline event of a tracked stream starts its grace period.
HandleOffline ==
    LET k == Head(events).key
        s == streams[k] IN
    /\ Receive("offline")
    /\ heard' = [heard EXCEPT ![k] = "offline"]
    /\ IF s = NoStream \/ (s # NoStream /\ s.timer # NoTimer)
       THEN UNCHANGED <<streams, serial, armed>>
       ELSE /\ serial' = serial + 1
            /\ armed' = armed \cup {[id |-> serial + 1, key |-> k,
                                     generation |-> s.generation + 1]}
            /\ streams' = [streams EXCEPT ![k] = NextGeneration(@, serial + 1)]
    /\ UNCHANGED <<firing, shown, calls, up, lost, failed>>

\* Slip: the generation of the event is not compared.
HandleOfflineConfirmedAny ==
    LET k == Head(events).key IN
    /\ Receive("confirmed")
    /\ streams' = [streams EXCEPT ![k] = NoStream]
    /\ shown' = shown
    /\ UNCHANGED <<serial, armed, firing, calls, up, heard, lost, failed>>

\* Slip: the message is not edited, the stream is ended by a new one.
HandleOfflineConfirmedNoEdit ==
    LET k == Head(events).key
        s == streams[k] IN
    /\ Receive("confirmed")
    /\ IF s = NoStream \/ (s # NoStream /\ s.generation # Head(events).generation)
       THEN streams' = streams
       ELSE streams' = [streams EXCEPT ![k] = NoStream]
    /\ UNCHANGED <<serial, armed, firing, shown, calls, up, heard, lost, failed>>

\* On Discord the live message is edited; elsewhere, without its ID, and when
\* the edit fails the ended message is posted beside it.
HandleOfflineConfirmed ==
    LET k == Head(events).key
        s == streams[k] IN
    /\ Receive("confirmed")
    /\ IF s = NoStream \/ (s # NoStream /\ s.generation # Head(events).generation)
       THEN UNCHANGED <<streams, shown, failed>>
       ELSE /\ streams' = [streams EXCEPT ![k] = NoStream]
            /\ \E edited \in BOOLEAN :
                  /\ edited => Discord /\ s.messageID
                  /\ failed' = IF edited = (Discord /\ s.messageID)
                               THEN failed ELSE failed \cup {k}
                  /\ shown' = [shown EXCEPT ![k] = IF edited THEN @ - 1 ELSE @]
    /\ UNCHANGED <<serial, armed, firing, calls, up, heard, lost>>

-----------------------------------------------------------------------------

Run == HandleOnline \/ HandleOffline \/ HandleOfflineConfirmed

Next ==
    \/ \E k \in Keys, kind \in {"online", "offline"} : Enqueue(k, kind)
    \/ \E t \in armed : Fire(t)
    \/ \E t \in firing : SendConfirmed(t)
    \/ Run

Spec == Init /\ [][Next]_vars

\* Timers fire, run goes on, and a blocked sender gets its turn: the Go
\* runtime queues the senders of a channel.
FairSpec ==
    /\ Spec
    /\ WF_vars(Run)
    /\ WF_vars(\E t \in armed : Fire(t))
    /\ SF_vars(\E t \in firing : SendConfirmed(t))

-----------------------------------------------------------------------------
(* Properties. *)

TypeOK ==
    /\ streams \in [Keys -> LiveStream \cup {NoStream}]
    /\ events \in Seq(Event)
    /\ Len(events) <= QueueSize
    /\ serial \in Nat
    /\ armed \in SUBSET Timer
    /\ firing \in SUBSET Timer
    /\ shown \in [Keys -> Nat]
    /\ calls \in Nat
    /\ up \in [Keys -> {"online", "offline"}]
    /\ heard \in [Keys -> {"online", "offline"}]
    /\ lost \in SUBSET Keys
    /\ failed \in SUBSET Keys

Tracked(k) == streams[k] # NoStream
InGrace(k) == Tracked(k) /\ streams[k].timer # NoTimer

\* A step of run that announces stream k as ended.
Ends(k) == Tracked(k) /\ streams'[k] = NoStream

\* A stream is announced as ended only when the last thing run heard of its
\* publisher is that it left: the events of stopped timers are recognised,
\* however late they are sent and however often the publisher has come back.
EndedOnlyWhileOffline ==
    [][\A k \in Keys : Ends(k) => heard[k] = "offline"]_vars

\* No stream is stuck in its grace period: its timer is running, or has fired
\* and its goroutine still sends, or the event that ends it is in the channel.
GraceEnds ==
    \A k \in Keys : InGrace(k) =>
        \/ \E t \in armed \cup firing : t.id = streams[k].timer
        \/ \E i \in 1..Len(events) :
               events[i] = [kind |-> "confirmed", key |-> k,
                            generation |-> streams[k].generation]

\* On Discord exactly the tracked streams have a message that says they are live,
\* and each of them one, unless a request of the stream has failed.
OneLiveMessage ==
    Discord =>
        \A k \in Keys \ failed : shown[k] = IF Tracked(k) THEN 1 ELSE 0

\* At rest the announcement is the truth: the stream is tracked if and only if
\* the last call said it is online, unless an event had to be dropped.
AtRest == events = <<>> /\ armed = {} /\ firing = {}
AnnouncedAtRest ==
    AtRest => \A k \in Keys \ lost :
        Tracked(k) <=> up[k] = "online" /\ (OnlyKeys = {} \/ k \in OnlyKeys)

\* A stream that went offline and stays so is announced as ended in the end.
EndedEventually ==
    \A k \in Keys :
        <>[](up[k] = "offline" /\ k \notin lost) => <>[](~Tracked(k))

\* The notifier is an announcer: run's private map decides what is announced.
Phase(k) == IF ~Tracked(k) THEN "ended" ELSE IF InGrace(k) THEN "grace" ELSE "live"
Abstract == INSTANCE Announcer WITH phase <- [k \in Keys |-> Phase(k)]
AnnouncerSpec == Abstract!Spec

=============================================================================
