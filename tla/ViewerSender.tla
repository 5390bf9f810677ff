----------------------------- MODULE ViewerSender -----------------------------
(***************************************************************************)
(* internal/webrtc/sessions/whep: how media reach one viewer.  The writer  *)
(* of each video layer (a goroutine of the publisher) picks the layer the  *)
(* viewer is to get and puts the packet into the viewer's queue; when it is *)
(* full the packet is dropped and the viewer is made to wait for a         *)
(* keyframe.  The viewer's own goroutine, runSender, empties the queue and *)
(* while the viewer waits it throws away what is not a keyframe.           *)
(*                                                                         *)
(* A packet is its layer, its number there and whether it is a keyframe.   *)
(***************************************************************************)
EXTENDS Naturals, Sequences

CONSTANTS
    Layers,      \* the video layers (rids) of the publisher
    Priority,    \* VideoTrack.Priority of each: the lower, the better
    NoLayer,     \* the empty layer name: none chosen yet
    NoPacket,
    Audio,       \* an audio packet
    QueueSize,   \* sendQueueSize
    MaxPackets,  \* bound: packets of each layer, a function
    MaxAudio,    \* bound: audio packets
    MaxChanges   \* bound: layer changes and new publishers

ASSUME PrioritiesAreSet == Priority \in [Layers -> Nat \ {0}]
ASSUME BoundsAreNat == /\ QueueSize \in Nat \ {0} /\ MaxPackets \in [Layers -> Nat]
                       /\ MaxAudio \in Nat /\ MaxChanges \in Nat

Packet == [layer : Layers, n : Nat, keyframe : BOOLEAN]

ASSUME NilsDiffer ==
    NoLayer \notin Layers /\ NoPacket \notin Packet /\ Audio \notin Packet

VARIABLES
    produced,    \* produced[l]: packets read by the writer of layer l so far
    chosen,      \* chosen[l]: the packet it is about to queue
    audio,       \* audio packets so far
    changes,     \* layer changes and new publishers so far
    sendQueue,   \* WHEPSession.sendQueue
    hand,        \* the packet runSender has taken
    step,        \* where runSender is: "idle", "check", "clear" or "send"
    waiting,     \* IsWaitingForKeyframe
    layer,       \* VideoLayerCurrent
    priority,    \* videoLayerPriority
    explicit,    \* videoLayerExplicit
    unmarked,    \* calls of SetVideoLayer that have still to set the flag
    sent,        \* the last video packet written to the viewer
    masked,      \* a packet was dropped while an older keyframe was unsent
    switched     \* the layer has changed, or the publisher

vars == <<produced, chosen, audio, changes, sendQueue, hand, step, waiting,
          layer, priority, explicit, unmarked, sent, masked, switched>>

Init ==
    /\ produced = [l \in Layers |-> 0]
    /\ chosen = [l \in Layers |-> NoPacket]
    /\ audio = 0
    /\ changes = 0
    /\ sendQueue = <<>>
    /\ hand = NoPacket
    /\ step = "idle"
    /\ waiting = TRUE
    /\ layer = NoLayer
    /\ priority = 0
    /\ explicit = FALSE
    /\ unmarked = 0
    /\ sent = NoPacket
    /\ masked = FALSE
    /\ switched = FALSE

-----------------------------------------------------------------------------
(* The writers. *)

\* Slip: the priorities are not compared.
TakesLayerAny(l) == ~explicit /\ layer # l

\* GetVideoLayerOrDefault takes the packet's layer when the viewer has none,
\* or has a worse one that nobody asked for.
TakesLayer(l) ==
    /\ ~explicit
    /\ \/ layer = NoLayer
       \/ layer # l /\ (priority = 0 \/ Priority[l] < priority)

\* videoWriter: a packet arrives and the layer is decided under VideoLock.
ReadPacket(l) ==
    /\ produced[l] < MaxPackets[l]
    /\ chosen[l] = NoPacket
    /\ produced' = [produced EXCEPT ![l] = @ + 1]
    /\ layer' = IF TakesLayer(l) THEN l ELSE layer
    /\ priority' = IF ~explicit /\ layer' = l THEN Priority[l] ELSE priority
    /\ waiting' = (waiting \/ TakesLayer(l))
    /\ switched' = (switched \/ (TakesLayer(l) /\ layer # NoLayer))
    /\ \E keyframe \in BOOLEAN :
          chosen' = [chosen EXCEPT ![l] =
             IF layer' = l
             THEN [layer |-> l, n |-> produced'[l], keyframe |-> keyframe]
             ELSE NoPacket]
    /\ UNCHANGED <<audio, changes, sendQueue, hand, step, explicit, unmarked,
                   sent, masked>>

Full == Len(sendQueue) >= QueueSize

\* A keyframe that runSender has not yet looked at, or not yet acted upon.
KeyframeAhead ==
    \/ \E i \in 1..Len(sendQueue) : sendQueue[i] # Audio /\ sendQueue[i].keyframe
    \/ step \in {"check", "clear"} /\ hand # Audio /\ hand.keyframe

\* Slip: the packet is dropped and nothing else.
QueueVideoPacketSilently(l) ==
    /\ chosen[l] # NoPacket
    /\ chosen' = [chosen EXCEPT ![l] = NoPacket]
    /\ sendQueue' = IF Full THEN sendQueue ELSE Append(sendQueue, chosen[l])
    /\ UNCHANGED <<produced, audio, changes, hand, step, waiting, layer, priority,
                   explicit, unmarked, sent, masked, switched>>

QueueVideoPacket(l) ==
    /\ chosen[l] # NoPacket
    /\ chosen' = [chosen EXCEPT ![l] = NoPacket]
    /\ IF Full
       THEN /\ waiting' = TRUE
            /\ masked' = (masked \/ KeyframeAhead)
            /\ sendQueue' = sendQueue
       ELSE /\ sendQueue' = Append(sendQueue, chosen[l])
            /\ UNCHANGED <<waiting, masked>>
    /\ UNCHANGED <<produced, audio, changes, hand, step, layer, priority,
                   explicit, unmarked, sent, switched>>

\* A full queue drops audio without a word.
QueueAudioPacket ==
    /\ audio < MaxAudio
    /\ audio' = audio + 1
    /\ sendQueue' = IF Full THEN sendQueue ELSE Append(sendQueue, Audio)
    /\ UNCHANGED <<produced, chosen, changes, hand, step, waiting, layer,
                   priority, explicit, unmarked, sent, masked, switched>>

-----------------------------------------------------------------------------
(* runSender. *)

Take ==
    /\ step = "idle"
    /\ sendQueue # <<>>
    /\ hand' = Head(sendQueue)
    /\ sendQueue' = Tail(sendQueue)
    /\ step' = IF Head(sendQueue) = Audio THEN "idle" ELSE "check"
    /\ UNCHANGED <<produced, chosen, audio, changes, waiting, layer, priority,
                   explicit, unmarked, sent, masked, switched>>

\* Slip: the first packet ends the wait, keyframe or not.
CheckKeyframeNever ==
    /\ step = "check"
    /\ step' = IF waiting THEN "clear" ELSE "send"
    /\ UNCHANGED <<produced, chosen, audio, changes, sendQueue, hand, waiting,
                   layer, priority, explicit, unmarked, sent, masked, switched>>

\* SendVideoPacket, first test: no keyframe, no packet (but a PLI).
CheckKeyframe ==
    /\ step = "check"
    /\ step' = IF ~waiting THEN "send" ELSE IF hand.keyframe THEN "clear" ELSE "idle"
    /\ UNCHANGED <<produced, chosen, audio, changes, sendQueue, hand, waiting,
                   layer, priority, explicit, unmarked, sent, masked, switched>>

ClearWaiting ==
    /\ step = "clear"
    /\ waiting' = FALSE
    /\ step' = "send"
    /\ UNCHANGED <<produced, chosen, audio, changes, sendQueue, hand, layer,
                   priority, explicit, unmarked, sent, masked, switched>>

WriteVideo ==
    /\ step = "send"
    /\ sent' = hand
    /\ step' = "idle"
    /\ UNCHANGED <<produced, chosen, audio, changes, sendQueue, hand, waiting,
                   layer, priority, explicit, unmarked, masked, switched>>

-----------------------------------------------------------------------------
(* Requests of the viewer, and a new publisher. *)

\* SetVideoLayer, its lock section; the empty name goes back to the automatic
\* choice.
SetVideoLayer(l) ==
    /\ changes < MaxChanges
    /\ changes' = changes + 1
    /\ layer' = l
    /\ priority' = 0
    /\ explicit' = (l # NoLayer)
    /\ unmarked' = unmarked + 1
    /\ switched' = TRUE
    /\ UNCHANGED <<produced, chosen, audio, sendQueue, hand, step, waiting, sent,
                   masked>>

\* SetVideoLayer after its lock section.
MarkWaiting ==
    /\ unmarked > 0
    /\ unmarked' = unmarked - 1
    /\ waiting' = TRUE
    /\ UNCHANGED <<produced, chosen, audio, changes, sendQueue, hand, step, layer,
                   priority, explicit, sent, masked, switched>>

\* SetAudioLayer makes the video wait as well.
SetAudioLayer ==
    /\ changes < MaxChanges
    /\ changes' = changes + 1
    /\ waiting' = TRUE
    /\ UNCHANGED <<produced, chosen, audio, sendQueue, hand, step, layer,
                   priority, explicit, unmarked, sent, masked, switched>>

ResetForNewPublisher ==
    /\ changes < MaxChanges
    /\ changes' = changes + 1
    /\ layer' = NoLayer
    /\ priority' = 0
    /\ explicit' = FALSE
    /\ waiting' = TRUE
    /\ switched' = TRUE
    /\ UNCHANGED <<produced, chosen, audio, sendQueue, hand, step, unmarked,
                   sent, masked>>

Next ==
    \/ \E l \in Layers : ReadPacket(l) \/ QueueVideoPacket(l)
    \/ QueueAudioPacket
    \/ Take \/ CheckKeyframe \/ ClearWaiting \/ WriteVideo
    \/ \E l \in Layers \cup {NoLayer} : SetVideoLayer(l)
    \/ MarkWaiting
    \/ SetAudioLayer
    \/ ResetForNewPublisher

Spec == Init /\ [][Next]_vars

-----------------------------------------------------------------------------
(* Properties. *)

TypeOK ==
    /\ produced \in [Layers -> Nat]
    /\ chosen \in [Layers -> Packet \cup {NoPacket}]
    /\ audio \in Nat /\ changes \in Nat
    /\ sendQueue \in Seq(Packet \cup {Audio})
    /\ Len(sendQueue) <= QueueSize
    /\ hand \in Packet \cup {NoPacket, Audio}
    /\ step \in {"idle", "check", "clear", "send"}
    /\ step # "idle" => hand \in Packet
    /\ waiting \in BOOLEAN /\ explicit \in BOOLEAN
    /\ layer \in Layers \cup {NoLayer}
    /\ priority \in Nat /\ unmarked \in Nat
    /\ sent \in Packet \cup {NoPacket}
    /\ masked \in BOOLEAN /\ switched \in BOOLEAN

\* The viewer's decoder can use a packet: a keyframe, or the next packet of
\* the layer it was sent last.
Decodable(p) ==
    \/ p.keyframe
    \/ sent # NoPacket /\ sent.layer = p.layer /\ sent.n + 1 = p.n

\* Whatever layer changes, drops and new publishers come before it, the first
\* video packet a viewer gets is a keyframe.
FirstIsKeyframe ==
    [][WriteVideo /\ sent = NoPacket => hand.keyframe]_vars

\* After packets were dropped the viewer resumes with a keyframe, however the
\* flag is set and cleared meanwhile, as long as the layer stays and no older
\* keyframe was still unsent when a packet was dropped.
ResumesAtKeyframe ==
    [][WriteVideo /\ ~masked /\ ~switched => Decodable(hand)]_vars

\* Without a request of the viewer or a new publisher, the automatic choice
\* only ever moves to a better layer, whichever writer is faster.
NeverToWorseLayer ==
    [][changes' = changes /\ layer' # layer /\ layer # NoLayer
          => explicit = FALSE
             /\ (priority = 0 \/ Priority[layer'] < Priority[layer])]_vars

=============================================================================
