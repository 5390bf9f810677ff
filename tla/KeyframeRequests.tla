--------------------------- MODULE KeyframeRequests ---------------------------
(***************************************************************************)
(* How a viewer that waits for a keyframe gets one (SendPLI of             *)
(* internal/webrtc/sessions/whep and of .../whip).  A request passes two   *)
(* limiters of the same form, first the viewer's and then the publisher's: *)
(* load the time of the last request, give up when that is too recent, and *)
(* take the slot with a compare-and-swap.  The publisher's slot is taken   *)
(* before it is known that the request can be sent, so it may be wasted.   *)
(*                                                                         *)
(* A time is its age in ticks of half a second, no higher than what can be *)
(* told apart.  A goroutine may rest for any time between two steps.       *)
(***************************************************************************)
EXTENDS Naturals

CONSTANTS
    Viewers,
    Impatient,       \* viewers whose WebRTC callbacks ask for keyframes too
    ViewerInterval,  \* pliInterval of package whep
    HostInterval,    \* pliInterval of package whip, no shorter
    MaxHosts,        \* bound: publishers, one after the other
    MaxTroubles      \* bound: packets that find a viewer's queue full, requests
                     \* the network loses and calls of SetVideoLayer, together

VARIABLES
    status,          \* of each viewer: "new", "listed" in its session or "closed"
    waiting,         \* IsWaitingForKeyframe
    queued,          \* its sendQueue: "empty", or the "delta" or "key" in it
    stamp,           \* age of WHEPSession.lastPLI
    hosts,           \* publishers so far
    live,            \* the session has a host
    tracks,          \* its video track has its MediaSSRC
    asked,           \* a request has reached the publisher's encoder
    hostStamp,       \* age of WHIPSession.lastPLI
    pc,              \* where each caller of SendPLI is
    valid,           \* the time it has loaded is still the current one
    now,             \* age of its own reading of the clock
    recent,          \* ages of the last request the host let pass and the one before
    storm,           \* it has let three pass within an interval
    troubles

vars == <<status, waiting, queued, stamp, hosts, live, tracks, asked, hostStamp,
          pc, valid, now, recent, storm, troubles>>

calls == <<pc, valid, now>>
host  == <<hosts, live, tracks, asked, hostStamp, recent, storm>>

\* The goroutines that call SendPLI: runSender, and pion's callbacks.
Callers == {<<"sender", v>> : v \in Viewers} \cup {<<"callback", v>> : v \in Impatient}

Of(c) == c[2]

Older(age, cap) == IF age < cap THEN age + 1 ELSE cap

Trouble == troubles < MaxTroubles /\ troubles' = troubles + 1

AtMost(age, cap) == IF age < cap THEN age ELSE cap

Init ==
    /\ status = [v \in Viewers |-> "new"]
    /\ waiting = [v \in Viewers |-> TRUE]
    /\ queued = [v \in Viewers |-> "empty"]
    /\ stamp = [v \in Viewers |-> ViewerInterval]
    /\ hosts = 0
    /\ live = FALSE
    /\ tracks = FALSE
    /\ asked = FALSE
    /\ hostStamp = HostInterval
    /\ pc = [c \in Callers |-> "idle"]
    /\ valid = [c \in Callers |-> FALSE]
    /\ now = [c \in Callers |-> 0]
    /\ recent = <<HostInterval, HostInterval>>
    /\ storm = FALSE
    /\ troubles = 0

-----------------------------------------------------------------------------
(* SendPLI, from the viewer to the publisher. *)

Goto(c, place) == pc' = [pc EXCEPT ![c] = place]

\* `now` and `last` are read: the caller goes on when they are far enough apart.
Load(c, place) ==
    /\ Goto(c, place)
    /\ valid' = [valid EXCEPT ![c] = TRUE]
    /\ now' = [now EXCEPT ![c] = 0]

GiveUp(c) ==
    /\ Goto(c, "idle")
    /\ valid' = [valid EXCEPT ![c] = FALSE]
    /\ now' = [now EXCEPT ![c] = 0]

\* The slot is taken: whoever has loaded the time before it will not get it.
Pass(c, place, rivals) ==
    /\ Goto(c, place)
    /\ valid' = [d \in Callers |-> valid[d] /\ d \notin rivals]
    /\ now' = [now EXCEPT ![c] = 0]

\* WHEPSession.SendPLI is called.
Ask(c) ==
    IF status[Of(c)] # "closed" /\ stamp[Of(c)] >= ViewerInterval
    THEN Load(c, "viewer")
    ELSE UNCHANGED calls

TakeViewersSlot(c) ==
    /\ pc[c] = "viewer"
    /\ IF valid[c]
       THEN /\ stamp' = [stamp EXCEPT ![Of(c)] = AtMost(now[c], ViewerInterval)]
            /\ Pass(c, "find", {d \in Callers : pc[d] = "viewer" /\ Of(d) = Of(c)})
       ELSE GiveUp(c) /\ UNCHANGED stamp
    /\ UNCHANGED <<status, waiting, queued, host, troubles>>

\* SendPLIByWHEPSessionID finds the viewer's session and its host, whose
\* SendPLI loads the time of its last request.
FindHost(c) ==
    /\ pc[c] = "find"
    /\ IF status[Of(c)] = "listed" /\ live /\ hostStamp >= HostInterval
       THEN Load(c, "host")
       ELSE GiveUp(c)
    /\ UNCHANGED <<status, waiting, queued, stamp, host, troubles>>

\* getPLIPackets names the tracks whose MediaSSRC is known: without any the
\* request is not sent, though the slot is gone.
Send ==
    \/ asked' = (asked \/ tracks) /\ UNCHANGED troubles
    \/ tracks /\ Trouble /\ UNCHANGED asked

LetPass(c) ==
    /\ hostStamp' = now[c]
    /\ recent' = <<0, recent[1]>>
    /\ storm' = (storm \/ recent[2] < HostInterval)
    /\ Send

\* Slip: the time is stored, whatever it has become in the meantime.
TakeHostsSlotStored(c) ==
    /\ pc[c] = "host"
    /\ LetPass(c)
    /\ GiveUp(c)
    /\ UNCHANGED <<status, waiting, queued, stamp, hosts, live, tracks>>

TakeHostsSlot(c) ==
    /\ pc[c] = "host"
    /\ IF valid[c]
       THEN LetPass(c) /\ Pass(c, "idle", {d \in Callers : pc[d] = "host"})
       ELSE GiveUp(c) /\ UNCHANGED <<hostStamp, recent, storm, asked, troubles>>
    /\ UNCHANGED <<status, waiting, queued, stamp, hosts, live, tracks>>

-----------------------------------------------------------------------------
(* The viewer. *)

\* AddWHEP has put the viewer into its session.
List(v) ==
    /\ status[v] = "new"
    /\ status' = [status EXCEPT ![v] = "listed"]
    /\ UNCHANGED <<waiting, queued, stamp, host, calls, troubles>>

\* WHEPSession.Close: runSender ends, and handleWHEPClose takes it out.
Close(v) ==
    /\ status[v] = "listed"
    /\ status' = [status EXCEPT ![v] = "closed"]
    /\ queued' = [queued EXCEPT ![v] = "empty"]
    /\ UNCHANGED <<waiting, stamp, host, calls, troubles>>

\* The viewer has connected, or its decoder has asked.
CallBack(v) ==
    /\ v \in Impatient
    /\ pc[<<"callback", v>>] = "idle"
    /\ Ask(<<"callback", v>>)
    /\ UNCHANGED <<status, waiting, queued, stamp, host, troubles>>

\* The viewer chooses another layer.
SetVideoLayer(v) ==
    /\ v \in Impatient
    /\ Trouble
    /\ pc[<<"callback", v>>] = "idle"
    /\ Ask(<<"callback", v>>)
    /\ waiting' = [waiting EXCEPT ![v] = TRUE]
    /\ UNCHANGED <<status, queued, stamp, host>>

\* Slip: while the viewer waits, what is not a keyframe is thrown away in silence.
SendVideoPacketSilently(v) ==
    /\ pc[<<"sender", v>>] = "idle"
    /\ queued[v] # "empty"
    /\ queued' = [queued EXCEPT ![v] = "empty"]
    /\ waiting' = [waiting EXCEPT ![v] = @ /\ queued[v] # "key"]
    /\ UNCHANGED <<status, stamp, host, calls, troubles>>

\* runSender takes a packet: a waiting viewer wants a keyframe, or asks for one.
SendVideoPacket(v) ==
    /\ pc[<<"sender", v>>] = "idle"
    /\ queued[v] # "empty"
    /\ queued' = [queued EXCEPT ![v] = "empty"]
    /\ waiting' = [waiting EXCEPT ![v] = @ /\ queued[v] # "key"]
    /\ IF waiting[v] /\ queued[v] = "delta"
       THEN Ask(<<"sender", v>>)
       ELSE UNCHANGED calls
    /\ UNCHANGED <<status, stamp, host, troubles>>

-----------------------------------------------------------------------------
(* The publisher. *)

Fresh ==
    /\ hostStamp' = HostInterval
    /\ recent' = <<HostInterval, HostInterval>>
    /\ tracks' = FALSE
    /\ asked' = FALSE

\* A new host has asked for nothing yet; the viewers of the session wait for
\* its first keyframe (ResetForNewPublisher), and what is queued stays queued.
AddHost ==
    /\ ~live
    /\ hosts < MaxHosts
    /\ hosts' = hosts + 1
    /\ live' = TRUE
    /\ Fresh
    /\ waiting' = [v \in Viewers |-> waiting[v] \/ status[v] = "listed"]
    /\ UNCHANGED <<status, queued, stamp, calls, storm, troubles>>

\* The host leaves: requests on their way to it lead nowhere.
RemoveHost ==
    /\ live
    /\ live' = FALSE
    /\ Fresh
    /\ valid' = [c \in Callers |-> valid[c] /\ pc[c] # "host"]
    /\ UNCHANGED <<status, waiting, queued, stamp, hosts, pc, now, storm, troubles>>

\* videoWriter starts.
StoreMediaSSRC ==
    /\ live /\ ~tracks
    /\ tracks' = TRUE
    /\ UNCHANGED <<status, waiting, queued, stamp, hosts, live, asked, hostStamp,
                   recent, storm, calls, troubles>>

\* A packet for every viewer, a keyframe if the encoder has been asked for one.
\* When a queue is full the packet is dropped and that viewer waits.
QueueVideoPacket ==
    /\ tracks
    /\ LET listed == {v \in Viewers : status[v] = "listed"}
           full   == {v \in listed : queued[v] # "empty"}
       IN /\ IF full = {} THEN UNCHANGED troubles ELSE Trouble
          /\ queued' = [v \in Viewers |->
                IF v \notin listed \ full THEN queued[v]
                ELSE IF asked THEN "key" ELSE "delta"]
          /\ waiting' = [v \in Viewers |-> waiting[v] \/ v \in full]
    /\ asked' = FALSE
    /\ UNCHANGED <<status, stamp, hosts, live, tracks, hostStamp, recent, storm,
                   calls>>

-----------------------------------------------------------------------------

\* Half a second passes.
Tick ==
    /\ stamp' = [v \in Viewers |-> Older(stamp[v], ViewerInterval)]
    /\ hostStamp' = Older(hostStamp, HostInterval)
    /\ now' = [c \in Callers |->
          IF pc[c] \in {"viewer", "host"} THEN Older(now[c], HostInterval) ELSE now[c]]
    /\ recent' = <<Older(recent[1], HostInterval), Older(recent[2], HostInterval)>>
    /\ UNCHANGED <<status, waiting, queued, hosts, live, tracks, asked, pc, valid,
                   storm, troubles>>

CallerStep(c) == TakeViewersSlot(c) \/ FindHost(c) \/ TakeHostsSlot(c)

Next ==
    \/ \E c \in Callers : CallerStep(c)
    \/ \E v \in Viewers : List(v) \/ Close(v) \/ CallBack(v) \/ SetVideoLayer(v)
    \/ \E v \in Viewers : SendVideoPacket(v)
    \/ AddHost \/ RemoveHost \/ StoreMediaSSRC \/ QueueVideoPacket
    \/ Tick

\* Every goroutine goes on, time passes, and a publisher that stays sends.
Fairness ==
    /\ \A c \in Callers : WF_vars(CallerStep(c))
    /\ \A v \in Viewers : WF_vars(SendVideoPacket(v))
    /\ WF_vars(StoreMediaSSRC) /\ WF_vars(QueueVideoPacket) /\ WF_vars(Tick)

Spec == Init /\ [][Next]_vars /\ Fairness

-----------------------------------------------------------------------------

TypeOK ==
    /\ status \in [Viewers -> {"new", "listed", "closed"}]
    /\ waiting \in [Viewers -> BOOLEAN]
    /\ queued \in [Viewers -> {"empty", "delta", "key"}]
    /\ stamp \in [Viewers -> 0..ViewerInterval]
    /\ hosts \in 0..MaxHosts
    /\ live \in BOOLEAN /\ tracks \in BOOLEAN /\ asked \in BOOLEAN
    /\ hostStamp \in 0..HostInterval
    /\ pc \in [Callers -> {"idle", "viewer", "find", "host"}]
    /\ valid \in [Callers -> BOOLEAN]
    /\ now \in [Callers -> 0..HostInterval]
    /\ recent \in (0..HostInterval) \X (0..HostInterval) /\ storm \in BOOLEAN
    /\ troubles \in 0..MaxTroubles

(* However many viewers ask and however long their goroutines rest on the  *)
(* way, of three requests that a publisher's limiter lets pass in a row    *)
(* the first and the third are an interval apart ("must not make the       *)
(* encoder produce a keyframe storm", peerconnection.go:74-77).  Two may   *)
(* be closer: the slot is stamped with the time at which the call began.   *)
NoKeyframeStorm == ~storm

(* A viewer of a publisher that goes on sending does not wait for a        *)
(* keyframe for ever, although a slot is wasted when the viewer is not yet *)
(* listed or the track not yet known, and requests and packets are lost.   *)
WaitingEnds ==
    \A v \in Viewers :
       (waiting[v] /\ status[v] = "listed" /\ live)
          ~> (~waiting[v] \/ status[v] = "closed" \/ ~live)

(* Requests, in numbers a publisher can bear.                               *)
RequestsSpaced == TypeOK /\ NoKeyframeStorm

=============================================================================
