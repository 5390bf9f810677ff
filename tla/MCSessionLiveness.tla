-------------------------- MODULE MCSessionLiveness --------------------------
(***************************************************************************)
(* What the calls of a session and the viewers of one wait for, for TLC:   *)
(* StreamSession with its fairness, and KeyframeRequests with its own.     *)
(* They share no state, and a behaviour is one of those `part` names.      *)
(***************************************************************************)
EXTENDS StreamSession

CONSTANTS
    Watching, Impatient, ViewerInterval, HostInterval, MaxHosts, MaxTroubles

VARIABLES
    part,
    status, waiting, queued, stamp, hosts, live, tracks, asked, hostStamp,
    place, valid, now, recent, storm, troubles

\* The intervals and bounds are numbers; those who call back are viewers.
ASSUME KeyframesAssumption ==
    /\ ViewerInterval \in Nat /\ HostInterval \in Nat
    /\ MaxHosts \in Nat /\ MaxTroubles \in Nat
    /\ Impatient \subseteq Watching

K == INSTANCE KeyframeRequests WITH Viewers <- Watching, pc <- place

keyframe == <<status, waiting, queued, stamp, hosts, live, tracks, asked, hostStamp,
              place, valid, now, recent, storm, troubles>>
all      == <<part, vars, keyframe>>

MCInit ==
    /\ part \in {"session", "keyframes"}
    /\ Init /\ K!Init

OfSession(A)   == part = "session"   /\ A /\ UNCHANGED <<part, keyframe>>
OfKeyframes(A) == part = "keyframes" /\ A /\ UNCHANGED <<part, vars>>

MCNext == OfSession(Next) \/ OfKeyframes(K!Next)

\* The fairness of each module, for the behaviours that are its own.
MCFairness ==
    /\ \A t \in Tasks : WF_all(OfSession(TaskStep(t)))
    /\ \A h \in Hosts : WF_all(OfSession(HostStep(h)))
    /\ \A v \in Viewers : WF_all(OfSession(ViewerStep(v)))
    /\ WF_all(OfSession(CloserStep))
    /\ WF_all(OfSession(DeleteCountViewers))
    /\ \A c \in K!Callers : WF_all(OfKeyframes(K!CallerStep(c)))
    /\ \A v \in Watching : WF_all(OfKeyframes(K!SendVideoPacket(v)))
    /\ WF_all(OfKeyframes(K!StoreMediaSSRC)) /\ WF_all(OfKeyframes(K!QueueVideoPacket))
    /\ WF_all(OfKeyframes(K!Tick))

MCSpec == MCInit /\ [][MCNext]_all /\ MCFairness

-----------------------------------------------------------------------------

(* The publisher is not asked for a storm of keyframes (KeyframeRequests). *)
RequestsSpaced == part = "keyframes" => K!RequestsSpaced

(* A viewer gets the keyframe it waits for (KeyframeRequests).             *)
WaitingEnds == K!WaitingEnds

=============================================================================
