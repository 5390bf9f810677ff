---------------------------- MODULE StreamSession ----------------------------
(***************************************************************************)
(* One live stream: the Session object of                                  *)
(* internal/webrtc/sessions/session, its publisher (a WHIPSession, here a  *)
(* "host") and its viewers (WHEPSessions), at the granularity of the       *)
(* atomics, the lock sections and the sync.Once bodies of the Go code.     *)
(*                                                                         *)
(* Every call that runs in a goroutine of its own, and every body of a     *)
(* sync.Once, is a task with a program counter.  A host or viewer stands   *)
(* for one request, so its identifier is used once (the code draws UUIDs). *)
(***************************************************************************)
EXTENDS Naturals, FiniteSets

CONSTANTS
    Hosts,       \* the WHIP requests, each of which creates one WHIPSession
    Viewers,     \* the WHEP requests, each of which creates one WHEPSession
    NoHost,      \* the nil of the Host pointer
    MaxViewers   \* MAX_VIEWERS_PER_STREAM, 0 when it is not set

ASSUME NoHostIsNil == NoHost \notin Hosts
ASSUME MaxViewersIsNat == MaxViewers \in Nat

VARIABLES
    host,        \* Session.Host
    viewers,     \* the keys of Session.WHEPSessions
    connected,   \* the hosts whose PeerConnection field is set
    streaming,   \* the hosts with a track in AudioTracks or VideoTracks
    active,      \* the hosts with media (or created) within hostTakeoverTimeout
    offline,     \* offline[h]: times notify.StreamOffline was called for host h
    pc,          \* pc[t]: where task t is
    at,          \* at[t]: the host pointer task t loaded last and still uses
    pending,     \* the slice whepSessions of Session.close
    victim       \* the element of it whose Close is being run

vars == <<host, viewers, connected, streaming, active, offline, pc, at,
          pending, victim>>

-----------------------------------------------------------------------------
(* The tasks. *)

Adding(h)  == <<"AddHost", h>>           \* Session.AddHost of a WHIP request
Dropped(h) == <<"HostClosed", h>>        \* WHIPSession.closeOnce: handleHostClosed
Joining(v) == <<"AddWHEP", v>>           \* WHEP and Session.AddWHEP
Leaving(v) == <<"WHEPClose", v>>         \* WHEPSession.SessionClose
Closing    == <<"SessionClose", NoHost>> \* Session.closeOnce
Deleting   == <<"WHIPDelete", NoHost>>   \* HandleWHIPDelete

HostTasks   == {"AddHost", "HostClosed"} \X Hosts
ViewerTasks == {"AddWHEP", "WHEPClose"} \X Viewers
Tasks       == HostTasks \cup ViewerTasks \cup {Closing, Deleting}

\* "refused": turned away before anything was set up (an active publisher, a
\* full stream); "rejected": lost the race to install its host.
Finished  == {"done", "refused", "rejected"}
Quiescent == \A t \in Tasks : pc[t] \in Finished \cup {"idle"}

Goto(t, label) == pc' = [pc EXCEPT ![t] = label]

\* WHEPSession.IsSessionClosed is set by the first step of WHEPSession.Close.
IsSessionClosed(v) == pc[Leaving(v)] # "idle"

Init ==
    /\ host = NoHost
    /\ viewers = {}
    /\ connected = {}
    /\ streaming = {}
    /\ active = {}
    /\ offline = [h \in Hosts |-> 0]
    /\ pc = [t \in Tasks |-> "idle"]
    /\ at = [t \in Tasks |-> NoHost]
    /\ pending = {}
    /\ victim = {}

-----------------------------------------------------------------------------
(* removeHost(at[t]): only the task whose compare-and-swap succeeds tears   *)
(* the host down; the others learn that it is no longer the current one.    *)

AfterRemove(t, removed) ==
    IF t[1] = "AddHost" THEN "register"
    ELSE IF t[1] = "HostClosed"
         THEN IF removed THEN "checkViewers" ELSE "done"
    ELSE IF t[1] = "SessionClose" THEN "onClose"
    ELSE "countViewers"

\* Slip: the pointer is cleared whichever host it holds.
RemoveHostSwapUnconditional(t) ==
    /\ pc[t] = "remove"
    /\ host' = NoHost
    /\ Goto(t, "closePeer")
    /\ UNCHANGED <<viewers, connected, streaming, active, offline, at, pending,
                   victim>>

RemoveHostSwap(t) ==
    /\ pc[t] = "remove"
    /\ IF host = at[t]
       THEN /\ host' = NoHost
            /\ at' = at
            /\ Goto(t, "closePeer")
       ELSE /\ host' = host
            /\ at' = [at EXCEPT ![t] = NoHost]
            /\ Goto(t, AfterRemove(t, FALSE))
    /\ UNCHANGED <<viewers, connected, streaming, active, offline, pending,
                   victim>>

RemovePeerConnection(t) ==
    /\ pc[t] = "closePeer"
    /\ connected' = connected \ {at[t]}
    /\ Goto(t, "dropTracks")
    /\ UNCHANGED <<host, viewers, streaming, active, offline, at, pending,
                   victim>>

\* RemoveTracks and the StreamOffline event, whose enqueueing never blocks.
RemoveTracksAndNotify(t) ==
    /\ pc[t] = "dropTracks"
    /\ streaming' = streaming \ {at[t]}
    /\ offline' = [offline EXCEPT ![at[t]] = @ + 1]
    /\ at' = [at EXCEPT ![t] = NoHost]
    /\ Goto(t, AfterRemove(t, TRUE))
    /\ UNCHANGED <<host, viewers, connected, active, pending, victim>>

\* RemoveHost: removes whichever host is current when it loads the pointer.
RemoveHost(t) ==
    /\ pc[t] = "removeHost"
    /\ at' = [at EXCEPT ![t] = host]
    /\ Goto(t, IF host = NoHost THEN AfterRemove(t, FALSE) ELSE "remove")
    /\ UNCHANGED <<host, viewers, connected, streaming, active, offline,
                   pending, victim>>

-----------------------------------------------------------------------------
(* isEmpty: two reads under two locks, and close: the caller that finds     *)
(* closeOnce used waits for its body to end.                                *)

CheckViewers(t) ==
    /\ pc[t] = "checkViewers"
    /\ Goto(t, IF viewers = {} THEN "checkHost" ELSE "done")
    /\ UNCHANGED <<host, viewers, connected, streaming, active, offline, at,
                   pending, victim>>

CheckHost(t) ==
    /\ pc[t] = "checkHost"
    /\ at' = [at EXCEPT ![t] = host]
    /\ Goto(t, IF host = NoHost THEN "close" ELSE "checkTracks")
    /\ UNCHANGED <<host, viewers, connected, streaming, active, offline,
                   pending, victim>>

CheckTracks(t) ==
    /\ pc[t] = "checkTracks"
    /\ at' = [at EXCEPT ![t] = NoHost]
    /\ Goto(t, IF at[t] \in streaming THEN "done" ELSE "close")
    /\ UNCHANGED <<host, viewers, connected, streaming, active, offline,
                   pending, victim>>

CloseSession(t) ==
    /\ pc[t] = "close"
    /\ pc' = [pc EXCEPT ![t] = "waitClosed",
                        ![Closing] = IF @ = "idle" THEN "collect" ELSE @]
    /\ UNCHANGED <<host, viewers, connected, streaming, active, offline, at,
                   pending, victim>>

CloseReturns(t) ==
    /\ pc[t] = "waitClosed"
    /\ pc[Closing] = "done"
    /\ Goto(t, "done")
    /\ UNCHANGED <<host, viewers, connected, streaming, active, offline, at,
                   pending, victim>>

-----------------------------------------------------------------------------
(* The body of Session.closeOnce. *)

\* Slip: the map is replaced before it is copied.
CollectViewersLate ==
    /\ pc[Closing] = "collect"
    /\ pending' = {}
    /\ viewers' = {}
    /\ Goto(Closing, "closeViewers")
    /\ UNCHANGED <<host, connected, streaming, active, offline, at, victim>>

CollectViewers ==
    /\ pc[Closing] = "collect"
    /\ pending' = viewers
    /\ viewers' = {}
    /\ Goto(Closing, "closeViewers")
    /\ UNCHANGED <<host, connected, streaming, active, offline, at, victim>>

\* whepSession.Close() of the next viewer of the slice: its body runs now,
\* unless another goroutine has already entered that viewer's SessionClose.
CloseViewer(v) ==
    /\ pc[Closing] = "closeViewers"
    /\ v \in pending
    /\ victim' = {v}
    /\ pc' = [pc EXCEPT ![Closing] = "waitViewer",
                        ![Leaving(v)] = IF @ = "idle" THEN "delete" ELSE @]
    /\ UNCHANGED <<host, viewers, connected, streaming, active, offline, at,
                   pending>>

ViewerClosed(v) ==
    /\ pc[Closing] = "waitViewer"
    /\ v \in victim
    /\ pc[Leaving(v)] = "done"
    /\ pending' = pending \ {v}
    /\ victim' = {}
    /\ Goto(Closing, "closeViewers")
    /\ UNCHANGED <<host, viewers, connected, streaming, active, offline, at>>

AllViewersClosed ==
    /\ pc[Closing] = "closeViewers"
    /\ pending = {}
    /\ Goto(Closing, "removeHost")
    /\ UNCHANGED <<host, viewers, connected, streaming, active, offline, at,
                   pending, victim>>

\* Recorder.Close and the onClose callback of the session manager.
FinishClose ==
    /\ pc[Closing] = "onClose"
    /\ Goto(Closing, "done")
    /\ UNCHANGED <<host, viewers, connected, streaming, active, offline, at,
                   pending, victim>>

-----------------------------------------------------------------------------
(* AddHost. *)

AddHostLoad(h) ==
    /\ pc[Adding(h)] = "idle"
    /\ at' = [at EXCEPT ![Adding(h)] = host]
    /\ Goto(Adding(h), IF host = NoHost THEN "register" ELSE "checkActive")
    /\ UNCHANGED <<host, viewers, connected, streaming, active, offline,
                   pending, victim>>

AddHostCheckActive(h) ==
    /\ pc[Adding(h)] = "checkActive"
    /\ IF at[Adding(h)] \in active
       THEN /\ Goto(Adding(h), "refused")
            /\ at' = [at EXCEPT ![Adding(h)] = NoHost]
       ELSE /\ Goto(Adding(h), "remove")
            /\ at' = at
    /\ UNCHANGED <<host, viewers, connected, streaming, active, offline,
                   pending, victim>>

\* MarkActive, SetOnClosed, SetOnConnected and AddPeerConnection: from here
\* on the callbacks of the peer connection may run.
AddHostRegister(h) ==
    /\ pc[Adding(h)] = "register"
    /\ active' = active \cup {h}
    /\ connected' = connected \cup {h}
    /\ Goto(Adding(h), "install")
    /\ UNCHANGED <<host, viewers, streaming, offline, at, pending, victim>>

\* Slip: the failed compare-and-swap returns without cleaning up.
AddHostInstallLeaky(h) ==
    /\ pc[Adding(h)] = "install"
    /\ host' = IF host = NoHost THEN h ELSE host
    /\ Goto(Adding(h), IF host = NoHost THEN "done" ELSE "rejected")
    /\ UNCHANGED <<viewers, connected, streaming, active, offline, at, pending,
                   victim>>

AddHostInstall(h) ==
    /\ pc[Adding(h)] = "install"
    /\ IF host = NoHost
       THEN /\ host' = h
            /\ Goto(Adding(h), "done")
            /\ UNCHANGED <<connected, streaming>>
       ELSE /\ host' = host
            /\ Goto(Adding(h), "rejected")
            /\ connected' = connected \ {h}
            /\ streaming' = streaming \ {h}
    /\ UNCHANGED <<viewers, active, offline, at, pending, victim>>

-----------------------------------------------------------------------------
(* The peer connection of a host: media, silence, and its loss. *)

\* onTrack registers a track, every packet marks the host as active.  The
\* publisher connects after it received the answer, so after AddHost.  It matters
\* only to whoever is about to look at the host's tracks or at its activity, and
\* happens here when somebody is; a packet may still be handled when the
\* connection has been closed.
HostMedia(h) ==
    /\ pc[Adding(h)] = "done"
    /\ \E t \in Tasks : at[t] = h /\ pc[t] \in {"checkTracks", "checkActive"}
    /\ ~(h \in streaming /\ h \in active)
    /\ streaming' = streaming \cup {h}
    /\ active' = active \cup {h}
    /\ UNCHANGED <<host, viewers, connected, offline, pc, at, pending, victim>>

\* hostTakeoverTimeout passes without a packet, which somebody is to find out.
HostSilent(h) ==
    /\ h \in active
    /\ \E t \in Tasks : at[t] = h /\ pc[t] = "checkActive"
    /\ active' = active \ {h}
    /\ UNCHANGED <<host, viewers, connected, streaming, offline, pc, at,
                   pending, victim>>

\* Where AddHost is once its handlers are registered.
Registered == {"install", "done", "rejected"}

\* A failed or closed connection: notifyClosed enters closeOnce.
HostConnectionLost(h) ==
    /\ pc[Adding(h)] \in Registered
    /\ pc[Dropped(h)] = "idle"
    /\ at' = [at EXCEPT ![Dropped(h)] = h]
    /\ Goto(Dropped(h), "remove")
    /\ UNCHANGED <<host, viewers, connected, streaming, active, offline,
                   pending, victim>>

-----------------------------------------------------------------------------
(* WHEP and AddWHEP, and the end of a viewer. *)

\* The viewer limit is read here, the viewer is inserted in a later step.
JoinCheckLimit(v) ==
    /\ pc[Joining(v)] = "idle"
    /\ Goto(Joining(v),
            IF MaxViewers > 0 /\ Cardinality(viewers) >= MaxViewers
            THEN "refused" ELSE "insert")
    /\ UNCHANGED <<host, viewers, connected, streaming, active, offline, at,
                   pending, victim>>

JoinInsert(v) ==
    /\ pc[Joining(v)] = "insert"
    /\ viewers' = viewers \cup {v}
    /\ Goto(Joining(v), "done")
    /\ UNCHANGED <<host, connected, streaming, active, offline, at, pending,
                   victim>>

\* The viewer's connection fails or closes, or a write to it does: its own
\* goroutine enters SessionClose.  RegisterWHEPHandlers is AddWHEP's last step.
ViewerConnectionLost(v) ==
    /\ pc[Joining(v)] = "done"
    /\ pc[Leaving(v)] = "idle"
    /\ Goto(Leaving(v), "delete")
    /\ UNCHANGED <<host, viewers, connected, streaming, active, offline, at,
                   pending, victim>>

\* Slip: handleWHEPClose goes on when the session had already dropped it.
HandleWHEPCloseNoReturn(v) ==
    /\ pc[Leaving(v)] = "delete"
    /\ viewers' = viewers \ {v}
    /\ Goto(Leaving(v), "checkViewers")
    /\ UNCHANGED <<host, connected, streaming, active, offline, at, pending,
                   victim>>

\* Slip: an already empty map is not looked at again by the last viewer.
HandleWHEPCloseEarlyReturn(v) ==
    /\ pc[Leaving(v)] = "delete"
    /\ viewers' = viewers \ {v}
    /\ Goto(Leaving(v), IF viewers' = {} THEN "done" ELSE "checkViewers")
    /\ UNCHANGED <<host, connected, streaming, active, offline, at, pending,
                   victim>>

\* handleWHEPClose: the map is tested and changed in one lock section.
HandleWHEPClose(v) ==
    /\ pc[Leaving(v)] = "delete"
    /\ viewers' = viewers \ {v}
    /\ Goto(Leaving(v), IF v \in viewers THEN "checkViewers" ELSE "done")
    /\ UNCHANGED <<host, connected, streaming, active, offline, at, pending,
                   victim>>

-----------------------------------------------------------------------------
(* HandleWHIPDelete: RemoveHost, then Close when no viewer is left. *)

\* GetSessionByHostSessionID finds the session through its current host.
DeleteRequest ==
    /\ pc[Deleting] = "idle"
    /\ host # NoHost
    /\ Goto(Deleting, "removeHost")
    /\ UNCHANGED <<host, viewers, connected, streaming, active, offline, at,
                   pending, victim>>

DeleteCountViewers ==
    /\ pc[Deleting] = "countViewers"
    /\ Goto(Deleting, IF viewers = {} THEN "close" ELSE "done")
    /\ UNCHANGED <<host, viewers, connected, streaming, active, offline, at,
                   pending, victim>>

-----------------------------------------------------------------------------

\* A step of a goroutine that is already running, whoever it belongs to.
TaskStep(t) ==
    \/ RemoveHost(t) \/ RemoveHostSwap(t) \/ RemovePeerConnection(t)
    \/ RemoveTracksAndNotify(t)
    \/ CheckViewers(t) \/ CheckHost(t) \/ CheckTracks(t)
    \/ CloseSession(t) \/ CloseReturns(t)

HostStep(h)   == AddHostCheckActive(h) \/ AddHostRegister(h)
                    \/ AddHostInstall(h)
ViewerStep(v) == JoinInsert(v) \/ HandleWHEPClose(v)
CloserStep    == \/ CollectViewers \/ AllViewersClosed \/ FinishClose
                 \/ \E v \in Viewers : CloseViewer(v) \/ ViewerClosed(v)

Program ==
    \/ \E t \in Tasks : TaskStep(t)
    \/ \E h \in Hosts : HostStep(h)
    \/ \E v \in Viewers : ViewerStep(v)
    \/ CloserStep
    \/ DeleteCountViewers

\* What clients, networks and time do: each may happen or not.
Environment ==
    \/ \E h \in Hosts : \/ AddHostLoad(h) \/ HostMedia(h) \/ HostSilent(h)
                        \/ HostConnectionLost(h)
    \/ \E v \in Viewers : JoinCheckLimit(v) \/ ViewerConnectionLost(v)
    \/ DeleteRequest

Next == Program \/ Environment

Spec == Init /\ [][Next]_vars

\* Every goroutine that can take a step is scheduled eventually.
FairSpec ==
    /\ Spec
    /\ \A t \in Tasks : WF_vars(TaskStep(t))
    /\ \A h \in Hosts : WF_vars(HostStep(h))
    /\ \A v \in Viewers : WF_vars(ViewerStep(v))
    /\ WF_vars(CloserStep)
    /\ WF_vars(DeleteCountViewers)

-----------------------------------------------------------------------------
(* Properties. *)

\* The labels of removeHost once the host is known, of isEmpty and close.
Removing == {"remove", "closePeer", "dropTracks"}
Emptying == {"checkViewers", "checkHost", "checkTracks", "close", "waitClosed"}

AddHostLabels   == {"idle", "checkActive", "register", "install", "done",
                    "refused", "rejected"} \cup Removing
DroppedLabels   == {"idle", "done"} \cup Removing \cup Emptying
JoiningLabels   == {"idle", "insert", "done", "refused"}
LeavingLabels   == {"idle", "delete", "done"} \cup Emptying
ClosingLabels   == {"idle", "collect", "closeViewers", "waitViewer",
                    "removeHost", "onClose", "done"} \cup Removing
DeletingLabels  == {"idle", "removeHost", "countViewers", "close",
                    "waitClosed", "done"} \cup Removing
LabelsOf(t) ==
    IF t[1] = "AddHost" THEN AddHostLabels
    ELSE IF t[1] = "HostClosed" THEN DroppedLabels
    ELSE IF t[1] = "AddWHEP" THEN JoiningLabels
    ELSE IF t[1] = "WHEPClose" THEN LeavingLabels
    ELSE IF t[1] = "SessionClose" THEN ClosingLabels
    ELSE DeletingLabels

\* Type invariant; each task keeps to the labels of its own code.
TypeOK ==
    /\ host \in Hosts \cup {NoHost}
    /\ viewers \in SUBSET Viewers
    /\ connected \in SUBSET Hosts
    /\ streaming \in SUBSET Hosts
    /\ active \in SUBSET Hosts
    /\ offline \in [Hosts -> Nat]
    /\ pc = [t \in Tasks |-> pc[t]]
    /\ \A t \in Tasks : pc[t] \in LabelsOf(t)
    /\ at \in [Tasks -> Hosts \cup {NoHost}]
    /\ \A t \in Tasks :
           pc[t] \in Removing \cup {"checkTracks", "checkActive"}
               => at[t] \in Hosts
    /\ pending \in SUBSET Viewers
    /\ victim \in SUBSET Viewers

\* No cycle between the two kinds of sync.Once: while Session.close still has
\* to close a viewer, that viewer's own SessionClose body is not on its way
\* to Session.close, which would wait for the closer, which waits for it.
NoCloseCycle ==
    \A v \in pending : pc[Leaving(v)] \in {"idle", "delete", "done"}

\* Each host that was installed and is no longer current has been reported
\* to the notifier as offline exactly once, whoever raced to remove it
\* (takeover, lost connection, WHIP DELETE, Session.close), and a current or
\* rejected one never.
OfflineReportedOnce ==
    /\ \A h \in Hosts : offline[h] <= 1
    /\ Quiescent => \A h \in Hosts :
           offline[h] = 1 <=> pc[Adding(h)] = "done" /\ host # h

\* When nothing is running, exactly the current host holds a PeerConnection:
\* no publisher is left connected to nothing, none is current without one.
NoLeakedPublisher ==
    Quiescent => connected = {host} \ {NoHost}

\* The last one out closes the session: when nothing is running, a session
\* that somebody has left and that holds neither host nor viewer is closed
\* (and so removed from the session manager).
LastOneOutCloses ==
    Quiescent /\ viewers = {} /\ host = NoHost
        => \/ pc[Closing] = "done"
           \/ \A v \in Viewers : pc[Leaving(v)] = "idle"
              /\ \A h \in Hosts : pc[Adding(h)] # "done"

\* When nothing is running, no closed viewer is left in WHEPSessions (where it
\* would count against MAX_VIEWERS_PER_STREAM for ever), and every viewer that
\* joined and was not closed is there.
ViewersAccountedFor ==
    Quiescent => viewers = {v \in Viewers : pc[Joining(v)] = "done"
                                            /\ ~IsSessionClosed(v)}

\* Every request and every callback returns: the waits on the sync.Once
\* bodies and on the viewers being closed all end.
EveryCallReturns ==
    \A t \in Tasks : (pc[t] # "idle") ~> (pc[t] \in Finished)

=============================================================================
