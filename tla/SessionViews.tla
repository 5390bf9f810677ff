------------------------------ MODULE SessionViews ------------------------------
(***************************************************************************)
(* The two views of a Session that are stored apart from what they are      *)
(* derived from: HasHost, which the status shows, and the snapshot of the  *)
(* viewers that every host keeps and its writers read without a lock       *)
(* (internal/webrtc/sessions/session).  Each is brought up to date after   *)
(* the change, by whoever made it, and updates of several goroutines may   *)
(* overlap.                                                                *)
(*                                                                         *)
(* Who may remove a host, and that only one does, is StreamSession's       *)
(* subject; here the removal of host h is the task that succeeded.         *)
(***************************************************************************)
EXTENDS Naturals, FiniteSets

CONSTANTS
    Hosts,     \* the WHIP requests that come to the end of AddHost
    Viewers,   \* the WHEP requests
    NoHost,    \* the nil of the Host pointer
    MaxBusy    \* bound: requests and callbacks that are under way at one time

ASSUME NoHostIsNil == NoHost \notin Hosts
ASSUME MaxBusyIsNat == MaxBusy \in Nat

VARIABLES
    host,       \* Session.Host
    hasHost,    \* Session.HasHost
    viewers,    \* the keys of Session.WHEPSessions
    closed,     \* the viewers with IsSessionClosed
    snapshot,   \* snapshot[h]: WHEPSessionsSnapshot of host h
    pending,    \* the slice whepSessions of Session.close
    pc,         \* pc[t]: where task t is
    at,         \* at[t]: the host pointer task t has loaded
    built,      \* built[t]: the map task t is about to store
    disturbed,  \* the hosts whose last snapshot was built before another was stored
    contested   \* when Host last changed a store to HasHost was outstanding

views  == <<hasHost, snapshot>>
checks == <<disturbed, contested>>
vars   == <<host, hasHost, viewers, closed, snapshot, pending, pc, at, built,
            disturbed, contested>>

Publishing(h) == <<"AddHost", h>>        \* AddHost from its compare-and-swap on
Removing(h)   == <<"removeHost", h>>     \* removeHost(h) by whoever calls it
Joining(v)    == <<"AddWHEP", v>>
Leaving(v)    == <<"WHEPClose", v>>      \* WHEPSession.Close, handleWHEPClose
Closing       == <<"SessionClose", NoHost>>

Tasks == ({"AddHost", "removeHost"} \X Hosts)
            \cup ({"AddWHEP", "WHEPClose"} \X Viewers) \cup {Closing}

Goto(t, label) == pc' = [pc EXCEPT ![t] = label]
Busy           == {t \in Tasks : pc[t] \notin {"idle", "done"}}
Quiescent      == Busy = {}
Starts(t)      == pc[t] = "idle" /\ Cardinality(Busy) < MaxBusy

Init ==
    /\ host = NoHost
    /\ hasHost = FALSE
    /\ viewers = {}
    /\ closed = {}
    /\ snapshot = [h \in Hosts |-> {}]
    /\ pending = {}
    /\ pc = [t \in Tasks |-> "idle"]
    /\ at = [t \in Tasks |-> NoHost]
    /\ built = [t \in Tasks |-> {}]
    /\ disturbed = {}
    /\ contested = FALSE

-----------------------------------------------------------------------------
(* updateHostWHEPSessionsSnapshot: the pointer is loaded, the map is copied  *)
(* under its lock and stored after that.                                    *)

AfterUpdate(t) ==
    IF t[1] = "AddHost" THEN "flag"
    ELSE IF t[1] = "AddWHEP" THEN "done"
    ELSE IF t[1] = "WHEPClose" THEN "isEmpty"
    ELSE "removeHost"

LoadHost(t) ==
    /\ pc[t] = "load"
    /\ at' = [at EXCEPT ![t] = host]
    /\ Goto(t, IF host = NoHost THEN AfterUpdate(t) ELSE "build")
    /\ UNCHANGED <<host, viewers, closed, pending, built, views, checks>>

BuildSnapshot(t) ==
    /\ pc[t] = "build"
    /\ built' = [built EXCEPT ![t] = viewers \ closed]
    /\ disturbed' = IF \E u \in Tasks : pc[u] = "store" /\ at[u] = at[t]
                    THEN disturbed \cup {at[t]} ELSE disturbed \ {at[t]}
    /\ Goto(t, "store")
    /\ UNCHANGED <<host, viewers, closed, pending, at, contested, views>>

StoreSnapshot(t) ==
    /\ pc[t] = "store"
    /\ snapshot' = [snapshot EXCEPT ![at[t]] = built[t]]
    /\ at' = [at EXCEPT ![t] = NoHost]
    /\ built' = [built EXCEPT ![t] = {}]
    /\ Goto(t, AfterUpdate(t))
    /\ UNCHANGED <<host, hasHost, viewers, closed, pending, checks>>

-----------------------------------------------------------------------------
(* AddHost, from the compare-and-swap that installs its host.  A host that  *)
(* fails there has no view of anything.                                     *)

Installing == {"clear", "load", "build", "store", "flag"}

\* resetWHEPSessionsForNewHost follows, which changes nothing that is here.
InstallHost(h) ==
    /\ Starts(Publishing(h))
    /\ host = NoHost
    /\ host' = h
    /\ contested' = \E t \in Tasks : pc[t] = "unflag"
    /\ Goto(Publishing(h), "clear")
    /\ UNCHANGED <<viewers, closed, pending, at, built, disturbed, views>>

\* Slip: the snapshot is left empty for the next viewer to fill.
ClearSnapshotOnly(h) ==
    /\ pc[Publishing(h)] = "clear"
    /\ snapshot' = [snapshot EXCEPT ![h] = {}]
    /\ Goto(Publishing(h), "flag")
    /\ UNCHANGED <<host, hasHost, viewers, closed, pending, at, built, checks>>

ClearSnapshot(h) ==
    /\ pc[Publishing(h)] = "clear"
    /\ snapshot' = [snapshot EXCEPT ![h] = {}]
    /\ Goto(Publishing(h), "load")
    /\ UNCHANGED <<host, hasHost, viewers, closed, pending, at, built, checks>>

SetHasHost(h) ==
    /\ pc[Publishing(h)] = "flag"
    /\ hasHost' = TRUE
    /\ Goto(Publishing(h), "done")
    /\ UNCHANGED <<host, viewers, closed, snapshot, pending, at, built, checks>>

-----------------------------------------------------------------------------
(* removeHost, by a task that has the pointer of the current host.          *)

\* Slip: HasHost is stored whether or not the host was still the current one.
TakeOutUnconditionally(t, h) ==
    /\ host' = IF host = h THEN NoHost ELSE host
    /\ at' = [at EXCEPT ![t] = h]
    /\ contested' = \E g \in Hosts : pc[Publishing(g)] \in Installing
    /\ Goto(t, "unflag")
    /\ UNCHANGED <<viewers, closed, pending, built, disturbed, views>>

TakeOut(t, h) ==
    /\ host = h
    /\ host' = NoHost
    /\ at' = [at EXCEPT ![t] = h]
    /\ contested' = \E g \in Hosts : pc[Publishing(g)] \in Installing
    /\ Goto(t, "unflag")
    /\ UNCHANGED <<viewers, closed, pending, built, disturbed, views>>

\* The host's connection is lost, it is deleted, or replaced by a successor.
RemoveHost(h) ==
    /\ pc[Publishing(h)] # "idle"
    /\ Starts(Removing(h))
    /\ TakeOut(Removing(h), h)

\* HasHost and, of no use to anybody now, the snapshot.  The caller goes on to look
\* whether the session is empty, unless it is the closer of the session or an
\* AddHost that replaces the host.
ClearViews(t) ==
    /\ pc[t] = "unflag"
    /\ hasHost' = FALSE
    /\ snapshot' = [snapshot EXCEPT ![at[t]] = {}]
    /\ at' = [at EXCEPT ![t] = NoHost]
    /\ \/ t # Closing /\ Goto(t, "isEmpty")
       \/ Goto(t, "done")
    /\ UNCHANGED <<host, viewers, closed, pending, built, checks>>

-----------------------------------------------------------------------------
(* Viewers. *)

InsertViewer(v) ==
    /\ Starts(Joining(v))
    /\ viewers' = viewers \cup {v}
    /\ Goto(Joining(v), "load")
    /\ UNCHANGED <<host, closed, pending, at, built, views, checks>>

\* WHEPSession.Close: by the handlers that AddWHEP registers after the update,
\* or by the viewer's sender, which has something to send once a host lists it.
CloseViewer(v) ==
    /\ Starts(Leaving(v))
    /\ pc[Joining(v)] = "done" \/ \E h \in Hosts : v \in snapshot[h]
    /\ closed' = closed \cup {v}
    /\ Goto(Leaving(v), "delete")
    /\ UNCHANGED <<host, viewers, pending, at, built, views, checks>>

\* handleWHEPClose; a viewer that is not in the map any more needs no update.
DeleteViewer(v) ==
    /\ pc[Leaving(v)] = "delete"
    /\ viewers' = viewers \ {v}
    /\ Goto(Leaving(v), IF v \in viewers THEN "load" ELSE "done")
    /\ UNCHANGED <<host, closed, pending, at, built, views, checks>>

-----------------------------------------------------------------------------
(* The end of the session. *)

\* isEmpty, where a host without tracks counts as none (tracks are not modelled),
\* and closeOnce: the body runs as task Closing, if this is the first call.
CloseIfEmpty(t) ==
    /\ pc[t] = "isEmpty"
    /\ \/ /\ viewers = {}
          /\ pc' = [pc EXCEPT ![t] = "done",
                              ![Closing] = IF @ = "idle" THEN "collect" ELSE @]
       \/ /\ viewers # {} \/ host # NoHost
          /\ Goto(t, "done")
    /\ UNCHANGED <<host, viewers, closed, pending, at, built, views, checks>>

CollectViewers ==
    /\ pc[Closing] = "collect"
    /\ pending' = viewers
    /\ viewers' = {}
    /\ Goto(Closing, "closeViewers")
    /\ UNCHANGED <<host, closed, at, built, views, checks>>

\* Close of one viewer of the slice after the other runs its body here, where its
\* handleWHEPClose finds nothing, or waits for the goroutine that runs it.
CloseViewers ==
    /\ pc[Closing] = "closeViewers"
    /\ \A v \in pending : pc[Leaving(v)] \in {"idle", "done"}
    /\ closed' = closed \cup pending
    /\ pending' = {}
    /\ pc' = [t \in Tasks |-> IF t = Closing THEN "load"
                            ELSE IF \E v \in pending : t = Leaving(v) THEN "done"
                            ELSE pc[t]]
    /\ UNCHANGED <<host, viewers, at, built, views, checks>>

\* RemoveHost of whichever host is current, if there is one.
CloseRemovesHost ==
    /\ pc[Closing] = "removeHost"
    /\ \/ \E h \in Hosts : TakeOut(Closing, h)
       \/ /\ Goto(Closing, "done")
          /\ UNCHANGED <<host, viewers, closed, pending, at, built, views, checks>>

-----------------------------------------------------------------------------
Next ==
    \/ \E t \in Tasks : \/ LoadHost(t) \/ BuildSnapshot(t) \/ StoreSnapshot(t)
                        \/ ClearViews(t) \/ CloseIfEmpty(t)
    \/ \E h \in Hosts : \/ InstallHost(h) \/ ClearSnapshot(h) \/ SetHasHost(h)
                        \/ RemoveHost(h)
    \/ \E v \in Viewers : \/ InsertViewer(v) \/ CloseViewer(v) \/ DeleteViewer(v)
    \/ CollectViewers \/ CloseViewers \/ CloseRemovesHost

Spec == Init /\ [][Next]_vars

-----------------------------------------------------------------------------
(* Properties. *)

Labels == {"idle", "load", "build", "store", "clear", "flag", "unflag",
           "delete", "isEmpty", "collect", "closeViewers", "removeHost",
           "done"}

TypeOK ==
    /\ host \in Hosts \cup {NoHost}
    /\ hasHost \in BOOLEAN /\ contested \in BOOLEAN /\ disturbed \subseteq Hosts
    /\ viewers \subseteq Viewers /\ closed \subseteq Viewers
        /\ pending \subseteq Viewers
    /\ snapshot \in [Hosts -> SUBSET Viewers]
    /\ built \in [Tasks -> SUBSET Viewers]
    /\ pc \in [Tasks -> Labels]
    /\ at \in [Tasks -> Hosts \cup {NoHost}]
    /\ \A t \in Tasks : pc[t] \in {"build", "store", "unflag"} => at[t] # NoHost

\* At rest the publisher's writers send to the viewers of the session, all of
\* them and no others: whatever the order in which viewers join and leave while
\* a publisher is installed, provided that the last snapshot was built when no
\* other was still to be stored.
SnapshotAtRest ==
    Quiescent /\ host \notin disturbed \cup {NoHost} => snapshot[host] = viewers

\* At rest the status says that a stream is online if and only if it has a
\* publisher, provided that at its last change nobody was still busy with the
\* one before.
OnlineAtRest ==
    Quiescent /\ ~contested => (hasHost <=> host # NoHost)

\* session.go:30, "Add WHEP viewer session": at rest every viewer that was added
\* and has not left is one the current publisher sends to.
EveryViewerServed ==
    Quiescent /\ host # NoHost => viewers \subseteq snapshot[host]

=============================================================================
