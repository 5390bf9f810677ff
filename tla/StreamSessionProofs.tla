-------------------------- MODULE StreamSessionProofs --------------------------
(***************************************************************************)
(* Theorems about StreamSession for any number of publishers and viewers,  *)
(* and about KeyframeRequests for any of those and any intervals.          *)
(***************************************************************************)
EXTENDS MCSessionLiveness, TLAPS

\* The names of the tasks; the first component of each tells whose code it is.
LEMMA HostTaskNames ==
    ASSUME NEW h \in Hosts
    PROVE  /\ Adding(h) \in Tasks /\ Adding(h)[1] = "AddHost"
           /\ Dropped(h) \in Tasks /\ Dropped(h)[1] = "HostClosed"
  BY DEF Adding, Dropped, Tasks, HostTasks

\* The same for the tasks of a viewer.
LEMMA ViewerTaskNames ==
    ASSUME NEW v \in Viewers
    PROVE  /\ Joining(v) \in Tasks /\ Joining(v)[1] = "AddWHEP"
           /\ Leaving(v) \in Tasks /\ Leaving(v)[1] = "WHEPClose"
  BY DEF Joining, Leaving, Tasks, ViewerTasks

\* The same for the tasks there is one of.
LEMMA SingleTaskNames ==
    /\ Closing \in Tasks /\ Closing[1] = "SessionClose"
    /\ Deleting \in Tasks /\ Deleting[1] = "WHIPDelete"
  BY DEF Closing, Deleting, Tasks

\* No two tasks share a name.
LEMMA TaskNamesDiffer ==
    /\ \A g, h \in Hosts : /\ Adding(g) # Dropped(h)
                           /\ (Adding(g) = Adding(h)) <=> (g = h)
                           /\ (Dropped(g) = Dropped(h)) <=> (g = h)
    /\ \A u, v \in Viewers : /\ Joining(u) # Leaving(v)
                             /\ (Joining(u) = Joining(v)) <=> (u = v)
                             /\ (Leaving(u) = Leaving(v)) <=> (u = v)
    /\ \A h \in Hosts, v \in Viewers :
           /\ Adding(h) # Joining(v) /\ Adding(h) # Leaving(v)
           /\ Dropped(h) # Joining(v) /\ Dropped(h) # Leaving(v)
    /\ \A h \in Hosts : /\ Adding(h) # Closing /\ Adding(h) # Deleting
                        /\ Dropped(h) # Closing /\ Dropped(h) # Deleting
    /\ \A v \in Viewers : /\ Joining(v) # Closing /\ Joining(v) # Deleting
                          /\ Leaving(v) # Closing /\ Leaving(v) # Deleting
    /\ Closing # Deleting
  BY DEF Adding, Dropped, Joining, Leaving, Closing, Deleting

-----------------------------------------------------------------------------
(* Type correctness. *)

\* Every variable keeps its type, and every task keeps to the labels of its own
\* code: no callback ever runs a step of another one's handler.
THEOREM TypeCorrect == Spec => []TypeOK
<1>1. Init => TypeOK
  BY NoHostIsNil DEF Init, TypeOK, LabelsOf, AddHostLabels, DroppedLabels,
     JoiningLabels, LeavingLabels, ClosingLabels, DeletingLabels, Removing
<1>2. TypeOK /\ [Next]_vars => TypeOK'
  <2> SUFFICES ASSUME TypeOK, [Next]_vars
               PROVE  TypeOK'
    OBVIOUS
  <2> USE DEF TypeOK, LabelsOf, AddHostLabels, DroppedLabels, JoiningLabels,
          LeavingLabels, ClosingLabels, DeletingLabels, Removing, Emptying,
          Goto
  <2>1. ASSUME NEW t \in Tasks, TaskStep(t) PROVE TypeOK'
    <3>1. CASE RemoveHost(t)
      BY <3>1 DEF RemoveHost, AfterRemove
    <3>2. CASE RemoveHostSwap(t)
      BY <3>2 DEF RemoveHostSwap, AfterRemove
    <3>3. CASE RemovePeerConnection(t)
      BY <3>3 DEF RemovePeerConnection
    <3>4. CASE RemoveTracksAndNotify(t)
      BY <3>4 DEF RemoveTracksAndNotify, AfterRemove
    <3>5. CASE CheckViewers(t)
      BY <3>5 DEF CheckViewers
    <3>6. CASE CheckHost(t)
      BY <3>6 DEF CheckHost
    <3>7. CASE CheckTracks(t)
      BY <3>7 DEF CheckTracks
    <3>8. CASE CloseSession(t)
      BY <3>8, SingleTaskNames DEF CloseSession
    <3>9. CASE CloseReturns(t)
      BY <3>9 DEF CloseReturns
    <3> QED
      BY <2>1, <3>1, <3>2, <3>3, <3>4, <3>5, <3>6, <3>7, <3>8, <3>9
         DEF TaskStep
  <2>2. ASSUME NEW h \in Hosts, HostStep(h) PROVE TypeOK'
    <3>1. CASE AddHostCheckActive(h)
      <4>1. CASE at[Adding(h)] \in active
        BY <3>1, <4>1, HostTaskNames DEF AddHostCheckActive
      <4>2. CASE at[Adding(h)] \notin active
        BY <3>1, <4>2, HostTaskNames DEF AddHostCheckActive
      <4> QED
        BY <4>1, <4>2
    <3>2. CASE AddHostRegister(h)
      BY <3>2, HostTaskNames DEF AddHostRegister
    <3>3. CASE AddHostInstall(h)
      BY <3>3, HostTaskNames DEF AddHostInstall
    <3> QED
      BY <2>2, <3>1, <3>2, <3>3 DEF HostStep
  <2>3. ASSUME NEW v \in Viewers, ViewerStep(v) PROVE TypeOK'
    <3>1. CASE JoinInsert(v)
      BY <3>1, ViewerTaskNames DEF JoinInsert
    <3>2. CASE HandleWHEPClose(v)
      BY <3>2, ViewerTaskNames DEF HandleWHEPClose
    <3> QED
      BY <2>3, <3>1, <3>2 DEF ViewerStep
  <2>4. CASE CloserStep
    <3>1. CASE CollectViewers
      BY <3>1, SingleTaskNames DEF CollectViewers
    <3>2. CASE AllViewersClosed
      BY <3>2, SingleTaskNames DEF AllViewersClosed
    <3>3. CASE FinishClose
      BY <3>3, SingleTaskNames DEF FinishClose
    <3>4. ASSUME NEW v \in Viewers, CloseViewer(v) PROVE TypeOK'
      BY <3>4, ViewerTaskNames, SingleTaskNames DEF CloseViewer
    <3>5. ASSUME NEW v \in Viewers, ViewerClosed(v) PROVE TypeOK'
      BY <3>5, ViewerTaskNames, SingleTaskNames DEF ViewerClosed
    <3> QED
      BY <2>4, <3>1, <3>2, <3>3, <3>4, <3>5 DEF CloserStep
  <2>5. CASE DeleteCountViewers
    BY <2>5, SingleTaskNames DEF DeleteCountViewers
  <2>6. ASSUME NEW h \in Hosts, AddHostLoad(h) PROVE TypeOK'
    BY <2>6, HostTaskNames DEF AddHostLoad
  <2>7. ASSUME NEW h \in Hosts, HostMedia(h) PROVE TypeOK'
    BY <2>7, HostTaskNames DEF HostMedia
  <2>8. ASSUME NEW h \in Hosts, HostSilent(h) PROVE TypeOK'
    BY <2>8, HostTaskNames DEF HostSilent
  <2>9. ASSUME NEW h \in Hosts, HostConnectionLost(h) PROVE TypeOK'
    BY <2>9, HostTaskNames DEF HostConnectionLost
  <2>10. ASSUME NEW v \in Viewers, JoinCheckLimit(v) PROVE TypeOK'
    BY <2>10, ViewerTaskNames DEF JoinCheckLimit
  <2>11. ASSUME NEW v \in Viewers, ViewerConnectionLost(v) PROVE TypeOK'
    BY <2>11, ViewerTaskNames DEF ViewerConnectionLost
  <2>12. CASE DeleteRequest
    BY <2>12, SingleTaskNames DEF DeleteRequest
  <2>13. CASE UNCHANGED vars
    BY <2>13 DEF vars
  <2> QED
    BY <2>1, <2>2, <2>3, <2>4, <2>5, <2>6, <2>7, <2>8, <2>9, <2>10, <2>11,
       <2>12, <2>13 DEF Next, Program, Environment
<1> QED
  BY <1>1, <1>2, PTL DEF Spec

-----------------------------------------------------------------------------
(* No cycle between Session.closeOnce and the SessionClose of a viewer.     *)

\* A viewer is in the map, or in the closer's slice, or in neither, and how
\* far its own SessionClose body has got depends on which.
ViewerPlaces ==
    \A v \in Viewers :
        /\ pc[Joining(v)] # "done" =>
              v \notin viewers /\ v \notin pending /\ pc[Leaving(v)] = "idle"
        /\ v \in viewers =>
              v \notin pending /\ pc[Leaving(v)] \in {"idle", "delete"}
        /\ v \in pending => pc[Leaving(v)] \in {"idle", "delete", "done"}

\* What a step of the shared code can do to viewers: it moves neither the map
\* nor the slice, and of their tasks only a SessionClose body that has
\* already left the map.
LEMMA TaskStepViewers ==
    ASSUME TypeOK, NEW t \in Tasks, TaskStep(t), NEW v \in Viewers
    PROVE  /\ viewers' = viewers /\ pending' = pending
           /\ pc'[Joining(v)] = pc[Joining(v)]
           /\ \/ pc'[Leaving(v)] = pc[Leaving(v)]
              \/ pc[Leaving(v)] \in Emptying
<1>1. viewers' = viewers /\ pending' = pending
  BY DEF TaskStep, RemoveHost, RemoveHostSwap, RemovePeerConnection,
     RemoveTracksAndNotify, CheckViewers, CheckHost, CheckTracks,
     CloseSession, CloseReturns
<1>2. \E l, m : pc' = [pc EXCEPT ![t] = l, ![Closing] = m]
             \/ pc' = [pc EXCEPT ![t] = l]
  BY DEF TaskStep, RemoveHost, RemoveHostSwap, RemovePeerConnection,
     RemoveTracksAndNotify, CheckViewers, CheckHost, CheckTracks,
     CloseSession, CloseReturns, Goto
<1>3. pc[t] \in Removing \cup Emptying \cup {"removeHost"}
  BY DEF TaskStep, RemoveHost, RemoveHostSwap, RemovePeerConnection,
     RemoveTracksAndNotify, CheckViewers, CheckHost, CheckTracks,
     CloseSession, CloseReturns, Removing, Emptying
<1>4. t # Joining(v)
  BY <1>3, ViewerTaskNames
     DEF TypeOK, LabelsOf, JoiningLabels, Removing, Emptying
<1>5. t = Leaving(v) => pc[t] \in Emptying
  BY <1>3, ViewerTaskNames
     DEF TypeOK, LabelsOf, LeavingLabels, Removing, Emptying
<1> QED
  BY <1>1, <1>2, <1>4, <1>5, ViewerTaskNames, TaskNamesDiffer DEF TypeOK

\* handleWHEPClose and Session.close move a viewer out of the map under one
\* lock, so it is never in the map and in the closer's slice at once.
THEOREM ViewerPlacesInvariant == Spec => []ViewerPlaces
<1>1. Init => ViewerPlaces
  BY ViewerTaskNames DEF Init, ViewerPlaces
<1>2. TypeOK /\ ViewerPlaces /\ [Next]_vars => ViewerPlaces'
  <2> SUFFICES ASSUME TypeOK, ViewerPlaces, [Next]_vars, NEW v \in Viewers
               PROVE  ViewerPlaces!(v)'
    BY DEF ViewerPlaces
  <2> DEFINE Place == ViewerPlaces!(v)
  <2> USE ViewerTaskNames, TaskNamesDiffer DEF ViewerPlaces, Goto
  <2>0. pc = [t \in Tasks |-> pc[t]]
    BY DEF TypeOK
  <2>1. ASSUME NEW t \in Tasks, TaskStep(t) PROVE Place'
    BY <2>1, TaskStepViewers DEF Emptying
  <2>2. ASSUME NEW h \in Hosts, HostStep(h) \/ AddHostLoad(h)
                    \/ HostMedia(h) \/ HostSilent(h) \/ HostConnectionLost(h)
        PROVE Place'
    BY <2>0, <2>2, HostTaskNames
       DEF HostStep, AddHostCheckActive, AddHostRegister, AddHostInstall,
           AddHostLoad, HostMedia, HostSilent, HostConnectionLost
  <2>3. ASSUME NEW u \in Viewers, JoinInsert(u) PROVE Place'
    BY <2>0, <2>3 DEF JoinInsert
  <2>4. ASSUME NEW u \in Viewers, HandleWHEPClose(u) PROVE Place'
    BY <2>0, <2>4 DEF HandleWHEPClose
  <2>5. ASSUME NEW u \in Viewers, JoinCheckLimit(u) PROVE Place'
    BY <2>0, <2>5 DEF JoinCheckLimit
  <2>6. ASSUME NEW u \in Viewers, ViewerConnectionLost(u) PROVE Place'
    BY <2>0, <2>6 DEF ViewerConnectionLost
  <2>7. CASE CollectViewers
    BY <2>0, <2>7, SingleTaskNames DEF CollectViewers
  <2>8. ASSUME NEW u \in Viewers, CloseViewer(u) PROVE Place'
    BY <2>0, <2>8, SingleTaskNames DEF CloseViewer
  <2>9. ASSUME NEW u \in Viewers, ViewerClosed(u) PROVE Place'
    BY <2>0, <2>9, SingleTaskNames DEF ViewerClosed
  <2>10. CASE AllViewersClosed \/ FinishClose \/ DeleteCountViewers
                  \/ DeleteRequest
    BY <2>0, <2>10, SingleTaskNames
       DEF AllViewersClosed, FinishClose, DeleteCountViewers, DeleteRequest
  <2>11. CASE UNCHANGED vars
    BY <2>11 DEF vars
  <2> QED
    BY <2>1, <2>2, <2>3, <2>4, <2>5, <2>6, <2>7, <2>8, <2>9, <2>10, <2>11
       DEF Next, Program, Environment, ViewerStep, CloserStep
<1> QED
  BY <1>1, <1>2, TypeCorrect, PTL DEF Spec

\* Neither kind of sync.Once can wait for the other in a circle.
THEOREM CloseCycleFree == Spec => []NoCloseCycle
<1>1. TypeOK /\ ViewerPlaces => NoCloseCycle
  BY DEF TypeOK, ViewerPlaces, NoCloseCycle
<1> QED
  BY <1>1, TypeCorrect, ViewerPlacesInvariant, PTL

-----------------------------------------------------------------------------
(* Publishers: one task removes each installed host, and reports it once.   *)

\* Task t won the compare-and-swap for host h and has not reported it yet.
Removes(t, h) == at[t] = h /\ pc[t] \in {"closePeer", "dropTracks"}

HostPlaces ==
    \A h \in Hosts :
        /\ pc[Adding(h)] \notin {"install", "done"} =>
              h \notin connected /\ h # host /\ offline[h] = 0
        /\ pc[Adding(h)] = "install" =>
              h \in connected /\ h # host /\ offline[h] = 0
        /\ h = host => h \in connected /\ offline[h] = 0
        /\ \A t \in Tasks : Removes(t, h) =>
              /\ pc[Adding(h)] = "done" /\ h # host /\ offline[h] = 0
              /\ h \in connected <=> pc[t] = "closePeer"
              /\ \A u \in Tasks : Removes(u, h) => u = t
        /\ pc[Adding(h)] = "done" /\ h # host =>
              \/ \E t \in Tasks : Removes(t, h)
              \/ offline[h] = 1 /\ h \notin connected

\* Between the compare-and-swap that takes a host out and its StreamOffline
\* there is one task that does both, and no other can for that host.
THEOREM HostPlacesInvariant == Spec => []HostPlaces
<1>1. Init => HostPlaces
  BY HostTaskNames, NoHostIsNil DEF Init, HostPlaces, Removes
<1>2. TypeOK /\ HostPlaces /\ [Next]_vars => HostPlaces'
  <2> SUFFICES ASSUME TypeOK, HostPlaces, [Next]_vars, NEW h \in Hosts
               PROVE  HostPlaces!(h)'
    BY DEF HostPlaces
  <2> DEFINE Place == HostPlaces!(h)
  <2> USE HostTaskNames, TaskNamesDiffer, NoHostIsNil DEF HostPlaces, Goto
  <2>0. /\ pc = [t \in Tasks |-> pc[t]]
        /\ at \in [Tasks -> Hosts \cup {NoHost}]
        /\ offline \in [Hosts -> Nat]
        /\ \A g \in Hosts : pc[Adding(g)] \in AddHostLabels
    BY DEF TypeOK, LabelsOf
  <2>1. ASSUME NEW t \in Tasks, TaskStep(t) PROVE Place'
    <3> DEFINE Others == \A u \in Tasks : u # t =>
                            /\ at'[u] = at[u]
                            /\ \/ pc'[u] = pc[u]
                               \/ u = Closing /\ pc[u] = "idle"
                                              /\ pc'[u] = "collect"
    <3>1. pc[t] \in Removing \cup Emptying \cup {"removeHost"}
      BY <2>1 DEF TaskStep, RemoveHost, RemoveHostSwap, RemovePeerConnection,
         RemoveTracksAndNotify, CheckViewers, CheckHost, CheckTracks,
         CloseSession, CloseReturns, Removing, Emptying
    <3>2. Others
      <4>1. CASE CloseSession(t)
        BY <2>0, <4>1, SingleTaskNames DEF CloseSession
      <4>2. CASE ~CloseSession(t)
        BY <2>0, <2>1, <4>2
           DEF TaskStep, RemoveHost, RemoveHostSwap,
           RemovePeerConnection, RemoveTracksAndNotify, CheckViewers,
           CheckHost, CheckTracks, CloseReturns, AfterRemove
      <4> QED
        BY <4>1, <4>2
    <3>3. t = Adding(h) => pc[t] \in Removing
      BY <2>0, <3>1 DEF AddHostLabels, Removing, Emptying
    <3>4. t = Adding(h) => pc'[t] \in Removing \cup {"register"}
      <4>1. t = Adding(h) => \/ RemoveHostSwap(t) \/ RemovePeerConnection(t)
                             \/ RemoveTracksAndNotify(t)
        BY <2>1, <3>3 DEF TaskStep, RemoveHost, CheckViewers, CheckHost,
           CheckTracks, CloseSession, CloseReturns, Removing
      <4>2. t = Adding(h) => t[1] = "AddHost"
        OBVIOUS
      <4>3. CASE RemoveHostSwap(t)
        BY <2>0, <4>2, <4>3 DEF RemoveHostSwap, AfterRemove, Removing
      <4>4. CASE RemovePeerConnection(t)
        BY <2>0, <4>4 DEF RemovePeerConnection, Removing
      <4>5. CASE RemoveTracksAndNotify(t)
        BY <2>0, <4>2, <4>5 DEF RemoveTracksAndNotify, AfterRemove, Removing
      <4> QED
        BY <4>1, <4>3, <4>4, <4>5
    <3>5. \/ pc'[Adding(h)] = pc[Adding(h)]
          \/ /\ pc[Adding(h)] \notin {"install", "done"}
             /\ pc'[Adding(h)] \notin {"install", "done"}
      BY <3>2, <3>3, <3>4 DEF Removing
    <3>6. CASE RemoveHostSwap(t) /\ host = at[t]
      <4>1. /\ host' = NoHost /\ connected' = connected /\ offline' = offline
            /\ at'[t] = at[t] /\ pc'[t] = "closePeer" /\ pc[t] = "remove"
        BY <2>0, <3>6 DEF RemoveHostSwap
      <4>2. \A u \in Tasks : u # t => (Removes(u, h)' <=> Removes(u, h))
        BY <3>2 DEF Removes
      <4>3. at[t] \in Hosts /\ at[t] = host
        BY <3>6, <4>1 DEF TypeOK, Removing
      <4>4. Removes(t, h)' <=> h = host
        BY <4>1, <4>3 DEF Removes
      <4>5. ~Removes(t, h)
        BY <4>1 DEF Removes
      <4>6. \A u \in Tasks : Removes(u, h) /\ u # t => pc'[u] = pc[u]
        BY <3>2, SingleTaskNames DEF Removes
      <4> QED
        BY <3>5, <4>1, <4>2, <4>3, <4>4, <4>5, <4>6
    <3>7. CASE RemovePeerConnection(t)
      <4>1. /\ host' = host /\ connected' = connected \ {at[t]}
            /\ offline' = offline /\ at'[t] = at[t]
            /\ pc'[t] = "dropTracks" /\ pc[t] = "closePeer"
        BY <2>0, <3>7 DEF RemovePeerConnection
      <4>2. \A u \in Tasks : Removes(u, h)' <=> Removes(u, h)
        BY <3>2, <4>1 DEF Removes
      <4>3. \A u \in Tasks : Removes(u, h) /\ u # t => pc'[u] = pc[u]
        BY <3>2, SingleTaskNames DEF Removes
      <4>4. at[t] = h <=> Removes(t, h)
        BY <4>1 DEF Removes
      <4> QED
        BY <3>5, <4>1, <4>2, <4>3, <4>4
    <3>8. CASE RemoveTracksAndNotify(t)
      <4>1. /\ host' = host /\ connected' = connected
            /\ offline' = [offline EXCEPT ![at[t]] = @ + 1]
            /\ pc'[t] \notin {"closePeer", "dropTracks"}
            /\ pc[t] = "dropTracks"
        BY <2>0, <3>8 DEF RemoveTracksAndNotify, AfterRemove
      <4>2. \A u \in Tasks : u # t => (Removes(u, h)' <=> Removes(u, h))
        BY <3>2 DEF Removes
      <4>3. ~Removes(t, h)' /\ (at[t] = h <=> Removes(t, h))
        BY <4>1 DEF Removes
      <4>4. \A u \in Tasks : Removes(u, h) /\ u # t => pc'[u] = pc[u]
        BY <3>2, SingleTaskNames DEF Removes
      <4>5. CASE at[t] = h
        <5>1. offline'[h] = 1 /\ h \notin connected
          <6>1. offline[h] = 0 /\ h \notin connected
            BY <4>1, <4>3, <4>5
          <6> QED
            BY <2>0, <4>1, <4>5, <6>1
        <5> QED
          BY <3>5, <4>1, <4>2, <4>3, <4>5, <5>1
      <4>6. CASE at[t] # h
        <5>1. offline'[h] = offline[h]
          BY <2>0, <4>1, <4>6
        <5> QED
          BY <3>5, <4>1, <4>2, <4>3, <4>4, <4>6, <5>1
      <4> QED
        BY <4>5, <4>6
    <3>9. ASSUME ~(RemoveHostSwap(t) /\ host = at[t]),
                 ~RemovePeerConnection(t), ~RemoveTracksAndNotify(t)
          PROVE  Place'
      <4>1. /\ host' = host /\ connected' = connected /\ offline' = offline
            /\ pc'[t] \notin {"closePeer", "dropTracks"}
            /\ pc[t] \notin {"closePeer", "dropTracks"}
        BY <2>0, <2>1, <3>9, SingleTaskNames
           DEF TaskStep, RemoveHost, RemoveHostSwap, CheckViewers,
           CheckHost, CheckTracks, CloseSession, CloseReturns, AfterRemove
      <4>2. \A u \in Tasks : Removes(u, h)' <=> Removes(u, h)
        BY <3>2, <4>1 DEF Removes
      <4>3. \A u \in Tasks : Removes(u, h) => pc'[u] = pc[u]
        BY <3>2, <4>1, SingleTaskNames DEF Removes
      <4> QED
        BY <3>5, <4>1, <4>2, <4>3
    <3> QED
      BY <3>6, <3>7, <3>8, <3>9
  <2>2. ASSUME NEW g \in Hosts,
               \/ AddHostLoad(g) \/ AddHostCheckActive(g) \/ AddHostRegister(g)
               \/ AddHostInstall(g)
        PROVE  Place'
    <3>1. pc[Adding(g)] \in {"idle", "checkActive", "register", "install"}
      BY <2>2 DEF AddHostLoad, AddHostCheckActive, AddHostRegister,
                  AddHostInstall
    <3>2. \A u \in Tasks : u # Adding(g) => pc'[u] = pc[u] /\ at'[u] = at[u]
      BY <2>0, <2>2 DEF AddHostLoad, AddHostCheckActive, AddHostRegister,
                        AddHostInstall
    <3>3. /\ pc'[Adding(g)] \notin {"closePeer", "dropTracks"}
          /\ offline' = offline
      BY <2>0, <2>2 DEF AddHostLoad, AddHostCheckActive, AddHostRegister,
                        AddHostInstall
    <3>4. \A u \in Tasks : Removes(u, h)' <=> Removes(u, h)
      BY <3>1, <3>2, <3>3 DEF Removes
    <3>5. \A u \in Tasks : Removes(u, h) => pc'[u] = pc[u]
      BY <3>1, <3>2 DEF Removes
    <3>6. CASE AddHostLoad(g) \/ AddHostCheckActive(g)
      <4>1. /\ host' = host /\ connected' = connected
            /\ pc[Adding(g)] \notin {"install", "done"}
            /\ pc'[Adding(g)] \notin {"install", "done"}
        BY <2>0, <3>6 DEF AddHostLoad, AddHostCheckActive
      <4> QED
        BY <3>2, <3>3, <3>4, <3>5, <4>1
    <3>7. CASE AddHostRegister(g)
      <4>1. /\ host' = host /\ connected' = connected \cup {g}
            /\ pc[Adding(g)] = "register" /\ pc'[Adding(g)] = "install"
        BY <2>0, <3>7 DEF AddHostRegister
      <4> QED
        BY <3>2, <3>3, <3>4, <3>5, <4>1
    <3>8. CASE AddHostInstall(g) /\ host = NoHost
      <4>1. /\ host' = g /\ connected' = connected
            /\ pc[Adding(g)] = "install" /\ pc'[Adding(g)] = "done"
        BY <2>0, <3>8 DEF AddHostInstall
      <4> QED
        BY <3>2, <3>3, <3>4, <3>5, <3>8, <4>1
    <3>9. CASE AddHostInstall(g) /\ host # NoHost
      <4>1. /\ host' = host /\ connected' = connected \ {g}
            /\ pc[Adding(g)] = "install" /\ pc'[Adding(g)] = "rejected"
        BY <2>0, <3>9 DEF AddHostInstall
      <4> QED
        BY <3>2, <3>3, <3>4, <3>5, <4>1
    <3> QED
      BY <2>2, <3>6, <3>7, <3>8, <3>9
  <2>3. ASSUME NEW g \in Hosts, HostConnectionLost(g) PROVE Place'
    <3>1. /\ \A u \in Tasks : u # Dropped(g) => pc'[u] = pc[u] /\ at'[u] = at[u]
          /\ pc[Dropped(g)] = "idle" /\ pc'[Dropped(g)] = "remove"
          /\ UNCHANGED <<host, connected, offline>>
      BY <2>0, <2>3 DEF HostConnectionLost
    <3>2. \A u \in Tasks : /\ Removes(u, h)' <=> Removes(u, h)
                           /\ Removes(u, h) => pc'[u] = pc[u]
      BY <3>1 DEF Removes
    <3> QED
      BY <3>1, <3>2
  <2>4. ASSUME NEW v \in Viewers,
               \/ ViewerStep(v) \/ JoinCheckLimit(v) \/ ViewerConnectionLost(v)
        PROVE  Place'
    <3>1. /\ \A u \in Tasks : u \notin {Joining(v), Leaving(v)} => pc'[u] = pc[u]
          /\ pc[Joining(v)] # pc'[Joining(v)] =>
                 pc[Joining(v)] \in {"idle", "insert"}
          /\ pc'[Joining(v)] \notin Removing
          /\ pc[Leaving(v)] # pc'[Leaving(v)] =>
                 pc[Leaving(v)] \in {"idle", "delete"}
          /\ pc'[Leaving(v)] \notin Removing
          /\ UNCHANGED <<host, connected, offline, at>>
      BY <2>0, <2>4, ViewerTaskNames
         DEF ViewerStep, JoinInsert, HandleWHEPClose, JoinCheckLimit,
             ViewerConnectionLost, TypeOK, LabelsOf, JoiningLabels,
             LeavingLabels, Removing, Emptying
    <3>2. \A u \in Tasks : /\ Removes(u, h)' <=> Removes(u, h)
                           /\ Removes(u, h) => pc'[u] = pc[u]
      BY <3>1, ViewerTaskNames DEF Removes, Removing
    <3> QED
      BY <3>1, <3>2
  <2>5. CASE CloserStep \/ DeleteCountViewers \/ DeleteRequest
    <3>1. /\ \A u \in Tasks : pc'[u] # pc[u] =>
                 pc[u] \notin Removing /\ pc'[u] \notin Removing
          /\ pc'[Adding(h)] = pc[Adding(h)]
          /\ UNCHANGED <<host, connected, offline, at>>
      BY <2>0, <2>5, SingleTaskNames, ViewerTaskNames
         DEF CloserStep, CollectViewers, AllViewersClosed, FinishClose,
             CloseViewer, ViewerClosed, DeleteCountViewers, DeleteRequest,
             Removing
    <3>2. \A u \in Tasks : /\ Removes(u, h)' <=> Removes(u, h)
                           /\ Removes(u, h) => pc'[u] = pc[u]
      BY <3>1 DEF Removes, Removing
    <3> QED
      BY <3>1, <3>2
  <2>6. ASSUME NEW g \in Hosts, HostMedia(g) \/ HostSilent(g) PROVE Place'
    BY <2>6 DEF HostMedia, HostSilent, Removes
  <2>7. CASE UNCHANGED vars
    BY <2>7 DEF vars, Removes
  <2> QED
    BY <2>1, <2>2, <2>3, <2>4, <2>5, <2>6, <2>7
       DEF Next, Program, Environment, HostStep
<1> QED
  BY <1>1, <1>2, TypeCorrect, PTL DEF Spec

\* When nothing is running, no task holds a host it took out.
LEMMA QuietTasks ==
    ASSUME TypeOK, Quiescent
    PROVE  \A t \in Tasks : /\ pc[t] \in {"idle", "done", "refused", "rejected"}
                            /\ pc[t] \notin {"closePeer", "dropTracks"}
  BY DEF Quiescent, Finished

\* Whoever races to remove a host, the notifier hears of it exactly once.
THEOREM OfflineOnce == Spec => []OfflineReportedOnce
<1>1. ASSUME TypeOK, HostPlaces, NEW h \in Hosts
      PROVE  offline[h] \in {0, 1}
  BY <1>1 DEF HostPlaces
<1>2. ASSUME TypeOK, HostPlaces, Quiescent, NEW h \in Hosts
      PROVE  offline[h] = 1 <=> pc[Adding(h)] = "done" /\ host # h
  <2>1. \A t \in Tasks : ~Removes(t, h)
    BY <1>2, QuietTasks DEF Removes
  <2> QED
    BY <1>2, <2>1 DEF HostPlaces
<1>3. TypeOK /\ HostPlaces => OfflineReportedOnce
  BY <1>1, <1>2 DEF OfflineReportedOnce
<1> QED
  BY <1>3, TypeCorrect, HostPlacesInvariant, PTL

\* At rest exactly the current host holds a peer connection.
THEOREM PublisherNotLeaked == Spec => []NoLeakedPublisher
<1>1. ASSUME TypeOK, HostPlaces, Quiescent, NEW h \in Hosts
      PROVE  h \in connected <=> h = host
  <2>1. \A t \in Tasks : ~Removes(t, h)
    BY <1>1, QuietTasks DEF Removes
  <2>2. pc[Adding(h)] # "install"
    BY <1>1, QuietTasks, HostTaskNames
  <2> QED
    BY <1>1, <2>1, <2>2 DEF HostPlaces
<1>2. ASSUME TypeOK, HostPlaces, Quiescent
      PROVE  connected = {host} \ {NoHost}
  BY <1>1, <1>2, NoHostIsNil DEF TypeOK
<1>3. TypeOK /\ HostPlaces => NoLeakedPublisher
  BY <1>2 DEF NoLeakedPublisher
<1> QED
  BY <1>3, TypeCorrect, HostPlacesInvariant, PTL

-----------------------------------------------------------------------------
(* Viewers: at rest the map holds exactly those that joined and still live. *)

\* A viewer that joined and was not closed is in the map or in the hands of
\* the closer, whose slice is empty before and after it works through it.
ViewerKept ==
    /\ \A v \in Viewers : pc[Joining(v)] = "done" /\ pc[Leaving(v)] = "idle"
                              => v \in viewers \/ v \in pending
    /\ pending # {} => pc[Closing] \in {"closeViewers", "waitViewer"}
    /\ pc[Closing] = "waitViewer" =>
          \A v \in victim : pc[Leaving(v)] # "idle"

\* A viewer leaves the map only through its own SessionClose or through the
\* closer, which sees to it that the SessionClose runs.
THEOREM ViewerKeptInvariant == Spec => []ViewerKept
<1>1. Init => ViewerKept
  BY ViewerTaskNames, SingleTaskNames DEF Init, ViewerKept
<1>2. TypeOK /\ ViewerPlaces /\ ViewerKept /\ [Next]_vars => ViewerKept'
  <2> SUFFICES ASSUME TypeOK, ViewerPlaces, ViewerKept, [Next]_vars
               PROVE  ViewerKept'
    OBVIOUS
  <2> USE ViewerTaskNames, SingleTaskNames, TaskNamesDiffer
          DEF ViewerKept, Goto
  <2>0. /\ pc = [t \in Tasks |-> pc[t]]
        /\ pending \subseteq Viewers /\ victim \subseteq Viewers
    BY DEF TypeOK
  <2>1. ASSUME NEW t \in Tasks, TaskStep(t) PROVE ViewerKept'
    <3>1. victim' = victim
      BY <2>1 DEF TaskStep, RemoveHost, RemoveHostSwap, RemovePeerConnection,
         RemoveTracksAndNotify, CheckViewers, CheckHost, CheckTracks,
         CloseSession, CloseReturns
    <3>2. \/ pc'[Closing] = pc[Closing]
          \/ pc[Closing] \notin {"closeViewers", "waitViewer"}
             /\ pc'[Closing] \notin {"closeViewers", "waitViewer"}
      BY <2>0, <2>1 DEF TaskStep, RemoveHost, RemoveHostSwap,
         RemovePeerConnection, RemoveTracksAndNotify, CheckViewers, CheckHost,
         CheckTracks, CloseSession, CloseReturns, AfterRemove
    <3>3. ASSUME NEW v \in Viewers
          PROVE  pc'[Leaving(v)] = "idle" <=> pc[Leaving(v)] = "idle"
      <4>1. CASE CloseSession(t)
        BY <2>0, <4>1 DEF CloseSession
      <4>2. CASE ~CloseSession(t)
        BY <2>0, <2>1, <4>2 DEF TaskStep, RemoveHost, RemoveHostSwap,
           RemovePeerConnection, RemoveTracksAndNotify, CheckViewers,
           CheckHost, CheckTracks, CloseReturns, AfterRemove
      <4> QED
        BY <4>1, <4>2
    <3>4. viewers' = viewers /\ pending' = pending
      BY <2>1 DEF TaskStep, RemoveHost, RemoveHostSwap, RemovePeerConnection,
         RemoveTracksAndNotify, CheckViewers, CheckHost, CheckTracks,
         CloseSession, CloseReturns
    <3>5. \A v \in Viewers : pc'[Joining(v)] = pc[Joining(v)]
      BY <2>1, TaskStepViewers
    <3> QED
      BY <2>0, <3>1, <3>2, <3>3, <3>4, <3>5
  <2>2. ASSUME NEW h \in Hosts, HostStep(h) \/ AddHostLoad(h)
                    \/ HostMedia(h) \/ HostSilent(h) \/ HostConnectionLost(h)
        PROVE ViewerKept'
    BY <2>0, <2>2, HostTaskNames
       DEF HostStep, AddHostCheckActive, AddHostRegister, AddHostInstall,
           AddHostLoad, HostMedia, HostSilent, HostConnectionLost
  <2>3. ASSUME NEW u \in Viewers,
               JoinInsert(u) \/ JoinCheckLimit(u) \/ ViewerConnectionLost(u)
        PROVE ViewerKept'
    BY <2>0, <2>3 DEF JoinInsert, JoinCheckLimit, ViewerConnectionLost
  <2>4. ASSUME NEW u \in Viewers, HandleWHEPClose(u) PROVE ViewerKept'
    BY <2>0, <2>4 DEF HandleWHEPClose
  <2>5. CASE CollectViewers
    BY <2>0, <2>5 DEF CollectViewers
  <2>6. ASSUME NEW u \in Viewers, CloseViewer(u) PROVE ViewerKept'
    BY <2>0, <2>6 DEF CloseViewer
  <2>7. ASSUME NEW u \in Viewers, ViewerClosed(u) PROVE ViewerKept'
    BY <2>0, <2>7 DEF ViewerClosed
  <2>8. CASE AllViewersClosed \/ FinishClose \/ DeleteCountViewers
                  \/ DeleteRequest
    BY <2>0, <2>8
       DEF AllViewersClosed, FinishClose, DeleteCountViewers, DeleteRequest
  <2>9. CASE UNCHANGED vars
    BY <2>9 DEF vars
  <2> QED
    BY <2>1, <2>2, <2>3, <2>4, <2>5, <2>6, <2>7, <2>8, <2>9
       DEF Next, Program, Environment, ViewerStep, CloserStep
<1> QED
  BY <1>1, <1>2, TypeCorrect, ViewerPlacesInvariant, PTL DEF Spec

\* No closed viewer stays in WHEPSessions, no open one is forgotten.
THEOREM ViewersAccounted == Spec => []ViewersAccountedFor
<1>1. ASSUME TypeOK, ViewerPlaces, ViewerKept, Quiescent
      PROVE  viewers = {v \in Viewers : pc[Joining(v)] = "done"
                                        /\ ~IsSessionClosed(v)}
  <2>1. pending = {}
    BY <1>1, QuietTasks, SingleTaskNames DEF ViewerKept
  <2>2. \A v \in Viewers : pc[Leaving(v)] # "delete"
    BY <1>1, QuietTasks, ViewerTaskNames
  <2> QED
    BY <1>1, <2>1, <2>2
       DEF ViewerPlaces, ViewerKept, IsSessionClosed, TypeOK
<1>2. TypeOK /\ ViewerPlaces /\ ViewerKept => ViewersAccountedFor
  BY <1>1 DEF ViewersAccountedFor
<1> QED
  BY <1>2, TypeCorrect, ViewerPlacesInvariant, ViewerKeptInvariant, PTL

-----------------------------------------------------------------------------
(* The end: somebody is still to look whenever the session has become empty. *)

SomebodyLeft ==
    \/ \E v \in Viewers : pc[Leaving(v)] # "idle"
    \/ \E h \in Hosts : pc[Adding(h)] = "done"

\* Where a task is when it will find an empty session, or make it non-empty.
Looking == {"closePeer", "dropTracks", "register", "install", "countViewers",
            "checkViewers", "checkHost", "close"}

LastLooks ==
    viewers = {} /\ host = NoHost /\ SomebodyLeft
        => \/ pc[Closing] # "idle"
           \/ \E t \in Tasks : pc[t] \in Looking

\* What empties the session goes on to look at it, and who finds it empty goes on
\* to close it.
THEOREM LastLooksInvariant == Spec => []LastLooks
<1>1. Init => LastLooks
  BY ViewerTaskNames, HostTaskNames DEF Init, LastLooks, SomebodyLeft
<1>2. TypeOK /\ ViewerKept /\ LastLooks /\ [Next]_vars => LastLooks'
  <2> SUFFICES ASSUME TypeOK, ViewerKept, LastLooks, [Next]_vars,
                      viewers' = {}, host' = NoHost, SomebodyLeft'
               PROVE  pc'[Closing] # "idle" \/ \E t \in Tasks : pc'[t] \in Looking
    BY DEF LastLooks
  <2> DEFINE Watched == pc'[Closing] # "idle" \/ \E t \in Tasks : pc'[t] \in Looking
  <2> USE HostTaskNames, ViewerTaskNames, SingleTaskNames, TaskNamesDiffer
          DEF Goto, Looking
  <2>0. pc = [t \in Tasks |-> pc[t]]
    BY DEF TypeOK
  \* A step that empties nothing and hides nobody.
  <2>1. ASSUME viewers = {}, host = NoHost, SomebodyLeft,
               pc[Closing] # "idle" => pc'[Closing] # "idle",
               \A t \in Tasks : pc[t] \in Looking => pc'[t] \in Looking
        PROVE  Watched
    BY <2>1 DEF LastLooks
  <2>2. ASSUME NEW t \in Tasks, TaskStep(t) PROVE Watched
    <3>1. CASE RemovePeerConnection(t) \/ CheckViewers(t) \/ CheckHost(t)
      BY <2>0, <3>1 DEF RemovePeerConnection, CheckViewers, CheckHost
    <3>2. CASE CloseSession(t) \/ CloseReturns(t)
      BY <2>0, <3>2 DEF CloseSession, CloseReturns
    <3>3. CASE RemoveTracksAndNotify(t)
      <4>1. pc[t] = "dropTracks" /\ pc' = [pc EXCEPT ![t] = AfterRemove(t, TRUE)]
        BY <3>3 DEF RemoveTracksAndNotify
      <4>2. AfterRemove(t, TRUE) \in Looking \cup {"onClose"}
        BY DEF AfterRemove
      <4>3. AfterRemove(t, TRUE) = "onClose" => t = Closing
        BY DEF AfterRemove, Tasks, HostTasks, ViewerTasks, Closing, Deleting
      <4> QED
        BY <2>0, <4>1, <4>2, <4>3
    <3>4. ASSUME pc[t] \in {"remove", "removeHost"},
                 pc' = [pc EXCEPT ![t] = AfterRemove(t, FALSE)],
                 viewers' = viewers, host' = host
          PROVE  Watched
      <4>1. CASE AfterRemove(t, FALSE) \in Looking
        BY <2>0, <3>4, <4>1
      <4>2. CASE t = Closing
        BY <2>0, <3>4, <4>2 DEF AfterRemove, Closing
      <4>3. CASE t[1] = "HostClosed"
        <5>1. /\ \A h \in Hosts : t # Adding(h)
              /\ \A v \in Viewers : t # Leaving(v)
              /\ t # Closing
          BY <4>3 DEF Adding, Leaving, Closing
        <5>2. SomebodyLeft
          BY <2>0, <3>4, <5>1 DEF SomebodyLeft
        <5> QED
          BY <2>0, <2>1, <3>4, <5>1, <5>2
      <4> QED
        BY <4>1, <4>2, <4>3
           DEF AfterRemove, Tasks, HostTasks, ViewerTasks, Closing, Deleting
    <3>5. CASE RemoveHostSwap(t)
      BY <2>0, <3>4, <3>5 DEF RemoveHostSwap
    <3>6. CASE RemoveHost(t)
      BY <2>0, <3>4, <3>6 DEF RemoveHost
    <3>7. CASE CheckTracks(t)
      <4>1. /\ pc[t] = "checkTracks" /\ viewers' = viewers /\ host' = host
            /\ \/ pc' = [pc EXCEPT ![t] = "close"]
               \/ pc' = [pc EXCEPT ![t] = "done"]
        BY <3>7 DEF CheckTracks
      <4>2. \A h \in Hosts : t # Adding(h)
        BY <4>1 DEF TypeOK, LabelsOf, AddHostLabels, Removing
      <4>3. SomebodyLeft
        BY <2>0, <4>1, <4>2 DEF SomebodyLeft
      <4> QED
        BY <2>0, <2>1, <4>1, <4>3
    <3> QED
      BY <2>2, <3>1, <3>2, <3>3, <3>5, <3>6, <3>7 DEF TaskStep
  <2>3. ASSUME NEW h \in Hosts, HostStep(h) PROVE Watched
    <3>1. CASE AddHostRegister(h)
      BY <2>0, <3>1 DEF AddHostRegister
    <3>2. CASE AddHostInstall(h)
      BY <2>0, <3>2, NoHostIsNil DEF AddHostInstall
    <3>3. CASE AddHostCheckActive(h)
      <4>1. /\ pc[Adding(h)] = "checkActive" /\ viewers' = viewers /\ host' = host
            /\ \/ pc' = [pc EXCEPT ![Adding(h)] = "refused"]
               \/ pc' = [pc EXCEPT ![Adding(h)] = "remove"]
        BY <3>3 DEF AddHostCheckActive
      <4>2. SomebodyLeft
        BY <2>0, <4>1 DEF SomebodyLeft
      <4> QED
        BY <2>0, <2>1, <4>1, <4>2
    <3> QED
      BY <2>3, <3>1, <3>2, <3>3 DEF HostStep
  <2>4. ASSUME NEW h \in Hosts, AddHostLoad(h) \/ HostConnectionLost(h)
        PROVE  Watched
    <3>1. /\ viewers' = viewers /\ host' = host
          /\ \E t \in {Adding(h), Dropped(h)}, l \in {"register", "checkActive",
              "remove"} :
                 pc[t] = "idle" /\ pc' = [pc EXCEPT ![t] = l]
      BY <2>4 DEF AddHostLoad, HostConnectionLost
    <3>2. SomebodyLeft
      BY <2>0, <3>1 DEF SomebodyLeft
    <3> QED
      BY <2>0, <2>1, <3>1, <3>2
  <2>5. ASSUME NEW h \in Hosts, HostMedia(h) \/ HostSilent(h) PROVE Watched
    BY <2>1, <2>5 DEF HostMedia, HostSilent, SomebodyLeft
  <2>6. ASSUME NEW v \in Viewers, JoinInsert(v) PROVE Watched
    BY <2>6 DEF JoinInsert
  <2>7. ASSUME NEW v \in Viewers, JoinCheckLimit(v) PROVE Watched
    <3>1. /\ viewers' = viewers /\ host' = host
          /\ \E l : pc' = [pc EXCEPT ![Joining(v)] = l]
          /\ pc[Joining(v)] = "idle"
      BY <2>7 DEF JoinCheckLimit
    <3>2. SomebodyLeft
      BY <2>0, <3>1 DEF SomebodyLeft
    <3> QED
      BY <2>0, <2>1, <3>1, <3>2
  <2>8. ASSUME NEW v \in Viewers, HandleWHEPClose(v) PROVE Watched
    <3>1. CASE v \in viewers
      BY <2>0, <2>8, <3>1 DEF HandleWHEPClose
    <3>2. CASE v \notin viewers
      <4>1. /\ viewers' = viewers /\ host' = host
            /\ pc[Leaving(v)] = "delete"
            /\ pc' = [pc EXCEPT ![Leaving(v)] = "done"]
        BY <2>8, <3>2 DEF HandleWHEPClose
      <4>2. SomebodyLeft
        BY <4>1 DEF SomebodyLeft
      <4> QED
        BY <2>0, <2>1, <4>1, <4>2
    <3> QED
      BY <3>1, <3>2
  \* A viewer that is not in the map any more is in the hands of the closer.
  <2>9. ASSUME NEW v \in Viewers, ViewerConnectionLost(v) PROVE Watched
    BY <2>0, <2>9 DEF ViewerConnectionLost, ViewerKept
  <2>10. CASE CloserStep
    BY <2>0, <2>10
       DEF CloserStep, CollectViewers, AllViewersClosed, FinishClose,
           CloseViewer, ViewerClosed
  <2>11. CASE DeleteCountViewers
    BY <2>0, <2>11 DEF DeleteCountViewers
  <2>12. CASE DeleteRequest
    BY <2>12, NoHostIsNil DEF DeleteRequest
  <2>13. CASE UNCHANGED vars
    BY <2>1, <2>13 DEF vars, SomebodyLeft
  <2> QED
    BY <2>2, <2>3, <2>4, <2>5, <2>6, <2>7, <2>8, <2>9, <2>10, <2>11, <2>12, <2>13
       DEF Next, Program, Environment, ViewerStep
<1> QED
  BY <1>1, <1>2, TypeCorrect, ViewerKeptInvariant, PTL DEF Spec

\* At rest a session that somebody has left and that holds nobody is closed.
THEOREM LastOutCloses == Spec => []LastOneOutCloses
<1>1. ASSUME TypeOK, LastLooks, Quiescent, viewers = {}, host = NoHost, SomebodyLeft
      PROVE  pc[Closing] = "done"
  <2>1. \A t \in Tasks : pc[t] \notin Looking
    BY <1>1, QuietTasks DEF Looking
  <2>2. pc[Closing] # "idle"
    BY <1>1, <2>1 DEF LastLooks
  <2> QED
    BY <1>1, <2>2, QuietTasks, SingleTaskNames
       DEF TypeOK, LabelsOf, ClosingLabels, Removing
<1>2. TypeOK /\ LastLooks => LastOneOutCloses
  BY <1>1 DEF LastOneOutCloses, SomebodyLeft
<1> QED
  BY <1>2, TypeCorrect, LastLooksInvariant, PTL

-----------------------------------------------------------------------------
(* Requests for keyframes. *)

\* The safety part of the specification.
KeyframesSpec == K!Init /\ [][K!Next]_K!vars

\* Each caller is a viewer's.
LEMMA CallersOfViewers == \A c \in K!Callers : K!Of(c) \in Watching
  BY KeyframesAssumption DEF K!Callers, K!Of

\* What is older stays within its cap.
LEMMA OlderBounds ==
    ASSUME NEW cap \in Nat, NEW age \in 0..cap
    PROVE  /\ K!Older(age, cap) \in 0..cap
           /\ \A b \in 0..cap : age >= b => K!Older(age, cap) >= K!Older(b, cap)
           /\ \A b \in 0..cap : age >= b => K!Older(age, cap) >= b
  BY DEF K!Older

\* A packet that finds a queue full, or a request that is lost.
LEMMA TroubleBounds == K!TypeOK /\ K!Trouble => troubles' \in 0..MaxTroubles
  BY KeyframesAssumption DEF K!TypeOK, K!Trouble

\* A call of SendPLI.
LEMMA AskTypes ==
    ASSUME K!TypeOK, NEW c \in K!Callers, K!Ask(c)
    PROVE  /\ place' \in [K!Callers -> {"idle", "viewer", "find", "host"}]
           /\ valid' \in [K!Callers -> BOOLEAN]
           /\ now' \in [K!Callers -> 0..HostInterval]
  <1>1. 0 \in 0..HostInterval
    BY KeyframesAssumption
  <1> QED
    BY <1>1 DEF K!TypeOK, K!Ask, K!Load, K!Goto, K!calls

\* Every variable of KeyframeRequests keeps its type.
THEOREM KeyframesTypeCorrect == KeyframesSpec => []K!TypeOK
<1>1. K!Init => K!TypeOK
  <2> SUFFICES ASSUME K!Init PROVE K!TypeOK
    OBVIOUS
  <2>1. /\ 0 \in 0..HostInterval /\ HostInterval \in 0..HostInterval
        /\ ViewerInterval \in 0..ViewerInterval /\ 0 \in 0..MaxHosts /\ 0 \in 0..MaxTroubles
    BY KeyframesAssumption
  <2> QED
    BY <2>1 DEF K!Init, K!TypeOK
<1>2. K!TypeOK /\ [K!Next]_K!vars => K!TypeOK'
  <2> SUFFICES ASSUME K!TypeOK, [K!Next]_K!vars
               PROVE  K!TypeOK'
    OBVIOUS
  <2> USE DEF K!host, K!calls
  <2>0. 0 \in 0..HostInterval /\ HostInterval \in 0..HostInterval
    BY KeyframesAssumption
  <2>1. ASSUME NEW c \in K!Callers, K!TakeViewersSlot(c)
        PROVE  K!TypeOK'
    <3>1. now[c] \in 0..HostInterval /\ K!AtMost(now[c], ViewerInterval) \in 0..ViewerInterval
      BY KeyframesAssumption DEF K!TypeOK, K!AtMost
    <3>2. stamp' \in [Watching -> 0..ViewerInterval]
      BY <2>1, <3>1, CallersOfViewers DEF K!TakeViewersSlot, K!TypeOK
    <3>3. /\ place' \in [K!Callers -> {"idle", "viewer", "find", "host"}]
          /\ valid' \in [K!Callers -> BOOLEAN]
          /\ now' \in [K!Callers -> 0..HostInterval]
      <4>1. /\ place' \in [K!Callers -> {"idle", "viewer", "find", "host"}]
            /\ now' \in [K!Callers -> 0..HostInterval]
        BY <2>0, <2>1 DEF K!TakeViewersSlot, K!Pass, K!GiveUp, K!Goto, K!TypeOK
      <4>2. CASE valid[c]
        <5>1. \E rivals : valid' = [d \in K!Callers |-> valid[d] /\ d \notin rivals]
          BY <2>1, <4>2, Zenon DEF K!TakeViewersSlot, K!Pass
        <5>2. valid' \in [K!Callers -> BOOLEAN]
          BY <5>1, ZenonT(30) DEF K!TypeOK
        <5> QED
          BY <4>1, <5>2
      <4>3. CASE ~valid[c]
        <5>1. valid' = [valid EXCEPT ![c] = FALSE]
          BY <2>1, <4>3 DEF K!TakeViewersSlot, K!GiveUp
        <5>2. valid' \in [K!Callers -> BOOLEAN]
          BY <5>1 DEF K!TypeOK
        <5> QED
          BY <4>1, <5>2
      <4> QED
        BY <4>2, <4>3
    <3> QED
      BY <2>1, <3>2, <3>3 DEF K!TakeViewersSlot, K!TypeOK
  <2>2. ASSUME NEW c \in K!Callers, K!FindHost(c)
        PROVE  K!TypeOK'
    <3>1. /\ place' \in [K!Callers -> {"idle", "viewer", "find", "host"}]
          /\ valid' \in [K!Callers -> BOOLEAN]
          /\ now' \in [K!Callers -> 0..HostInterval]
      <4>1. \/ K!Load(c, "host")
            \/ K!GiveUp(c)
        BY <2>2, Zenon DEF K!FindHost
      <4>2. CASE K!Load(c, "host")
        BY <2>0, <4>2 DEF K!Load, K!Goto, K!TypeOK
      <4>3. CASE K!GiveUp(c)
        BY <2>0, <4>3 DEF K!GiveUp, K!Goto, K!TypeOK
      <4> QED
        BY <4>1, <4>2, <4>3
    <3> QED
      BY <2>2, <3>1 DEF K!FindHost, K!TypeOK
  <2>3. ASSUME NEW c \in K!Callers, K!TakeHostsSlot(c)
        PROVE  K!TypeOK'
    <3>1. /\ place' \in [K!Callers -> {"idle", "viewer", "find", "host"}]
          /\ valid' \in [K!Callers -> BOOLEAN]
          /\ now' \in [K!Callers -> 0..HostInterval]
      <4>1. /\ place' \in [K!Callers -> {"idle", "viewer", "find", "host"}]
            /\ now' \in [K!Callers -> 0..HostInterval]
        BY <2>0, <2>3 DEF K!TakeHostsSlot, K!Pass, K!GiveUp, K!Goto, K!TypeOK
      <4>2. CASE valid[c]
        <5>1. \E rivals : valid' = [d \in K!Callers |-> valid[d] /\ d \notin rivals]
          BY <2>3, <4>2, Zenon DEF K!TakeHostsSlot, K!Pass
        <5>2. valid' \in [K!Callers -> BOOLEAN]
          BY <5>1, ZenonT(30) DEF K!TypeOK
        <5> QED
          BY <4>1, <5>2
      <4>3. CASE ~valid[c]
        <5>1. valid' = [valid EXCEPT ![c] = FALSE]
          BY <2>3, <4>3 DEF K!TakeHostsSlot, K!GiveUp
        <5>2. valid' \in [K!Callers -> BOOLEAN]
          BY <5>1 DEF K!TypeOK
        <5> QED
          BY <4>1, <5>2
      <4> QED
        BY <4>2, <4>3
    <3>2. hostStamp' \in 0..HostInterval /\ recent' \in (0..HostInterval) \X (0..HostInterval)
      BY <2>0, <2>3 DEF K!TakeHostsSlot, K!LetPass, K!TypeOK
    <3>3. storm' \in BOOLEAN
      BY <2>3, Zenon DEF K!TakeHostsSlot, K!LetPass, K!TypeOK
    <3>4. asked' \in BOOLEAN
      BY <2>3 DEF K!TakeHostsSlot, K!LetPass, K!Send, K!TypeOK
    <3>5. troubles' \in 0..MaxTroubles
      BY <2>3, TroubleBounds DEF K!TakeHostsSlot, K!LetPass, K!Send, K!TypeOK
    <3> QED
      BY <2>3, <3>1, <3>2, <3>3, <3>4, <3>5 DEF K!TakeHostsSlot, K!TypeOK
  <2>4. ASSUME NEW v \in Watching, K!List(v) \/ K!Close(v)
        PROVE  K!TypeOK'
    BY <2>4 DEF K!List, K!Close, K!TypeOK
  <2>5. ASSUME NEW v \in Watching, K!CallBack(v) \/ K!SetVideoLayer(v)
        PROVE  K!TypeOK'
    <3>1. <<"callback", v>> \in K!Callers /\ K!Ask(<<"callback", v>>)
      BY <2>5 DEF K!CallBack, K!SetVideoLayer, K!Callers
    <3>2. waiting' \in [Watching -> BOOLEAN]
      BY <2>5 DEF K!CallBack, K!SetVideoLayer, K!TypeOK
    <3>3. troubles' \in 0..MaxTroubles
      BY <2>5, TroubleBounds DEF K!CallBack, K!SetVideoLayer, K!TypeOK
    <3> QED
      BY <2>5, <3>1, <3>2, <3>3, AskTypes DEF K!CallBack, K!SetVideoLayer, K!TypeOK
  <2>6. ASSUME NEW v \in Watching, K!SendVideoPacket(v)
        PROVE  K!TypeOK'
    <3>1. /\ place' \in [K!Callers -> {"idle", "viewer", "find", "host"}]
          /\ valid' \in [K!Callers -> BOOLEAN]
          /\ now' \in [K!Callers -> 0..HostInterval]
      <4>1. <<"sender", v>> \in K!Callers
        BY DEF K!Callers
      <4> QED
        BY <2>6, <4>1, AskTypes DEF K!SendVideoPacket, K!TypeOK
    <3>2. waiting' \in [Watching -> BOOLEAN] /\ queued' \in [Watching -> {"empty", "delta", "key"}]
      BY <2>6 DEF K!SendVideoPacket, K!TypeOK
    <3> QED
      BY <2>6, <3>1, <3>2 DEF K!SendVideoPacket, K!TypeOK
  <2>7. CASE K!AddHost
    <3>1. waiting' \in [Watching -> BOOLEAN]
      BY <2>7, Zenon DEF K!AddHost, K!TypeOK
    <3>2. hosts' \in 0..MaxHosts
      BY <2>7, KeyframesAssumption DEF K!AddHost, K!TypeOK
    <3> QED
      BY <2>0, <2>7, <3>1, <3>2 DEF K!AddHost, K!Fresh, K!TypeOK
  <2>8. CASE K!RemoveHost
    <3>1. valid' \in [K!Callers -> BOOLEAN]
      BY <2>8, Zenon DEF K!RemoveHost, K!TypeOK
    <3> QED
      BY <2>0, <2>8, <3>1 DEF K!RemoveHost, K!Fresh, K!TypeOK
  <2>9. CASE K!StoreMediaSSRC
    BY <2>9 DEF K!StoreMediaSSRC, K!TypeOK
  <2>10. CASE K!QueueVideoPacket
    <3>1. waiting' \in [Watching -> BOOLEAN]
      BY <2>10, Zenon DEF K!QueueVideoPacket, K!TypeOK
    <3>2. queued' \in [Watching -> {"empty", "delta", "key"}]
      BY <2>10 DEF K!QueueVideoPacket, K!TypeOK
    <3>3. troubles' \in 0..MaxTroubles
      BY <2>10, TroubleBounds DEF K!QueueVideoPacket, K!TypeOK
    <3> QED
      BY <2>10, <3>1, <3>2, <3>3 DEF K!QueueVideoPacket, K!TypeOK
  <2>11. CASE K!Tick
    <3>1. stamp' \in [Watching -> 0..ViewerInterval]
      <4>1. \A v \in Watching : K!Older(stamp[v], ViewerInterval) \in 0..ViewerInterval
        BY KeyframesAssumption, OlderBounds DEF K!TypeOK
      <4> QED
        BY <2>11, <4>1 DEF K!Tick
    <3>2. now' \in [K!Callers -> 0..HostInterval]
      <4>1. \A c \in K!Callers : /\ now[c] \in 0..HostInterval
                                 /\ K!Older(now[c], HostInterval) \in 0..HostInterval
        BY KeyframesAssumption, OlderBounds DEF K!TypeOK
      <4> QED
        BY <2>11, <4>1 DEF K!Tick
    <3>3. hostStamp' \in 0..HostInterval /\ recent' \in (0..HostInterval) \X (0..HostInterval)
      BY <2>11, KeyframesAssumption, OlderBounds DEF K!Tick, K!TypeOK
    <3> QED
      BY <2>11, <3>1, <3>2, <3>3 DEF K!Tick, K!TypeOK
  <2>12. CASE UNCHANGED K!vars
    BY <2>12 DEF K!vars, K!TypeOK
  <2> QED
    BY <2>1, <2>2, <2>3, <2>4, <2>5, <2>6, <2>7, <2>8, <2>9, <2>10, <2>11, <2>12
       DEF K!Next, K!CallerStep
<1> QED
  BY <1>1, <1>2, PTL DEF KeyframesSpec

\* A call that will get the slot began after the last request that was let pass, an
\* interval after that one's call began; and that one's call began after the
\* request before it was let pass.
Paced ==
    /\ ~storm
    /\ recent[2] >= hostStamp
    /\ \A c \in K!Callers : place[c] = "host" /\ valid[c] =>
          recent[1] >= now[c] /\ hostStamp >= HostInterval

\* A call that nobody loads the host's time in.
LEMMA NobodyLoads ==
    ASSUME K!TypeOK, Paced, UNCHANGED <<storm, recent, hostStamp>>,
           \A c \in K!Callers : place'[c] = "host" /\ valid'[c] =>
               place[c] = "host" /\ valid[c] /\ now'[c] = now[c]
    PROVE  Paced'
  BY DEF Paced

\* Requests to a publisher are paced in every state, however long a caller rests
\* between reading the clock and taking the slot.
THEOREM PacedInvariant == KeyframesSpec => []Paced
<1>1. K!Init => Paced
  BY KeyframesAssumption DEF K!Init, Paced
<1>2. K!TypeOK /\ Paced /\ [K!Next]_K!vars => Paced'
  <2> SUFFICES ASSUME K!TypeOK, Paced, [K!Next]_K!vars
               PROVE  Paced'
    OBVIOUS
  <2> USE DEF K!host, K!calls
  <2>0. /\ 0 \in 0..HostInterval /\ HostInterval \in 0..HostInterval
        /\ \A c \in K!Callers : now[c] \in 0..HostInterval
        /\ recent[1] \in 0..HostInterval /\ recent[2] \in 0..HostInterval
        /\ hostStamp \in 0..HostInterval
    BY KeyframesAssumption DEF K!TypeOK
  <2>1. ASSUME NEW c \in K!Callers, K!TakeViewersSlot(c)
        PROVE  Paced'
    <3>1. \A d \in K!Callers : place'[d] = "host" /\ valid'[d] =>
              place[d] = "host" /\ valid[d] /\ now'[d] = now[d]
      BY <2>1 DEF K!TakeViewersSlot, K!Pass, K!GiveUp, K!Goto, K!TypeOK
    <3> QED
      BY <2>1, <3>1, NobodyLoads DEF K!TakeViewersSlot
  <2>2. ASSUME NEW c \in K!Callers, K!FindHost(c)
        PROVE  Paced'
    <3>1. CASE place'[c] = "host"
      <4>1. /\ hostStamp >= HostInterval /\ now'[c] = 0
            /\ \A d \in K!Callers \ {c} :
                  place'[d] = place[d] /\ valid'[d] = valid[d] /\ now'[d] = now[d]
        BY <2>2, <3>1 DEF K!FindHost, K!Load, K!GiveUp, K!Goto, K!TypeOK
      <4>2. UNCHANGED <<storm, recent, hostStamp>>
        BY <2>2 DEF K!FindHost
      <4>3. \A d \in K!Callers : place'[d] = "host" /\ valid'[d] =>
                recent[1] >= now'[d] /\ hostStamp >= HostInterval
        <5> SUFFICES ASSUME NEW d \in K!Callers, place'[d] = "host", valid'[d]
                     PROVE  recent[1] >= now'[d] /\ hostStamp >= HostInterval
          OBVIOUS
        <5>1. CASE d = c
          BY <2>0, <4>1, <5>1
        <5>2. CASE d # c
          BY <4>1, <5>2 DEF Paced
        <5> QED
          BY <5>1, <5>2
      <4> QED
        BY <4>2, <4>3 DEF Paced
    <3>2. CASE place'[c] # "host"
      <4>1. \A d \in K!Callers : place'[d] = "host" /\ valid'[d] =>
                place[d] = "host" /\ valid[d] /\ now'[d] = now[d]
        BY <2>2, <3>2 DEF K!FindHost, K!Load, K!GiveUp, K!Goto, K!TypeOK
      <4> QED
        BY <2>2, <4>1, NobodyLoads DEF K!FindHost
    <3> QED
      BY <3>1, <3>2
  <2>3. ASSUME NEW c \in K!Callers, K!TakeHostsSlot(c)
        PROVE  Paced'
    <3>1. CASE valid[c]
      <4>1. /\ place[c] = "host"
            /\ hostStamp' = now[c] /\ recent' = <<0, recent[1]>>
            /\ storm' = (storm \/ recent[2] < HostInterval)
        BY <2>3, <3>1 DEF K!TakeHostsSlot, K!LetPass
      <4>2. /\ recent'[2] = recent[1] /\ recent[1] >= now[c] /\ recent[2] >= HostInterval
            /\ ~storm
        BY <2>0, <3>1, <4>1, KeyframesAssumption DEF Paced
      <4>3. \A d \in K!Callers : ~(place'[d] = "host" /\ valid'[d])
        BY <2>3, <3>1 DEF K!TakeHostsSlot, K!Pass, K!Goto, K!TypeOK
      <4>4. ~(recent[2] < HostInterval)
        BY <2>0, <4>2, KeyframesAssumption
      <4>5. ~storm'
        BY <4>1, <4>2, <4>4, Zenon
      <4>6. recent'[2] >= hostStamp'
        BY <4>1, <4>2
      <4> QED
        BY <4>3, <4>5, <4>6, Zenon DEF Paced
    <3>2. CASE ~valid[c]
      <4>1. \A d \in K!Callers : place'[d] = "host" /\ valid'[d] =>
                place[d] = "host" /\ valid[d] /\ now'[d] = now[d]
        BY <2>3, <3>2 DEF K!TakeHostsSlot, K!GiveUp, K!Goto, K!TypeOK
      <4> QED
        BY <2>3, <3>2, <4>1, NobodyLoads DEF K!TakeHostsSlot
    <3> QED
      BY <3>1, <3>2
  <2>4. ASSUME NEW c \in K!Callers, K!Ask(c)
        PROVE  \A d \in K!Callers : place'[d] = "host" /\ valid'[d] =>
                   place[d] = "host" /\ valid[d] /\ now'[d] = now[d]
    BY <2>4 DEF K!Ask, K!Load, K!Goto, K!TypeOK
  <2>5. ASSUME NEW v \in Watching,
               K!List(v) \/ K!Close(v) \/ K!CallBack(v) \/ K!SetVideoLayer(v)
                   \/ K!SendVideoPacket(v)
        PROVE  Paced'
    <3>1. \A d \in K!Callers : place'[d] = "host" /\ valid'[d] =>
              place[d] = "host" /\ valid[d] /\ now'[d] = now[d]
      <4>1. <<"sender", v>> \in K!Callers /\ (v \in Impatient => <<"callback", v>> \in K!Callers)
        BY DEF K!Callers
      <4> QED
        BY <2>4, <2>5, <4>1
           DEF K!List, K!Close, K!CallBack, K!SetVideoLayer, K!SendVideoPacket
    <3> QED
      BY <2>5, <3>1, NobodyLoads
         DEF K!List, K!Close, K!CallBack, K!SetVideoLayer, K!SendVideoPacket
  <2>6. CASE K!AddHost \/ K!RemoveHost
    <3>1. /\ hostStamp' = HostInterval /\ recent' = <<HostInterval, HostInterval>>
          /\ storm' = storm /\ now' = now
      BY <2>6 DEF K!AddHost, K!RemoveHost, K!Fresh
    <3> QED
      BY <2>0, <3>1, KeyframesAssumption DEF Paced
  <2>7. CASE K!StoreMediaSSRC \/ K!QueueVideoPacket \/ UNCHANGED K!vars
    BY <2>7, NobodyLoads DEF K!StoreMediaSSRC, K!QueueVideoPacket, K!vars
  <2>8. CASE K!Tick
    <3>1. /\ hostStamp' = K!Older(hostStamp, HostInterval)
          /\ recent'[1] = K!Older(recent[1], HostInterval)
          /\ recent'[2] = K!Older(recent[2], HostInterval)
          /\ \A c \in K!Callers : place[c] = "host" => now'[c] = K!Older(now[c], HostInterval)
          /\ UNCHANGED <<place, valid, storm>>
      BY <2>8 DEF K!Tick
    <3>2. recent'[2] >= hostStamp'
      BY <2>0, <3>1, OlderBounds, KeyframesAssumption DEF Paced
    <3>3. ASSUME NEW c \in K!Callers, place[c] = "host", valid[c]
          PROVE  recent'[1] >= now'[c] /\ hostStamp' >= HostInterval
      <4>1. recent[1] >= now[c] /\ hostStamp >= HostInterval
        BY <3>3 DEF Paced
      <4>2. now[c] \in 0..HostInterval /\ HostInterval \in Nat
        BY <2>0, KeyframesAssumption
      <4>3. K!Older(recent[1], HostInterval) >= K!Older(now[c], HostInterval)
        BY <2>0, <4>1, <4>2, OlderBounds
      <4>4. K!Older(hostStamp, HostInterval) >= HostInterval
        BY <2>0, <4>1, <4>2, OlderBounds
      <4> QED
        BY <3>1, <3>3, <4>3, <4>4
    <3> QED
      BY <3>1, <3>2, <3>3 DEF Paced
  <2> QED
    BY <2>1, <2>2, <2>3, <2>5, <2>6, <2>7, <2>8 DEF K!Next, K!CallerStep
<1> QED
  BY <1>1, <1>2, KeyframesTypeCorrect, PTL DEF KeyframesSpec

\* However many viewers ask, and whenever their calls overlap, the publisher is not
\* asked for a storm of keyframes.
THEOREM RequestsAreSpaced == KeyframesSpec => []K!RequestsSpaced
<1>1. K!TypeOK /\ Paced => K!RequestsSpaced
  BY DEF Paced, K!RequestsSpaced, K!NoKeyframeStorm
<1> QED
  BY <1>1, KeyframesTypeCorrect, PacedInvariant, PTL

\* The behaviours TLC checks are among those.
THEOREM RequestsSpacedAlways == MCSpec => []RequestsSpaced
<1>1. MCInit => K!Init
  BY DEF MCInit
<1>2. [MCNext]_all => [K!Next]_K!vars
  BY DEF MCNext, OfSession, OfKeyframes, all, keyframe, K!vars
<1>3. K!RequestsSpaced => RequestsSpaced
  BY DEF RequestsSpaced
<1> QED
  BY <1>1, <1>2, <1>3, RequestsAreSpaced, PTL DEF MCSpec, KeyframesSpec

=============================================================================
