-------------------------- MODULE SessionViewsProofs --------------------------
(***************************************************************************)
(* Theorems about SessionViews for any publishers, viewers and concurrency,*)
(* and about Profiles for any requests, texts and tokens, and for two keys *)
(* of which one begins with the other.                                     *)
(***************************************************************************)
EXTENDS MCSessionViews, Sequences, TLAPS

-----------------------------------------------------------------------------
(* Tasks. *)

\* The names of the tasks differ, and each task is one of Tasks.
LEMMA TaskNames ==
    /\ \A h \in Hosts : Publishing(h) \in Tasks /\ Removing(h) \in Tasks
    /\ \A v \in Viewers : Joining(v) \in Tasks /\ Leaving(v) \in Tasks
    /\ Closing \in Tasks
    /\ \A h \in Hosts, g \in Hosts :
           (Publishing(h) = Publishing(g) => h = g) /\ Publishing(h) # Removing(g)
    /\ \A v \in Viewers, w \in Viewers :
           /\ Leaving(v) = Leaving(w) => v = w
           /\ Joining(v) = Joining(w) => v = w
           /\ Joining(v) # Leaving(w)
    /\ \A h \in Hosts, v \in Viewers :
           /\ Publishing(h) # Joining(v) /\ Publishing(h) # Leaving(v)
           /\ Removing(h) # Joining(v) /\ Removing(h) # Leaving(v)
    /\ \A h \in Hosts : Publishing(h) # Closing /\ Removing(h) # Closing
    /\ \A v \in Viewers : Joining(v) # Closing /\ Leaving(v) # Closing
  BY DEF Tasks, Publishing, Removing, Joining, Leaving, Closing

\* Where an update ends depends on the task; for a publisher it is the store of
\* HasHost.
LEMMA AfterUpdateLabels ==
    /\ \A t \in Tasks : AfterUpdate(t) \in {"flag", "done", "isEmpty", "removeHost"}
    /\ \A h \in Hosts : AfterUpdate(Publishing(h)) = "flag"
  BY DEF AfterUpdate, Publishing

-----------------------------------------------------------------------------
(* Type correctness. *)

\* Every variable keeps its type, and a task that is about to build or store a
\* snapshot, or to clear a host's views, has a host.
THEOREM TypeCorrect == Spec => []TypeOK
<1>1. Init => TypeOK
  <2>1. Init => hasHost \in BOOLEAN /\ contested \in BOOLEAN
    BY Zenon DEF Init
  <2> QED
    BY <2>1 DEF Init, TypeOK, Labels
<1>2. TypeOK /\ [Next]_vars => TypeOK'
  <2> SUFFICES ASSUME TypeOK, [Next]_vars
               PROVE  TypeOK'
    OBVIOUS
  <2> USE NoHostIsNil DEF TypeOK, Labels, Goto, views, checks, Starts
  <2>1. ASSUME NEW t \in Tasks, LoadHost(t) PROVE TypeOK'
    BY <2>1, AfterUpdateLabels DEF LoadHost
  <2>2. ASSUME NEW t \in Tasks, BuildSnapshot(t) PROVE TypeOK'
    BY <2>2 DEF BuildSnapshot
  <2>3. ASSUME NEW t \in Tasks, StoreSnapshot(t) PROVE TypeOK'
    BY <2>3, AfterUpdateLabels DEF StoreSnapshot
  <2>4. ASSUME NEW t \in Tasks, ClearViews(t) PROVE TypeOK'
    <3>1. hasHost' \in BOOLEAN
      BY <2>4, Zenon DEF ClearViews
    <3> QED
      BY <2>4, <3>1 DEF ClearViews
  <2>5. ASSUME NEW t \in Tasks, CloseIfEmpty(t) PROVE TypeOK'
    BY <2>5, TaskNames DEF CloseIfEmpty
  <2>6. ASSUME NEW h \in Hosts, InstallHost(h) PROVE TypeOK'
    <3>1. contested' \in BOOLEAN
      BY <2>6, Zenon DEF InstallHost
    <3> QED
      BY <2>6, <3>1 DEF InstallHost
  <2>7. ASSUME NEW h \in Hosts, ClearSnapshot(h) PROVE TypeOK'
    BY <2>7 DEF ClearSnapshot
  <2>8. ASSUME NEW h \in Hosts, SetHasHost(h) PROVE TypeOK'
    <3>1. hasHost' \in BOOLEAN
      BY <2>8, Zenon DEF SetHasHost
    <3> QED
      BY <2>8, <3>1 DEF SetHasHost
  <2>9. ASSUME NEW t \in Tasks, NEW h \in Hosts, TakeOut(t, h) PROVE TypeOK'
    <3>1. contested' \in BOOLEAN
      BY <2>9, Zenon DEF TakeOut
    <3> QED
      BY <2>9, <3>1 DEF TakeOut
  <2>10. ASSUME NEW v \in Viewers, InsertViewer(v) PROVE TypeOK'
    BY <2>10 DEF InsertViewer
  <2>11. ASSUME NEW v \in Viewers, CloseViewer(v) PROVE TypeOK'
    BY <2>11 DEF CloseViewer
  <2>12. ASSUME NEW v \in Viewers, DeleteViewer(v) PROVE TypeOK'
    BY <2>12 DEF DeleteViewer
  <2>13. CASE CollectViewers
    BY <2>13 DEF CollectViewers
  <2>14. CASE CloseViewers
    BY <2>14 DEF CloseViewers
  <2>15. CASE CloseRemovesHost
    <3>1. ASSUME NEW h \in Hosts, TakeOut(Closing, h) PROVE TypeOK'
      BY <3>1, <2>9, TaskNames
    <3>2. CASE \A h \in Hosts : ~TakeOut(Closing, h)
      BY <2>15, <3>2 DEF CloseRemovesHost
    <3> QED
      BY <3>1, <3>2
  <2>16. CASE UNCHANGED vars
    BY <2>16 DEF vars
  <2> QED
    BY <2>1, <2>2, <2>3, <2>4, <2>5, <2>6, <2>7, <2>8, <2>9, <2>10, <2>11, <2>12,
       <2>13, <2>14, <2>15, <2>16, TaskNames DEF Next, RemoveHost
<1> QED
  BY <1>1, <1>2, PTL DEF Spec

-----------------------------------------------------------------------------
(* HasHost.                                                                *)

\* Unless Host last changed while a store to HasHost was outstanding, an installed
\* host has its TRUE stored or on the way and nobody's FALSE is, and without a
\* host it is the other way round.
FlagFollows ==
    ~contested =>
        /\ host # NoHost =>
               /\ \A t \in Tasks : pc[t] # "unflag"
               /\ hasHost \/ \E h \in Hosts : pc[Publishing(h)] \in Installing
        /\ host = NoHost =>
               /\ \A h \in Hosts : pc[Publishing(h)] \notin Installing
               /\ ~hasHost \/ \E t \in Tasks : pc[t] = "unflag"

\* FlagFollows holds in every state: the updates of a publisher's snapshot lead
\* to the store of HasHost, and each change of Host starts a store of its own.
THEOREM FlagFollowsInvariant == Spec => []FlagFollows
<1>1. Init => FlagFollows
  BY NoHostIsNil, TaskNames DEF Init, FlagFollows, Installing
<1>2. TypeOK /\ FlagFollows /\ [Next]_vars => FlagFollows'
  <2> SUFFICES ASSUME TypeOK, FlagFollows, [Next]_vars
               PROVE  FlagFollows'
    OBVIOUS
  <2> DEFINE Writing == \E h \in Hosts : pc[Publishing(h)] \in Installing
             Erasing == \E t \in Tasks : pc[t] = "unflag"
  <2> USE NoHostIsNil, TaskNames DEF TypeOK, Goto, views, checks, Starts, Installing
  <2>1. ASSUME UNCHANGED <<host, hasHost, contested>>,
               Writing' <=> Writing, Erasing' <=> Erasing
        PROVE  FlagFollows'
    BY <2>1 DEF FlagFollows
  <2>2. ASSUME NEW t \in Tasks, LoadHost(t) PROVE FlagFollows'
    <3>1. UNCHANGED <<host, hasHost, contested>>
      BY <2>2 DEF LoadHost
    <3>2. pc' = [pc EXCEPT ![t] = pc'[t]] /\ pc[t] = "load"
          /\ pc'[t] \in {"build", AfterUpdate(t)}
      BY <2>2 DEF LoadHost
    <3>3. Erasing' <=> Erasing
      BY <3>2, AfterUpdateLabels
    <3>4. Writing' <=> Writing
      BY <3>2, AfterUpdateLabels
    <3> QED
      BY <2>1, <3>1, <3>3, <3>4
  <2>3. ASSUME NEW t \in Tasks, BuildSnapshot(t) PROVE FlagFollows'
    <3>1. UNCHANGED <<host, hasHost, contested>>
      BY <2>3 DEF BuildSnapshot
    <3>2. pc' = [pc EXCEPT ![t] = "store"] /\ pc[t] = "build"
      BY <2>3 DEF BuildSnapshot
    <3>3. (Erasing' <=> Erasing) /\ (Writing' <=> Writing)
      BY <3>2
    <3> QED
      BY <2>1, <3>1, <3>3
  <2>4. ASSUME NEW t \in Tasks, StoreSnapshot(t) PROVE FlagFollows'
    <3>1. UNCHANGED <<host, hasHost, contested>>
      BY <2>4 DEF StoreSnapshot
    <3>2. pc' = [pc EXCEPT ![t] = AfterUpdate(t)] /\ pc[t] = "store"
      BY <2>4 DEF StoreSnapshot
    <3>3. (Erasing' <=> Erasing) /\ (Writing' <=> Writing)
      BY <3>2, AfterUpdateLabels
    <3> QED
      BY <2>1, <3>1, <3>3
  <2>5. ASSUME NEW t \in Tasks, ClearViews(t) PROVE FlagFollows'
    <3>1. host' = host /\ contested' = contested /\ pc[t] = "unflag"
      BY <2>5 DEF ClearViews
    <3>2. ~hasHost'
      BY <2>5, Zenon DEF ClearViews
    <3>3. ~contested => host = NoHost
      BY <3>1 DEF FlagFollows
    <3>4. Writing' <=> Writing
      BY <2>5 DEF ClearViews
    <3> QED
      BY <3>1, <3>2, <3>3, <3>4 DEF FlagFollows
  <2>6. ASSUME NEW t \in Tasks, CloseIfEmpty(t) PROVE FlagFollows'
    <3>1. UNCHANGED <<host, hasHost, contested>>
      BY <2>6 DEF CloseIfEmpty
    <3>2. (Erasing' <=> Erasing) /\ (Writing' <=> Writing)
      BY <2>6 DEF CloseIfEmpty
    <3> QED
      BY <2>1, <3>1, <3>2
  <2>7. ASSUME NEW h \in Hosts, InstallHost(h) PROVE FlagFollows'
    <3>1. host' = h /\ pc' = [pc EXCEPT ![Publishing(h)] = "clear"]
      BY <2>7 DEF InstallHost
    <3>2. contested' <=> Erasing
      BY <2>7 DEF InstallHost
    <3>3. (Erasing' => Erasing) /\ Writing'
      BY <3>1
    <3> QED
      BY <3>1, <3>2, <3>3 DEF FlagFollows
  <2>8. ASSUME NEW h \in Hosts, ClearSnapshot(h) PROVE FlagFollows'
    <3>1. UNCHANGED <<host, hasHost, contested>>
      BY <2>8 DEF ClearSnapshot
    <3>2. (Erasing' <=> Erasing) /\ (Writing' <=> Writing)
      BY <2>8 DEF ClearSnapshot
    <3> QED
      BY <2>1, <3>1, <3>2
  <2>9. ASSUME NEW h \in Hosts, SetHasHost(h) PROVE FlagFollows'
    <3>1. host' = host /\ contested' = contested /\ pc[Publishing(h)] = "flag"
      BY <2>9 DEF SetHasHost
    <3>2. hasHost'
      BY <2>9, Zenon DEF SetHasHost
    <3>3. ~contested => host # NoHost
      BY <3>1 DEF FlagFollows
    <3>4. Erasing' => Erasing
      BY <2>9 DEF SetHasHost
    <3> QED
      BY <3>1, <3>2, <3>3, <3>4 DEF FlagFollows
  <2>10. ASSUME NEW t \in Tasks, NEW h \in Hosts, TakeOut(t, h),
                \A g \in Hosts : t # Publishing(g)
         PROVE  FlagFollows'
    <3>1. host' = NoHost /\ pc' = [pc EXCEPT ![t] = "unflag"]
      BY <2>10 DEF TakeOut
    <3>2. contested' <=> Writing
      BY <2>10 DEF TakeOut
    <3>3. (Writing' => Writing) /\ Erasing'
      BY <2>10, <3>1
    <3> QED
      BY <3>1, <3>2, <3>3 DEF FlagFollows
  <2>11. ASSUME NEW v \in Viewers, InsertViewer(v) \/ CloseViewer(v) \/ DeleteViewer(v)
         PROVE  FlagFollows'
    <3>1. UNCHANGED <<host, hasHost, contested>>
      BY <2>11 DEF InsertViewer, CloseViewer, DeleteViewer
    <3>2. (Erasing' <=> Erasing) /\ (Writing' <=> Writing)
      BY <2>11 DEF InsertViewer, CloseViewer, DeleteViewer
    <3> QED
      BY <2>1, <3>1, <3>2
  <2>12. CASE CollectViewers
    <3>1. UNCHANGED <<host, hasHost, contested>>
      BY <2>12 DEF CollectViewers
    <3>2. (Erasing' <=> Erasing) /\ (Writing' <=> Writing)
      BY <2>12 DEF CollectViewers
    <3> QED
      BY <2>1, <3>1, <3>2
  <2>13. CASE CloseViewers
    <3>1. UNCHANGED <<host, hasHost, contested>>
      BY <2>13 DEF CloseViewers
    <3>2. Writing' <=> Writing
      BY <2>13 DEF CloseViewers
    <3>3. \A t \in Tasks : pc'[t] = "unflag" <=> pc[t] = "unflag"
      BY <2>13 DEF CloseViewers
    <3> QED
      BY <2>1, <3>1, <3>2, <3>3
  <2>14. CASE CloseRemovesHost
    <3>1. ASSUME NEW h \in Hosts, TakeOut(Closing, h) PROVE FlagFollows'
      BY <3>1, <2>10
    <3>2. CASE \A h \in Hosts : ~TakeOut(Closing, h)
      <4>1. UNCHANGED <<host, hasHost, contested>>
        BY <2>14, <3>2 DEF CloseRemovesHost
      <4>2. (Erasing' <=> Erasing) /\ (Writing' <=> Writing)
        BY <2>14, <3>2 DEF CloseRemovesHost
      <4> QED
        BY <2>1, <4>1, <4>2
    <3> QED
      BY <3>1, <3>2
  <2>15. CASE UNCHANGED vars
    BY <2>15 DEF vars, FlagFollows
  <2>16. ASSUME NEW h \in Hosts, RemoveHost(h) PROVE FlagFollows'
    BY <2>16, <2>10 DEF RemoveHost
  <2> QED
    BY <2>2, <2>3, <2>4, <2>5, <2>6, <2>7, <2>8, <2>9, <2>11, <2>12, <2>13, <2>14,
       <2>15, <2>16 DEF Next
<1> QED
  BY <1>1, <1>2, TypeCorrect, PTL DEF Spec

\* The flag is right at rest: nothing is outstanding then.
THEOREM OnlineRight == Spec => []OnlineAtRest
<1>1. FlagFollows => OnlineAtRest
  <2> SUFFICES ASSUME FlagFollows, Quiescent, ~contested
               PROVE  hasHost <=> host # NoHost
    BY DEF OnlineAtRest
  <2>1. \A t \in Tasks : pc[t] \in {"idle", "done"}
    BY DEF Quiescent, Busy
  <2> QED
    BY <2>1, TaskNames DEF FlagFollows, Installing
<1> QED
  BY <1>1, FlagFollowsInvariant, PTL

-----------------------------------------------------------------------------
(* The snapshot: who is where.                                             *)

\* A viewer is nowhere before it is inserted, is not in the map again once the
\* closer has taken it out, and stays in the map after its end only until its own
\* handleWHEPClose deletes it; a host that was taken out is not current again.
Origins ==
    /\ \A v \in Viewers : pc[Joining(v)] = "idle" =>
           /\ v \notin viewers \cup pending \cup closed
           /\ \A h \in Hosts : v \notin snapshot[h]
           /\ \A t \in Tasks : v \notin built[t]
    /\ viewers \cap pending = {}
    /\ \A v \in viewers \cap closed : pc[Leaving(v)] = "delete"
    /\ host # NoHost => pc[Publishing(host)] # "idle"
    /\ \A t \in Tasks : pc[t] = "unflag" =>
           host # at[t] /\ pc[Publishing(at[t])] # "idle"

\* Every viewer is where its call has put it, in every state.
THEOREM OriginsInvariant == Spec => []Origins
<1>1. Init => Origins
  BY NoHostIsNil, TaskNames DEF Init, Origins
<1>2. TypeOK /\ Origins /\ [Next]_vars => Origins'
  <2> SUFFICES ASSUME TypeOK, Origins, [Next]_vars
               PROVE  Origins'
    OBVIOUS
  <2> USE NoHostIsNil, TaskNames
      DEF TypeOK, Origins, Goto, views, checks, Starts
  <2>1. ASSUME NEW t \in Tasks, LoadHost(t) PROVE Origins'
    BY <2>1, AfterUpdateLabels DEF LoadHost
  <2>2. ASSUME NEW t \in Tasks, BuildSnapshot(t) PROVE Origins'
    BY <2>2 DEF BuildSnapshot
  <2>3. ASSUME NEW t \in Tasks, StoreSnapshot(t) PROVE Origins'
    BY <2>3, AfterUpdateLabels DEF StoreSnapshot
  <2>4. ASSUME NEW t \in Tasks, ClearViews(t) PROVE Origins'
    BY <2>4 DEF ClearViews
  <2>5. ASSUME NEW t \in Tasks, CloseIfEmpty(t) PROVE Origins'
    BY <2>5 DEF CloseIfEmpty
  <2>6. ASSUME NEW h \in Hosts, InstallHost(h) PROVE Origins'
    BY <2>6 DEF InstallHost
  <2>7. ASSUME NEW h \in Hosts, ClearSnapshot(h) PROVE Origins'
    BY <2>7 DEF ClearSnapshot
  <2>8. ASSUME NEW h \in Hosts, SetHasHost(h) PROVE Origins'
    BY <2>8 DEF SetHasHost
  <2>9. ASSUME NEW t \in Tasks, NEW h \in Hosts, TakeOut(t, h),
               \A v \in Viewers : t # Leaving(v)
        PROVE  Origins'
    BY <2>9 DEF TakeOut
  <2>10. ASSUME NEW v \in Viewers, InsertViewer(v) PROVE Origins'
    BY <2>10 DEF InsertViewer
  <2>11. ASSUME NEW v \in Viewers, CloseViewer(v) PROVE Origins'
    BY <2>11 DEF CloseViewer
  <2>12. ASSUME NEW v \in Viewers, DeleteViewer(v) PROVE Origins'
    BY <2>12 DEF DeleteViewer
  <2>13. CASE CollectViewers
    BY <2>13 DEF CollectViewers
  <2>14. CASE CloseViewers
    BY <2>14 DEF CloseViewers
  <2>15. CASE CloseRemovesHost
    <3>1. ASSUME NEW h \in Hosts, TakeOut(Closing, h) PROVE Origins'
      BY <3>1, <2>9
    <3>2. CASE \A h \in Hosts : ~TakeOut(Closing, h)
      BY <2>15, <3>2 DEF CloseRemovesHost
    <3> QED
      BY <3>1, <3>2
  <2>16. CASE UNCHANGED vars
    BY <2>16 DEF vars
  <2>17. ASSUME NEW h \in Hosts, RemoveHost(h) PROVE Origins'
    BY <2>17, <2>9 DEF RemoveHost
  <2> QED
    BY <2>1, <2>2, <2>3, <2>4, <2>5, <2>6, <2>7, <2>8, <2>10, <2>11, <2>12,
       <2>13, <2>14, <2>15, <2>16, <2>17 DEF Next
<1> QED
  BY <1>1, <1>2, TypeCorrect, PTL DEF Spec

-----------------------------------------------------------------------------
(* The snapshot: how it follows the map.                                   *)

\* What the writers of the host should see.
Present == viewers \ closed

\* Somebody has still to build a snapshot for host h (if h is current).
Due(h) ==
    \/ \E t \in Tasks : pc[t] = "load" \/ (pc[t] = "build" /\ at[t] = h)
    \/ \E g \in Hosts : pc[Publishing(g)] = "clear"
    \/ \E v \in viewers : pc[Leaving(v)] = "delete"
    \/ pc[Closing] = "closeViewers"

Storing(t, h) == pc[t] = "store" /\ at[t] = h

\* The snapshot of host h that counts is right: the only one built and not stored,
\* or the stored one when there is none.
UpToDate(h) ==
    \/ \E t \in Tasks : Storing(t, h) /\ built[t] = Present
    \/ snapshot[h] = Present /\ \A t \in Tasks : ~Storing(t, h)

\* Unless the last snapshot of host h was built before another was stored, at most
\* one is unstored, and when no further one is due for the current host it is up
\* to date.
SnapshotFollows ==
    \A h \in Hosts \ disturbed :
        /\ \A t \in Tasks, u \in Tasks : Storing(t, h) /\ Storing(u, h) => t = u
        /\ host = h => Due(h) \/ UpToDate(h)

\* SnapshotFollows holds in every state: each change of the map is followed by an
\* update of whoever made it, and so is the installation of a host.
THEOREM SnapshotFollowsInvariant == Spec => []SnapshotFollows
<1>1. Init => SnapshotFollows
  BY NoHostIsNil, TaskNames DEF Init, SnapshotFollows, Storing
<1>2. TypeOK /\ Origins /\ SnapshotFollows /\ [Next]_vars => SnapshotFollows'
  <2> SUFFICES ASSUME TypeOK, Origins, SnapshotFollows, [Next]_vars,
                      NEW h \in Hosts, h \notin disturbed'
               PROVE  /\ \A t \in Tasks, u \in Tasks :
                             Storing(t, h)' /\ Storing(u, h)' => t = u
                      /\ host' = h => Due(h)' \/ UpToDate(h)'
    BY DEF SnapshotFollows
  <2> DEFINE Goal == /\ \A t \in Tasks, u \in Tasks :
                            Storing(t, h)' /\ Storing(u, h)' => t = u
                     /\ host' = h => Due(h)' \/ UpToDate(h)'
  <2> USE NoHostIsNil, TaskNames DEF TypeOK, Goto, views, checks, Starts
  <2>0. ASSUME h \notin disturbed
        PROVE  /\ \A t \in Tasks, u \in Tasks : Storing(t, h) /\ Storing(u, h) => t = u
               /\ host = h => Due(h) \/ UpToDate(h)
    BY <2>0 DEF SnapshotFollows
  \* A step that stores nothing and builds nothing keeps what is up to date.
  <2>1. ASSUME h \notin disturbed, UNCHANGED <<snapshot, built, Present>>,
               \A t \in Tasks : Storing(t, h)' <=> Storing(t, h),
               host' = h => host = h /\ (Due(h) => Due(h)')
        PROVE  Goal
    BY <2>0, <2>1 DEF UpToDate
  <2>2. ASSUME NEW t \in Tasks, LoadHost(t) PROVE Goal
    <3>1. /\ h \notin disturbed /\ UNCHANGED <<host, snapshot, built, Present>>
          /\ pc[t] = "load" /\ at' = [at EXCEPT ![t] = host]
          /\ pc' = [pc EXCEPT ![t] = IF host = NoHost THEN AfterUpdate(t) ELSE "build"]
      BY <2>2 DEF LoadHost, Present
    <3>2. \A u \in Tasks : Storing(u, h)' <=> Storing(u, h)
      BY <3>1, AfterUpdateLabels DEF Storing
    <3>3. host' = h => Due(h)'
      BY <3>1 DEF Due
    <3> QED
      BY <2>1, <3>1, <3>2, <3>3
  <2>3. ASSUME NEW t \in Tasks, BuildSnapshot(t) PROVE Goal
    <3>1. /\ UNCHANGED <<host, snapshot, at, Present>>
          /\ pc[t] = "build" /\ pc' = [pc EXCEPT ![t] = "store"]
          /\ built' = [built EXCEPT ![t] = Present]
      BY <2>3 DEF BuildSnapshot, Present
    <3>2. CASE at[t] = h
      <4>1. \A u \in Tasks : ~Storing(u, h)
        BY <2>3, <3>2 DEF BuildSnapshot, Storing
      <4>2. Storing(t, h)' /\ built'[t] = Present'
        BY <3>1, <3>2 DEF Storing
      <4>3. \A u \in Tasks : Storing(u, h)' => u = t
        BY <3>1, <4>1 DEF Storing
      <4> QED
        BY <4>2, <4>3 DEF UpToDate
    <3>3. CASE at[t] # h
      <4>1. h \notin disturbed
        BY <2>3, <3>3 DEF BuildSnapshot
      <4>2. \A u \in Tasks : Storing(u, h)' <=> Storing(u, h)
        BY <3>1, <3>3 DEF Storing
      <4>3. \A u \in Tasks : Storing(u, h) => built'[u] = built[u]
        BY <3>1, <3>3 DEF Storing
      <4>4. Due(h) => Due(h)'
        BY <2>3, <3>1, <3>3 DEF Due, BuildSnapshot
      <4> QED
        BY <2>0, <3>1, <4>1, <4>2, <4>3, <4>4 DEF UpToDate
    <3> QED
      BY <3>2, <3>3
  <2>4. ASSUME NEW t \in Tasks, StoreSnapshot(t) PROVE Goal
    <3>1. /\ h \notin disturbed /\ UNCHANGED <<host, viewers, Present>>
          /\ pc[t] = "store" /\ at[t] \in Hosts
          /\ pc' = [pc EXCEPT ![t] = AfterUpdate(t)]
          /\ at' = [at EXCEPT ![t] = NoHost]
          /\ built' = [built EXCEPT ![t] = {}]
          /\ snapshot' = [snapshot EXCEPT ![at[t]] = built[t]]
      BY <2>4 DEF StoreSnapshot, Present
    <3>2. \A u \in Tasks : Storing(u, h)' <=> u # t /\ Storing(u, h)
      BY <3>1, AfterUpdateLabels DEF Storing
    <3>3. Due(h) => Due(h)'
      BY <3>1, AfterUpdateLabels DEF Due
    <3>4. ASSUME UpToDate(h) PROVE UpToDate(h)'
      <4>1. CASE at[t] = h
        <5>1. Storing(t, h)
          BY <3>1, <4>1 DEF Storing
        <5>2. built[t] = Present
          BY <2>0, <3>1, <3>4, <5>1 DEF UpToDate
        <5>3. snapshot'[h] = Present'
          BY <3>1, <4>1, <5>2
        <5>4. \A u \in Tasks : ~Storing(u, h)'
          BY <2>0, <3>1, <3>2, <5>1
        <5> QED
          BY <5>3, <5>4 DEF UpToDate
      <4>2. CASE at[t] # h
        <5>1. snapshot'[h] = snapshot[h]
          BY <3>1, <4>2
        <5>2. \A u \in Tasks : Storing(u, h) => u # t /\ built'[u] = built[u]
          BY <3>1, <4>2 DEF Storing
        <5> QED
          BY <3>1, <3>2, <3>4, <5>1, <5>2 DEF UpToDate
      <4> QED
        BY <4>1, <4>2
    <3> QED
      BY <2>0, <3>1, <3>2, <3>3, <3>4
  <2>5. ASSUME NEW t \in Tasks, ClearViews(t) PROVE Goal
    <3>1. /\ h \notin disturbed /\ UNCHANGED <<host, built, viewers, Present>>
          /\ pc[t] = "unflag" /\ host # at[t]
          /\ snapshot' = [snapshot EXCEPT ![at[t]] = {}]
          /\ at' = [at EXCEPT ![t] = NoHost]
          /\ \/ pc' = [pc EXCEPT ![t] = "isEmpty"]
             \/ pc' = [pc EXCEPT ![t] = "done"]
      BY <2>5 DEF ClearViews, Present, Origins
    <3>2. \A u \in Tasks : Storing(u, h)' <=> Storing(u, h)
      BY <3>1 DEF Storing
    <3>3. Due(h) => Due(h)'
      BY <3>1 DEF Due
    <3>4. host = h => snapshot'[h] = snapshot[h]
      BY <3>1
    <3> QED
      BY <2>0, <3>1, <3>2, <3>3, <3>4 DEF UpToDate
  <2>6. ASSUME NEW t \in Tasks, CloseIfEmpty(t) PROVE Goal
    <3>1. /\ h \notin disturbed /\ UNCHANGED <<host, snapshot, built, Present>>
      BY <2>6 DEF CloseIfEmpty, Present
    <3>2. \A u \in Tasks : Storing(u, h)' <=> Storing(u, h)
      BY <2>6 DEF CloseIfEmpty, Storing
    <3>3. Due(h) => Due(h)'
      BY <2>6 DEF CloseIfEmpty, Due
    <3> QED
      BY <2>1, <3>1, <3>2, <3>3
  <2>7. ASSUME NEW g \in Hosts, InstallHost(g) PROVE Goal
    <3>1. h \notin disturbed
      BY <2>7 DEF InstallHost
    <3>2. \A u \in Tasks : Storing(u, h)' <=> Storing(u, h)
      BY <2>7 DEF InstallHost, Storing
    <3>3. Due(h)'
      BY <2>7 DEF InstallHost, Due
    <3> QED
      BY <2>0, <3>1, <3>2, <3>3
  <2>8. ASSUME NEW g \in Hosts, ClearSnapshot(g) PROVE Goal
    <3>1. h \notin disturbed
      BY <2>8 DEF ClearSnapshot
    <3>2. \A u \in Tasks : Storing(u, h)' <=> Storing(u, h)
      BY <2>8 DEF ClearSnapshot, Storing
    <3>3. Due(h)'
      BY <2>8 DEF ClearSnapshot, Due
    <3> QED
      BY <2>0, <3>1, <3>2, <3>3
  <2>9. ASSUME NEW g \in Hosts, SetHasHost(g) PROVE Goal
    <3>1. h \notin disturbed /\ UNCHANGED <<host, snapshot, built, Present>>
      BY <2>9 DEF SetHasHost, Present
    <3>2. \A u \in Tasks : Storing(u, h)' <=> Storing(u, h)
      BY <2>9 DEF SetHasHost, Storing
    <3>3. Due(h) => Due(h)'
      BY <2>9 DEF SetHasHost, Due
    <3> QED
      BY <2>1, <3>1, <3>2, <3>3
  <2>10. ASSUME NEW t \in Tasks, NEW g \in Hosts, TakeOut(t, g), pc[t] # "store"
         PROVE  Goal
    <3>1. h \notin disturbed /\ host' = NoHost
      BY <2>10 DEF TakeOut
    <3>2. \A u \in Tasks : Storing(u, h)' <=> Storing(u, h)
      BY <2>10 DEF TakeOut, Storing
    <3> QED
      BY <2>0, <3>1, <3>2
  <2>11. ASSUME NEW v \in Viewers, InsertViewer(v) PROVE Goal
    <3>1. h \notin disturbed
      BY <2>11 DEF InsertViewer
    <3>2. \A u \in Tasks : Storing(u, h)' <=> Storing(u, h)
      BY <2>11 DEF InsertViewer, Storing
    <3>3. Due(h)'
      BY <2>11 DEF InsertViewer, Due
    <3> QED
      BY <2>0, <3>1, <3>2, <3>3
  <2>12. ASSUME NEW v \in Viewers, CloseViewer(v) PROVE Goal
    <3>1. h \notin disturbed /\ UNCHANGED <<host, snapshot, built, viewers>>
          /\ closed' = closed \cup {v}
      BY <2>12 DEF CloseViewer
    <3>2. \A u \in Tasks : Storing(u, h)' <=> Storing(u, h)
      BY <2>12 DEF CloseViewer, Storing
    <3>3. v \in viewers => Due(h)'
      BY <2>12 DEF CloseViewer, Due
    <3>4. Due(h) => Due(h)'
      BY <2>12 DEF CloseViewer, Due
    <3>5. v \notin viewers => Present' = Present
      BY <3>1 DEF Present
    <3> QED
      BY <2>0, <2>1, <3>1, <3>2, <3>3, <3>4, <3>5
  <2>13. ASSUME NEW v \in Viewers, DeleteViewer(v) PROVE Goal
    <3>1. h \notin disturbed /\ UNCHANGED <<host, snapshot, built>>
      BY <2>13 DEF DeleteViewer
    <3>2. \A u \in Tasks : Storing(u, h)' <=> Storing(u, h)
      BY <2>13 DEF DeleteViewer, Storing
    <3>3. v \in viewers => Due(h)'
      BY <2>13 DEF DeleteViewer, Due
    <3>4. v \notin viewers => Present' = Present /\ (Due(h) => Due(h)')
      BY <2>13 DEF DeleteViewer, Due, Present
    <3> QED
      BY <2>0, <2>1, <3>1, <3>2, <3>3, <3>4
  <2>14. CASE CollectViewers
    <3>1. h \notin disturbed
      BY <2>14 DEF CollectViewers
    <3>2. \A u \in Tasks : Storing(u, h)' <=> Storing(u, h)
      BY <2>14 DEF CollectViewers, Storing
    <3>3. Due(h)'
      BY <2>14 DEF CollectViewers, Due
    <3> QED
      BY <2>0, <3>1, <3>2, <3>3
  <2>15. CASE CloseViewers
    <3>1. h \notin disturbed
      BY <2>15 DEF CloseViewers
    <3>2. pc'[Closing] = "load"
      BY <2>15 DEF CloseViewers
    <3>3. \A u \in Tasks : Storing(u, h)' => Storing(u, h)
      BY <2>15 DEF CloseViewers, Storing
    <3>4. Due(h)'
      BY <3>2 DEF Due
    <3> QED
      BY <2>0, <3>1, <3>3, <3>4
  <2>16. CASE CloseRemovesHost
    <3>1. ASSUME NEW g \in Hosts, TakeOut(Closing, g) PROVE Goal
      BY <2>10, <2>16, <3>1 DEF CloseRemovesHost
    <3>2. CASE \A g \in Hosts : ~TakeOut(Closing, g)
      <4>1. /\ h \notin disturbed /\ UNCHANGED <<host, snapshot, built, Present>>
        BY <2>16, <3>2 DEF CloseRemovesHost, Present
      <4>2. \A u \in Tasks : Storing(u, h)' <=> Storing(u, h)
        BY <2>16, <3>2 DEF CloseRemovesHost, Storing
      <4>3. Due(h) => Due(h)'
        BY <2>16, <3>2 DEF CloseRemovesHost, Due
      <4> QED
        BY <2>1, <4>1, <4>2, <4>3
    <3> QED
      BY <3>1, <3>2
  <2>17. CASE UNCHANGED vars
    BY <2>0, <2>17 DEF vars, Storing, Due, UpToDate, Present
  <2>18. ASSUME NEW g \in Hosts, RemoveHost(g) PROVE Goal
    BY <2>10, <2>18 DEF RemoveHost
  <2> QED
    BY <2>2, <2>3, <2>4, <2>5, <2>6, <2>7, <2>8, <2>9, <2>11, <2>12, <2>13, <2>14,
       <2>15, <2>16, <2>17, <2>18 DEF Next
<1> QED
  BY <1>1, <1>2, TypeCorrect, OriginsInvariant, PTL DEF Spec

\* At rest nothing is due and nothing unstored, and no viewer in the map is closed:
\* the publisher sends to the viewers of the session.
THEOREM SnapshotRight == Spec => []SnapshotAtRest
<1>1. TypeOK /\ Origins /\ SnapshotFollows => SnapshotAtRest
  <2> SUFFICES ASSUME TypeOK, Origins, SnapshotFollows, Quiescent,
                      host \notin disturbed \cup {NoHost}
               PROVE  snapshot[host] = viewers
    BY DEF SnapshotAtRest
  <2>1. \A t \in Tasks : pc[t] \in {"idle", "done"}
    BY DEF Quiescent, Busy
  <2>2. ~Due(host)
    BY <2>1, TaskNames DEF Due, TypeOK
  <2>3. snapshot[host] = Present
    BY <2>1, <2>2 DEF SnapshotFollows, UpToDate, Storing, TypeOK
  <2>4. viewers \cap closed = {}
    BY <2>1, TaskNames DEF Origins, TypeOK
  <2> QED
    BY <2>3, <2>4 DEF Present
<1> QED
  BY <1>1, TypeCorrect, OriginsInvariant, SnapshotFollowsInvariant, PTL

-----------------------------------------------------------------------------
(* Profiles: the calls. *)

\* A call that writes a file, and one that has been given its token by a profile.
Filling  == {"fillNew", "fill"}
Updating == {"find", "update", "fill", "reread", "apply", "join"}

CallType ==
    [op    : {"idle", "create", "remove", "rename", "fillNew"} \cup Updating,
     key   : MCProfileKeys \cup {Nothing},
     token : 0..MaxToken,
     name  : P!Names \cup {Nothing},
     text  : Texts \cup {Welcome, Nothing},
     alone : BOOLEAN]

\* What a call has read, at each place: only a file that is open may have
\* been renamed, and what is looked up by key may belong to a longer key.
CallRecords ==
    {c \in CallType :
        /\ c.op = "idle" <=> c.key = Nothing
        /\ c.op \in {"create", "fillNew"} => c.text = Welcome
        /\ c.op \in {"find", "update", "fill"} => c.text \in Texts
        /\ c.op \in {"apply", "join"} => c.text # Nothing
        /\ c.op \in {"create", "rename"} => c.token > 0
        /\ c.op \in {"create", "find", "update"} =>
              c.name # Nothing /\ c.name.key = c.key /\ c.name.token = c.token
        /\ c.op \in {"remove", "rename"} =>
              c.name # Nothing /\ <<Head(c.name.key)>> = c.key}

\* d is at the same place as c, with what c has been given and read.
SameCall(c, d) == /\ d.op = c.op /\ d.key = c.key /\ d.token = c.token
                  /\ d.text = c.text

\* A call goes on.
LEMMA NextRecords ==
    ASSUME NEW c \in CallRecords
    PROVE  /\ c.op = "create" => [c EXCEPT !.op = "fillNew"] \in CallRecords
           /\ c.op = "update" => [c EXCEPT !.op = "fill"] \in CallRecords
           /\ c.op = "fill" => [c EXCEPT !.op = "reread"] \in CallRecords
           /\ c.op = "find" => [c EXCEPT !.op = "update"] \in CallRecords
           /\ \A x \in Texts \cup {Welcome} : c.op = "reread" =>
                 [c EXCEPT !.op = "apply", !.text = x] \in CallRecords
  BY ProfilesAssumption DEF CallRecords, CallType, Updating

\* A call learns that it is not alone, ends, or its file is renamed.
LEMMA OtherRecords ==
    /\ P!Idle \in CallRecords
    /\ \A c \in CallRecords : [c EXCEPT !.alone = FALSE] \in CallRecords
    /\ \A c \in CallRecords, n \in P!Names \cup {Nothing} :
          c.op \in Filling => [c EXCEPT !.name = n] \in CallRecords
<1>1. P!Idle \in CallRecords
  BY ProfilesAssumption DEF CallRecords, CallType, P!Idle, Updating
<1>2. \A c \in CallRecords : [c EXCEPT !.alone = FALSE] \in CallRecords
  <2> TAKE c \in CallRecords
  <2> QED
    BY DEF CallRecords, CallType, Updating
<1>3. \A c \in CallRecords, n \in P!Names \cup {Nothing} :
          c.op \in Filling => [c EXCEPT !.name = n] \in CallRecords
  BY DEF CallRecords, CallType, Filling
<1> QED
  BY <1>1, <1>2, <1>3

\* A call begins: those about the same key are not alone any more.
Began(r, op, k, t, n, x) ==
    /\ call' \in [ProfileCalls -> CallRecords]
    /\ call[r].op = "idle"
    /\ call'[r].op = op /\ call'[r].key = k /\ call'[r].token = t
    /\ call'[r].name = n /\ call'[r].text = x
    /\ call'[r].alone => \A s \in ProfileCalls : call[s].key # k
    /\ \A s \in ProfileCalls \ {r} :
          /\ SameCall(call[s], call'[s]) /\ call'[s].name = call[s].name
          /\ call'[s].alone => call[s].alone /\ call[s].key # k
          /\ call[s].alone /\ ~call'[s].alone => call[s].key = k
    /\ ~call'[r].alone => \E s \in ProfileCalls : call[s].key = k
    /\ (\E s \in ProfileCalls : call[s].key = k) => k \in unsettled'
    /\ op = "create" /\ live[k] # Nothing => k \in unsettled'
    /\ unsettled' = unsettled \/ unsettled' = unsettled \cup {k}

\* A call goes on, or ends.
Went(r, op) ==
    /\ call' \in [ProfileCalls -> CallRecords]
    /\ call'[r].op = op /\ call'[r].key = call[r].key
    /\ call'[r].token = call[r].token /\ call'[r].name = call[r].name
    /\ call'[r].text = call[r].text /\ call'[r].alone = call[r].alone
    /\ \A s \in ProfileCalls \ {r} : call'[s] = call[s]

Ended(r) ==
    /\ call' \in [ProfileCalls -> CallRecords]
    /\ call'[r] = P!Idle /\ call'[r].op = "idle" /\ call'[r].key = Nothing
    /\ call'[r].token = 0

\* The others stay, or have the file that was old and is new.
MovedOthers(r, old, new) ==
    \A s \in ProfileCalls \ {r} :
        /\ SameCall(call[s], call'[s]) /\ call'[s].alone = call[s].alone
        /\ call[s].op \in Filling /\ call[s].name = old => call'[s].name = new
        /\ ~(call[s].op \in Filling /\ call[s].name = old) =>
              call'[s].name = call[s].name

\* A request begins with a record of the type.
LEMMA BeginsCalls ==
    ASSUME call \in [ProfileCalls -> CallRecords], NEW r \in ProfileCalls,
           NEW op, NEW k \in MCProfileKeys, NEW t, NEW n, NEW x,
           P!Begins(r, op, k, t, n, x),
           \A alone \in BOOLEAN :
              [op |-> op, key |-> k, token |-> t, name |-> n, text |-> x,
               alone |-> alone] \in CallRecords
    PROVE  Began(r, op, k, t, n, x)
<1>1. /\ call[r].op = "idle"
      /\ call' = [s \in ProfileCalls |->
           IF s = r THEN [op |-> op, key |-> k, token |-> t, name |-> n,
                          text |-> x, alone |-> P!About(k) = {}]
           ELSE IF s \in P!About(k) THEN [call[s] EXCEPT !.alone = FALSE] ELSE call[s]]
      /\ unsettled' = IF P!About(k) = {} /\ (op = "create" => live[k] = Nothing)
                      THEN unsettled ELSE unsettled \cup {k}
  BY DEF P!Begins
<1>2. /\ call'[r] = [op |-> op, key |-> k, token |-> t, name |-> n,
                     text |-> x, alone |-> P!About(k) = {}]
      /\ (P!About(k) = {}) \in BOOLEAN
  BY <1>1, Zenon
<1>3. \A s \in ProfileCalls \ {r} :
         call'[s] = IF call[s].key = k THEN [call[s] EXCEPT !.alone = FALSE] ELSE call[s]
  BY <1>1 DEF P!About
<1>4. call' \in [ProfileCalls -> CallRecords]
  <2>1. call'[r] \in CallRecords
    BY <1>2, Zenon
  <2>2. \A s \in ProfileCalls \ {r} : call'[s] \in CallRecords
    BY <1>3, OtherRecords
  <2>3. DOMAIN call' = ProfileCalls /\ call' = [s \in DOMAIN call' |-> call'[s]]
    BY <1>1, Zenon
  <2> QED
    BY <2>1, <2>2, <2>3
<1>5. /\ call'[r].op = op /\ call'[r].key = k /\ call'[r].token = t
      /\ call'[r].name = n /\ call'[r].text = x
  BY <1>2
<1>6. call'[r].alone = (P!About(k) = {})
  <2>1. \A b : [op |-> op, key |-> k, token |-> t, name |-> n, text |-> x,
                alone |-> b].alone = b
    OBVIOUS
  <2> QED
    BY <1>2, <2>1, Zenon
<1>7. ASSUME NEW s \in ProfileCalls \ {r}
      PROVE  /\ SameCall(call[s], call'[s]) /\ call'[s].name = call[s].name
             /\ call'[s].alone => call[s].alone /\ call[s].key # k
             /\ call[s].alone /\ ~call'[s].alone => call[s].key = k
  <2>1. call[s] \in CallRecords
    OBVIOUS
  <2>2. CASE call[s].key = k
    <3>1. call[s] \in CallType
      BY <2>1 DEF CallRecords
    <3>2. call'[s] = [call[s] EXCEPT !.alone = FALSE]
      BY <1>3, <2>2
    <3>3. SameCall(call[s], call'[s]) /\ call'[s].name = call[s].name
      BY <3>1, <3>2 DEF SameCall, CallType
    <3>4. ~call'[s].alone
      BY <3>1, <3>2 DEF CallType
    <3> QED
      BY <2>2, <3>3, <3>4
  <2>3. CASE call[s].key # k
    BY <1>3, <2>1, <2>3 DEF SameCall
  <2> QED
    BY <2>2, <2>3
<1>8. P!About(k) = {} <=> \A s \in ProfileCalls : call[s].key # k
  BY DEF P!About
<1> QED
  BY <1>1, <1>4, <1>5, <1>6, <1>7, <1>8 DEF Began

\* A request goes on to its next step.
LEMMA GoesCalls ==
    ASSUME call \in [ProfileCalls -> CallRecords], NEW r \in ProfileCalls,
           NEW op, P!Goes(r, op), [call[r] EXCEPT !.op = op] \in CallRecords
    PROVE  Went(r, op)
<1>1. call' = [call EXCEPT ![r] = [call[r] EXCEPT !.op = op]]
  BY DEF P!Goes
<1>2. call[r] \in CallType
  BY DEF CallRecords
<1> QED
  BY <1>1, <1>2 DEF Went, CallType

\* A request ends and others go on.
LEMMA EndsCalls ==
    ASSUME call \in [ProfileCalls -> CallRecords], NEW r \in ProfileCalls, P!Ends(r)
    PROVE  Ended(r) /\ \A s \in ProfileCalls \ {r} : call'[s] = call[s]
  BY OtherRecords DEF P!Ends, P!Idle, Ended

\* A renamed or removed file moves the descriptors that are open on it.
LEMMA MovedCalls ==
    ASSUME call \in [ProfileCalls -> CallRecords], NEW r \in ProfileCalls,
           NEW old \in P!Names, NEW new \in P!Names \cup {Nothing},
           call' = [P!Moved(old, new) EXCEPT ![r] = P!Idle]
    PROVE  Ended(r) /\ MovedOthers(r, old, new)
<1>1. \A s \in ProfileCalls : call[s] \in CallRecords /\ call[s] \in CallType
  BY DEF CallRecords
<1>2. \A s \in ProfileCalls :
          P!Moved(old, new)[s] = IF call[s].op \in Filling /\ call[s].name = old
                                 THEN [call[s] EXCEPT !.name = new] ELSE call[s]
  BY DEF P!Moved, Filling
<1>3. P!Moved(old, new) \in [ProfileCalls -> CallRecords]
  BY <1>1, <1>2, OtherRecords DEF P!Moved, Filling
<1>4. /\ call' \in [ProfileCalls -> CallRecords]
      /\ call'[r] = P!Idle
      /\ \A s \in ProfileCalls \ {r} : call'[s] = P!Moved(old, new)[s]
  BY <1>3, OtherRecords
<1>5. ASSUME NEW s \in ProfileCalls \ {r}
      PROVE  /\ SameCall(call[s], call'[s]) /\ call'[s].alone = call[s].alone
             /\ call[s].op \in Filling /\ call[s].name = old => call'[s].name = new
             /\ ~(call[s].op \in Filling /\ call[s].name = old) =>
                   call'[s].name = call[s].name
  BY <1>1, <1>2, <1>4, <1>5 DEF SameCall, CallType
<1> QED
  BY <1>4, <1>5 DEF P!Idle, Ended, MovedOthers

-----------------------------------------------------------------------------
(* Profiles: their types, and what each step does. *)

ProfileShape ==
    /\ directory \in [P!Stored -> P!Contents] /\ P!Stored \subseteq P!Names
    /\ \A n \in P!Stored : n.token <= token
    /\ token \in 0..MaxToken
    /\ call \in [ProfileCalls -> CallRecords]
    /\ \A r \in ProfileCalls : call[r].token <= token
    /\ live \in [MCProfileKeys -> Texts \cup {Welcome, Nothing}]
    /\ torn \subseteq P!Stored
    /\ twins \subseteq MCProfileKeys /\ unsettled \subseteq MCProfileKeys

\* What a call is about.
LEMMA CallFacts ==
    ASSUME ProfileShape, NEW r \in ProfileCalls
    PROVE  /\ call[r] \in CallType
           /\ call[r].op = "idle" <=> call[r].key = Nothing
           /\ call[r].op # "idle" => call[r].key \in MCProfileKeys
           /\ call[r].op \in {"create", "fillNew"} => call[r].text = Welcome
           /\ call[r].op \in {"find", "update", "fill"} => call[r].text \in Texts
           /\ call[r].op \in {"apply", "join"} => call[r].text \in Texts \cup {Welcome}
           /\ call[r].op \in {"create", "rename"} => call[r].token \in 1..MaxToken
           /\ call[r].op \in {"create", "find", "update"} =>
                 /\ call[r].name = [key |-> call[r].key, token |-> call[r].token]
                 /\ call[r].name \in P!Names
           /\ call[r].op \in {"remove", "rename"} =>
                 call[r].name \in P!Names /\ <<Head(call[r].name.key)>> = call[r].key
           /\ call[r].token <= token
<1>1. call[r] \in CallRecords
  BY DEF ProfileShape
<1>2. call[r] \in CallType /\ call[r].token <= token
  BY <1>1 DEF CallRecords, ProfileShape
<1>3. /\ call[r].op = "idle" <=> call[r].key = Nothing
      /\ call[r].op # "idle" => call[r].key \in MCProfileKeys
      /\ call[r].op \in {"create", "fillNew"} => call[r].text = Welcome
      /\ call[r].op \in {"find", "update", "fill"} => call[r].text \in Texts
      /\ call[r].op \in {"apply", "join"} => call[r].text \in Texts \cup {Welcome}
      /\ call[r].op \in {"create", "rename"} => call[r].token \in 1..MaxToken
  BY <1>1, ProfilesAssumption DEF CallRecords, CallType
<1>4. call[r].op \in {"create", "find", "update", "remove", "rename"} =>
          call[r].name \in P!Names
  BY <1>1 DEF CallRecords, CallType
<1>5. \A n \in P!Names : n = [key |-> n.key, token |-> n.token]
  BY DEF P!Names
<1>6. /\ call[r].op \in {"create", "find", "update"} =>
            call[r].name.key = call[r].key /\ call[r].name.token = call[r].token
      /\ call[r].op \in {"remove", "rename"} => <<Head(call[r].name.key)>> = call[r].key
  BY <1>1 DEF CallRecords
<1> QED
  BY <1>2, <1>3, <1>4, <1>5, <1>6

\* Two names are the same when their keys and tokens are.
LEMMA SameName ==
    \A m, n \in P!Names : m.key = n.key /\ m.token = n.token => m = n
  BY DEF P!Names

\* Requests that begin.
LEMMA CreateBegins ==
    ASSUME ProfileShape, NEW r \in ProfileCalls, NEW k \in MCProfileKeys,
           P!CreateProfile(r, k)
    PROVE  /\ Began(r, "create", k, token + 1, [key |-> k, token |-> token + 1], Welcome)
           /\ token' = token + 1 /\ token' \in 0..MaxToken
           /\ ~P!HasStreamKey(k)
           /\ twins \subseteq twins' /\ twins' \subseteq MCProfileKeys
           /\ (\E s \in ProfileCalls : call[s].key = k /\ call[s].op = "create") =>
                 k \in twins'
           /\ UNCHANGED <<directory, live, torn>>
<1>1. token + 1 \in 1..MaxToken /\ token' = token + 1
  BY ProfilesAssumption DEF P!CreateProfile, ProfileShape
<1>2. [key |-> k, token |-> token + 1] \in P!Names
  BY <1>1 DEF P!Names
<1>3. \A alone \in BOOLEAN :
         [op |-> "create", key |-> k, token |-> token + 1,
          name |-> [key |-> k, token |-> token + 1], text |-> Welcome,
          alone |-> alone] \in CallRecords
  BY <1>1, <1>2, ProfilesAssumption DEF CallRecords, CallType
<1>4. P!Begins(r, "create", k, token + 1, [key |-> k, token |-> token + 1], Welcome)
  BY DEF P!CreateProfile
<1>5. Began(r, "create", k, token + 1, [key |-> k, token |-> token + 1], Welcome)
  BY <1>3, <1>4, BeginsCalls DEF ProfileShape
<1>6. /\ twins \subseteq twins' /\ twins' \subseteq MCProfileKeys
      /\ (\E s \in ProfileCalls : call[s].key = k /\ call[s].op = "create") =>
            k \in twins'
  BY DEF P!CreateProfile, P!About, ProfileShape
<1> QED
  BY <1>1, <1>5, <1>6, ProfilesAssumption DEF P!CreateProfile

\* What each step does, in the terms of the invariants: an update or a look-up begins,
LEMMA UpdateBegins ==
    ASSUME ProfileShape, NEW r \in ProfileCalls, NEW n \in P!Stored,
           NEW op, NEW x,
           \/ op = "find" /\ x \in Texts /\ P!UpdateProfile(r, n, x)
           \/ op = "join" /\ x = directory[n] /\ P!ReadProfile(r, n)
    PROVE  /\ Began(r, op, n.key, n.token, n, x)
           /\ n.key \in MCProfileKeys /\ n.token \in 1..token
           /\ UNCHANGED <<directory, live, token, torn, twins>>
<1>1. n \in P!Names /\ n.key \in MCProfileKeys /\ n.token \in 1..MaxToken /\ n.token <= token
  BY DEF ProfileShape, P!Names
<1>2. op = "join" => x \in Texts \cup {Welcome}
  BY ProfilesAssumption DEF ProfileShape, P!Contents, P!ReadProfile, P!Whole, P!UpdateProfile
<1>3. \A alone \in BOOLEAN :
         [op |-> op, key |-> n.key, token |-> n.token, name |-> n, text |-> x,
          alone |-> alone] \in CallRecords
  BY <1>1, <1>2, ProfilesAssumption DEF CallRecords, CallType, Updating
<1>4. P!Begins(r, op, n.key, n.token, n, x)
  BY DEF P!UpdateProfile, P!ReadProfile
<1>5. Began(r, op, n.key, n.token, n, x)
  BY <1>1, <1>3, <1>4, BeginsCalls DEF ProfileShape
<1> QED
  BY <1>1, <1>5 DEF P!UpdateProfile, P!ReadProfile, ProfileShape

\* a removal or a reset has found a profile by the first part of its name,
LEMMA FindBegins ==
    ASSUME ProfileShape, NEW r \in ProfileCalls, NEW k \in MCProfileKeys,
           P!FindToRemove(r, k) \/ P!FindToReset(r, k)
    PROVE  /\ \E n \in P!Stored, op \in {"remove", "rename"}, t \in 0..MaxToken :
                 /\ Began(r, op, k, t, n, Nothing)
                 /\ k = <<Head(n.key)>>
                 /\ op = "rename" => t = token + 1 /\ token' = token + 1
                 /\ op = "remove" => t = 0 /\ token' = token
           /\ token' \in 0..MaxToken
           /\ UNCHANGED <<directory, live, torn, twins>>
<1>1. P!Stored \subseteq P!Names /\ call \in [ProfileCalls -> CallRecords]
  BY DEF ProfileShape
<1>2. ASSUME NEW n \in P!Stored, NEW op \in {"remove", "rename"}, NEW t \in 0..MaxToken,
             k = <<Head(n.key)>>, op = "rename" => t > 0,
             P!Begins(r, op, k, t, n, Nothing)
      PROVE  Began(r, op, k, t, n, Nothing)
  <2>1. \A alone \in BOOLEAN :
           [op |-> op, key |-> k, token |-> t, name |-> n, text |-> Nothing,
            alone |-> alone] \in CallRecords
    BY <1>1, <1>2, ProfilesAssumption DEF CallRecords, CallType
  <2> QED
    BY <1>1, <1>2, <2>1, BeginsCalls
<1>3. CASE P!FindToRemove(r, k)
  <2>1. PICK n \in P!OfStreamKey(k) : P!Begins(r, "remove", k, 0, n, Nothing)
    BY <1>3 DEF P!FindToRemove
  <2>2. n \in P!Stored /\ k = <<Head(n.key)>>
    BY DEF P!OfStreamKey
  <2>3. Began(r, "remove", k, 0, n, Nothing)
    BY <1>2, <2>1, <2>2, ProfilesAssumption
  <2> QED
    BY <1>3, <2>2, <2>3, ProfilesAssumption DEF P!FindToRemove, ProfileShape
<1>4. CASE P!FindToReset(r, k)
  <2>1. token + 1 \in 1..MaxToken /\ token' = token + 1
    BY <1>4, ProfilesAssumption DEF P!FindToReset, ProfileShape
  <2>2. PICK n \in P!OfStreamKey(k) : P!Begins(r, "rename", k, token + 1, n, Nothing)
    BY <1>4 DEF P!FindToReset
  <2>3. n \in P!Stored /\ k = <<Head(n.key)>>
    BY DEF P!OfStreamKey
  <2>4. Began(r, "rename", k, token + 1, n, Nothing)
    BY <1>2, <2>1, <2>2, <2>3
  <2> QED
    BY <1>4, <2>1, <2>3, <2>4 DEF P!FindToReset
<1> QED
  BY <1>3, <1>4

\* Requests that go on.  Those that write.
LEMMA Opens ==
    ASSUME ProfileShape, NEW r \in ProfileCalls, P!OpenFile(r)
    PROVE  /\ call[r].name = [key |-> call[r].key, token |-> call[r].token]
           /\ call[r].name \in P!Names
           /\ P!Stored' = P!Stored \cup {call[r].name}
           /\ directory' \in [P!Stored' -> P!Contents]
           /\ directory'[call[r].name] = Partial
           /\ \A n \in P!Stored : n # call[r].name => directory'[n] = directory[n]
           /\ \/ call[r].op = "create" /\ Went(r, "fillNew") /\ twins' = twins
              \/ /\ call[r].op = "update" /\ Went(r, "fill")
                 /\ twins' = IF call[r].name \notin P!Stored
                             THEN twins \cup {call[r].key} ELSE twins
           /\ UNCHANGED <<live, token, torn, unsettled>>
<1>1. /\ call[r].op \in {"create", "update"}
      /\ UNCHANGED <<live, token, torn, unsettled>>
      /\ twins' = IF call[r].op = "update" /\ call[r].name \notin P!Stored
                  THEN twins \cup {call[r].key} ELSE twins
      /\ P!Goes(r, IF call[r].op = "create" THEN "fillNew" ELSE "fill")
      /\ directory' = P!With(directory, call[r].name, Partial)
  BY DEF P!OpenFile
<1>2. /\ call[r].name = [key |-> call[r].key, token |-> call[r].token]
      /\ call[r].name \in P!Names
  BY <1>1, CallFacts
<1>3. /\ call[r].op = "create" => Went(r, "fillNew")
      /\ call[r].op = "update" => Went(r, "fill")
  BY <1>1, NextRecords, GoesCalls DEF ProfileShape
<1>4. /\ P!Stored' = P!Stored \cup {call[r].name}
      /\ directory' \in [P!Stored' -> P!Contents]
      /\ directory'[call[r].name] = Partial
      /\ \A n \in P!Stored : n # call[r].name => directory'[n] = directory[n]
  BY <1>1 DEF P!With, P!Stored, P!Contents, ProfileShape
<1> QED
  BY <1>1, <1>2, <1>3, <1>4

\* a file is filled,
LEMMA Fills ==
    ASSUME ProfileShape, NEW r \in ProfileCalls, P!FillFile(r)
    PROVE  /\ call[r].op \in Filling
           /\ P!Stored' = P!Stored
           /\ directory' \in [P!Stored -> P!Contents]
           /\ call[r].text \in Texts \cup {Welcome}
           /\ call[r].op = "fillNew" => call[r].text = Welcome
           /\ call[r].name \in P!Stored => directory'[call[r].name] = call[r].text
           /\ \A n \in P!Stored : n # call[r].name => directory'[n] = directory[n]
           /\ torn' = torn \ {call[r].name}
           /\ \/ call[r].op = "fill" /\ Went(r, "reread")
              \/ /\ call[r].op = "fillNew" /\ Ended(r)
                 /\ \A s \in ProfileCalls \ {r} : call'[s] = call[s]
           /\ UNCHANGED <<live, token, twins, unsettled>>
<1>1. /\ call[r].op \in Filling
      /\ call[r].text \in Texts \cup {Welcome}
      /\ call[r].op = "fillNew" => call[r].text = Welcome
  BY CallFacts DEF P!FillFile, Filling
<1>2. /\ call[r].op = "fill" => Went(r, "reread")
      /\ call[r].op = "fillNew" =>
            Ended(r) /\ \A s \in ProfileCalls \ {r} : call'[s] = call[s]
  BY NextRecords, GoesCalls, EndsCalls DEF P!FillFile, ProfileShape
<1>3. /\ P!Stored' = P!Stored
      /\ directory' \in [P!Stored -> P!Contents]
      /\ call[r].name \in P!Stored => directory'[call[r].name] = call[r].text
      /\ \A n \in P!Stored : n # call[r].name => directory'[n] = directory[n]
  BY <1>1 DEF P!FillFile, P!Stored, P!Contents, ProfileShape
<1> QED
  BY <1>1, <1>2, <1>3 DEF P!FillFile, Filling

\* a write is cut off,
LEMMA Fails ==
    ASSUME ProfileShape, NEW r \in ProfileCalls, P!WriteFails(r)
    PROVE  /\ call[r].op \in Filling
           /\ torn' = torn \cup ({call[r].name} \cap P!Stored)
           /\ Ended(r) /\ \A s \in ProfileCalls \ {r} : call'[s] = call[s]
           /\ UNCHANGED <<directory, live, token, twins, unsettled>>
  BY EndsCalls DEF P!WriteFails, ProfileShape, Filling

\* a file is removed,
LEMMA Removes ==
    ASSUME ProfileShape, NEW r \in ProfileCalls, P!RemoveFile(r)
    PROVE  /\ call[r].op = "remove"
           /\ call[r].name \in P!Names /\ <<Head(call[r].name.key)>> = call[r].key
           /\ P!Stored' = P!Stored \ {call[r].name}
           /\ directory' \in [P!Stored' -> P!Contents]
           /\ \A n \in P!Stored' : directory'[n] = directory[n]
           /\ torn' = torn \ {call[r].name}
           /\ Ended(r) /\ MovedOthers(r, call[r].name, Nothing)
           /\ UNCHANGED <<live, token, twins, unsettled>>
<1>1. /\ call[r].op = "remove"
      /\ call[r].name \in P!Names /\ <<Head(call[r].name.key)>> = call[r].key
  BY CallFacts DEF P!RemoveFile
<1>2. Ended(r) /\ MovedOthers(r, call[r].name, Nothing)
  BY <1>1, MovedCalls DEF P!RemoveFile, ProfileShape
<1>3. /\ P!Stored' = P!Stored \ {call[r].name}
      /\ directory' \in [P!Stored' -> P!Contents]
      /\ \A n \in P!Stored' : directory'[n] = directory[n]
  BY DEF P!RemoveFile, P!Without, P!Stored, ProfileShape
<1> QED
  BY <1>1, <1>2, <1>3 DEF P!RemoveFile

Renamed(r) == [key |-> call[r].key, token |-> call[r].token]

\* a file is renamed,
LEMMA Renames ==
    ASSUME ProfileShape, NEW r \in ProfileCalls, P!RenameFile(r)
    PROVE  /\ call[r].op = "rename"
           /\ call[r].name \in P!Names /\ <<Head(call[r].name.key)>> = call[r].key
           /\ Renamed(r) \in P!Names
           /\ UNCHANGED <<live, token, unsettled>>
           /\ Ended(r)
           /\ \/ /\ call[r].name \notin P!Stored
                 /\ \A s \in ProfileCalls \ {r} : call'[s] = call[s]
                 /\ UNCHANGED <<directory, torn, twins>>
              \/ /\ call[r].name \in P!Stored
                 /\ P!Stored' = (P!Stored \ {call[r].name}) \cup {Renamed(r)}
                 /\ directory' \in [P!Stored' -> P!Contents]
                 /\ directory'[Renamed(r)] = directory[call[r].name]
                 /\ \A n \in P!Stored : n # call[r].name /\ n # Renamed(r) =>
                       directory'[n] = directory[n]
                 /\ torn' = IF call[r].name \in torn
                            THEN (torn \ {call[r].name}) \cup {Renamed(r)} ELSE torn
                 /\ MovedOthers(r, call[r].name, Renamed(r))
                 /\ twins' = IF call[r].name.key # Renamed(r).key
                             THEN twins \cup {Renamed(r).key} ELSE twins
<1>1. /\ call[r].op = "rename"
      /\ call[r].name \in P!Names /\ <<Head(call[r].name.key)>> = call[r].key
      /\ call[r].key \in MCProfileKeys /\ call[r].token \in 1..MaxToken
  BY CallFacts DEF P!RenameFile
<1>2. Renamed(r) \in P!Names
  BY <1>1 DEF Renamed, P!Names
<1>3. CASE call[r].name \notin P!Stored
  BY <1>1, <1>2, <1>3, EndsCalls DEF P!RenameFile, ProfileShape
<1>4. CASE call[r].name \in P!Stored
  <2>1. Ended(r) /\ MovedOthers(r, call[r].name, Renamed(r))
    BY <1>1, <1>2, <1>4, MovedCalls DEF P!RenameFile, ProfileShape, Renamed
  <2>2. directory' = P!With(P!Without(directory, call[r].name), Renamed(r),
                            directory[call[r].name])
    BY <1>4 DEF P!RenameFile, Renamed
  <2>3. /\ P!Stored' = (P!Stored \ {call[r].name}) \cup {Renamed(r)}
        /\ directory' \in [P!Stored' -> P!Contents]
        /\ directory'[Renamed(r)] = directory[call[r].name]
        /\ \A n \in P!Stored : n # call[r].name /\ n # Renamed(r) =>
              directory'[n] = directory[n]
    BY <1>4, <2>2 DEF P!With, P!Without, P!Stored, ProfileShape
  <2>4. /\ torn' = IF call[r].name \in torn
                   THEN (torn \ {call[r].name}) \cup {Renamed(r)} ELSE torn
        /\ twins' = IF call[r].name.key # Renamed(r).key
                    THEN twins \cup {Renamed(r).key} ELSE twins
        /\ UNCHANGED <<live, token, unsettled>>
    BY <1>4 DEF P!RenameFile, Renamed
  <2> QED
    BY <1>1, <1>2, <1>4, <2>1, <2>3, <2>4
<1> QED
  BY <1>3, <1>4

\* Those that read, and those that show what was read.
LEMMA Reads ==
    ASSUME ProfileShape, NEW r \in ProfileCalls, P!FindAgain(r) \/ P!Reread(r)
    PROVE  /\ UNCHANGED <<directory, live, token, torn, twins, unsettled>>
           /\ \A s \in ProfileCalls \ {r} : call'[s] = call[s]
           /\ \/ call[r].op = "find" /\ Ended(r)
              \/ call[r].op = "find" /\ Went(r, "update")
              \/ /\ call[r].op = "reread" /\ Ended(r)
                 /\ \A n \in P!Stored : n.token = call[r].token => directory[n] = Partial
              \/ /\ call[r].op = "reread"
                 /\ call' \in [ProfileCalls -> CallRecords]
                 /\ call'[r].op = "apply" /\ call'[r].key = call[r].key
                 /\ call'[r].token = call[r].token /\ call'[r].alone = call[r].alone
                 /\ \E n \in P!Stored :
                       n.token = call[r].token /\ call'[r].text = directory[n]
<1>0. call[r] \in CallRecords /\ call[r] \in CallType /\ call \in [ProfileCalls -> CallRecords]
  BY CallFacts DEF ProfileShape
<1>1. CASE P!FindAgain(r)
  <2>1. call[r].op = "find" /\ [call[r] EXCEPT !.op = "update"] \in CallRecords
    BY <1>0, <1>1, NextRecords DEF P!FindAgain
  <2>2. /\ UNCHANGED <<directory, live, token, torn, twins, unsettled>>
        /\ P!Ends(r) \/ P!Goes(r, "update")
    BY <1>1 DEF P!FindAgain
  <2>3. CASE P!Ends(r)
    BY <1>0, <2>1, <2>2, <2>3, EndsCalls
  <2>4. CASE P!Goes(r, "update")
    BY <1>0, <2>1, <2>2, <2>4, GoesCalls DEF Went
  <2> QED
    BY <2>2, <2>3, <2>4
<1>2. CASE P!Reread(r)
  <2>1. call[r].op = "reread" /\ UNCHANGED <<directory, live, token, torn, twins, unsettled>>
    BY <1>2 DEF P!Reread
  <2>2. CASE /\ \A n \in P!OfToken(call[r].token) : ~P!Whole(n)
             /\ P!Ends(r)
    BY <1>0, <2>1, <2>2, EndsCalls DEF P!OfToken, P!Whole
  <2>3. CASE \E n \in P!OfToken(call[r].token) :
                /\ P!Whole(n)
                /\ call' = [call EXCEPT ![r].op = "apply", ![r].text = directory[n]]
    <3>1. PICK n \in P!OfToken(call[r].token) :
              /\ P!Whole(n)
              /\ call' = [call EXCEPT ![r].op = "apply", ![r].text = directory[n]]
      BY <2>3
    <3>2. n \in P!Stored /\ n.token = call[r].token /\ directory[n] \in Texts \cup {Welcome}
      BY <3>1 DEF P!OfToken, P!Whole, ProfileShape, P!Contents
    <3>3. [call[r] EXCEPT !.op = "apply", !.text = directory[n]] \in CallRecords
      BY <1>0, <2>1, <3>2, NextRecords
    <3>4. /\ call' = [call EXCEPT ![r] = [call[r] EXCEPT !.op = "apply", !.text = directory[n]]]
      BY <3>1
    <3>5. /\ call' \in [ProfileCalls -> CallRecords]
          /\ call'[r] = [call[r] EXCEPT !.op = "apply", !.text = directory[n]]
          /\ \A s \in ProfileCalls \ {r} : call'[s] = call[s]
      BY <1>0, <3>3, <3>4
    <3>6. /\ call'[r].op = "apply" /\ call'[r].key = call[r].key
          /\ call'[r].token = call[r].token /\ call'[r].alone = call[r].alone
          /\ call'[r].text = directory[n]
      BY <1>0, <3>5 DEF CallType
    <3> QED
      BY <2>1, <3>2, <3>5, <3>6
  <2> QED
    BY <1>2, <2>2, <2>3 DEF P!Reread
<1> QED
  BY <1>1, <1>2

\* a stream is made to show what was read,
LEMMA Shows ==
    ASSUME ProfileShape, NEW r \in ProfileCalls, P!Apply(r) \/ P!Publish(r)
    PROVE  /\ call[r].op \in {"apply", "join"} /\ call[r].key \in MCProfileKeys
           /\ \A k \in MCProfileKeys : k # call[r].key => live'[k] = live[k]
           /\ live'[call[r].key] \in {call[r].text, Nothing}
           /\ live' \in [MCProfileKeys -> Texts \cup {Welcome, Nothing}]
           /\ unsettled' = IF call[r].alone THEN unsettled \ {call[r].key} ELSE unsettled
           /\ Ended(r) /\ \A s \in ProfileCalls \ {r} : call'[s] = call[s]
           /\ UNCHANGED <<directory, token, torn, twins>>
<1>1. /\ call[r].op \in {"apply", "join"} /\ call[r].key \in MCProfileKeys
      /\ call[r].text \in Texts \cup {Welcome}
  BY CallFacts DEF P!Apply, P!Publish
<1>2. Ended(r) /\ \A s \in ProfileCalls \ {r} : call'[s] = call[s]
  BY EndsCalls DEF P!Apply, P!Publish, ProfileShape
<1>3. \/ live' = [live EXCEPT ![call[r].key] = call[r].text]
      \/ live' = live /\ live[call[r].key] = Nothing
  BY DEF P!Apply, P!Publish
<1> QED
  BY <1>1, <1>2, <1>3 DEF P!Apply, P!Publish, P!Settles, ProfileShape

-----------------------------------------------------------------------------
(* Profiles: the invariants. *)

ProfilesSpec == P!Init /\ [][P!Next]_P!vars

\* A restart, and the end of a stream.
LEMMA Restarts ==
    ASSUME ProfileShape, P!Restart
    PROVE  /\ \A r \in ProfileCalls : call'[r] = P!Idle /\ Ended(r)
           /\ \A k \in MCProfileKeys : live'[k] = Nothing
           /\ live' \in [MCProfileKeys -> Texts \cup {Welcome, Nothing}]
           /\ call' \in [ProfileCalls -> CallRecords]
           /\ torn' = torn \cup {n \in P!Stored : directory[n] = Partial}
           /\ unsettled' = {}
           /\ UNCHANGED <<directory, token, twins>>
<1>1. call' = [r \in ProfileCalls |-> P!Idle] /\ live' = [k \in MCProfileKeys |-> Nothing]
  BY DEF P!Restart
<1>2. call' \in [ProfileCalls -> CallRecords] /\ \A r \in ProfileCalls : call'[r] = P!Idle
  BY <1>1, OtherRecords
<1>3. \A r \in ProfileCalls : Ended(r)
  BY <1>2 DEF Ended, P!Idle
<1>4. live' \in [MCProfileKeys -> Texts \cup {Welcome, Nothing}]
  BY <1>1
<1> QED
  BY <1>1, <1>2, <1>3, <1>4 DEF P!Restart, P!Whole

\* and a stream ends.
LEMMA Stops ==
    ASSUME ProfileShape, NEW k \in MCProfileKeys, P!StreamEnds(k)
    PROVE  /\ \A m \in MCProfileKeys : live'[m] \in {live[m], Nothing}
           /\ live' \in [MCProfileKeys -> Texts \cup {Welcome, Nothing}]
           /\ UNCHANGED <<directory, call, token, torn, twins, unsettled>>
  BY DEF P!StreamEnds, ProfileShape

\* The variables of Profiles have these shapes in every state.
THEOREM ProfileShapeInvariant == ProfilesSpec => []ProfileShape
<1>1. P!Init => ProfileShape
  <2> SUFFICES ASSUME P!Init PROVE ProfileShape
    OBVIOUS
  <2>1. P!Stored = {} /\ directory \in [P!Stored -> P!Contents]
    BY DEF P!Init, P!Stored
  <2>2. call \in [ProfileCalls -> CallRecords] /\ \A r \in ProfileCalls : call[r].token = 0
    BY OtherRecords DEF P!Init, P!Idle
  <2> QED
    BY <2>1, <2>2, ProfilesAssumption DEF P!Init, ProfileShape
<1>2. ProfileShape /\ [P!Next]_P!vars => ProfileShape'
  <2> SUFFICES ASSUME ProfileShape, [P!Next]_P!vars
               PROVE  ProfileShape'
    OBVIOUS
  <2>0. /\ \A n \in P!Stored : n \in P!Names /\ n.token <= token
        /\ \A r \in ProfileCalls : call[r].token \in 0..MaxToken /\ call[r].token <= token
        /\ token \in 0..MaxToken /\ MaxToken \in Nat
    BY CallFacts, ProfilesAssumption DEF ProfileShape, CallType
  <2>1. ASSUME NEW r \in ProfileCalls, NEW k \in MCProfileKeys, P!CreateProfile(r, k)
        PROVE  ProfileShape'
    <3>0. PICK n, x : Began(r, "create", k, token + 1, n, x)
      BY <2>1, CreateBegins
    <3>1. /\ token' = token + 1 /\ token' \in 0..MaxToken
          /\ twins' \subseteq MCProfileKeys
          /\ UNCHANGED <<directory, live, torn>>
      BY <2>1, CreateBegins
    <3>2. \A s \in ProfileCalls : call'[s].token <= token'
      BY <2>0, <3>0, <3>1 DEF Began, SameCall
    <3>3. \A m \in P!Stored' : m.token <= token'
      <4>1. \A m \in P!Stored : m.token \in Nat
        BY <2>0 DEF P!Names
      <4> QED
        BY <2>0, <3>1, <4>1 DEF P!Stored
    <3> QED
      BY <3>0, <3>1, <3>2, <3>3 DEF Began, ProfileShape, P!Stored
  <2>2. ASSUME NEW r \in ProfileCalls, NEW n \in P!Stored,
               P!ReadProfile(r, n) \/ \E x \in Texts : P!UpdateProfile(r, n, x)
        PROVE  ProfileShape'
    <3>1. PICK op, x : /\ Began(r, op, n.key, n.token, n, x)
                       /\ n.key \in MCProfileKeys
                       /\ UNCHANGED <<directory, live, token, torn, twins>>
      BY <2>2, UpdateBegins
    <3>2. \A s \in ProfileCalls : call'[s].token <= token'
      BY <2>0, <3>1 DEF Began, SameCall
    <3> QED
      BY <3>1, <3>2 DEF Began, ProfileShape, P!Stored
  <2>3. ASSUME NEW r \in ProfileCalls, NEW k \in MCProfileKeys,
               P!FindToRemove(r, k) \/ P!FindToReset(r, k)
        PROVE  ProfileShape'
    <3>1. PICK n \in P!Stored, op \in {"remove", "rename"}, t \in 0..MaxToken :
                 /\ Began(r, op, k, t, n, Nothing)
                 /\ op = "rename" => t = token + 1 /\ token' = token + 1
                 /\ op = "remove" => t = 0 /\ token' = token
      BY <2>3, FindBegins
    <3>2. token' \in 0..MaxToken /\ UNCHANGED <<directory, live, torn, twins>>
      BY <2>3, FindBegins
    <3>3. t <= token' /\ token <= token'
      BY <2>0, <3>1
    <3>4. \A s \in ProfileCalls : call'[s].token <= token'
      BY <2>0, <3>1, <3>2, <3>3 DEF Began, SameCall
    <3>5. \A m \in P!Stored' : m.token <= token'
      <4>1. \A m \in P!Stored : m.token \in Nat
        BY <2>0 DEF P!Names
      <4> QED
        BY <2>0, <3>2, <3>3, <4>1 DEF P!Stored
    <3> QED
      BY <3>1, <3>2, <3>4, <3>5 DEF Began, ProfileShape, P!Stored
  <2>4. ASSUME NEW r \in ProfileCalls, P!OpenFile(r)
        PROVE  ProfileShape'
    <3>0. /\ call[r].name = [key |-> call[r].key, token |-> call[r].token]
          /\ call[r].op # "idle"
          /\ token' = token
          /\ \E op : Went(r, op)
      BY <2>4, Opens
    <3>1. /\ call[r].name.token <= token
          /\ call[r].key \in MCProfileKeys
      BY <2>0, <3>0, CallFacts
    <3>2. \A s \in ProfileCalls : call'[s].token <= token'
      BY <2>0, <3>0 DEF Went
    <3>3. \A n \in P!Stored' : n.token <= token'
      <4>1. P!Stored' = P!Stored \cup {call[r].name} /\ token' = token
        BY <2>4, Opens
      <4>2. \A n \in P!Stored : n.token <= token
        BY <2>0
      <4> QED
        BY <3>1, <4>1, <4>2
    <3>4. call' \in [ProfileCalls -> CallRecords] /\ twins' \subseteq MCProfileKeys
      <4>1. call' \in [ProfileCalls -> CallRecords]
        BY <3>0 DEF Went
      <4>2. twins' \in {twins, twins \cup {call[r].key}}
        BY <2>4, Opens
      <4> QED
        BY <3>1, <4>1, <4>2 DEF ProfileShape
    <3> QED
      BY <2>4, <3>2, <3>3, <3>4, Opens DEF ProfileShape
  <2>5. ASSUME NEW r \in ProfileCalls, P!FillFile(r)
        PROVE  ProfileShape'
    <3>1. \A s \in ProfileCalls : call'[s].token <= token'
      BY <2>0, <2>5, Fills DEF Went, Ended
    <3>2. call' \in [ProfileCalls -> CallRecords]
      BY <2>5, Fills DEF Went, Ended
    <3> QED
      BY <2>5, <3>1, <3>2, Fills DEF ProfileShape
  <2>6. ASSUME NEW r \in ProfileCalls, P!WriteFails(r)
        PROVE  ProfileShape'
    <3>1. \A s \in ProfileCalls : call'[s].token <= token'
      BY <2>0, <2>6, Fails DEF Ended
    <3> QED
      BY <2>6, <3>1, Fails DEF ProfileShape, Ended, P!Stored
  <2>7. ASSUME NEW r \in ProfileCalls, P!FindAgain(r) \/ P!Reread(r)
        PROVE  ProfileShape'
    <3>1. call' \in [ProfileCalls -> CallRecords]
      BY <2>7, Reads DEF Went, Ended
    <3>2. \A s \in ProfileCalls : call'[s].token <= token'
      BY <2>0, <2>7, Reads DEF Went, Ended
    <3> QED
      BY <2>7, <3>1, <3>2, Reads DEF ProfileShape, P!Stored
  <2>8. ASSUME NEW r \in ProfileCalls, P!Apply(r) \/ P!Publish(r)
        PROVE  ProfileShape'
    <3>1. \A s \in ProfileCalls : call'[s].token <= token'
      BY <2>0, <2>8, Shows DEF Ended
    <3> QED
      BY <2>8, <3>1, Shows DEF ProfileShape, Ended, P!Stored
  <2>9. ASSUME NEW r \in ProfileCalls, P!RemoveFile(r)
        PROVE  ProfileShape'
    <3>1. \A s \in ProfileCalls : call'[s].token <= token'
      BY <2>0, <2>9, Removes DEF Ended, MovedOthers, SameCall
    <3> QED
      BY <2>9, <3>1, Removes DEF ProfileShape, Ended
  <2>10. ASSUME NEW r \in ProfileCalls, P!RenameFile(r)
         PROVE  ProfileShape'
    <3>1. Renamed(r).token <= token /\ Renamed(r).key \in MCProfileKeys
      BY <2>0, <2>10, CallFacts, Renames DEF Renamed
    <3>2. \A s \in ProfileCalls : call'[s].token <= token'
      BY <2>0, <2>10, Renames DEF Ended, MovedOthers, SameCall
    <3>3. \A n \in P!Stored' : n \in P!Names /\ n.token <= token'
      BY <2>0, <2>10, <3>1, Renames DEF P!Stored
    <3>4. directory' \in [P!Stored' -> P!Contents] /\ torn' \subseteq P!Stored'
      BY <2>10, Renames DEF ProfileShape, P!Stored
    <3>5. twins' \subseteq MCProfileKeys
      BY <2>10, <3>1, Renames DEF ProfileShape
    <3> QED
      BY <2>10, <3>2, <3>3, <3>4, <3>5, Renames DEF ProfileShape, Ended
  <2>11. ASSUME NEW k \in MCProfileKeys, P!StreamEnds(k)
         PROVE  ProfileShape'
    BY <2>11, Stops DEF ProfileShape, P!Stored
  <2>12. CASE P!Restart
    <3>1. \A s \in ProfileCalls : call'[s].token <= token'
      BY <2>0, <2>12, Restarts DEF Ended
    <3> QED
      BY <2>12, <3>1, Restarts DEF ProfileShape, P!Stored
  <2>13. CASE UNCHANGED P!vars
    BY <2>13 DEF P!vars, ProfileShape, P!Stored
  <2> QED
    BY <2>1, <2>2, <2>3, <2>4, <2>5, <2>6, <2>7, <2>8, <2>9, <2>10, <2>11, <2>12, <2>13
       DEF P!Next
<1> QED
  BY <1>1, <1>2, PTL DEF ProfilesSpec

\* The requests that begin, together.
Beginning(r, op, k, t, n, x) ==
    /\ Began(r, op, k, t, n, x)
    /\ UNCHANGED <<directory, live, torn>>
    /\ twins \subseteq twins'
    /\ \/ /\ op = "create" /\ t = token + 1 /\ ~P!HasStreamKey(k)
          /\ (\E s \in ProfileCalls : call[s].key = k /\ call[s].op = "create") =>
                k \in twins'
       \/ /\ op \in {"find", "join"} /\ n \in P!Stored /\ k = n.key /\ t = n.token
          /\ op = "join" => x = directory[n]
       \/ op = "remove" /\ t = 0
       \/ op = "rename" /\ t = token + 1

\* Requests begin in one of these five ways, all alike.
LEMMA Starting ==
    ASSUME ProfileShape, NEW r \in ProfileCalls,
           \/ \E k \in MCProfileKeys :
                 P!CreateProfile(r, k) \/ P!FindToRemove(r, k) \/ P!FindToReset(r, k)
           \/ \E n \in P!Stored :
                 P!ReadProfile(r, n) \/ \E x \in Texts : P!UpdateProfile(r, n, x)
    PROVE  \E k \in MCProfileKeys : \E op, t, n, x : Beginning(r, op, k, t, n, x)
<1>1. ASSUME NEW k \in MCProfileKeys, P!CreateProfile(r, k)
      PROVE  Beginning(r, "create", k, token + 1, [key |-> k, token |-> token + 1], Welcome)
  BY <1>1, CreateBegins DEF Beginning
<1>2. ASSUME NEW k \in MCProfileKeys, P!FindToRemove(r, k) \/ P!FindToReset(r, k)
      PROVE  \E op, t, n, x : Beginning(r, op, k, t, n, x)
  <2>1. PICK n \in P!Stored, op \in {"remove", "rename"}, t \in 0..MaxToken :
               /\ Began(r, op, k, t, n, Nothing)
               /\ op = "rename" => t = token + 1 /\ token' = token + 1
               /\ op = "remove" => t = 0 /\ token' = token
    BY <1>2, FindBegins
  <2>2. UNCHANGED <<directory, live, torn, twins>>
    BY <1>2, FindBegins
  <2>3. Beginning(r, op, k, t, n, Nothing)
    BY <2>1, <2>2 DEF Beginning
  <2> QED
    BY <2>3
<1>3. ASSUME NEW n \in P!Stored, P!ReadProfile(r, n)
      PROVE  Beginning(r, "join", n.key, n.token, n, directory[n]) /\ n.key \in MCProfileKeys
  BY <1>3, UpdateBegins DEF Beginning
<1>4. ASSUME NEW n \in P!Stored, NEW x \in Texts, P!UpdateProfile(r, n, x)
      PROVE  Beginning(r, "find", n.key, n.token, n, x) /\ n.key \in MCProfileKeys
  BY <1>4, UpdateBegins DEF Beginning
<1>5. CASE \E k \in MCProfileKeys :
             P!CreateProfile(r, k) \/ P!FindToRemove(r, k) \/ P!FindToReset(r, k)
  <2>1. PICK k \in MCProfileKeys :
            P!CreateProfile(r, k) \/ P!FindToRemove(r, k) \/ P!FindToReset(r, k)
    BY <1>5
  <2>2. CASE P!CreateProfile(r, k)
    BY <1>1, <2>2
  <2>3. CASE P!FindToRemove(r, k) \/ P!FindToReset(r, k)
    <3>1. PICK op, t, n, x : Beginning(r, op, k, t, n, x)
      BY <1>2, <2>3
    <3> QED
      BY <3>1
  <2> QED
    BY <2>1, <2>2, <2>3
<1>6. CASE \E n \in P!Stored :
             P!ReadProfile(r, n) \/ \E x \in Texts : P!UpdateProfile(r, n, x)
  <2>1. PICK n \in P!Stored :
            P!ReadProfile(r, n) \/ \E x \in Texts : P!UpdateProfile(r, n, x)
    BY <1>6
  <2>2. CASE P!ReadProfile(r, n)
    BY <1>3, <2>2
  <2>3. CASE \E x \in Texts : P!UpdateProfile(r, n, x)
    <3>1. PICK x \in Texts : P!UpdateProfile(r, n, x)
      BY <2>3
    <3>2. Beginning(r, "find", n.key, n.token, n, x) /\ n.key \in MCProfileKeys
      BY <1>4, <3>1
    <3> QED
      BY <3>2
  <2> QED
    BY <2>1, <2>2, <2>3
<1> QED
  BY <1>5, <1>6

\* Every step, by what it does.
LEMMA ProfileSteps ==
    ASSUME ProfileShape, [P!Next]_P!vars
    PROVE  \/ \E r \in ProfileCalls :
                 \/ \E k \in MCProfileKeys : \E op, t, n, x : Beginning(r, op, k, t, n, x)
                 \/ P!OpenFile(r) \/ P!FillFile(r) \/ P!WriteFails(r)
                 \/ P!FindAgain(r) \/ P!Reread(r) \/ P!Apply(r) \/ P!Publish(r)
                 \/ P!RemoveFile(r) \/ P!RenameFile(r)
           \/ \E k \in MCProfileKeys : P!StreamEnds(k)
           \/ P!Restart
           \/ UNCHANGED P!vars
  BY Starting DEF P!Next

\* A file that is open is one of the key of its request, until it is renamed for
\* another key.
FilesNamed ==
    \A r \in ProfileCalls, n \in P!Names :
       call[r].op \in Filling /\ call[r].name = n =>
          n.key = call[r].key \/ n.key \in twins

\* Requests write the files of their own keys in every state, but by a shared prefix.
THEOREM FilesNamedInvariant == ProfilesSpec => []FilesNamed
<1>1. P!Init => FilesNamed
  BY DEF P!Init, FilesNamed, P!Idle, Filling
<1>2. ProfileShape /\ FilesNamed /\ [P!Next]_P!vars => FilesNamed'
  <2> SUFFICES ASSUME ProfileShape, FilesNamed, [P!Next]_P!vars
               PROVE  FilesNamed'
    OBVIOUS
  <2>0. Nothing \notin P!Names
    BY ProfilesAssumption
  <2>1. ASSUME NEW r \in ProfileCalls, NEW op, NEW k \in MCProfileKeys, NEW t, NEW n, NEW x,
               Beginning(r, op, k, t, n, x)
        PROVE  FilesNamed'
    <3>1. op \notin Filling /\ twins \subseteq twins' /\ Began(r, op, k, t, n, x)
      BY <2>1 DEF Beginning, Filling
    <3> QED
      BY <3>1 DEF FilesNamed, Began, SameCall
  <2>2. ASSUME NEW r \in ProfileCalls, P!OpenFile(r)
        PROVE  FilesNamed'
    <3>1. /\ call[r].name.key = call[r].key
          /\ twins \subseteq twins'
          /\ \E op : Went(r, op)
      <4>1. /\ call[r].name = [key |-> call[r].key, token |-> call[r].token]
            /\ twins' \in {twins, twins \cup {call[r].key}}
            /\ Went(r, "fillNew") \/ Went(r, "fill")
        BY <2>2, Opens
      <4> QED
        BY <4>1
    <3> QED
      BY <3>1 DEF FilesNamed, Went
  <2>3. ASSUME NEW r \in ProfileCalls, P!FillFile(r)
        PROVE  FilesNamed'
    <3>1. /\ twins' = twins /\ call'[r].op \in {"reread", "idle"}
          /\ \A s \in ProfileCalls \ {r} : call'[s] = call[s]
      BY <2>3, Fills DEF Went, Ended
    <3> QED
      BY <3>1 DEF FilesNamed, Filling
  <2>4. ASSUME NEW r \in ProfileCalls,
               P!WriteFails(r) \/ P!FindAgain(r) \/ P!Reread(r) \/ P!Apply(r) \/ P!Publish(r)
        PROVE  FilesNamed'
    <3>1. /\ twins' = twins /\ call'[r].op \in {"idle", "update", "apply"}
          /\ \A s \in ProfileCalls \ {r} : call'[s] = call[s]
      BY <2>4, Fails, Reads, Shows DEF Went, Ended
    <3> QED
      BY <3>1 DEF FilesNamed, Filling
  <2>5. ASSUME NEW r \in ProfileCalls, P!RemoveFile(r)
        PROVE  FilesNamed'
    <3>1. /\ twins' = twins /\ call'[r].op = "idle"
          /\ MovedOthers(r, call[r].name, Nothing)
      BY <2>5, Removes DEF Ended
    <3> QED
      BY <2>0, <3>1 DEF FilesNamed, Filling, MovedOthers, SameCall
  <2>6. ASSUME NEW r \in ProfileCalls, P!RenameFile(r)
        PROVE  FilesNamed'
    <3>1. CASE /\ call[r].name \notin P!Stored /\ UNCHANGED <<directory, torn, twins>>
               /\ \A s \in ProfileCalls \ {r} : call'[s] = call[s]
      BY <2>6, <3>1, Renames DEF FilesNamed, Filling, Ended
    <3>2. CASE /\ MovedOthers(r, call[r].name, Renamed(r))
               /\ twins' = IF call[r].name.key # Renamed(r).key
                           THEN twins \cup {Renamed(r).key} ELSE twins
      <4>1. call[r].name \in P!Names /\ call'[r].op = "idle"
        BY <2>6, Renames DEF Ended
      <4> QED
        BY <3>2, <4>1 DEF FilesNamed, Filling, MovedOthers, SameCall
    <3> QED
      BY <2>6, <3>1, <3>2, Renames
  <2>7. ASSUME NEW k \in MCProfileKeys, P!StreamEnds(k)
        PROVE  FilesNamed'
    BY <2>7, Stops DEF FilesNamed
  <2>8. CASE P!Restart
    BY <2>8, Restarts DEF FilesNamed, Ended, Filling
  <2>9. CASE UNCHANGED P!vars
    BY <2>9 DEF P!vars, FilesNamed
  <2> QED
    BY <2>1, <2>2, <2>3, <2>4, <2>5, <2>6, <2>7, <2>8, <2>9, ProfileSteps
<1> QED
  BY <1>1, <1>2, ProfileShapeInvariant, PTL DEF ProfilesSpec

\* A token is given once: it belongs to one key, and to nobody before it is used.
TokensDiffer ==
    /\ \A m, n \in P!Stored : m.token = n.token => m.key = n.key
    /\ \A r \in ProfileCalls, n \in P!Stored :
          call[r].op \in Updating /\ n.token = call[r].token => n.key = call[r].key
    /\ \A r, s \in ProfileCalls :
          call[r].op \in Updating /\ call[s].op \in Updating
             /\ call[s].token = call[r].token => call[s].key = call[r].key
    /\ \A r \in ProfileCalls : call[r].op \in {"create", "rename"} =>
          /\ \A n \in P!Stored : n.token # call[r].token
          /\ \A s \in ProfileCalls \ {r} : call[s].token # call[r].token

\* Calls that only go on keep what they were given.
LEMMA TokensStay ==
    ASSUME ProfileShape, TokensDiffer, P!Stored' \subseteq P!Stored,
           \A r \in ProfileCalls :
              /\ call'[r].op \in Updating => call[r].op \in Updating
              /\ call'[r].op \in {"create", "rename"} => call[r].op = call'[r].op
              /\ call'[r].op \in Updating \cup {"create", "rename"} =>
                    call'[r].token = call[r].token /\ call'[r].key = call[r].key
              /\ call'[r].token \in {call[r].token, 0}
    PROVE  TokensDiffer'
<1>1. ASSUME NEW r \in ProfileCalls, call[r].op \in {"create", "rename"}
      PROVE  call[r].token # 0
  <2>1. call[r].token \in 1..MaxToken
    BY <1>1, CallFacts
  <2> QED
    BY <2>1, ProfilesAssumption
<1> QED
  BY <1>1 DEF TokensDiffer

\* No two keys have one token, in any state.
THEOREM TokensDifferInvariant == ProfilesSpec => []TokensDiffer
<1>1. P!Init => TokensDiffer
  BY DEF P!Init, TokensDiffer, P!Idle, Updating, P!Stored
<1>2. ProfileShape /\ TokensDiffer /\ [P!Next]_P!vars => TokensDiffer'
  <2> SUFFICES ASSUME ProfileShape, TokensDiffer, [P!Next]_P!vars
               PROVE  TokensDiffer'
    OBVIOUS
  <2>0. /\ \A n \in P!Stored : n \in P!Names /\ n.token \in 1..MaxToken /\ n.token <= token
        /\ \A r \in ProfileCalls : call[r].token \in 0..MaxToken /\ call[r].token <= token
        /\ \A r \in ProfileCalls :
              call[r].op \in {"create", "rename"} => call[r].token \in 1..MaxToken
        /\ token \in Nat /\ MaxToken \in Nat
    <3>1. \A n \in P!Stored : n \in P!Names /\ n.token \in 1..MaxToken /\ n.token <= token
      BY DEF ProfileShape, P!Names
    <3>2. ASSUME NEW r \in ProfileCalls
          PROVE  /\ call[r].token \in 0..MaxToken /\ call[r].token <= token
                 /\ call[r].op \in {"create", "rename"} => call[r].token \in 1..MaxToken
      <4>1. call[r] \in CallType
        BY CallFacts
      <4> QED
        BY <4>1, CallFacts DEF CallType
    <3> QED
      BY <3>1, <3>2, ProfilesAssumption DEF ProfileShape
  <2>1. ASSUME NEW r \in ProfileCalls, NEW op, NEW k \in MCProfileKeys, NEW t, NEW n, NEW x,
               Beginning(r, op, k, t, n, x)
        PROVE  TokensDiffer'
    <3>1. /\ P!Stored' = P!Stored
          /\ call'[r].op = op /\ call'[r].key = k /\ call'[r].token = t
          /\ \A s \in ProfileCalls \ {r} : SameCall(call[s], call'[s])
      BY <2>1 DEF Beginning, Began, P!Stored
    <3>2. CASE op \in {"create", "rename"} /\ t = token + 1
      <4>1. /\ \A m \in P!Stored : m.token # t
            /\ \A s \in ProfileCalls : call[s].token # t
        BY <2>0, <3>2
      <4> QED
        BY <3>1, <3>2, <4>1 DEF TokensDiffer, SameCall, Updating
    <3>3. CASE n \in P!Stored /\ op \in {"find", "join"} /\ k = n.key /\ t = n.token
      BY <3>1, <3>3 DEF TokensDiffer, SameCall, Updating
    <3>4. CASE op = "remove" /\ t = 0
      BY <2>0, <3>1, <3>4 DEF TokensDiffer, SameCall, Updating
    <3> QED
      BY <2>1, <3>2, <3>3, <3>4 DEF Beginning
  <2>2. ASSUME NEW r \in ProfileCalls, P!OpenFile(r)
        PROVE  TokensDiffer'
    <3> DEFINE new == call[r].name
    <3>1. /\ P!Stored' = P!Stored \cup {new}
          /\ new.key = call[r].key /\ new.token = call[r].token
          /\ \/ call[r].op = "create" /\ Went(r, "fillNew")
             \/ call[r].op = "update" /\ Went(r, "fill")
      <4>1. new = [key |-> call[r].key, token |-> call[r].token]
        BY <2>2, Opens
      <4> QED
        BY <2>2, <4>1, Opens
    <3>2. CASE call[r].op = "create" /\ Went(r, "fillNew")
      BY <3>1, <3>2 DEF TokensDiffer, Went, Updating
    <3>3. CASE call[r].op = "update" /\ Went(r, "fill")
      BY <3>1, <3>3 DEF TokensDiffer, Went, Updating
    <3> QED
      BY <3>1, <3>2, <3>3
  <2>3. ASSUME NEW r \in ProfileCalls, P!FillFile(r) \/ P!WriteFails(r)
        PROVE  TokensDiffer'
    <3>1. /\ P!Stored' \subseteq P!Stored
          /\ \/ call[r].op = "fill" /\ Went(r, "reread")
             \/ Ended(r) /\ \A s \in ProfileCalls \ {r} : call'[s] = call[s]
      BY <2>3, Fills, Fails DEF P!Stored
    <3> QED
      BY <3>1, TokensStay DEF Went, Ended, Updating
  <2>4. ASSUME NEW r \in ProfileCalls,
               P!FindAgain(r) \/ P!Reread(r) \/ P!Apply(r) \/ P!Publish(r)
        PROVE  TokensDiffer'
    <3>1. /\ P!Stored' \subseteq P!Stored
          /\ \A s \in ProfileCalls \ {r} : call'[s] = call[s]
          /\ \/ Ended(r)
             \/ /\ call[r].op \in Updating /\ call'[r].op \in {"update", "apply"}
                /\ call'[r].token = call[r].token /\ call'[r].key = call[r].key
      BY <2>4, Reads, Shows DEF P!Stored, Went, Updating
    <3> QED
      BY <3>1, TokensStay DEF Ended, Updating
  <2>5. ASSUME NEW r \in ProfileCalls, P!RemoveFile(r)
        PROVE  TokensDiffer'
    <3>1. P!Stored' \subseteq P!Stored /\ Ended(r) /\ MovedOthers(r, call[r].name, Nothing)
      BY <2>5, Removes
    <3> QED
      BY <3>1, TokensStay DEF Ended, MovedOthers, SameCall, Updating
  <2>6. ASSUME NEW r \in ProfileCalls, P!RenameFile(r)
        PROVE  TokensDiffer'
    <3>1. CASE /\ UNCHANGED <<directory, torn, twins>>
               /\ \A s \in ProfileCalls \ {r} : call'[s] = call[s]
      BY <2>6, <3>1, Renames, TokensStay DEF Ended, Updating, P!Stored
    <3>2. CASE /\ P!Stored' = (P!Stored \ {call[r].name}) \cup {Renamed(r)}
               /\ MovedOthers(r, call[r].name, Renamed(r))
      <4>1. /\ call[r].op = "rename" /\ call'[r].op = "idle" /\ call'[r].token = 0
            /\ Renamed(r).token = call[r].token
        BY <2>6, Renames DEF Ended, Renamed
      <4>2. \A s \in ProfileCalls \ {r} : SameCall(call[s], call'[s])
        BY <3>2 DEF MovedOthers
      <4> QED
        BY <2>0, <3>2, <4>1, <4>2 DEF TokensDiffer, SameCall, Updating
    <3> QED
      BY <2>6, <3>1, <3>2, Renames
  <2>7. ASSUME NEW k \in MCProfileKeys, P!StreamEnds(k)
        PROVE  TokensDiffer'
    BY <2>7, Stops, TokensStay DEF P!Stored
  <2>8. CASE P!Restart
    BY <2>8, Restarts, TokensStay DEF P!Stored, Ended, Updating
  <2>9. CASE UNCHANGED P!vars
    BY <2>9, TokensStay DEF P!vars, P!Stored
  <2> QED
    BY <2>1, <2>2, <2>3, <2>4, <2>5, <2>6, <2>7, <2>8, <2>9, ProfileSteps
<1> QED
  BY <1>1, <1>2, ProfileShapeInvariant, PTL DEF ProfilesSpec

\* A call that is alone is the only one about its key; any other has unsettled its
\* key until one that is alone has ended.
AloneKnown ==
    \A r \in ProfileCalls : call[r].op # "idle" =>
       /\ call[r].alone => \A s \in ProfileCalls \ {r} : call[s].key # call[r].key
       /\ ~call[r].alone => call[r].key \in unsettled

\* Calls go on or end, while what is unsettled stays so.
LEMMA AloneStays ==
    ASSUME ProfileShape, AloneKnown, unsettled' = unsettled,
           \A r \in ProfileCalls :
              \/ call'[r].op = "idle" /\ call'[r].key = Nothing
              \/ /\ call[r].op # "idle" /\ call'[r].key = call[r].key
                 /\ call'[r].alone = call[r].alone
              \/ call'[r] = call[r]
    PROVE  AloneKnown'
<1>1. \A r \in ProfileCalls : call[r].op # "idle" => call[r].key # Nothing
  BY CallFacts
<1> QED
  BY <1>1 DEF AloneKnown

\* Who is alone with a key is so in every state until it ends.
THEOREM AloneKnownInvariant == ProfilesSpec => []AloneKnown
<1>1. P!Init => AloneKnown
  BY DEF P!Init, AloneKnown, P!Idle
<1>2. ProfileShape /\ AloneKnown /\ [P!Next]_P!vars => AloneKnown'
  <2> SUFFICES ASSUME ProfileShape, AloneKnown, [P!Next]_P!vars
               PROVE  AloneKnown'
    OBVIOUS
  <2>0. \A r \in ProfileCalls : /\ call[r].op # "idle" => call[r].key \in MCProfileKeys
                                /\ call[r].op = "idle" <=> call[r].key = Nothing
    BY CallFacts
  <2>1. ASSUME NEW r \in ProfileCalls, NEW k \in MCProfileKeys,
               \E op, t, n, x : Beginning(r, op, k, t, n, x)
        PROVE  AloneKnown'
    <3>1. PICK op, t, n, x : Beginning(r, op, k, t, n, x)
      BY <2>1
    <3>2. /\ unsettled \subseteq unsettled'
          /\ call'[r].key = k
          /\ call'[r].alone => \A s \in ProfileCalls : call[s].key # k
          /\ ~call'[r].alone => k \in unsettled'
          /\ \A s \in ProfileCalls \ {r} :
                /\ call'[s].key = call[s].key /\ call'[s].op = call[s].op
                /\ call'[s].alone => call[s].alone /\ call[s].key # k
                /\ call[s].alone /\ ~call'[s].alone => call[s].key \in unsettled'
      BY <3>1 DEF Beginning, Began, SameCall
    <3>3. ASSUME NEW s \in ProfileCalls \ {r}, call[s].op # "idle"
          PROVE  /\ call'[s].alone => \A u \in ProfileCalls \ {s} : call'[u].key # call'[s].key
                 /\ ~call'[s].alone => call'[s].key \in unsettled'
      BY <3>2, <3>3 DEF AloneKnown
    <3> QED
      BY <3>2, <3>3 DEF AloneKnown
  <2>2. ASSUME NEW r \in ProfileCalls,
               \/ P!OpenFile(r) \/ P!FillFile(r) \/ P!WriteFails(r)
               \/ P!FindAgain(r) \/ P!Reread(r)
        PROVE  AloneKnown'
    <3>1. /\ unsettled' = unsettled
          /\ \A s \in ProfileCalls \ {r} : call'[s] = call[s]
          /\ \/ Ended(r)
             \/ /\ call[r].op # "idle" /\ call'[r].key = call[r].key
                /\ call'[r].alone = call[r].alone
      BY <2>2, Opens, Fills, Fails, Reads DEF Went, Filling
    <3> QED
      BY <3>1, AloneStays DEF Ended
  <2>3. ASSUME NEW r \in ProfileCalls, P!Apply(r) \/ P!Publish(r)
        PROVE  AloneKnown'
    <3>1. /\ call[r].op # "idle"
          /\ unsettled' = IF call[r].alone THEN unsettled \ {call[r].key} ELSE unsettled
          /\ call'[r].op = "idle" /\ call'[r].key = Nothing
          /\ \A s \in ProfileCalls \ {r} : call'[s] = call[s]
      BY <2>3, Shows DEF Ended
    <3> QED
      BY <2>0, <3>1 DEF AloneKnown
  <2>4. ASSUME NEW r \in ProfileCalls, P!RemoveFile(r)
        PROVE  AloneKnown'
    <3>1. Ended(r) /\ MovedOthers(r, call[r].name, Nothing) /\ unsettled' = unsettled
      BY <2>4, Removes
    <3> QED
      BY <2>0, <3>1, AloneStays DEF Ended, MovedOthers, SameCall
  <2>5. ASSUME NEW r \in ProfileCalls, P!RenameFile(r)
        PROVE  AloneKnown'
    <3>1. /\ Ended(r) /\ unsettled' = unsettled
          /\ \A s \in ProfileCalls \ {r} :
                /\ call'[s].key = call[s].key /\ call'[s].op = call[s].op
                /\ call'[s].alone = call[s].alone
      BY <2>5, Renames DEF MovedOthers, SameCall
    <3> QED
      BY <2>0, <3>1, AloneStays DEF Ended
  <2>6. ASSUME NEW k \in MCProfileKeys, P!StreamEnds(k)
        PROVE  AloneKnown'
    BY <2>6, Stops, AloneStays
  <2>7. CASE P!Restart
    BY <2>7, Restarts DEF AloneKnown, Ended
  <2>8. CASE UNCHANGED P!vars
    BY <2>8, AloneStays DEF P!vars
  <2> QED
    BY <2>1, <2>2, <2>3, <2>4, <2>5, <2>6, <2>7, <2>8, ProfileSteps
<1> QED
  BY <1>1, <1>2, ProfileShapeInvariant, PTL DEF ProfilesSpec

\* A key begins with itself.
LEMMA HasItsKey ==
    \A n \in P!Stored, k \in MCProfileKeys : n.key = k => P!HasStreamKey(k)
<1>1. \A k \in MCProfileKeys : Len(k) \in Nat
  BY DEF MCProfileKeys
<1>2. \A k \in MCProfileKeys : P!IsPrefix(k, k)
  BY <1>1 DEF P!IsPrefix
<1> QED
  BY <1>2 DEF P!HasStreamKey

\* A key has one profile, and a profile that is created is its first and the only
\* one that is.
OneEach ==
    /\ P!OneProfile
    /\ \A r \in ProfileCalls : call[r].op = "create" /\ call[r].key \notin twins =>
          /\ \A n \in P!Stored : n.key # call[r].key
          /\ \A s \in ProfileCalls \ {r} :
                call[s].op = "create" => call[s].key # call[r].key

\* No name is added and no call begins to create.
LEMMA OneStays ==
    ASSUME ProfileShape, OneEach, P!Stored' \subseteq P!Stored, twins \subseteq twins',
           \A r \in ProfileCalls : call'[r].op = "create" =>
              call[r].op = "create" /\ call'[r].key = call[r].key
    PROVE  OneEach'
<1>1. P!OneProfile'
  BY DEF OneEach, P!OneProfile
<1> QED
  BY <1>1 DEF OneEach

\* A key has one profile in every state, unless two requests created it at once or one
\* reset it for another key.
THEOREM OneEachInvariant == ProfilesSpec => []OneEach
<1>1. P!Init => OneEach
  BY DEF P!Init, OneEach, P!OneProfile, P!Idle, P!Stored
<1>2. ProfileShape /\ OneEach /\ [P!Next]_P!vars => OneEach'
  <2> SUFFICES ASSUME ProfileShape, OneEach, [P!Next]_P!vars
               PROVE  OneEach'
    OBVIOUS
  <2>1. ASSUME NEW r \in ProfileCalls, NEW k \in MCProfileKeys,
               \E op, t, n, x : Beginning(r, op, k, t, n, x)
        PROVE  OneEach'
    <3>1. PICK op, t, n, x : Beginning(r, op, k, t, n, x)
      BY <2>1
    <3>2. /\ P!Stored' = P!Stored /\ twins \subseteq twins'
          /\ call'[r].op = op /\ call'[r].key = k /\ call[r].op = "idle"
          /\ \A s \in ProfileCalls \ {r} :
                call'[s].op = call[s].op /\ call'[s].key = call[s].key
      BY <3>1 DEF Beginning, Began, SameCall, P!Stored
    <3>3. CASE op = "create"
      <4>1. /\ ~P!HasStreamKey(k)
            /\ (\E s \in ProfileCalls : call[s].key = k /\ call[s].op = "create") =>
                  k \in twins'
        BY <3>1, <3>3 DEF Beginning
      <4>2. \A n_1 \in P!Stored : n_1.key # k
        BY <4>1, HasItsKey
      <4>3. P!OneProfile'
        BY <3>2 DEF OneEach, P!OneProfile
      <4> QED
        BY <3>2, <4>1, <4>2, <4>3 DEF OneEach
    <3>4. CASE op # "create"
      BY <3>2, <3>4, OneStays
    <3> QED
      BY <3>3, <3>4
  <2>2. ASSUME NEW r \in ProfileCalls, P!OpenFile(r)
        PROVE  OneEach'
    <3> DEFINE new == call[r].name
    <3>1. /\ P!Stored' = P!Stored \cup {new}
          /\ \A s \in ProfileCalls \ {r} : call'[s] = call[s]
          /\ call'[r].op # "create" /\ twins \subseteq twins'
          /\ call[r].op \in {"create", "update"}
      BY <2>2, Opens DEF Went
    <3>2. new.key = call[r].key
      <4>1. new = [key |-> call[r].key, token |-> call[r].token]
        BY <2>2, Opens
      <4> QED
        BY <4>1
    <3>3. new \in P!Stored \/ call[r].op = "create" \/ call[r].key \in twins'
      BY <2>2, Opens
    <3> HIDE DEF new
    <3>4. CASE new \in P!Stored
      BY <3>1, <3>4, OneStays
    <3>5. CASE call[r].op = "create"
      <4>1. P!OneProfile'
        BY <3>1, <3>2, <3>5 DEF OneEach, P!OneProfile
      <4> QED
        BY <3>1, <3>2, <3>5, <4>1 DEF OneEach
    <3>6. CASE call[r].key \in twins'
      <4>1. P!OneProfile'
        BY <3>1, <3>2, <3>6 DEF OneEach, P!OneProfile
      <4> QED
        BY <3>1, <3>2, <3>6, <4>1 DEF OneEach
    <3> QED
      BY <3>3, <3>4, <3>5, <3>6
  <2>3. ASSUME NEW r \in ProfileCalls,
               \/ P!FillFile(r) \/ P!WriteFails(r) \/ P!FindAgain(r) \/ P!Reread(r)
               \/ P!Apply(r) \/ P!Publish(r)
        PROVE  OneEach'
    <3>1. /\ P!Stored' = P!Stored /\ twins' = twins
          /\ call'[r].op # "create"
          /\ \A s \in ProfileCalls \ {r} : call'[s] = call[s]
      BY <2>3, Fills, Fails, Reads, Shows DEF Went, Ended, P!Stored
    <3> QED
      BY <3>1, OneStays
  <2>4. ASSUME NEW r \in ProfileCalls, P!RemoveFile(r)
        PROVE  OneEach'
    <3>1. /\ P!Stored' \subseteq P!Stored /\ twins' = twins
          /\ Ended(r) /\ MovedOthers(r, call[r].name, Nothing)
      BY <2>4, Removes
    <3> QED
      BY <3>1, OneStays DEF Ended, MovedOthers, SameCall
  <2>5. ASSUME NEW r \in ProfileCalls, P!RenameFile(r)
        PROVE  OneEach'
    <3>1. /\ call'[r].op = "idle"
          /\ \A s \in ProfileCalls \ {r} :
                call'[s].key = call[s].key /\ call'[s].op = call[s].op
      BY <2>5, Renames DEF Ended, MovedOthers, SameCall
    <3>2. CASE UNCHANGED <<directory, torn, twins>>
      BY <3>1, <3>2, OneStays DEF P!Stored
    <3>3. CASE /\ call[r].name \in P!Stored
               /\ P!Stored' = (P!Stored \ {call[r].name}) \cup {Renamed(r)}
               /\ twins' = IF call[r].name.key # Renamed(r).key
                           THEN twins \cup {Renamed(r).key} ELSE twins
      <4>1. P!OneProfile'
        BY <3>3 DEF OneEach, P!OneProfile
      <4> QED
        BY <3>1, <3>3, <4>1 DEF OneEach
    <3> QED
      BY <2>5, <3>2, <3>3, Renames
  <2>6. ASSUME NEW k \in MCProfileKeys, P!StreamEnds(k)
        PROVE  OneEach'
    BY <2>6, Stops, OneStays DEF P!Stored
  <2>7. CASE P!Restart
    BY <2>7, Restarts, OneStays DEF P!Stored, Ended
  <2>8. CASE UNCHANGED P!vars
    BY <2>8, OneStays DEF P!vars, P!Stored
  <2> QED
    BY <2>1, <2>2, <2>3, <2>4, <2>5, <2>6, <2>7, <2>8, ProfileSteps
<1> QED
  BY <1>1, <1>2, ProfileShapeInvariant, PTL DEF ProfilesSpec

\* What is read whole stays whole, unless somebody writes it.
THEOREM WholeInvariant == ProfilesSpec => []P!WholeAtRest
<1>1. P!Init => P!WholeAtRest
  BY DEF P!Init, P!WholeAtRest, P!Stored
<1>2. ProfileShape /\ P!WholeAtRest /\ [P!Next]_P!vars => P!WholeAtRest'
  <2> SUFFICES ASSUME ProfileShape, P!WholeAtRest, [P!Next]_P!vars
               PROVE  P!WholeAtRest'
    OBVIOUS
  <2> USE DEF P!WholeAtRest, P!Whole, Filling
  <2>0. P!Stored \subseteq P!Names /\ Partial \notin Texts \cup {Welcome}
    BY ProfilesAssumption DEF ProfileShape
  <2>1. ASSUME NEW r \in ProfileCalls, NEW k \in MCProfileKeys,
               \E op, t, n, x : Beginning(r, op, k, t, n, x)
        PROVE  P!WholeAtRest'
    <3>1. /\ UNCHANGED <<directory, torn>> /\ call[r].op = "idle"
          /\ \A s \in ProfileCalls \ {r} :
                call'[s].op = call[s].op /\ call'[s].name = call[s].name
      BY <2>1 DEF Beginning, Began, SameCall
    <3> QED
      BY <3>1 DEF P!Stored
  <2>2. ASSUME NEW r \in ProfileCalls, P!OpenFile(r)
        PROVE  P!WholeAtRest'
    <3>1. /\ P!Stored' = P!Stored \cup {call[r].name}
          /\ \A n \in P!Stored : n # call[r].name => directory'[n] = directory[n]
          /\ torn' = torn
          /\ call[r].op \notin Filling
          /\ call'[r].op \in Filling /\ call'[r].name = call[r].name
          /\ \A s \in ProfileCalls \ {r} : call'[s] = call[s]
      BY <2>2, Opens DEF Went
    <3> QED
      BY <3>1
  <2>3. ASSUME NEW r \in ProfileCalls, P!FillFile(r)
        PROVE  P!WholeAtRest'
    <3>1. /\ P!Stored' = P!Stored
          /\ call[r].text \in Texts \cup {Welcome}
          /\ call[r].name \in P!Stored => directory'[call[r].name] = call[r].text
          /\ \A n \in P!Stored : n # call[r].name => directory'[n] = directory[n]
          /\ torn' = torn \ {call[r].name}
          /\ \A s \in ProfileCalls \ {r} : call'[s] = call[s]
      BY <2>3, Fills DEF Went
    <3> QED
      BY <2>0, <3>1
  <2>4. ASSUME NEW r \in ProfileCalls, P!WriteFails(r)
        PROVE  P!WholeAtRest'
    <3>1. /\ torn' = torn \cup ({call[r].name} \cap P!Stored) /\ directory' = directory
          /\ \A s \in ProfileCalls \ {r} : call'[s] = call[s]
      BY <2>4, Fails
    <3> QED
      BY <3>1 DEF P!Stored
  <2>5. ASSUME NEW r \in ProfileCalls,
               P!FindAgain(r) \/ P!Reread(r) \/ P!Apply(r) \/ P!Publish(r)
        PROVE  P!WholeAtRest'
    <3>1. /\ UNCHANGED <<directory, torn>> /\ call[r].op \notin Filling
          /\ \A s \in ProfileCalls \ {r} : call'[s] = call[s]
      BY <2>5, Reads, Shows
    <3> QED
      BY <3>1 DEF P!Stored
  <2>6. ASSUME NEW r \in ProfileCalls, P!RemoveFile(r)
        PROVE  P!WholeAtRest'
    <3>1. /\ call[r].op = "remove"
          /\ P!Stored' = P!Stored \ {call[r].name}
          /\ \A n \in P!Stored' : directory'[n] = directory[n]
          /\ torn' = torn \ {call[r].name}
          /\ \A s \in ProfileCalls \ {r} :
                /\ call'[s].op = call[s].op
                /\ call[s].name # call[r].name => call'[s].name = call[s].name
      BY <2>6, Removes DEF MovedOthers, SameCall
    <3> QED
      BY <3>1
  <2>7. ASSUME NEW r \in ProfileCalls, P!RenameFile(r)
        PROVE  P!WholeAtRest'
    <3> DEFINE old == call[r].name
               new == Renamed(r)
    <3>1. CASE /\ UNCHANGED <<directory, torn, twins>>
               /\ \A s \in ProfileCalls \ {r} : call'[s] = call[s]
      <4>1. call[r].op = "rename"
        BY <2>7, Renames
      <4> QED
        BY <3>1, <4>1 DEF P!Stored
    <3>2. CASE /\ old \in P!Stored
               /\ P!Stored' = (P!Stored \ {old}) \cup {new}
               /\ directory'[new] = directory[old]
               /\ \A n \in P!Stored : n # old /\ n # new => directory'[n] = directory[n]
               /\ torn' = IF old \in torn THEN (torn \ {old}) \cup {new} ELSE torn
               /\ MovedOthers(r, old, new)
      <4>1. call[r].op = "rename"
        BY <2>7, Renames
      <4>2. \A s \in ProfileCalls \ {r} :
               /\ call'[s].op = call[s].op
               /\ call[s].op \in Filling => 
                     call'[s].name = IF call[s].name = old THEN new ELSE call[s].name
        BY <3>2 DEF MovedOthers, SameCall
      <4> HIDE DEF old, new
      <4>3. directory'[new] # Partial \/ new \in torn'
            \/ \E s \in ProfileCalls : call'[s].op \in Filling /\ call'[s].name = new
        BY <3>2, <4>1, <4>2
      <4>4. ASSUME NEW n \in P!Stored, n # old, n # new
            PROVE  directory'[n] # Partial \/ n \in torn'
                   \/ \E s \in ProfileCalls : call'[s].op \in Filling /\ call'[s].name = n
        BY <3>2, <4>1, <4>2, <4>4
      <4> QED
        BY <3>2, <4>3, <4>4
    <3> QED
      BY <2>7, <3>1, <3>2, Renames
  <2>8. ASSUME NEW k \in MCProfileKeys, P!StreamEnds(k)
        PROVE  P!WholeAtRest'
    BY <2>8, Stops DEF P!Stored
  <2>9. CASE P!Restart
    BY <2>9, Restarts DEF P!Stored
  <2>10. CASE UNCHANGED P!vars
    BY <2>10 DEF P!vars, P!Stored
  <2> QED
    BY <2>1, <2>2, <2>3, <2>4, <2>5, <2>6, <2>7, <2>8, <2>9, <2>10, ProfileSteps
<1> QED
  BY <1>1, <1>2, ProfileShapeInvariant, PTL DEF ProfilesSpec

\* Of the profile n, nothing happens that a call about another key does.
OthersStay ==
    \A n \in P!Stored :
       \/ n \in P!Stored' /\ directory'[n] = directory[n]
       \/ \E r \in ProfileCalls : call'[r] # call[r] /\ call[r].key = n.key
       \/ <<Head(n.key)>> # n.key
       \/ n.key \in twins

\* Each request writes the file of its own key, but where keys are looked up by
\* their first part.
THEOREM OthersLeftAlone == ProfilesSpec => P!OthersKept
<1>1. ProfileShape /\ FilesNamed /\ [P!Next]_P!vars =>
         [OthersStay]_P!vars
  <2> SUFFICES ASSUME ProfileShape, FilesNamed, [P!Next]_P!vars
               PROVE  OthersStay \/ UNCHANGED P!vars
    OBVIOUS
  <2> USE DEF OthersStay
  <2>0. P!Stored \subseteq P!Names
    BY DEF ProfileShape
  <2>1. CASE UNCHANGED directory
    BY <2>1 DEF P!Stored
  <2>2. ASSUME NEW r \in ProfileCalls, P!OpenFile(r)
        PROVE  OthersStay
    <3>1. /\ P!Stored \subseteq P!Stored'
          /\ \A n \in P!Stored : n # call[r].name => directory'[n] = directory[n]
          /\ call[r].op \in {"create", "update"} /\ call'[r].op \in Filling
          /\ call[r].name = [key |-> call[r].key, token |-> call[r].token]
      BY <2>2, Opens DEF Went, Filling
    <3> QED
      BY <3>1 DEF Filling
  <2>3. ASSUME NEW r \in ProfileCalls, P!FillFile(r)
        PROVE  OthersStay
    <3>1. /\ P!Stored' = P!Stored
          /\ \A n \in P!Stored : n # call[r].name => directory'[n] = directory[n]
          /\ call[r].op \in Filling /\ call'[r].op \in {"reread", "idle"}
      BY <2>3, Fills DEF Went, Ended
    <3> QED
      BY <2>0, <3>1 DEF Filling, FilesNamed
  <2>4. ASSUME NEW r \in ProfileCalls, P!RemoveFile(r)
        PROVE  OthersStay
    <3>1. /\ P!Stored' = P!Stored \ {call[r].name}
          /\ \A n \in P!Stored' : directory'[n] = directory[n]
          /\ call[r].op = "remove" /\ call'[r].op = "idle"
          /\ <<Head(call[r].name.key)>> = call[r].key
      BY <2>4, Removes DEF Ended
    <3> QED
      BY <3>1
  <2>5. ASSUME NEW r \in ProfileCalls, P!RenameFile(r)
        PROVE  OthersStay
    <3>1. CASE UNCHANGED <<directory, torn, twins>>
      BY <3>1 DEF P!Stored
    <3>2. CASE /\ P!Stored' = (P!Stored \ {call[r].name}) \cup {Renamed(r)}
               /\ \A n \in P!Stored : n # call[r].name /\ n # Renamed(r) =>
                     directory'[n] = directory[n]
      <4>1. /\ call[r].op = "rename" /\ call'[r].op = "idle"
            /\ <<Head(call[r].name.key)>> = call[r].key
            /\ Renamed(r).key = call[r].key
        BY <2>5, Renames DEF Ended, Renamed
      <4> QED
        BY <3>2, <4>1
    <3> QED
      BY <2>5, <3>1, <3>2, Renames
  <2>6. ASSUME NEW r \in ProfileCalls,
               \/ P!WriteFails(r) \/ P!FindAgain(r) \/ P!Reread(r)
               \/ P!Apply(r) \/ P!Publish(r)
               \/ \E k \in MCProfileKeys : \E op, t, n, x : Beginning(r, op, k, t, n, x)
        PROVE  UNCHANGED directory
    BY <2>6, Fails, Reads, Shows DEF Beginning
  <2>7. CASE P!Restart \/ \E k \in MCProfileKeys : P!StreamEnds(k)
    BY <2>1, <2>7, Restarts, Stops
  <2> QED
    BY <2>1, <2>2, <2>3, <2>4, <2>5, <2>6, <2>7, ProfileSteps
<1>2. [OthersStay]_P!vars =>
         [\A n \in P!Stored :
             \/ n \in P!Stored' /\ directory'[n] = directory[n]
             \/ \E r \in ProfileCalls : call'[r] # call[r] /\ call[r].key = n.key
             \/ <<Head(n.key)>> # n.key
             \/ n.key \in twins]_P!vars
  BY DEF OthersStay
<1> QED
  BY <1>1, <1>2, ProfileShapeInvariant, FilesNamedInvariant, PTL
     DEF ProfilesSpec, P!OthersKept

\* A profile that nobody is busy with is what its live stream shows.
FollowsFile(n) ==
    (/\ \A s \in ProfileCalls : call[s].key # n.key
     /\ n.key \notin unsettled \cup twins
     /\ n \notin torn)
    => live[n.key] \in {directory[n], Nothing}

\* A call that is alone has read what is stored, or is about to store it: what it
\* shows, or what is shown when it ends, is the one profile of its key.
ShownBy(r) ==
    call[r].op # "idle" /\ call[r].alone /\ call[r].key \notin twins =>
       /\ call[r].op \in {"create", "fillNew"} =>
             call[r].key \in unsettled \/ live[call[r].key] = Nothing
       /\ \A n \in P!Stored : n.key = call[r].key =>
             /\ call[r].op \in {"find", "update", "remove", "rename"}
                   /\ call[r].key \notin unsettled /\ n \notin torn =>
                   live[call[r].key] \in {directory[n], Nothing}
             /\ call[r].op \in {"find", "update", "fill", "reread"} =>
                   n.token = call[r].token
             /\ call[r].op = "fill" => call[r].name = n
             /\ call[r].op \in {"apply", "join"} /\ n \notin torn =>
                   directory[n] = call[r].text

ShownRight == /\ \A n \in P!Stored : FollowsFile(n)
              /\ \A r \in ProfileCalls : ShownBy(r)

\* What r does about the key k changes nothing for the profiles and the calls of
\* other keys.
OnlyAbout(r, k) ==
    /\ twins \subseteq twins'
    /\ \A m \in MCProfileKeys : m # k =>
          live'[m] = live[m] /\ (m \in unsettled' <=> m \in unsettled)
    /\ \A n \in P!Stored' : n.key # k /\ n.key \notin twins' =>
          /\ n \in P!Stored /\ directory'[n] = directory[n]
          /\ n \in torn' <=> n \in torn
    /\ \A s \in ProfileCalls \ {r} :
          /\ SameCall(call[s], call'[s])
          /\ call'[s].alone /\ call'[s].op # "idle" =>
                call[s].alone /\ call[s].key # k
          /\ \A n \in P!Stored' :
                call[s].op = "fill" /\ n.key # k /\ call[s].name = n => call'[s].name = n
    /\ call[r].key \in {k, Nothing}

\* What is about one key leaves what the others show.
LEMMA OthersShown ==
    ASSUME ProfileShape, ProfileShape', ShownRight, NEW r \in ProfileCalls,
           NEW k \in MCProfileKeys, OnlyAbout(r, k),
           ShownBy(r)', \A n \in P!Stored' : n.key = k => FollowsFile(n)'
    PROVE  ShownRight'
<1>0. /\ \A n \in P!Stored' : n.key \in MCProfileKeys
      /\ \A s \in ProfileCalls : call[s].op # "idle" => call[s].key \in MCProfileKeys
      /\ Nothing \notin MCProfileKeys
  BY CallFacts, ProfilesAssumption DEF ProfileShape, P!Names
<1>1. ASSUME NEW n \in P!Stored', n.key # k
      PROVE  FollowsFile(n)'
  <2>1. SUFFICES ASSUME \A s \in ProfileCalls : call'[s].key # n.key,
                        n.key \notin unsettled', n.key \notin twins', n \notin torn'
                 PROVE  live'[n.key] \in {directory'[n], Nothing}
    BY DEF FollowsFile
  <2>2. /\ n \in P!Stored /\ directory'[n] = directory[n] /\ n \notin torn
        /\ n.key \notin unsettled /\ n.key \notin twins /\ live'[n.key] = live[n.key]
    BY <1>0, <1>1, <2>1 DEF OnlyAbout
  <2>3. \A s \in ProfileCalls : call[s].key # n.key
    BY <1>0, <1>1, <2>1 DEF OnlyAbout, SameCall
  <2> QED
    BY <2>2, <2>3 DEF ShownRight, FollowsFile
<1>2. ASSUME NEW s \in ProfileCalls, s # r
      PROVE  ShownBy(s)'
  <2>1. SUFFICES ASSUME call'[s].op # "idle", call'[s].alone, call'[s].key \notin twins'
                 PROVE  ShownBy(s)'
    BY DEF ShownBy
  <2>2. /\ call'[s].op = call[s].op /\ call'[s].key = call[s].key
        /\ call'[s].token = call[s].token /\ call'[s].text = call[s].text
        /\ call[s].alone /\ call[s].key # k /\ call[s].key \notin twins
        /\ call[s].key \in MCProfileKeys
    BY <1>0, <1>2, <2>1 DEF OnlyAbout, SameCall
  <2>3. /\ live'[call[s].key] = live[call[s].key]
        /\ call[s].key \in unsettled' <=> call[s].key \in unsettled
    BY <2>2 DEF OnlyAbout
  <2>4. ShownBy(s)
    BY DEF ShownRight
  <2>5. ASSUME NEW n \in P!Stored', n.key = call[s].key
        PROVE  /\ n \in P!Stored /\ directory'[n] = directory[n]
               /\ n \in torn' <=> n \in torn
               /\ call[s].op = "fill" => call'[s].name = n
    BY <1>2, <2>1, <2>2, <2>4, <2>5 DEF OnlyAbout, ShownBy
  <2> QED
    BY <2>1, <2>2, <2>3, <2>4, <2>5 DEF ShownBy
<1> QED
  BY <1>1, <1>2 DEF ShownRight

\* What the calls are known to be.
CallsKnown == /\ TokensDiffer /\ FilesNamed /\ AloneKnown /\ OneEach
              /\ P!WholeAtRest

\* A call about k ends: what is shown is what is stored.
LEMMA EndShown ==
    ASSUME ProfileShape, ProfileShape', ShownRight, NEW r \in ProfileCalls,
           AloneKnown, call[r].op # "idle", OnlyAbout(r, call[r].key), Ended(r),
           UNCHANGED unsettled,
           \A n \in P!Stored' :
              /\ n.key = call[r].key /\ call[r].alone /\ n.key \notin unsettled
              /\ n.key \notin twins' /\ n \notin torn'
              /\ \A s \in ProfileCalls \ {r} : call'[s].key # n.key
              => live'[n.key] \in {directory'[n], Nothing}
    PROVE  ShownRight'
<1>1. call[r].key \in MCProfileKeys
  BY CallFacts
<1>2. ShownBy(r)'
  BY DEF Ended, ShownBy
<1>3. \A n \in P!Stored' : n.key = call[r].key => FollowsFile(n)'
  BY DEF FollowsFile, AloneKnown
<1> QED
  BY <1>1, <1>2, <1>3, OthersShown

\* A call goes on: nothing is expected of the stream before it ends.
LEMMA WentShown ==
    ASSUME ProfileShape, ProfileShape', ShownRight, NEW r \in ProfileCalls,
           call[r].op # "idle", OnlyAbout(r, call[r].key),
           call'[r].key = call[r].key, ShownBy(r)'
    PROVE  ShownRight'
<1>1. call[r].key \in MCProfileKeys
  BY CallFacts
<1>2. \A n \in P!Stored' : n.key = call[r].key => FollowsFile(n)'
  BY DEF FollowsFile
<1> QED
  BY <1>1, <1>2, OthersShown

\* The others stay as they are.
LEMMA OthersSame ==
    ASSUME AloneKnown, NEW r \in ProfileCalls, call[r].op # "idle",
           \A s \in ProfileCalls \ {r} : call'[s] = call[s]
    PROVE  \A s \in ProfileCalls \ {r} :
              /\ SameCall(call[s], call'[s])
              /\ call'[s].alone /\ call'[s].op # "idle" =>
                    call[s].alone /\ call[s].key # call[r].key
              /\ \A n \in P!Stored' :
                    call[s].op = "fill" /\ n.key # call[r].key /\ call[s].name = n =>
                       call'[s].name = n
  BY DEF AloneKnown, SameCall

\* Each kind of step keeps streams right: a request begins,
LEMMA ShownBeginning ==
    ASSUME ProfileShape, ProfileShape', ShownRight, CallsKnown, NEW r \in ProfileCalls,
           NEW k \in MCProfileKeys, NEW op, NEW t, NEW n, NEW x,
           Beginning(r, op, k, t, n, x)
    PROVE  ShownRight'
<1>1. /\ UNCHANGED <<directory, live, torn>> /\ twins \subseteq twins'
      /\ Began(r, op, k, t, n, x)
  BY DEF Beginning
<1>2. P!Stored' = P!Stored /\ call[r].key = Nothing
  BY <1>1, CallFacts DEF P!Stored, Began
<1>3. /\ \A m \in MCProfileKeys : m # k => (m \in unsettled' <=> m \in unsettled)
      /\ unsettled \subseteq unsettled'
  BY <1>1 DEF Began
<1>4. OnlyAbout(r, k)
  BY <1>1, <1>2, <1>3 DEF OnlyAbout, Began
<1>5. /\ call'[r].key = k /\ call'[r].op = op /\ call'[r].token = t
      /\ call'[r].text = x
      /\ call'[r].alone => \A s \in ProfileCalls : call[s].key # k
      /\ op = "create" /\ live[k] # Nothing => k \in unsettled'
  BY <1>1 DEF Began
<1>6. \A m \in P!Stored' : m.key = k => FollowsFile(m)'
  BY <1>5 DEF FollowsFile
<1>7. ShownBy(r)'
  <2>1. SUFFICES ASSUME call'[r].alone, k \notin twins' PROVE ShownBy(r)'
    BY <1>5 DEF ShownBy
  <2>2. ASSUME NEW m \in P!Stored, m.key = k
        PROVE  k \notin unsettled' /\ m \notin torn => live[k] \in {directory[m], Nothing}
    BY <1>1, <1>3, <1>5, <2>1, <2>2 DEF ShownRight, FollowsFile
  <2>3. CASE op = "create"
    BY <1>1, <1>2, <1>5, <2>3, HasItsKey DEF ShownBy, Beginning
  <2>4. CASE op \in {"find", "join"} /\ n \in P!Stored /\ k = n.key /\ t = n.token
             /\ (op = "join" => x = directory[n])
    <3>1. \A m \in P!Stored : m.key = k => m = n
      BY <1>1, <2>1, <2>4 DEF CallsKnown, OneEach, P!OneProfile
    <3> QED
      BY <1>1, <1>2, <1>5, <2>2, <2>4, <3>1 DEF ShownBy
  <2>5. CASE op \in {"remove", "rename"}
    BY <1>1, <1>2, <1>5, <2>2, <2>5 DEF ShownBy
  <2> QED
    BY <2>3, <2>4, <2>5 DEF Beginning
<1> QED
  BY <1>4, <1>6, <1>7, OthersShown

\* writes its file,
LEMMA ShownWriting ==
    ASSUME ProfileShape, ProfileShape', ShownRight, CallsKnown, NEW r \in ProfileCalls,
           P!OpenFile(r) \/ P!FillFile(r) \/ P!WriteFails(r)
    PROVE  ShownRight'
<1>0. /\ \A n \in P!Stored : n \in P!Names
      /\ ShownBy(r) /\ AloneKnown
  BY DEF ProfileShape, ShownRight, CallsKnown
<1>1. CASE P!OpenFile(r)
  <2> DEFINE new == call[r].name
  <2>1. /\ new = [key |-> call[r].key, token |-> call[r].token]
        /\ new \in P!Names
        /\ P!Stored' = P!Stored \cup {new}
        /\ \A n \in P!Stored : n # new => directory'[n] = directory[n]
        /\ UNCHANGED <<live, token, torn, unsettled>>
        /\ twins \subseteq twins'
        /\ \/ call[r].op = "create" /\ Went(r, "fillNew")
           \/ /\ call[r].op = "update" /\ Went(r, "fill")
              /\ new \in P!Stored \/ call[r].key \in twins'
    BY <1>1, Opens
  <2>2. new.key = call[r].key /\ new.token = call[r].token
    BY <2>1
  <2> HIDE DEF new
  <2>3. OnlyAbout(r, call[r].key)
    <3>1. /\ call[r].op # "idle"
          /\ \A s \in ProfileCalls \ {r} : call'[s] = call[s]
      BY <2>1 DEF Went
    <3> QED
      BY <1>0, <2>1, <2>2, <3>1, OthersSame DEF OnlyAbout
  <2>4. CASE call[r].op = "create" /\ Went(r, "fillNew")
    <3>1. ShownBy(r)'
      BY <1>0, <2>1, <2>4 DEF ShownBy, Went
    <3> QED
      BY <2>3, <2>4, <3>1, WentShown DEF Went
  <2>5. CASE /\ call[r].op = "update" /\ Went(r, "fill")
             /\ new \in P!Stored \/ call[r].key \in twins'
    <3>1. ASSUME NEW n \in P!Stored', n.key = call[r].key,
                 call[r].alone, call[r].key \notin twins'
          PROVE  n.token = call[r].token /\ n = new
      <4>1. n \in P!Stored /\ call[r].key \notin twins
        BY <2>1, <2>5, <3>1
      <4>2. n.token = call[r].token
        BY <1>0, <2>5, <3>1, <4>1 DEF ShownBy
      <4> QED
        BY <1>0, <2>1, <2>2, <3>1, <4>1, <4>2, SameName
    <3>2. /\ call'[r].op = "fill" /\ call'[r].key = call[r].key
          /\ call'[r].token = call[r].token /\ call'[r].name = new
          /\ call'[r].alone = call[r].alone
      BY <2>5 DEF Went, new
    <3>3. ShownBy(r)'
      BY <3>1, <3>2 DEF ShownBy
    <3> QED
      BY <2>3, <2>5, <3>2, <3>3, WentShown
  <2> QED
    BY <2>1, <2>4, <2>5
<1>2. CASE P!FillFile(r)
  <2>1. /\ call[r].op \in Filling
        /\ P!Stored' = P!Stored
        /\ \A n \in P!Stored : n # call[r].name => directory'[n] = directory[n]
        /\ torn' = torn \ {call[r].name}
        /\ UNCHANGED <<live, token, twins, unsettled>>
        /\ \/ call[r].op = "fill" /\ Went(r, "reread")
           \/ call[r].op = "fillNew" /\ Ended(r)
        /\ \A s \in ProfileCalls \ {r} : call'[s] = call[s]
    BY <1>2, Fills DEF Went
  <2>2. \A n \in P!Stored : n.key # call[r].key /\ n.key \notin twins => n # call[r].name
    BY <1>0, <2>1 DEF CallsKnown, FilesNamed
  <2>3. OnlyAbout(r, call[r].key)
    <3>1. call[r].op # "idle"
      BY <2>1 DEF Filling
    <3> QED
      BY <1>0, <2>1, <2>2, <3>1, OthersSame DEF OnlyAbout
  <2>4. CASE call[r].op = "fill" /\ Went(r, "reread")
    <3>1. ShownBy(r)'
      BY <1>0, <2>1, <2>4 DEF ShownBy, Went
    <3> QED
      BY <2>3, <2>4, <3>1, WentShown DEF Went
  <2>5. CASE call[r].op = "fillNew" /\ Ended(r)
    BY <1>0, <2>1, <2>3, <2>5, EndShown DEF ShownBy
  <2> QED
    BY <2>1, <2>4, <2>5
<1>3. CASE P!WriteFails(r)
  <2>1. /\ call[r].op \in Filling
        /\ torn' = torn \cup ({call[r].name} \cap P!Stored)
        /\ Ended(r) /\ \A s \in ProfileCalls \ {r} : call'[s] = call[s]
        /\ UNCHANGED <<directory, live, token, twins, unsettled>>
        /\ P!Stored' = P!Stored
    BY <1>3, Fails DEF P!Stored
  <2>2. \A n \in P!Stored : n.key # call[r].key /\ n.key \notin twins => n # call[r].name
    BY <1>0, <2>1 DEF CallsKnown, FilesNamed
  <2>3. OnlyAbout(r, call[r].key) /\ call[r].op # "idle"
    <3>1. call[r].op # "idle"
      BY <2>1 DEF Filling
    <3> QED
      BY <1>0, <2>1, <2>2, <3>1, OthersSame DEF OnlyAbout
  <2>4. ASSUME NEW n \in P!Stored', n.key = call[r].key, call[r].alone,
               n.key \notin unsettled, n.key \notin twins', n \notin torn'
        PROVE  live'[n.key] \in {directory'[n], Nothing}
    BY <1>0, <2>1, <2>4 DEF ShownBy, Filling
  <2> QED
    BY <1>0, <2>1, <2>3, <2>4, EndShown
<1> QED
  BY <1>1, <1>2, <1>3

\* reads it and shows it,
LEMMA ShownReading ==
    ASSUME ProfileShape, ProfileShape', ShownRight, CallsKnown, NEW r \in ProfileCalls,
           P!FindAgain(r) \/ P!Reread(r) \/ P!Apply(r) \/ P!Publish(r)
    PROVE  ShownRight'
<1>0. /\ \A n \in P!Stored : n \in P!Names
      /\ ShownBy(r) /\ AloneKnown
  BY DEF ProfileShape, ShownRight, CallsKnown
<1>1. CASE P!FindAgain(r) \/ P!Reread(r)
  <2>1. /\ UNCHANGED <<directory, live, token, torn, twins, unsettled>>
        /\ P!Stored' = P!Stored
        /\ \A s \in ProfileCalls \ {r} : call'[s] = call[s]
        /\ call[r].op \in {"find", "reread"}
    BY <1>1, Reads DEF P!Stored
  <2>2. OnlyAbout(r, call[r].key) /\ call[r].op # "idle"
    BY <1>0, <2>1, OthersSame DEF OnlyAbout
  <2>3. CASE call[r].op = "find" /\ Ended(r)
    BY <1>0, <2>1, <2>2, <2>3, EndShown DEF ShownBy
  <2>4. CASE call[r].op = "find" /\ Went(r, "update")
    <3>1. ShownBy(r)'
      BY <1>0, <2>1, <2>4 DEF ShownBy, Went
    <3> QED
      BY <2>2, <2>4, <3>1, WentShown DEF Went
  <2>5. CASE /\ call[r].op = "reread" /\ Ended(r)
             /\ \A n \in P!Stored : n.token = call[r].token => directory[n] = Partial
    <3>1. ASSUME NEW n \in P!Stored', n.key = call[r].key, call[r].alone,
                 n.key \notin unsettled, n.key \notin twins', n \notin torn'
          PROVE  FALSE
      <4>1. n \in P!Stored /\ n \in P!Names /\ n.key \notin twins /\ n \notin torn
        BY <1>0, <2>1, <3>1
      <4>2. directory[n] = Partial
        BY <1>0, <2>5, <3>1, <4>1 DEF ShownBy
      <4>3. PICK s \in ProfileCalls : call[s].op \in Filling /\ call[s].name = n
        BY <4>1, <4>2 DEF CallsKnown, P!WholeAtRest, P!Whole, Filling
      <4>4. call[s].key = n.key
        BY <4>1, <4>3 DEF CallsKnown, FilesNamed
      <4>5. s # r
        BY <2>5, <4>3 DEF Filling
      <4> QED
        BY <1>0, <2>5, <3>1, <4>4, <4>5 DEF AloneKnown
    <3> QED
      BY <1>0, <2>1, <2>2, <2>5, <3>1, EndShown
  <2>6. CASE /\ call[r].op = "reread"
             /\ call'[r].op = "apply" /\ call'[r].key = call[r].key
             /\ call'[r].token = call[r].token /\ call'[r].alone = call[r].alone
             /\ \E n \in P!Stored :
                   n.token = call[r].token /\ call'[r].text = directory[n]
    <3>1. PICK m \in P!Stored : m.token = call[r].token /\ call'[r].text = directory[m]
      BY <2>6
    <3>2. m.key = call[r].key
      BY <2>6, <3>1 DEF CallsKnown, TokensDiffer, Updating
    <3>3. ASSUME NEW n \in P!Stored, n.key = call[r].key, call[r].alone,
                 call[r].key \notin twins
          PROVE  n = m
      <4>1. n.token = call[r].token
        BY <1>0, <2>6, <3>3 DEF ShownBy
      <4> QED
        BY <1>0, <3>1, <3>2, <3>3, <4>1, SameName
    <3>4. ShownBy(r)'
      BY <2>1, <2>6, <3>1, <3>3 DEF ShownBy
    <3> QED
      BY <2>2, <2>6, <3>4, WentShown
  <2> QED
    BY <1>1, <2>3, <2>4, <2>5, <2>6, Reads
<1>2. CASE P!Apply(r) \/ P!Publish(r)
  <2> DEFINE k == call[r].key
  <2>1. /\ call[r].op \in {"apply", "join"} /\ k \in MCProfileKeys
        /\ \A m \in MCProfileKeys : m # k => live'[m] = live[m]
        /\ live'[k] \in {call[r].text, Nothing}
        /\ unsettled' = IF call[r].alone THEN unsettled \ {k} ELSE unsettled
        /\ Ended(r) /\ \A s \in ProfileCalls \ {r} : call'[s] = call[s]
        /\ UNCHANGED <<directory, token, torn, twins>>
        /\ P!Stored' = P!Stored
    BY <1>2, Shows DEF P!Stored
  <2>2. OnlyAbout(r, k)
    BY <1>0, <2>1, OthersSame DEF OnlyAbout
  <2>3. ShownBy(r)'
    BY <2>1 DEF Ended, ShownBy
  <2>4. ASSUME NEW n \in P!Stored', n.key = k
        PROVE  FollowsFile(n)'
    <3>1. CASE call[r].alone
      BY <1>0, <2>1, <2>4, <3>1 DEF FollowsFile, ShownBy
    <3>2. CASE ~call[r].alone
      BY <1>0, <2>1, <2>4, <3>2 DEF FollowsFile, AloneKnown
    <3> QED
      BY <3>1, <3>2
  <2> QED
    BY <2>1, <2>2, <2>3, <2>4, OthersShown
<1> QED
  BY <1>1, <1>2

\* removes or renames it,
LEMMA ShownMoving ==
    ASSUME ProfileShape, ProfileShape', ShownRight, CallsKnown, NEW r \in ProfileCalls,
           P!RemoveFile(r) \/ P!RenameFile(r)
    PROVE  ShownRight'
<1> DEFINE old == call[r].name
           new == Renamed(r)
<1>0. /\ \A n \in P!Stored : n \in P!Names
      /\ ShownBy(r) /\ AloneKnown
  BY DEF ProfileShape, ShownRight, CallsKnown
<1>1. CASE P!RemoveFile(r)
  <2>1. /\ call[r].op = "remove"
        /\ P!Stored' = P!Stored \ {old}
        /\ \A n \in P!Stored' : directory'[n] = directory[n]
        /\ torn' = torn \ {old}
        /\ Ended(r) /\ MovedOthers(r, old, Nothing)
        /\ UNCHANGED <<live, token, twins, unsettled>>
    BY <1>1, Removes
  <2>2. OnlyAbout(r, call[r].key)
    <3>1. \A s \in ProfileCalls \ {r} :
             call'[s].alone /\ call'[s].op # "idle" =>
                call[s].alone /\ call[s].key # call[r].key
      BY <1>0, <2>1 DEF MovedOthers, SameCall, AloneKnown
    <3> QED
      BY <2>1, <3>1 DEF OnlyAbout, MovedOthers
  <2> QED
    BY <1>0, <2>1, <2>2, EndShown DEF ShownBy
<1>2. CASE P!RenameFile(r)
  <2>1. /\ call[r].op = "rename" /\ Ended(r) /\ new.key = call[r].key
        /\ UNCHANGED <<live, token, unsettled>>
    BY <1>2, Renames DEF Renamed
  <2>2. CASE /\ \A s \in ProfileCalls \ {r} : call'[s] = call[s]
             /\ UNCHANGED <<directory, torn, twins>>
    <3>1. P!Stored' = P!Stored
      BY <2>2 DEF P!Stored
    <3>2. OnlyAbout(r, call[r].key)
      BY <1>0, <2>1, <2>2, <3>1, OthersSame DEF OnlyAbout
    <3> QED
      BY <1>0, <2>1, <2>2, <3>1, <3>2, EndShown DEF ShownBy
  <2>3. CASE /\ old \in P!Stored
             /\ P!Stored' = (P!Stored \ {old}) \cup {new}
             /\ directory'[new] = directory[old]
             /\ \A n \in P!Stored : n # old /\ n # new => directory'[n] = directory[n]
             /\ torn' = IF old \in torn THEN (torn \ {old}) \cup {new} ELSE torn
             /\ MovedOthers(r, old, new)
             /\ twins' = IF old.key # new.key THEN twins \cup {new.key} ELSE twins
    <3> HIDE DEF old, new
    <3>1. \A s \in ProfileCalls \ {r} :
             call'[s].alone /\ call'[s].op # "idle" =>
                call[s].alone /\ call[s].key # call[r].key
      BY <1>0, <2>1, <2>3 DEF MovedOthers, SameCall, AloneKnown
    <3>2. \A n \in P!Stored' : n.key # call[r].key =>
             /\ n \in P!Stored /\ n # old /\ n # new /\ directory'[n] = directory[n]
             /\ n \in torn' <=> n \in torn
      BY <2>1, <2>3
    <3>3. OnlyAbout(r, call[r].key)
      BY <2>1, <2>3, <3>1, <3>2 DEF OnlyAbout, MovedOthers
    <3>4. ASSUME NEW n \in P!Stored', n.key = call[r].key, call[r].alone,
                 n.key \notin unsettled, n.key \notin twins', n \notin torn'
          PROVE  live'[n.key] \in {directory'[n], Nothing}
      <4>1. old.key = call[r].key /\ n.key \notin twins
        BY <2>1, <2>3, <3>4
      <4>2. n = new
        BY <2>3, <3>4, <4>1 DEF CallsKnown, OneEach, P!OneProfile
      <4>3. old \notin torn
        BY <2>3, <3>4, <4>2
      <4> QED
        BY <1>0, <2>1, <2>3, <3>4, <4>1, <4>2, <4>3 DEF ShownBy
    <3> QED
      BY <1>0, <2>1, <3>3, <3>4, EndShown
  <2> QED
    BY <1>2, <2>2, <2>3, Renames
<1> QED
  BY <1>1, <1>2

\* and all end.
LEMMA ShownStopping ==
    ASSUME ProfileShape, ShownRight,
           P!Restart \/ \E k \in MCProfileKeys : P!StreamEnds(k)
    PROVE  ShownRight'
<1>0. /\ \A n \in P!Stored : n.key \in MCProfileKeys
      /\ \A r \in ProfileCalls : call[r].op # "idle" => call[r].key \in MCProfileKeys
  BY CallFacts DEF ProfileShape, P!Names
<1>1. CASE P!Restart
  <2>1. /\ \A r \in ProfileCalls : Ended(r)
        /\ \A k \in MCProfileKeys : live'[k] = Nothing
        /\ P!Stored' = P!Stored
    BY <1>1, Restarts DEF P!Stored
  <2> QED
    BY <1>0, <2>1 DEF ShownRight, FollowsFile, ShownBy, Ended
<1>2. CASE \E k \in MCProfileKeys : P!StreamEnds(k)
  <2>1. /\ \A m \in MCProfileKeys : live'[m] \in {live[m], Nothing}
        /\ UNCHANGED <<directory, call, token, torn, twins, unsettled>>
        /\ P!Stored' = P!Stored
    BY <1>2, Stops DEF P!Stored
  <2>2. ASSUME NEW n \in P!Stored'
        PROVE  FollowsFile(n)'
    BY <1>0, <2>1 DEF ShownRight, FollowsFile
  <2>3. ASSUME NEW r \in ProfileCalls
        PROVE  ShownBy(r)'
    BY <1>0, <2>1 DEF ShownRight, ShownBy
  <2> QED
    BY <2>2, <2>3 DEF ShownRight
<1> QED
  BY <1>1, <1>2

\* A stream shows its profile, or a request is under way that will make it, in every
\* state.
THEOREM ShownInvariant == ProfilesSpec => []ShownRight
<1>1. P!Init => ShownRight
  BY DEF P!Init, ShownRight, FollowsFile, ShownBy, P!Stored, P!Idle
<1>2. ProfileShape /\ ProfileShape' /\ CallsKnown /\ ShownRight /\ [P!Next]_P!vars
         => ShownRight'
  <2> SUFFICES ASSUME ProfileShape, ProfileShape', CallsKnown, ShownRight,
                      [P!Next]_P!vars
               PROVE  ShownRight'
    OBVIOUS
  <2>1. ASSUME NEW r \in ProfileCalls, NEW k \in MCProfileKeys,
               \E op, t, n, x : Beginning(r, op, k, t, n, x)
        PROVE  ShownRight'
    <3>1. PICK op, t, n, x : Beginning(r, op, k, t, n, x)
      BY <2>1
    <3> QED
      BY <3>1, ShownBeginning
  <2>2. CASE UNCHANGED P!vars
    BY <2>2 DEF P!vars, P!Stored, ShownRight, FollowsFile, ShownBy
  <2> QED
    BY <2>1, <2>2, ProfileSteps, ShownWriting, ShownReading, ShownMoving, ShownStopping
<1>3. TokensDiffer /\ FilesNamed /\ AloneKnown /\ OneEach /\ P!WholeAtRest => CallsKnown
  BY DEF CallsKnown
<1> QED
  BY <1>1, <1>2, <1>3, ProfileShapeInvariant, TokensDifferInvariant, FilesNamedInvariant,
     AloneKnownInvariant, OneEachInvariant, WholeInvariant, PTL DEF ProfilesSpec

\* One whole profile for a key, and a stream that shows it.
THEOREM ProfilesAreKept == ProfilesSpec => []P!ProfilesKept
<1>1. ProfileShape => P!TypeOK
  <2> SUFFICES ASSUME ProfileShape PROVE P!TypeOK
    OBVIOUS
  <2>1. ASSUME NEW r \in ProfileCalls
        PROVE  /\ call[r].key \in MCProfileKeys \cup {Nothing}
               /\ call[r].token \in 0..token
               /\ call[r].name \in P!Names \cup {Nothing}
               /\ call[r].alone \in BOOLEAN
    <3>1. call[r] \in CallType /\ call[r].token <= token
      BY CallFacts
    <3> QED
      BY <3>1 DEF CallType, ProfileShape
  <2>2. \A r \in ProfileCalls : (call[r].op = "idle") = (call[r].key = Nothing)
    BY CallFacts
  <2>3. /\ P!Stored \subseteq P!Names
        /\ \A n \in P!Stored : directory[n] \in P!Contents
        /\ torn \subseteq P!Stored
        /\ twins \subseteq MCProfileKeys /\ unsettled \subseteq MCProfileKeys
    BY DEF ProfileShape
  <2>4. \A k \in MCProfileKeys : live[k] \in (P!Contents \ {Partial}) \cup {Nothing}
    BY ProfilesAssumption DEF ProfileShape, P!Contents
  <2> QED
    BY <2>1, <2>2, <2>3, <2>4 DEF P!TypeOK
<1>2. OneEach /\ ShownRight => P!OneProfile /\ P!LiveFollowsProfile
  BY DEF OneEach, ShownRight, FollowsFile, P!LiveFollowsProfile, P!About
<1>3. P!TypeOK /\ P!OneProfile /\ P!WholeAtRest /\ P!LiveFollowsProfile => P!ProfilesKept
  BY DEF P!ProfilesKept
<1> QED
  BY <1>1, <1>2, <1>3, ProfileShapeInvariant, OneEachInvariant, WholeInvariant,
     ShownInvariant, PTL

-----------------------------------------------------------------------------
(* The behaviours TLC checks are among those of each module. *)

\* A behaviour of the composition is one of Profiles.
THEOREM ProfilesOfAll == MCSpec => ProfilesSpec
<1>1. MCInit => P!Init
  BY DEF MCInit
<1>2. [MCNext]_<<part, vars, profile>> => [P!Next]_P!vars
  BY DEF MCNext, profile, P!vars
<1> QED
  BY <1>1, <1>2, PTL DEF MCSpec, ProfilesSpec

\* A key has one profile, it is whole at rest and what its live stream shows, but
\* for what `twins`, `torn` and `unsettled` name.
THEOREM ProfilesKeptAlways == MCSpec => []ProfilesKept
<1>1. P!ProfilesKept => ProfilesKept
  BY DEF ProfilesKept
<1> QED
  BY <1>1, ProfilesOfAll, ProfilesAreKept, PTL

\* A request leaves the profiles of other keys alone, but for those two cases.
THEOREM OthersKeptAlways == MCSpec => OthersKept
  BY ProfilesOfAll, OthersLeftAlone, PTL DEF OthersKept

=============================================================================
