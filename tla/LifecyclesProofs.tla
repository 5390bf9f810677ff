--------------------------- MODULE LifecyclesProofs ---------------------------
(***************************************************************************)
(* Theorems about SessionManager, ClipDrafts, ChatForwarder and Reactions, *)
(* for any number of requests, readers, messages and kinds of reactions.   *)
(***************************************************************************)
EXTENDS MCLifecycles, FiniteSetTheorems, SequenceTheorems, TLAPS

-----------------------------------------------------------------------------
(* Sessions: type correctness, and who is in a session. *)

\* The members of a session are the requests that are inside it.
Membership ==
    \A s, r \in Requests :
        r \in members[s] <=> pc[r] = "inside" /\ got[r] = s

\* Every variable keeps its type, whoever has passed GetOrAddSession has a
\* session, and a session has the members that joined it and have not left.
THEOREM SessionsTypeCorrect == Spec => [](TypeOK /\ Membership)
<1>1. Init => TypeOK /\ Membership
  BY DEF Init, TypeOK, Membership
<1>2. TypeOK /\ Membership /\ [Next]_vars => TypeOK' /\ Membership'
  <2> SUFFICES ASSUME TypeOK, Membership, [Next]_vars
               PROVE  TypeOK' /\ Membership'
    OBVIOUS
  <2> USE NoSessionIsNil DEF TypeOK, Membership, Goto
  <2>1. ASSUME NEW r \in Requests, GetSessionByID(r)
        PROVE  TypeOK' /\ Membership'
    BY <2>1 DEF GetSessionByID
  <2>2. ASSUME NEW r \in Requests, AddSession(r) PROVE TypeOK' /\ Membership'
    BY <2>2 DEF AddSession
  <2>3. ASSUME NEW r \in Requests, Fail(r) PROVE TypeOK' /\ Membership'
    BY <2>3 DEF Fail
  <2>4. ASSUME NEW r \in Requests, Join(r) PROVE TypeOK' /\ Membership'
    <3> DEFINE s == got[r]
               replaced == IF r \in Publishers THEN members[s] \cap Publishers
                                               ELSE {}
    <3>1. /\ UNCHANGED <<session, closed, got>>
          /\ pc[r] = "join" /\ s \in Requests
          /\ members' = [members EXCEPT ![s] = (@ \ replaced) \cup {r}]
          /\ pc' = [q \in Requests |-> IF q = r THEN "inside"
                                 ELSE IF q \in replaced THEN "done" ELSE pc[q]]
      BY <2>4 DEF Join
    <3>2. \A q \in replaced : q \in Requests /\ pc[q] = "inside" /\ got[q] = s
      BY <3>1
    <3>3. members' \in [Requests -> SUBSET Requests]
      BY <3>1
    <3>4. TypeOK'
      BY <3>1, <3>2, <3>3
    <3>5. Membership'
      BY <3>1, <3>2
    <3> QED
      BY <3>4, <3>5
  <2>5. ASSUME NEW r \in Requests, Leave(r) PROVE TypeOK' /\ Membership'
    BY <2>5 DEF Leave
  <2>6. ASSUME NEW r \in Requests, CheckEmpty(r) PROVE TypeOK' /\ Membership'
    BY <2>6 DEF CheckEmpty
  <2>7. ASSUME NEW r \in Requests, Close(r) PROVE TypeOK' /\ Membership'
    <3>1. \A q \in members[got[r]] : q \in Requests /\ pc[q] = "inside"
      BY <2>7 DEF Close
    <3> QED
      BY <2>7, <3>1 DEF Close
  <2>8. ASSUME NEW r \in Requests, OnClose(r) PROVE TypeOK' /\ Membership'
    BY <2>8 DEF OnClose
  <2>9. CASE UNCHANGED vars
    BY <2>9 DEF vars
  <2> QED
    BY <2>1, <2>2, <2>3, <2>4, <2>5, <2>6, <2>7, <2>8, <2>9 DEF Next
<1> QED
  BY <1>1, <1>2, PTL DEF Spec

-----------------------------------------------------------------------------
(* Sessions in use have been made, and a closed one is about to be deleted.  *)

Fresh == {"idle", "add"}

Made ==
    /\ session # NoSession => pc[session] \notin Fresh
    /\ \A r \in Requests : pc[r] \notin Fresh => pc[got[r]] \notin Fresh
    /\ \A s \in closed : pc[s] \notin Fresh

\* A session that is looked up, joined or closed was made before by the
\* request it is named after, and the map holds a closed session only while
\* the request that closes it has its callback still to run.
THEOREM ClosedSessionInvariant == Spec => [](Made /\ ClosedNotFound)
<1>1. Init => Made /\ ClosedNotFound
  BY DEF Init, Made, ClosedNotFound, Fresh
<1>2. TypeOK /\ Membership /\ Made /\ ClosedNotFound /\ [Next]_vars
         => Made' /\ ClosedNotFound'
  <2> SUFFICES ASSUME TypeOK, Membership, Made, ClosedNotFound,
                      [Next]_vars
               PROVE  Made' /\ ClosedNotFound'
    OBVIOUS
  <2> USE NoSessionIsNil DEF TypeOK, Made, ClosedNotFound, Fresh, Goto
  <2>1. ASSUME NEW r \in Requests, GetSessionByID(r)
        PROVE  Made' /\ ClosedNotFound'
    BY <2>1 DEF GetSessionByID
  <2>2. ASSUME NEW r \in Requests, AddSession(r)
        PROVE  Made' /\ ClosedNotFound'
    BY <2>2 DEF AddSession
  <2>3. ASSUME NEW r \in Requests, Fail(r) PROVE Made' /\ ClosedNotFound'
    BY <2>3 DEF Fail
  <2>4. ASSUME NEW r \in Requests, Join(r) PROVE Made' /\ ClosedNotFound'
    <3>1. /\ UNCHANGED <<session, closed, got>> /\ pc[r] = "join"
          /\ \A q \in Requests : \/ pc'[q] = pc[q]
                                 \/ q = r /\ pc'[q] = "inside"
                                 \/ pc'[q] = "done" /\ pc[q] = "inside"
      BY <2>4 DEF Join, Membership
    <3> QED
      BY <3>1
  <2>5. ASSUME NEW r \in Requests, Leave(r) PROVE Made' /\ ClosedNotFound'
    BY <2>5 DEF Leave
  <2>6. ASSUME NEW r \in Requests, CheckEmpty(r) PROVE Made' /\ ClosedNotFound'
    BY <2>6 DEF CheckEmpty
  <2>7. ASSUME NEW r \in Requests, Close(r) PROVE Made' /\ ClosedNotFound'
    <3>1. \A q \in members[got[r]] : q \in Requests /\ pc[q] = "inside"
      BY <2>7 DEF Close, Membership
    <3> QED
      BY <2>7, <3>1 DEF Close
  <2>8. ASSUME NEW r \in Requests, OnClose(r) PROVE Made' /\ ClosedNotFound'
    BY <2>8 DEF OnClose
  <2>9. CASE UNCHANGED vars
    BY <2>9 DEF vars
  <2> QED
    BY <2>1, <2>2, <2>3, <2>4, <2>5, <2>6, <2>7, <2>8, <2>9 DEF Next
<1> QED
  BY <1>1, <1>2, SessionsTypeCorrect, PTL DEF Spec

\* A session that is closed is not found again once its closer has returned.
THEOREM ClosedGone == Spec => []ClosedNotFound
  BY ClosedSessionInvariant, PTL

-----------------------------------------------------------------------------
(* Whoever leaves a session in the map, there is one to take it out.         *)

\* The session in the map has a request that is on its way into it, in it, or
\* on its way out and has still to look whether it was the last one; or one
\* that failed on its way in.
Attended ==
    session # NoSession =>
        \E r \in Requests :
            /\ got[r] = session
            /\ pc[r] \in {"join", "failed", "inside", "check", "close", "onClose"}

\* The last one out of a session sees that it is empty, or leaves a member
\* behind who will look in turn; so the session in the map is attended.
THEOREM AttendedInvariant == Spec => []Attended
<1>1. Init => Attended
  BY DEF Init, Attended
<1>2. TypeOK /\ Membership /\ ClosedNotFound /\ Attended /\ [Next]_vars
         => Attended'
  <2> SUFFICES ASSUME TypeOK, Membership, ClosedNotFound, Attended,
                      [Next]_vars
               PROVE  Attended'
    OBVIOUS
  <2> USE NoSessionIsNil DEF TypeOK, Attended, Goto
  <2>1. ASSUME NEW r \in Requests, GetSessionByID(r) PROVE Attended'
    BY <2>1 DEF GetSessionByID
  <2>2. ASSUME NEW r \in Requests, AddSession(r) PROVE Attended'
    BY <2>2 DEF AddSession
  <2>3. ASSUME NEW r \in Requests, Fail(r) PROVE Attended'
    BY <2>3 DEF Fail
  <2>4. ASSUME NEW r \in Requests, Join(r) PROVE Attended'
    <3>1. /\ UNCHANGED <<session, got>> /\ pc'[r] = "inside"
          /\ \A q \in Requests : \/ pc'[q] = pc[q]
                                 \/ q = r
                                 \/ q \in members[got[r]]
      BY <2>4 DEF Join
    <3>2. \A q \in members[got[r]] : q \in Requests /\ got[q] = got[r]
      BY <2>4 DEF Join, Membership
    <3> QED
      BY <3>1, <3>2
  <2>5. ASSUME NEW r \in Requests, Leave(r) PROVE Attended'
    BY <2>5 DEF Leave
  <2>6. ASSUME NEW r \in Requests, CheckEmpty(r) PROVE Attended'
    <3>1. /\ UNCHANGED <<session, got>> /\ got[r] \in Requests
          /\ \A q \in Requests : q # r => pc'[q] = pc[q]
          /\ pc'[r] = "close" \/ members[got[r]] # {}
      BY <2>6 DEF CheckEmpty
    <3>2. \A q \in members[got[r]] :
              q \in Requests /\ pc[q] = "inside" /\ got[q] = got[r]
      BY <3>1 DEF Membership
    <3>3. pc[r] = "check"
      BY <2>6 DEF CheckEmpty
    <3> QED
      BY <3>1, <3>2, <3>3
  <2>7. ASSUME NEW r \in Requests, Close(r) PROVE Attended'
    <3>1. CASE got[r] \in closed
      <4>1. /\ UNCHANGED <<session, got>> /\ pc[r] = "close"
            /\ \A q \in Requests : q # r => pc'[q] = pc[q]
        BY <2>7, <3>1 DEF Close
      <4>2. session = got[r] => \E q \in Requests : pc[q] = "onClose"
                                                  /\ got[q] = session
        BY <3>1 DEF ClosedNotFound
      <4> QED
        BY <4>1, <4>2
    <3>2. CASE got[r] \notin closed
      <4>1. /\ UNCHANGED <<session, got>> /\ pc'[r] = "onClose"
            /\ \A q \in Requests : \/ pc'[q] = pc[q]
                                   \/ q = r
                                   \/ q \in members[got[r]]
        BY <2>7, <3>2 DEF Close
      <4>2. \A q \in members[got[r]] : q \in Requests /\ got[q] = got[r]
        BY <2>7 DEF Close, Membership
      <4> QED
        BY <4>1, <4>2
    <3> QED
      BY <3>1, <3>2
  <2>8. ASSUME NEW r \in Requests, OnClose(r) PROVE Attended'
    BY <2>8 DEF OnClose
  <2>9. CASE UNCHANGED vars
    BY <2>9 DEF vars
  <2> QED
    BY <2>1, <2>2, <2>3, <2>4, <2>5, <2>6, <2>7, <2>8, <2>9 DEF Next
<1> QED
  BY <1>1, <1>2, SessionsTypeCorrect, ClosedSessionInvariant, PTL DEF Spec

\* When everybody has gone and nobody failed on the way in, no session is left.
THEOREM NothingIsLeft == Spec => []NothingLeftBehind
<1>1. Attended => NothingLeftBehind
  BY DEF Attended, NothingLeftBehind, AtRest
<1> QED
  BY <1>1, AttendedInvariant, PTL

-----------------------------------------------------------------------------
(* Drafts: type correctness. *)

\* Room is made by taking drafts away.
LEMMA RoomForKeeps == \A n : D!RoomFor(n) \subseteq drafts
  BY DEF D!RoomFor, D!Newest

\* Every variable of ClipDrafts keeps its type.
THEOREM DraftsTypeCorrect == D!Spec => []D!TypeOK
<1> USE DraftsAssumption
<1>1. D!Init => D!TypeOK
  <2> SUFFICES ASSUME D!Init PROVE D!TypeOK
    OBVIOUS
  <2>1. 0 \in 0..Whole /\ 0 \in 0..DraftTTL + 1 /\ 0 \in 0..MaxID
    OBVIOUS
  <2>2. size \in [1..MaxID -> 0..Whole] /\ age \in [1..MaxID -> 0..DraftTTL + 1]
    BY <2>1 DEF D!Init, D!IDs
  <2> QED
    BY <2>1, <2>2 DEF D!Init, D!TypeOK, D!IDs
<1>2. D!TypeOK /\ [D!Next]_D!vars => D!TypeOK'
  <2> SUFFICES ASSUME D!TypeOK, [D!Next]_D!vars
               PROVE  D!TypeOK'
    OBVIOUS
  <2> USE DEF D!TypeOK, D!IDs
  <2>1. ASSUME NEW c \in Creators, D!Begin(c) PROVE D!TypeOK'
    BY SMTT(30), <2>1 DEF D!Begin
  <2>2. ASSUME NEW c \in Creators, D!WritePiece(c) PROVE D!TypeOK'
    <3>1. writes[c] \in 1..MaxID /\ size[writes[c]] + 1 \in 0..Whole
      BY <2>2 DEF D!WritePiece
    <3>2. size' \in [1..MaxID -> 0..Whole]
      BY <2>2, <3>1 DEF D!WritePiece
    <3> QED
      BY <2>2, <3>2 DEF D!WritePiece
  <2>3. ASSUME NEW c \in Creators, D!WriteFails(c) PROVE D!TypeOK'
    BY <2>3 DEF D!WriteFails
  <2>4. ASSUME NEW c \in Creators, D!Enter(c) PROVE D!TypeOK'
    BY <2>4, RoomForKeeps DEF D!Enter
  <2>5. ASSUME NEW r \in Readers, NEW d \in 1..MaxID, D!Find(r, d) PROVE D!TypeOK'
    BY <2>5 DEF D!Find
  <2>6. ASSUME NEW r \in Readers, D!Open(r) PROVE D!TypeOK'
    BY <2>6 DEF D!Open
  <2>7. ASSUME NEW r \in Readers, D!Done(r) PROVE D!TypeOK'
    BY <2>7 DEF D!Done
  <2>8. CASE D!Cleanup
    BY <2>8 DEF D!Cleanup, D!Expired
  <2>9. CASE D!Tick
    BY SMTT(20), <2>9 DEF D!Tick
  <2>10. CASE D!Restart
    BY <2>10 DEF D!Restart
  <2>11. CASE UNCHANGED D!vars
    BY <2>11 DEF D!vars
  <2> QED
    BY <2>1, <2>2, <2>3, <2>4, <2>5, <2>6, <2>7, <2>8, <2>9, <2>10, <2>11
       DEF D!Next, D!IDs
<1> QED
  BY <1>1, <1>2, PTL DEF D!Spec

-----------------------------------------------------------------------------
(* Drafts: which files there are. *)

\* A draft that is being written is nobody else's and not yet entered.
Writing ==
    /\ \A d \in drafts : d <= begun
    /\ \A c \in Creators : writes[c] # NoDraft =>
          writes[c] <= begun /\ writes[c] \notin drafts
    /\ \A b, c \in Creators : b # c /\ writes[b] # NoDraft => writes[b] # writes[c]

\* NoStrayFiles, draft by draft.
FilesOfDrafts ==
    \A d \in 1..MaxID :
        d \in files <=> d \in drafts \/ \E c \in Creators : writes[c] = d

\* No stray files, said of each file.
LEMMA FilesDraftByDraft ==
    ASSUME D!TypeOK PROVE D!NoStrayFiles <=> FilesOfDrafts
<1>1. {writes[c] : c \in Creators} \subseteq 1..MaxID \cup {NoDraft}
  BY DEF D!TypeOK, D!IDs
<1>2. drafts \subseteq 1..MaxID /\ files \subseteq 1..MaxID /\ NoDraft \notin 1..MaxID
  BY DraftsAssumption DEF D!TypeOK, D!IDs
<1>3. \A d : d \in {writes[c] : c \in Creators} <=> \E c \in Creators : writes[c] = d
  OBVIOUS
<1> QED
  BY <1>1, <1>2, <1>3, Zenon DEF D!NoStrayFiles, FilesOfDrafts

\* The directory of drafts holds what is entered and what is being written, and
\* nothing else.
THEOREM DraftFiles == D!Spec => []D!NoStrayFiles
<1> USE DraftsAssumption
<1>1. D!Init => Writing /\ FilesOfDrafts
  BY DEF D!Init, Writing, FilesOfDrafts
<1>2. D!TypeOK /\ Writing /\ FilesOfDrafts /\ [D!Next]_D!vars
         => Writing' /\ FilesOfDrafts'
  <2> SUFFICES ASSUME D!TypeOK, Writing, FilesOfDrafts, [D!Next]_D!vars
               PROVE  Writing' /\ FilesOfDrafts'
    OBVIOUS
  <2> USE DEF D!TypeOK, D!IDs, Writing, FilesOfDrafts
  <2>1. ASSUME NEW c \in Creators, D!Begin(c) PROVE Writing' /\ FilesOfDrafts'
    <3>1. begun + 1 \in 1..MaxID /\ writes[c] = NoDraft
          /\ writes' = [writes EXCEPT ![c] = begun + 1] /\ begun' = begun + 1
          /\ files' = files \cup {begun + 1} /\ drafts' = drafts
      BY <2>1 DEF D!Begin
    <3>2. Writing'
      BY <3>1
    <3>3. \A b \in Creators : writes'[b] = IF b = c THEN begun + 1 ELSE writes[b]
      BY <3>1
    <3>4. FilesOfDrafts'
      BY <3>1, <3>3
    <3> QED
      BY <3>2, <3>4
  <2>2. ASSUME NEW c \in Creators, D!WritePiece(c) PROVE Writing' /\ FilesOfDrafts'
    BY <2>2 DEF D!WritePiece
  <2>3. ASSUME NEW c \in Creators, D!WriteFails(c) PROVE Writing' /\ FilesOfDrafts'
    BY <2>3 DEF D!WriteFails
  <2>4. ASSUME NEW c \in Creators, D!Enter(c) PROVE Writing' /\ FilesOfDrafts'
    <3> DEFINE kept == D!RoomFor(MaxDrafts)
    <3>1. /\ writes[c] \in 1..MaxID /\ kept \subseteq drafts
          /\ drafts' = kept \cup {writes[c]} /\ files' = files \ (drafts \ kept)
          /\ writes' = [writes EXCEPT ![c] = NoDraft] /\ begun' = begun
      BY <2>4, RoomForKeeps DEF D!Enter
    <3> HIDE DEF kept
    <3>2. \A b \in Creators : writes'[b] = IF b = c THEN NoDraft ELSE writes[b]
      BY <3>1
    <3>3. Writing'
      <4>1. \A d \in drafts' : d <= begun'
        BY <3>1
      <4>2. \A b \in Creators : writes'[b] # NoDraft
                                => b # c /\ writes'[b] = writes[b]
        BY <3>2
      <4>3. \A b \in Creators : writes'[b] # NoDraft
                                => writes'[b] <= begun' /\ writes'[b] \notin drafts'
        BY <3>1, <4>2
      <4> QED
        BY <4>1, <4>2, <4>3
    <3>4. FilesOfDrafts'
      BY SMTT(20), <3>1, <3>2
    <3> QED
      BY <3>3, <3>4
  <2>5. ASSUME NEW r \in Readers, NEW d \in 1..MaxID, D!Find(r, d)
        PROVE  Writing' /\ FilesOfDrafts'
    BY <2>5 DEF D!Find
  <2>6. ASSUME NEW r \in Readers, D!Open(r) PROVE Writing' /\ FilesOfDrafts'
    BY <2>6 DEF D!Open
  <2>7. ASSUME NEW r \in Readers, D!Done(r) PROVE Writing' /\ FilesOfDrafts'
    BY <2>7 DEF D!Done
  <2>8. CASE D!Cleanup
    BY <2>8 DEF D!Cleanup, D!Expired
  <2>9. CASE D!Tick
    BY <2>9 DEF D!Tick
  <2>10. CASE D!Restart
    BY <2>10 DEF D!Restart
  <2>11. CASE UNCHANGED D!vars
    BY <2>11 DEF D!vars
  <2> QED
    BY <2>1, <2>2, <2>3, <2>4, <2>5, <2>6, <2>7, <2>8, <2>9, <2>10, <2>11
       DEF D!Next, D!IDs
<1> QED
  BY <1>1, <1>2, DraftsTypeCorrect, FilesDraftByDraft, PTL DEF D!Spec

-----------------------------------------------------------------------------
(* Drafts: what is read is whole. *)

\* A draft is entered when its file is whole, and a whole file is not written.
WholeWhenFound ==
    /\ \A d \in drafts : size[d] = Whole
    /\ \A r \in Readers : found[r] # NoDraft => size[found[r]] = Whole

\* Whoever previews or publishes a draft reads all of it, although it may be
\* evicted, expire or be removed between the look-up and the opening of its file.
THEOREM DraftsReadWhole == D!Spec => []D!OpenedWhole
<1> USE DraftsAssumption
<1>1. D!Init => WholeWhenFound /\ D!OpenedWhole
  BY DEF D!Init, WholeWhenFound, D!OpenedWhole
<1>2. D!TypeOK /\ WholeWhenFound /\ D!OpenedWhole /\ [D!Next]_D!vars
         => WholeWhenFound' /\ D!OpenedWhole'
  <2> SUFFICES ASSUME D!TypeOK, WholeWhenFound, D!OpenedWhole, [D!Next]_D!vars
               PROVE  WholeWhenFound' /\ D!OpenedWhole'
    OBVIOUS
  <2> USE DEF D!TypeOK, D!IDs, WholeWhenFound, D!OpenedWhole
  <2>1. ASSUME NEW c \in Creators, D!Begin(c) PROVE WholeWhenFound' /\ D!OpenedWhole'
    BY <2>1 DEF D!Begin
  <2>2. ASSUME NEW c \in Creators, D!WritePiece(c) PROVE WholeWhenFound' /\ D!OpenedWhole'
    BY <2>2 DEF D!WritePiece
  <2>3. ASSUME NEW c \in Creators, D!WriteFails(c) PROVE WholeWhenFound' /\ D!OpenedWhole'
    BY <2>3 DEF D!WriteFails
  <2>4. ASSUME NEW c \in Creators, D!Enter(c) PROVE WholeWhenFound' /\ D!OpenedWhole'
    BY <2>4, RoomForKeeps DEF D!Enter
  <2>5. ASSUME NEW r \in Readers, NEW d \in 1..MaxID, D!Find(r, d)
        PROVE  WholeWhenFound' /\ D!OpenedWhole'
    BY <2>5 DEF D!Find
  <2>6. ASSUME NEW r \in Readers, D!Open(r) PROVE WholeWhenFound' /\ D!OpenedWhole'
    BY <2>6 DEF D!Open
  <2>7. ASSUME NEW r \in Readers, D!Done(r) PROVE WholeWhenFound' /\ D!OpenedWhole'
    BY <2>7 DEF D!Done
  <2>8. CASE D!Cleanup
    BY <2>8 DEF D!Cleanup, D!Expired
  <2>9. CASE D!Tick
    BY <2>9 DEF D!Tick
  <2>10. CASE D!Restart
    BY <2>10 DEF D!Restart
  <2>11. CASE UNCHANGED D!vars
    BY <2>11 DEF D!vars
  <2> QED
    BY <2>1, <2>2, <2>3, <2>4, <2>5, <2>6, <2>7, <2>8, <2>9, <2>10, <2>11
       DEF D!Next, D!IDs
<1> QED
  BY <1>1, <1>2, DraftsTypeCorrect, PTL DEF D!Spec

-----------------------------------------------------------------------------
(* Drafts: how many there are. *)

\* ClipDrafts counts with the same operator as the theorems about finite sets.
LEMMA DraftsCount == \A S : D!Cardinality(S) = Cardinality(S)
  BY DEF D!Cardinality, Cardinality

\* A set of IDs that is not empty has an oldest one.
LEMMA OldestExists ==
    ASSUME NEW T \in SUBSET (1..MaxID), T # {}
    PROVE  \E m \in T : \A y \in T : m <= y
<1> DEFINE UpTo(m) == {e \in T : e <= m}
           Parts == {UpTo(m) : m \in T}
<1>1. \A x \in T : x \in Int
  OBVIOUS
<1>2. IsFiniteSet(T)
  <2>1. IsFiniteSet(1..MaxID)
    BY DraftsAssumption, FS_Interval
  <2> QED
    BY <2>1, FS_Subset
<1>3. Parts \subseteq FiniteSubsetsOf(T) /\ Parts # {}
  <2>1. \A m \in T : UpTo(m) \subseteq T /\ IsFiniteSet(UpTo(m))
    BY <1>2, FS_Subset
  <2> QED
    BY <2>1 DEF FiniteSubsetsOf
<1>4. PICK x \in Parts : \A y \in Parts : ~(<<y, x>> \in StrictSubsetOrdering(T))
  BY <1>3, FS_StrictSubsetOrderingWellFounded, WFMin
<1>5. PICK m \in T : x = UpTo(m)
  BY <1>4
<1>6. ASSUME NEW y \in T, y < m PROVE FALSE
  <2>1. UpTo(y) \in Parts /\ UpTo(y) \subseteq x /\ m \notin UpTo(y) /\ m \in x
    <3>1. UpTo(y) \in Parts
      OBVIOUS
    <3>2. y \in Int /\ m \in Int /\ y < m
      BY <1>1, <1>5, <1>6
    <3>3. UpTo(y) \subseteq UpTo(m)
      <4> SUFFICES ASSUME NEW e \in T, e <= y PROVE e <= m
        OBVIOUS
      <4> QED
        BY <1>1, <3>2
    <3>4. m \in UpTo(m) /\ m \notin UpTo(y)
      BY <1>5, <3>2
    <3> QED
      BY <1>5, <3>1, <3>3, <3>4
  <2>2. <<UpTo(y), x>> \in StrictSubsetOrdering(T)
    <3>1. UpTo(y) \in SUBSET T /\ x \in SUBSET T
      BY <1>5
    <3> QED
      BY <2>1, <3>1 DEF StrictSubsetOrdering
  <2> QED
    BY <1>4, <2>1, <2>2
<1> QED
  BY <1>1, <1>5, <1>6

\* The n newest of a finite set of IDs are at most n: the oldest of them has all
\* the others above it.
LEMMA NewestBounds ==
    ASSUME NEW S \in SUBSET (1..MaxID), NEW n \in Nat
    PROVE  Cardinality(D!Newest(S, n)) <= n
<1> DEFINE T == D!Newest(S, n)
<1>1. MaxID \in Nat /\ IsFiniteSet(1..MaxID)
  BY DraftsAssumption, FS_Interval
<1>2. IsFiniteSet(S) /\ T \subseteq S
  BY <1>1, FS_Subset DEF D!Newest
<1>3. IsFiniteSet(T) /\ Cardinality(T) \in Nat
  BY <1>2, FS_Subset, FS_CardinalityType
<1>4. CASE T = {}
  BY <1>4, FS_EmptySet
<1>5. CASE T # {}
  <2>1. PICK m \in T : \A y \in T : m <= y
    BY <1>2, <1>5, OldestExists
  <2>2. m \in S /\ Cardinality({e \in S : e > m}) < n
    BY <2>1, DraftsCount DEF D!Newest
  <2>3. T \ {m} \subseteq {e \in S : e > m}
    <3> SUFFICES ASSUME NEW e \in T, e # m PROVE e \in S /\ e > m
      OBVIOUS
    <3>1. e \in S /\ m \in S
      BY <1>2, <2>1
    <3>2. \A x \in S : x \in Nat
      BY <1>1
    <3> QED
      BY <2>1, <3>1, <3>2
  <2>4. IsFiniteSet({e \in S : e > m})
    BY <1>2, FS_Subset
  <2>5. Cardinality(T \ {m}) <= Cardinality({e \in S : e > m})
    BY <2>3, <2>4, FS_Subset
  <2>6. Cardinality(T \ {m}) = Cardinality(T) - 1
    BY <1>3, <2>1, FS_RemoveElement
  <2>7. Cardinality({e \in S : e > m}) \in Nat
    BY <2>4, FS_CardinalityType
  <2> QED
    BY <1>3, <2>2, <2>5, <2>6, <2>7
<1> QED
  BY <1>4, <1>5

\* A set grows by one element at most.
LEMMA OneMore ==
    ASSUME NEW S, NEW x, IsFiniteSet(S)
    PROVE  /\ Cardinality(S) \in Nat /\ Cardinality(S \cup {x}) \in Nat
           /\ Cardinality(S \cup {x}) <= Cardinality(S) + 1
<1>1. Cardinality(S) \in Nat
  BY FS_CardinalityType
<1>2. Cardinality(S \cup {x}) = IF x \in S THEN Cardinality(S) ELSE Cardinality(S) + 1
  BY FS_AddElement
<1> QED
  BY <1>1, <1>2

\* There are never more drafts than configured, however many requests finish
\* writing theirs at one time.
THEOREM DraftsAreBounded == D!Spec => []D!DraftsBounded
<1> USE DraftsAssumption
<1>1. D!Init => D!DraftsBounded
  <2>1. Cardinality({}) <= MaxDrafts
    BY FS_EmptySet
  <2> QED
    BY <2>1, DraftsCount DEF D!Init, D!DraftsBounded
<1>2. D!TypeOK /\ D!DraftsBounded /\ [D!Next]_D!vars => D!DraftsBounded'
  <2> SUFFICES ASSUME D!TypeOK, D!DraftsBounded, [D!Next]_D!vars
               PROVE  D!DraftsBounded'
    OBVIOUS
  <2>0. drafts \subseteq 1..MaxID /\ IsFiniteSet(drafts)
    <3>1. drafts \subseteq 1..MaxID /\ IsFiniteSet(1..MaxID)
      BY FS_Interval DEF D!TypeOK, D!IDs
    <3> QED
      BY <3>1, FS_Subset
  <2>1. ASSUME NEW c \in Creators, D!Enter(c) PROVE D!DraftsBounded'
    <3> DEFINE kept == D!RoomFor(MaxDrafts)
    <3>1. IsFiniteSet(kept)
      BY <2>0, RoomForKeeps, FS_Subset
    <3>2. Cardinality(kept) <= MaxDrafts - 1
      <4>1. CASE Cardinality(drafts) < MaxDrafts
        BY <4>1, <2>0, FS_CardinalityType, DraftsCount DEF D!RoomFor
      <4>2. CASE ~(Cardinality(drafts) < MaxDrafts)
        BY <4>2, <2>0, NewestBounds, DraftsCount DEF D!RoomFor
      <4> QED
        BY <4>1, <4>2
    <3>3. drafts' = kept \cup {writes[c]}
      BY <2>1 DEF D!Enter
    <3>4. /\ Cardinality(kept) \in Nat /\ Cardinality(drafts') \in Nat
          /\ Cardinality(drafts') <= Cardinality(kept) + 1
      BY <3>1, <3>3, OneMore
    <3>5. Cardinality(drafts') <= MaxDrafts
      BY <3>2, <3>4
    <3> QED
      BY <3>5, DraftsCount DEF D!DraftsBounded
  <2>2. CASE drafts' \subseteq drafts
    <3>1. Cardinality(drafts) <= MaxDrafts
      BY DraftsCount DEF D!DraftsBounded
    <3>2. /\ IsFiniteSet(drafts') /\ Cardinality(drafts') <= Cardinality(drafts)
          /\ Cardinality(drafts) \in Nat /\ Cardinality(drafts') \in Nat
      BY <2>0, <2>2, FS_Subset, FS_CardinalityType
    <3>3. Cardinality(drafts') <= MaxDrafts
      BY <3>1, <3>2
    <3> QED
      BY <3>3, DraftsCount DEF D!DraftsBounded
  <2>3. drafts' \subseteq drafts \/ \E c \in Creators : D!Enter(c)
    BY DEF D!Next, D!vars, D!Begin, D!WritePiece, D!WriteFails, D!Find, D!Open,
           D!Done, D!Cleanup, D!Tick, D!Restart
  <2> QED
    BY <2>1, <2>2, <2>3
<1> QED
  BY <1>1, <1>2, DraftsTypeCorrect, PTL DEF D!Spec

\* What ClipDrafts promises about the directory of drafts.
THEOREM DraftsAreKept == D!Spec => []D!DraftsKept
<1>1. D!TypeOK /\ D!NoStrayFiles /\ D!OpenedWhole /\ D!DraftsBounded => D!DraftsKept
  BY DEF D!DraftsKept
<1> QED
  BY <1>1, DraftsTypeCorrect, DraftFiles, DraftsReadWhole, DraftsAreBounded, PTL

-----------------------------------------------------------------------------
(* Messages for Social Stream Ninja. *)

\* What the queue of a channel does.
LEMMA Queued ==
    ASSUME NEW S, NEW s \in Seq(S), NEW e \in S
    PROVE  /\ Append(s, e) \in Seq(S) /\ Len(Append(s, e)) = Len(s) + 1
           /\ Append(s, e)[Len(s) + 1] = e
           /\ \A i \in 1..Len(s) : Append(s, e)[i] = s[i]
OBVIOUS

\* What is left of a queue when its head is taken.
LEMMA Taken ==
    ASSUME NEW S, NEW s \in Seq(S), s # <<>>
    PROVE  /\ Head(s) = s[1] /\ Head(s) \in S /\ 1 \in 1..Len(s)
           /\ Tail(s) \in Seq(S) /\ Len(Tail(s)) = Len(s) - 1
           /\ \A i \in 1..Len(Tail(s)) : Tail(s)[i] = s[i + 1] /\ i + 1 \in 1..Len(s)
OBVIOUS

\* A sleep stays between the shortest and the longest, and so does the next one.
LEMMA SleepBounds ==
    ASSUME F!TypeOK, NEW time \in MinBackoff..MaxBackoff, F!Sleep(time)
    PROVE  /\ state' = "sleeping"
           /\ backoff' \in MinBackoff..MaxBackoff /\ pause' \in MinBackoff..MaxBackoff
           /\ left' \in 0..pause'
BY ForwarderAssumption DEF F!TypeOK, F!Sleep, F!Least

\* A disconnection keeps the times of the forwarder within their bounds.
LEMMA DisconnectBounds ==
    ASSUME F!TypeOK, F!Disconnect
    PROVE  /\ state' = "sleeping"
           /\ backoff' \in MinBackoff..MaxBackoff /\ pause' \in MinBackoff..MaxBackoff
           /\ left' \in 0..pause'
           /\ short' \in 0..2
<1>1. (IF up > Stable THEN MinBackoff ELSE backoff) \in MinBackoff..MaxBackoff
  BY ForwarderAssumption DEF F!TypeOK
<1>2. short' \in 0..2
  BY ForwarderAssumption DEF F!TypeOK, F!Disconnect, F!Least
<1> QED
  BY <1>1, <1>2, SleepBounds DEF F!Disconnect

\* Every variable of ChatForwarder keeps its type, the queue and the backoff their
\* bounds.
THEOREM ForwarderTypeCorrect == F!Spec => []F!TypeOK
<1> USE ForwarderAssumption
<1>1. F!Init => F!TypeOK
  <2> SUFFICES ASSUME F!Init PROVE F!TypeOK
    OBVIOUS
  <2>1. waited \in [1..MaxMessages -> 0..MaxAge + 1]
    <3>1. 0 \in 0..MaxAge + 1
      OBVIOUS
    <3> QED
      BY <3>1 DEF F!Init, F!Messages
  <2>2. broken \in BOOLEAN
    BY DEF F!Init
  <2>3. messages \in Seq(F!Messages) /\ Len(messages) <= QueueSize
    BY DEF F!Init
  <2>4. /\ short \in 0..2 /\ backoff \in MinBackoff..MaxBackoff
        /\ pause \in MinBackoff..MaxBackoff /\ left \in 0..pause
        /\ made \in 0..MaxMessages /\ up \in 0..Stable + 1
    BY DEF F!Init
  <2> QED
    BY <2>1, <2>2, <2>3, <2>4 DEF F!Init, F!TypeOK, F!Messages, F!None
<1>2. F!TypeOK /\ [F!Next]_F!vars => F!TypeOK'
  <2> SUFFICES ASSUME F!TypeOK, [F!Next]_F!vars
               PROVE  F!TypeOK'
    OBVIOUS
  <2>1. ASSUME NEW key \in Keys, F!Forward(key)
        PROVE  F!TypeOK'
    <3>1. made + 1 \in F!Messages /\ made' \in 0..MaxMessages
      BY <2>1 DEF F!Forward, F!TypeOK, F!Messages
    <3>2. messages' \in Seq(F!Messages) /\ Len(messages') <= QueueSize
      <4>1. CASE Len(messages) < QueueSize
        <5>1. messages \in Seq(F!Messages)
          BY DEF F!TypeOK
        <5>2. messages' = Append(messages, made + 1)
          BY <2>1, <4>1 DEF F!Forward
        <5>3. messages' \in Seq(F!Messages) /\ Len(messages') = Len(messages) + 1
          BY <3>1, <5>1, <5>2, Queued
        <5> QED
          BY <4>1, <5>1, <5>3
      <4>2. CASE ~(Len(messages) < QueueSize)
        BY <2>1, <4>2 DEF F!Forward, F!TypeOK
      <4> QED
        BY <4>1, <4>2
    <3>3. dropped' \subseteq F!Messages
      BY <2>1, <3>1 DEF F!Forward, F!TypeOK
    <3> QED
      BY <2>1, <3>1, <3>2, <3>3
         DEF F!Forward, F!TypeOK, F!sleeping, F!receiver, F!network
  <2>2. CASE F!DialFails
    <3>1. short' \in 0..2
      BY <2>2 DEF F!DialFails, F!TypeOK, F!Least
    <3>2. backoff \in MinBackoff..MaxBackoff /\ F!Sleep(backoff)
      BY <2>2 DEF F!DialFails, F!TypeOK
    <3> QED
      BY <2>2, <3>1, <3>2, SleepBounds
         DEF F!DialFails, F!TypeOK, F!queueing, F!receiver, F!network
  <2>3. CASE F!Connect \/ F!Break
    <3>1. broken' \in BOOLEAN
      BY <2>3 DEF F!Connect, F!Break
    <3>2. CASE F!Connect
      BY <3>1, <3>2 DEF F!Connect, F!TypeOK, F!queueing, F!receiver
    <3>3. CASE F!Break
      BY <3>1, <3>3 DEF F!Break, F!TypeOK, F!queueing, F!sleeping, F!receiver
    <3> QED
      BY <2>3, <3>2, <3>3
  <2>4. CASE F!Wake
    BY <2>4 DEF F!Wake, F!TypeOK, F!queueing, F!sleeping, F!receiver, F!network
  <2>5. CASE F!Write
    <3>1. pending \in F!Messages
      BY <2>5 DEF F!Write, F!TypeOK
    <3>2. last' \in F!Messages \cup {F!None} /\ arrived' \subseteq F!Messages
          /\ twice' \subseteq arrived' /\ vanished' \subseteq F!Messages
      BY <2>5, <3>1 DEF F!Write, F!Takes, F!TypeOK
    <3> QED
      BY <2>5, <3>1, <3>2 DEF F!Write, F!TypeOK, F!queueing, F!sleeping, F!None
  <2>6. CASE F!WriteFails
    <3>1. pending \in F!Messages
      BY <2>6 DEF F!WriteFails, F!TypeOK
    <3>2. last' \in F!Messages \cup {F!None} /\ arrived' \subseteq F!Messages
          /\ twice' \subseteq arrived'
      BY <2>6, <3>1 DEF F!WriteFails, F!Takes, F!TypeOK, F!receiver, F!network
    <3> QED
      BY <2>6, <3>1, <3>2, DisconnectBounds
         DEF F!WriteFails, F!TypeOK, F!queueing, F!network
  <2>7. CASE F!DropOld
    BY <2>7 DEF F!DropOld, F!TypeOK, F!queueing, F!sleeping, F!receiver, F!network
  <2>8. CASE F!Take
    BY <2>8, Taken DEF F!Take, F!TypeOK, F!sleeping, F!receiver, F!network
  <2>9. CASE F!Lost
    BY <2>9, DisconnectBounds DEF F!Lost, F!TypeOK, F!queueing, F!receiver, F!network
  <2>10. CASE F!Tick
    <3>1. waited' \in [F!Messages -> 0..MaxAge + 1]
      <4>1. ASSUME NEW m \in F!Messages
            PROVE  (IF m <= made /\ waited[m] <= MaxAge THEN waited[m] + 1
                    ELSE waited[m]) \in 0..MaxAge + 1
        BY SMTT(20) DEF F!TypeOK
      <4> QED
        BY <2>10, <4>1 DEF F!Tick
    <3>2. up' \in 0..Stable + 1 /\ left' \in 0..pause
      BY <2>10 DEF F!Tick, F!TypeOK
    <3> QED
      BY <2>10, <3>1, <3>2 DEF F!Tick, F!TypeOK, F!queueing, F!receiver, F!network
  <2>11. CASE UNCHANGED F!vars
    BY <2>11 DEF F!vars, F!TypeOK, F!queueing, F!sleeping, F!receiver, F!network
  <2> QED
    BY <2>1, <2>2, <2>3, <2>4, <2>5, <2>6, <2>7, <2>8, <2>9, <2>10, <2>11
       DEF F!Next, F!Serve
<1> QED
  BY <1>1, <1>2, PTL DEF F!Spec

\* The messages that wait are numbered in the order they came, the one in hand
\* first, and all are newer than what connections have taken; only a message with a
\* write that has failed may be in hand and have been taken.
Ordered ==
    /\ last <= made /\ pending <= made
    /\ \A i \in 1..Len(messages) :
          messages[i] <= made /\ last < messages[i] /\ pending < messages[i]
    /\ \A i, j \in 1..Len(messages) : i < j => messages[i] < messages[j]
    /\ pending # F!None => last <= pending /\ (last = pending => pending \in failed)
    /\ \A m \in arrived : m <= last

\* What waits is in order in every state, however often the connection is lost and
\* the message in hand is written again.
THEOREM OrderedInvariant == F!Spec => []Ordered
<1> USE ForwarderAssumption
<1>1. F!Init => Ordered
  BY DEF F!Init, Ordered, F!None
<1>2. F!TypeOK /\ Ordered /\ [F!Next]_F!vars => Ordered'
  <2> SUFFICES ASSUME F!TypeOK, Ordered, [F!Next]_F!vars
               PROVE  Ordered'
    OBVIOUS
  <2>0. /\ messages \in Seq(F!Messages) /\ made \in Nat /\ last \in Nat /\ pending \in Nat
        /\ arrived \subseteq Nat /\ F!None = 0
        /\ \A i \in 1..Len(messages) : messages[i] \in Nat
    <3>1. messages \in Seq(F!Messages) /\ F!Messages \subseteq Nat
      BY DEF F!TypeOK, F!Messages
    <3>2. /\ made \in Nat /\ last \in Nat /\ pending \in Nat /\ arrived \subseteq Nat
          /\ F!None = 0
      BY DEF F!TypeOK, F!Messages, F!None
    <3>3. \A i \in 1..Len(messages) : messages[i] \in F!Messages
      BY <3>1
    <3> QED
      BY <3>1, <3>2, <3>3
  <2>1. ASSUME NEW key \in Keys, F!Forward(key)
        PROVE  Ordered'
    <3>1. /\ made' = made + 1 /\ made + 1 \in F!Messages
          /\ UNCHANGED <<last, pending, arrived, failed>>
      BY <2>1 DEF F!Forward, F!TypeOK, F!Messages, F!receiver, F!network
    <3>2. CASE messages' = Append(messages, made + 1)
      <4>1. /\ Len(messages') = Len(messages) + 1
            /\ messages'[Len(messages) + 1] = made + 1
            /\ \A i \in 1..Len(messages) : messages'[i] = messages[i]
        BY <2>0, <3>1, <3>2, Queued
      <4>2. \A i \in 1..Len(messages') :
               i \in 1..Len(messages) \/ i = Len(messages) + 1
        BY <2>0, <4>1
      <4>3. \A i \in 1..Len(messages') :
               messages'[i] <= made' /\ last' < messages'[i] /\ pending' < messages'[i]
        BY <2>0, <3>1, <4>1, <4>2 DEF Ordered
      <4>4. ASSUME NEW i \in 1..Len(messages'), NEW k \in 1..Len(messages'), i < k
            PROVE  messages'[i] < messages'[k]
        <5>1. i \in 1..Len(messages)
          BY <2>0, <4>1, <4>4
        <5>2. CASE k \in 1..Len(messages)
          BY <4>1, <4>4, <5>1, <5>2 DEF Ordered
        <5>3. CASE k = Len(messages) + 1
          <6>1. messages[i] <= made /\ messages[i] \in Nat
            BY <2>0, <5>1 DEF Ordered
          <6> QED
            BY <2>0, <4>1, <5>1, <5>3, <6>1
        <5> QED
          BY <4>2, <5>2, <5>3
      <4> QED
        BY <2>0, <3>1, <4>3, <4>4 DEF Ordered
    <3>3. CASE messages' = messages
      BY <2>0, <3>1, <3>3 DEF Ordered
    <3> QED
      BY <2>1, <3>2, <3>3 DEF F!Forward
  <2>2. CASE UNCHANGED <<messages, made, pending, last, arrived, failed>>
    BY <2>2 DEF Ordered
  <2>3. CASE F!Write
    <3>1. /\ pending # F!None /\ last' = pending /\ pending' = F!None
          /\ arrived' \in {arrived, arrived \cup {pending}}
          /\ UNCHANGED <<messages, made, failed>>
      BY <2>3 DEF F!Write, F!Takes, F!queueing
    <3>2. \A m \in arrived' : m <= last'
      BY <2>0, <3>1 DEF Ordered
    <3>3. \A i \in 1..Len(messages') :
             messages'[i] <= made' /\ last' < messages'[i] /\ pending' < messages'[i]
      BY <2>0, <3>1 DEF Ordered
    <3> QED
      BY <2>0, <3>1, <3>2, <3>3 DEF Ordered
  <2>4. CASE F!WriteFails
    <3>1. /\ pending # F!None /\ UNCHANGED <<messages, made, pending>>
          /\ failed' = failed \cup {pending}
      BY <2>4 DEF F!WriteFails, F!queueing
    <3>2. CASE last' = pending /\ arrived' \in {arrived, arrived \cup {pending}}
      <4>1. \A m \in arrived' : m <= last'
        BY <2>0, <3>1, <3>2 DEF Ordered
      <4>2. \A i \in 1..Len(messages') :
               messages'[i] <= made' /\ last' < messages'[i] /\ pending' < messages'[i]
        BY <2>0, <3>1, <3>2 DEF Ordered
      <4> QED
        BY <2>0, <3>1, <3>2, <4>1, <4>2 DEF Ordered
    <3>3. CASE UNCHANGED <<last, arrived>>
      BY <3>1, <3>3 DEF Ordered
    <3> QED
      BY <2>4, <3>2, <3>3 DEF F!WriteFails, F!Takes, F!receiver, F!network
  <2>5. CASE F!DropOld
    <3>1. pending' = F!None /\ UNCHANGED <<messages, made, last, arrived, failed>>
      BY <2>5 DEF F!DropOld, F!queueing, F!receiver, F!network
    <3>2. \A i \in 1..Len(messages') :
             messages'[i] <= made' /\ last' < messages'[i] /\ pending' < messages'[i]
      BY <2>0, <3>1 DEF Ordered
    <3> QED
      BY <2>0, <3>1, <3>2 DEF Ordered
  <2>6. CASE F!Take
    <3>1. /\ messages # <<>> /\ pending' = Head(messages) /\ messages' = Tail(messages)
          /\ UNCHANGED <<made, last, arrived, failed>>
      BY <2>6 DEF F!Take, F!receiver, F!network
    <3>2. /\ pending' = messages[1] /\ 1 \in 1..Len(messages)
          /\ \A i \in 1..Len(messages') :
                messages'[i] = messages[i + 1] /\ i + 1 \in 1..Len(messages)
      BY <2>0, <3>1, Taken
    <3>3. last < pending' /\ pending' <= made
      BY <3>2 DEF Ordered
    <3>4. ASSUME NEW i \in 1..Len(messages')
          PROVE  messages'[i] <= made' /\ last' < messages'[i] /\ pending' < messages'[i]
      <4>1. i + 1 \in 1..Len(messages) /\ 1 < i + 1
        BY <3>2, <3>4
      <4> QED
        BY <3>1, <3>2, <4>1 DEF Ordered
    <3>5. ASSUME NEW i \in 1..Len(messages'), NEW k \in 1..Len(messages'), i < k
          PROVE  messages'[i] < messages'[k]
      <4>1. /\ i + 1 \in 1..Len(messages) /\ k + 1 \in 1..Len(messages)
            /\ i + 1 < k + 1
        BY <3>2, <3>5
      <4> QED
        BY <3>2, <3>5, <4>1 DEF Ordered
    <3> QED
      BY <2>0, <3>1, <3>3, <3>4, <3>5 DEF Ordered
  <2> QED
    BY <2>1, <2>2, <2>3, <2>4, <2>5, <2>6
       DEF F!Next, F!Serve, F!DialFails, F!Connect, F!Break, F!Wake, F!Lost, F!Tick, F!vars,
           F!queueing, F!receiver, F!network
<1> QED
  BY <1>1, <1>2, ForwarderTypeCorrect, PTL DEF F!Spec

\* Over all failures and reconnects, connections take messages in the order they were
\* sent to the chat.
THEOREM MessagesInOrder == F!Spec => F!TakenInOrder
<1>1. F!TypeOK /\ Ordered /\ [F!Next]_F!vars => [last' >= last]_F!vars
  <2> SUFFICES ASSUME F!TypeOK, Ordered, [F!Next]_F!vars
               PROVE  last' >= last
    OBVIOUS
  <2>1. last \in Nat
    BY ForwarderAssumption DEF F!TypeOK, F!Messages, F!None
  <2>2. last' = last \/ (pending # F!None /\ last' = pending)
    BY DEF F!Next, F!Serve, F!Forward, F!DialFails, F!Connect, F!Break, F!Wake, F!Write,
           F!WriteFails, F!DropOld, F!Take, F!Lost, F!Tick, F!Takes, F!vars,
           F!receiver, F!network
  <2> QED
    BY <2>1, <2>2 DEF Ordered
<1> QED
  BY <1>1, OrderedInvariant, ForwarderTypeCorrect, PTL DEF F!Spec, F!TakenInOrder

\* What was forwarded is somewhere, if only with a broken connection, and what has
\* arrived more than once had a write that has failed.
Somewhere ==
    /\ \A m \in 1..made :
          \/ m \in arrived \cup dropped \cup vanished
          \/ pending # F!None /\ m = pending
          \/ \E i \in 1..Len(messages) : m = messages[i]
    /\ twice \subseteq failed

\* So none is lost but with a connection that did not say so.
LEMMA SomewhereIsNoneLost == F!TypeOK /\ Somewhere => F!NoneLost
<1> SUFFICES ASSUME F!TypeOK, Somewhere
             PROVE  1..made \subseteq arrived \cup F!Waiting \cup dropped \cup vanished
  BY DEF Somewhere, F!NoneLost
<1> SUFFICES ASSUME NEW m \in 1..made, m \notin arrived \cup dropped \cup vanished
             PROVE  m \in F!Waiting
  OBVIOUS
<1>1. \/ pending # F!None /\ m = pending
      \/ \E i \in 1..Len(messages) : m = messages[i]
  BY DEF Somewhere
<1> QED
  BY <1>1 DEF F!Waiting

\* A message that was forwarded arrives, waits, was dropped for its age or for want of
\* room, or was taken without an error by a connection that was broken; none arrives
\* twice without a write that has failed.
THEOREM NoneLostUnnoticed == F!Spec => []F!NoneLost
<1> USE ForwarderAssumption
<1>1. F!Init => Somewhere
  BY DEF F!Init, Somewhere
<1>2. F!TypeOK /\ Ordered /\ Somewhere /\ [F!Next]_F!vars => Somewhere'
  <2> SUFFICES ASSUME F!TypeOK, Ordered, Somewhere, [F!Next]_F!vars
               PROVE  Somewhere'
    OBVIOUS
  <2>0. messages \in Seq(F!Messages) /\ made \in Nat /\ F!None = 0 /\ F!None \notin F!Messages
    BY DEF F!TypeOK, F!Messages, F!None
  <2>1. ASSUME NEW key \in Keys, F!Forward(key)
        PROVE  Somewhere'
    <3>1. /\ made' = made + 1 /\ made + 1 \in F!Messages
          /\ UNCHANGED <<pending, arrived, twice, vanished, failed>>
      BY <2>0, <2>1 DEF F!Forward, F!Messages, F!receiver, F!network
    <3>2. \A m \in 1..made' : m \in 1..made \/ m = made + 1
      BY <2>0, <3>1
    <3>3. CASE messages' = Append(messages, made + 1) /\ dropped' = dropped
      <4>1. /\ messages'[Len(messages) + 1] = made + 1
            /\ Len(messages) + 1 \in 1..Len(messages')
            /\ \A i \in 1..Len(messages) :
                  messages'[i] = messages[i] /\ i \in 1..Len(messages')
        <5>1. Len(messages') = Len(messages) + 1 /\ Len(messages) \in Nat
          BY <2>0, <3>1, <3>3, Queued
        <5> QED
          BY <2>0, <3>1, <3>3, <5>1, Queued
      <4> QED
        BY <3>1, <3>2, <3>3, <4>1 DEF Somewhere
    <3>4. CASE messages' = messages /\ dropped' = dropped \cup {made + 1}
      BY <3>1, <3>2, <3>4 DEF Somewhere
    <3> QED
      BY <2>1, <3>3, <3>4 DEF F!Forward
  <2>2. CASE UNCHANGED <<messages, made, pending, arrived, twice, vanished, failed, dropped>>
    BY <2>2 DEF Somewhere
  <2>3. CASE F!Write
    <3>1. /\ pending # F!None /\ last' = pending /\ pending' = F!None
          /\ arrived \cup vanished \cup {pending} \subseteq arrived' \cup vanished'
          /\ twice' \subseteq twice \cup (arrived \cap {pending})
          /\ UNCHANGED <<messages, made, failed, dropped>>
      BY <2>3 DEF F!Write, F!Takes, F!queueing
    <3>2. pending \in arrived => pending \in failed
      <4>1. pending \in arrived => pending <= last /\ last <= pending
        BY <3>1 DEF Ordered
      <4>2. pending \in Nat /\ last \in Nat
        BY DEF F!TypeOK, F!Messages, F!None
      <4> QED
        BY <3>1, <4>1, <4>2 DEF Ordered
    <3> QED
      BY <3>1, <3>2 DEF Somewhere
  <2>4. CASE F!WriteFails
    <3>1. /\ pending # F!None /\ UNCHANGED <<messages, made, pending, vanished, dropped>>
          /\ failed' = failed \cup {pending}
          /\ arrived \subseteq arrived'
          /\ twice' \subseteq twice \cup {pending}
      BY <2>4 DEF F!WriteFails, F!Takes, F!receiver, F!network, F!queueing
    <3> QED
      BY <3>1 DEF Somewhere
  <2>5. CASE F!DropOld
    BY <2>5 DEF F!DropOld, F!queueing, F!receiver, F!network, Somewhere
  <2>6. CASE F!Take
    <3>1. /\ messages # <<>> /\ pending = F!None
          /\ pending' = Head(messages) /\ messages' = Tail(messages)
          /\ UNCHANGED <<made, arrived, twice, vanished, failed, dropped>>
      BY <2>6 DEF F!Take, F!receiver, F!network
    <3>2. /\ pending' = messages[1] /\ pending' \in F!Messages
          /\ Len(messages') = Len(messages) - 1
          /\ \A i \in 1..Len(messages') : messages'[i] = messages[i + 1]
      BY <2>0, <3>1, Taken
    <3>3. ASSUME NEW k \in 1..Len(messages)
          PROVE  \/ messages[k] = pending'
                 \/ \E i \in 1..Len(messages') : messages[k] = messages'[i]
      <4>1. CASE k = 1
        BY <3>2, <4>1
      <4>2. CASE k # 1
        <5>1. k - 1 \in 1..Len(messages') /\ (k - 1) + 1 = k
          BY <2>0, <3>2, <4>2
        <5> QED
          BY <3>2, <5>1
      <4> QED
        BY <4>1, <4>2
    <3> QED
      BY <2>0, <3>1, <3>2, <3>3 DEF Somewhere
  <2> QED
    BY <2>1, <2>2, <2>3, <2>4, <2>5, <2>6
       DEF F!Next, F!Serve, F!DialFails, F!Connect, F!Break, F!Wake, F!Lost, F!Tick, F!vars,
           F!queueing, F!receiver, F!network
<1> QED
  BY <1>1, <1>2, ForwarderTypeCorrect, OrderedInvariant, SomewhereIsNoneLost, PTL
     DEF F!Spec

\* After an attempt that has led to nothing the next sleep will be twice as long.
Doubling == short > 0 => backoff >= F!Least(pause * 2, MaxBackoff)

\* However dials that fail and connections that do not last alternate, the sleeps
\* between them double up to the maximum.
THEOREM ServerNotHammered == F!Spec => F!NotHammered
<1> USE ForwarderAssumption
<1>1. F!Init => Doubling
  BY DEF F!Init, Doubling
<1>2. F!TypeOK /\ Doubling /\ [F!Next]_F!vars => Doubling'
  <2> SUFFICES ASSUME F!TypeOK, Doubling, [F!Next]_F!vars
               PROVE  Doubling'
    OBVIOUS
  <2>1. \A time \in Nat : F!Sleep(time) => Doubling'
    BY DEF F!Sleep, F!Least, Doubling
  <2>2. CASE F!DialFails
    <3>1. backoff \in Nat /\ F!Sleep(backoff)
      BY <2>2 DEF F!DialFails, F!TypeOK
    <3> QED
      BY <2>1, <3>1
  <2>3. CASE F!Disconnect
    <3>1. (IF up > Stable THEN MinBackoff ELSE backoff) \in Nat
      BY DEF F!TypeOK
    <3> QED
      BY <2>1, <2>3, <3>1 DEF F!Disconnect
  <2>4. CASE UNCHANGED <<short, backoff, pause>>
    BY <2>4 DEF Doubling
  <2> QED
    BY <2>2, <2>3, <2>4
       DEF F!Next, F!Serve, F!Forward, F!Connect, F!Break, F!Wake, F!Write, F!WriteFails,
           F!DropOld, F!Take, F!Lost, F!Tick, F!vars, F!sleeping
<1>3. F!TypeOK /\ Doubling /\ [F!Next]_F!vars
      => [state # "sleeping" /\ state' = "sleeping" /\ short' > 1 =>
              pause' >= F!Least(pause * 2, MaxBackoff)]_F!vars
  <2> SUFFICES ASSUME F!TypeOK, Doubling, F!Next, state # "sleeping",
                      state' = "sleeping", short' > 1
               PROVE  pause' >= F!Least(pause * 2, MaxBackoff)
    BY DEF F!vars
  <2>1. F!DialFails \/ F!Disconnect
    BY DEF F!Next, F!Serve, F!Forward, F!Connect, F!Break, F!Wake, F!Write, F!WriteFails,
           F!DropOld, F!Take, F!Lost, F!Tick
  <2>2. pause' = backoff /\ short > 0
    BY <2>1 DEF F!DialFails, F!Disconnect, F!Sleep, F!Least, F!TypeOK
  <2> QED
    BY <2>2 DEF Doubling
<1> QED
  BY <1>1, <1>2, <1>3, ForwarderTypeCorrect, PTL DEF F!Spec, F!NotHammered

\* What ChatForwarder promises about the messages and the server they are for.
THEOREM ForwardedMessagesKept == F!Spec => F!MessagesKept
BY ForwarderTypeCorrect, NoneLostUnnoticed, ServerNotHammered, MessagesInOrder, PTL
   DEF F!MessagesKept

-----------------------------------------------------------------------------
(* Reactions. *)

\* What is known of the counters without adding them up.
ReactionsShape ==
    /\ counts \in [R!Kinds -> Nat] /\ told \in [R!Kinds -> Nat]
    /\ accepted \in [R!Kinds -> 0..MaxReactions]
    /\ batches \in Seq([R!Kinds -> Nat])
    /\ scheduled \in BOOLEAN /\ timers \in Nat

\* What is left of the batches when one was told.
LEMMA BatchRemoved ==
    ASSUME NEW S, NEW s \in Seq(S), NEW i \in 1..Len(s)
    PROVE  /\ R!RemoveAt(s, i) \in Seq(S) /\ Len(R!RemoveAt(s, i)) = Len(s) - 1
           /\ \A j \in 1..Len(s) - 1 :
                 /\ j < i => R!RemoveAt(s, i)[j] = s[j]
                 /\ j >= i => R!RemoveAt(s, i)[j] = s[j + 1]
<1> DEFINE front == SubSeq(s, 1, i - 1)
           back  == SubSeq(s, i + 1, Len(s))
<1>1. /\ front \in Seq(S) /\ Len(front) = i - 1
      /\ \A j \in 1..i - 1 : front[j] = s[j]
  OBVIOUS
<1>2. /\ back \in Seq(S) /\ Len(back) = Len(s) - i
      /\ \A j \in 1..Len(s) - i : back[j] = s[i + j]
  OBVIOUS
<1>3. R!RemoveAt(s, i) = front \o back
  BY DEF R!RemoveAt
<1> HIDE DEF front, back
<1>4. /\ front \o back \in Seq(S) /\ Len(front \o back) = Len(s) - 1
      /\ \A j \in 1..Len(s) - 1 :
            (front \o back)[j] = IF j < i THEN front[j] ELSE back[j - (i - 1)]
  <2>1. Len(front) + Len(back) = Len(s) - 1 /\ Len(front) = i - 1 /\ i \in Nat
    BY <1>1, <1>2
  <2>2. /\ front \o back \in Seq(S) /\ Len(front \o back) = Len(front) + Len(back)
        /\ \A j \in 1..Len(front) + Len(back) :
              (front \o back)[j]
                = IF j <= Len(front) THEN front[j] ELSE back[j - Len(front)]
    BY <1>1, <1>2, ConcatProperties
  <2> QED
    BY <2>1, <2>2
<1>5. ASSUME NEW j \in 1..Len(s) - 1, j >= i
      PROVE  back[j - (i - 1)] = s[j + 1]
  <2>1. j - (i - 1) \in 1..Len(s) - i /\ i + (j - (i - 1)) = j + 1
    BY <1>5
  <2> QED
    BY <1>2, <2>1
<1> QED
  BY <1>1, <1>3, <1>4, <1>5

\* A sequence is one over every set its elements are in.
LEMMA SeqOf ==
    ASSUME NEW S, NEW T, NEW s \in Seq(S), \A i \in 1..Len(s) : s[i] \in T
    PROVE  s \in Seq(T)
<1>1. Len(s) \in Nat /\ s \in [1..Len(s) -> T]
  <2>1. Len(s) \in Nat /\ s \in [1..Len(s) -> S]
    BY LenProperties
  <2> QED
    BY <2>1
<1> QED
  BY <1>1, SeqDef

\* The variables of Reactions have these shapes in every state.
THEOREM ReactionsShaped == R!Spec => []ReactionsShape
<1> USE ReactionsAssumption DEF ReactionsShape
<1>1. R!Init => ReactionsShape
  <2> SUFFICES ASSUME R!Init PROVE ReactionsShape
    OBVIOUS
  <2>1. 0 \in 0..MaxReactions
    OBVIOUS
  <2>2. R!Nothing \in [R!Kinds -> Nat] /\ R!Nothing \in [R!Kinds -> 0..MaxReactions]
    BY <2>1 DEF R!Nothing
  <2>3. /\ counts = R!Nothing /\ told = R!Nothing /\ accepted = R!Nothing
        /\ scheduled = FALSE /\ timers = 0 /\ batches = <<>>
    BY DEF R!Init
  <2>4. batches \in Seq([R!Kinds -> Nat])
    BY <2>3
  <2> QED
    BY <2>2, <2>3, <2>4
<1>2. ReactionsShape /\ [R!Next]_R!vars => ReactionsShape'
  <2> SUFFICES ASSUME ReactionsShape, [R!Next]_R!vars
               PROVE  ReactionsShape'
    OBVIOUS
  <2>1. ASSUME NEW k \in R!Kinds, R!React(k)
        PROVE  ReactionsShape'
    <3>1. counts' \in [R!Kinds -> Nat] /\ accepted' \in [R!Kinds -> 0..MaxReactions]
      BY <2>1 DEF R!React
    <3>2. scheduled' \in BOOLEAN /\ timers' \in Nat
      BY <2>1 DEF R!React, R!Schedule
    <3> QED
      BY <2>1, <3>1, <3>2 DEF R!React
  <2>2. CASE R!Take
    <3>1. counts' \in [R!Kinds -> Nat]
      BY <2>2 DEF R!Take, R!Nothing
    <3>2. batches' \in Seq([R!Kinds -> Nat])
      BY <2>2, Queued DEF R!Take
    <3>3. scheduled' \in BOOLEAN /\ timers' \in Nat
      <4>1. timers > 0 /\ timers' = timers - 1 /\ timers \in Nat
        BY <2>2 DEF R!Take
      <4>2. scheduled' \in BOOLEAN
        BY <2>2 DEF R!Take
      <4> QED
        BY <4>1, <4>2
    <3>4. accepted' = accepted /\ told' = told
      BY <2>2 DEF R!Take
    <3> QED
      BY <3>1, <3>2, <3>3, <3>4
  <2>3. ASSUME NEW i, R!Tell(i)
        PROVE  ReactionsShape'
    <3>1. i \in 1..Len(batches) /\ batches[i] \in [R!Kinds -> Nat]
      BY <2>3 DEF R!Tell
    <3>2. told' \in [R!Kinds -> Nat]
      BY <2>3, <3>1 DEF R!Tell
    <3>3. batches' \in Seq([R!Kinds -> Nat])
      BY <2>3, <3>1, BatchRemoved DEF R!Tell
    <3> QED
      BY <2>3, <3>2, <3>3 DEF R!Tell
  <2>4. CASE UNCHANGED R!vars
    BY <2>4 DEF R!vars
  <2> QED
    BY <2>1, <2>2, <2>3, <2>4 DEF R!Next, R!TellOne
<1> QED
  BY <1>1, <1>2, PTL DEF R!Spec

\* A running total of x, from a to z, which never falls.
Total(n, x, sum, a, z) ==
    /\ sum \in [0..n -> Nat]
    /\ sum[0] = a /\ sum[n] = z
    /\ \A i \in 1..n : sum[i] = sum[i - 1] + x[i]
    /\ \A i, j \in 0..n : i <= j => sum[i] <= sum[j]

AddsUp(n, x, a, z) == \E sum \in [0..n -> Nat] : Total(n, x, sum, a, z)

\* Nothing adds up to 0.
LEMMA EmptyTotal == ASSUME NEW x PROVE AddsUp(0, x, 0, 0)
<1> DEFINE t == [i \in 0..0 |-> 0]
<1>1. t \in [0..0 -> Nat]
  OBVIOUS
<1>2. Total(0, x, t, 0, 0)
  BY DEF Total
<1> QED
  BY <1>1, <1>2 DEF AddsUp

\* One more at both ends.
LEMMA ShiftTotal ==
    ASSUME NEW n \in Nat, NEW x, NEW a \in Nat, NEW z \in Nat, NEW d \in Nat,
           AddsUp(n, x, a, z), \A i \in 1..n : x[i] \in Nat
    PROVE  AddsUp(n, x, a + d, z + d)
<1>1. PICK sum \in [0..n -> Nat] : Total(n, x, sum, a, z)
  BY DEF AddsUp
<1> DEFINE t == [i \in 0..n |-> sum[i] + d]
<1>2. t \in [0..n -> Nat] /\ \A i \in 0..n : t[i] = sum[i] + d /\ sum[i] \in Nat
  BY <1>1
<1> HIDE DEF t
<1>3. t[0] = a + d /\ t[n] = z + d
  BY <1>1, <1>2 DEF Total
<1>4. ASSUME NEW i \in 1..n PROVE t[i] = t[i - 1] + x[i]
  <2>1. i \in 0..n /\ i - 1 \in 0..n /\ sum[i] = sum[i - 1] + x[i] /\ x[i] \in Nat
    BY <1>1 DEF Total
  <2>2. /\ t[i] = sum[i] + d /\ t[i - 1] = sum[i - 1] + d
        /\ sum[i] \in Nat /\ sum[i - 1] \in Nat
    BY <1>2, <2>1
  <2> QED
    BY <2>1, <2>2
<1>5. ASSUME NEW i \in 0..n, NEW j \in 0..n, i <= j PROVE t[i] <= t[j]
  <2>1. sum[i] <= sum[j]
    BY <1>1, <1>5 DEF Total
  <2> QED
    BY <1>2, <2>1
<1> QED
  BY <1>2, <1>3, <1>4, <1>5 DEF AddsUp, Total

\* What the total begins with becomes its last summand.
LEMMA AppendTotal ==
    ASSUME NEW n \in Nat, NEW x, NEW y, NEW a \in Nat, NEW c \in Nat, NEW z \in Nat,
           AddsUp(n, x, a + c, z), \A i \in 1..n : x[i] \in Nat /\ y[i] = x[i],
           y[n + 1] = c
    PROVE  AddsUp(n + 1, y, a, z)
<1>1. PICK sum \in [0..n -> Nat] : Total(n, x, sum, a + c, z)
  BY DEF AddsUp
<1> DEFINE t == [i \in 0..n + 1 |-> IF i <= n THEN sum[i] - c ELSE z]
<1>2. \A i \in 0..n : sum[i] \in Nat /\ sum[i] - c \in Nat
  <2>1. ASSUME NEW i \in 0..n PROVE sum[i] \in Nat /\ a + c <= sum[i]
    <3>1. 0 \in 0..n /\ 0 <= i /\ sum[0] = a + c
      BY <1>1 DEF Total
    <3> QED
      BY <1>1, <3>1 DEF Total
  <2> QED
    BY <2>1
<1>3. t \in [0..n + 1 -> Nat]
  BY <1>2
<1>4. \A i \in 0..n : t[i] = sum[i] - c
  BY <1>2
<1>5. t[n + 1] = z
  OBVIOUS
<1> HIDE DEF t
<1>6. t[0] = a
  <2>1. 0 \in 0..n /\ sum[0] = a + c
    BY <1>1 DEF Total
  <2> QED
    BY <1>4, <2>1
<1>7. ASSUME NEW i \in 1..n + 1 PROVE t[i] = t[i - 1] + y[i]
  <2>1. CASE i = n + 1
    <3>1. i - 1 = n /\ n \in 0..n /\ sum[n] = z
      BY <1>1, <2>1 DEF Total
    <3>2. t[i - 1] = z - c
      BY <1>4, <3>1
    <3> QED
      BY <1>5, <2>1, <3>2
  <2>2. CASE i # n + 1
    <3>1. i \in 1..n /\ i \in 0..n /\ i - 1 \in 0..n
      BY <2>2
    <3>2. sum[i] = sum[i - 1] + x[i] /\ x[i] \in Nat /\ y[i] = x[i]
      BY <1>1, <3>1 DEF Total
    <3>3. t[i] = sum[i] - c /\ t[i - 1] = sum[i - 1] - c
      BY <1>4, <3>1
    <3>4. sum[i] \in Nat /\ sum[i - 1] \in Nat
      BY <1>2, <3>1
    <3> QED
      BY <3>2, <3>3, <3>4
  <2> QED
    BY <2>1, <2>2
<1>8. ASSUME NEW i \in 0..n + 1, NEW j \in 0..n + 1, i <= j PROVE t[i] <= t[j]
  <2>1. CASE j = n + 1
    <3>1. CASE i = n + 1
      BY <1>5, <2>1, <3>1
    <3>2. CASE i # n + 1
      <4>1. i \in 0..n /\ n \in 0..n /\ i <= n
        BY <3>2
      <4>2. sum[i] <= z /\ t[i] = sum[i] - c /\ sum[i] \in Nat
        BY <1>1, <1>2, <1>4, <4>1 DEF Total
      <4> QED
        BY <1>5, <2>1, <4>2
    <3> QED
      BY <3>1, <3>2
  <2>2. CASE j # n + 1
    <3>1. i \in 0..n /\ j \in 0..n
      BY <1>8, <2>2
    <3>2. sum[i] <= sum[j] /\ sum[i] \in Nat /\ sum[j] \in Nat
      BY <1>1, <1>2, <1>8, <3>1 DEF Total
    <3> QED
      BY <1>4, <3>1, <3>2
  <2> QED
    BY <2>1, <2>2
<1> QED
  BY <1>3, <1>5, <1>6, <1>7, <1>8 DEF AddsUp, Total

\* A summand moves to the beginning.
LEMMA RemoveTotal ==
    ASSUME NEW n \in Nat, NEW b \in 1..n, NEW x, NEW y, NEW a \in Nat, NEW z \in Nat,
           AddsUp(n, x, a, z), \A i \in 1..n : x[i] \in Nat,
           \A i \in 1..n - 1 : /\ i < b => y[i] = x[i]
                               /\ i >= b => y[i] = x[i + 1]
    PROVE  AddsUp(n - 1, y, a + x[b], z)
<1>1. PICK sum \in [0..n -> Nat] : Total(n, x, sum, a, z)
  BY DEF AddsUp
<1> DEFINE d == x[b]
           t == [i \in 0..n - 1 |-> IF i < b THEN sum[i] + d ELSE sum[i + 1]]
<1>2. /\ d \in Nat /\ b \in Nat /\ 1 <= b /\ b <= n /\ b - 1 \in 0..n /\ b \in 0..n
      /\ sum[b] = sum[b - 1] + d
      /\ \A i \in 0..n : sum[i] \in Nat
      /\ \A i \in 0..n - 1 : i \in 0..n /\ i + 1 \in 0..n
  BY <1>1 DEF Total
<1>3. t \in [0..n - 1 -> Nat]
  <2>1. ASSUME NEW i \in 0..n - 1
        PROVE  (IF i < b THEN sum[i] + d ELSE sum[i + 1]) \in Nat
    <3>1. sum[i] \in Nat /\ sum[i + 1] \in Nat
      BY <1>2
    <3> QED
      BY SMTT(20), <1>2, <3>1
  <2> QED
    BY <2>1
<1>4. /\ \A i \in 0..n - 1 : i < b => t[i] = sum[i] + d
      /\ \A i \in 0..n - 1 : i >= b => t[i] = sum[i + 1]
  BY <1>2
<1> HIDE DEF t, d
<1>5. t[0] = a + d
  <2>1. 0 \in 0..n - 1 /\ 0 < b /\ sum[0] = a
    BY <1>1, <1>2 DEF Total
  <2> QED
    BY <1>4, <2>1
<1>6. t[n - 1] = z
  <2>1. n - 1 \in 0..n - 1 /\ (n - 1) + 1 = n /\ sum[n] = z
    BY <1>1, <1>2 DEF Total
  <2>2. CASE n - 1 < b
    <3>1. n = b
      BY <1>2, <2>2
    <3>2. t[n - 1] = sum[n - 1] + d /\ sum[n] = sum[n - 1] + d
      BY <1>2, <1>4, <2>1, <2>2, <3>1
    <3> QED
      BY <2>1, <3>2
  <2>3. CASE n - 1 >= b
    BY <1>4, <2>1, <2>3
  <2> QED
    BY <1>2, <2>2, <2>3
<1>7. ASSUME NEW i \in 1..n - 1 PROVE t[i] = t[i - 1] + y[i]
  <2>1. /\ i \in 0..n - 1 /\ i - 1 \in 0..n - 1 /\ (i - 1) + 1 = i /\ i \in 1..n
        /\ i + 1 \in 1..n /\ (i + 1) - 1 = i /\ i \in 0..n /\ i - 1 \in 0..n
        /\ i + 1 \in 0..n /\ i \in Nat
    BY <1>2
  <2>2. /\ sum[i] = sum[i - 1] + x[i] /\ sum[i + 1] = sum[i] + x[i + 1]
        /\ sum[i] \in Nat /\ sum[i - 1] \in Nat /\ sum[i + 1] \in Nat
        /\ x[i] \in Nat /\ x[i + 1] \in Nat
    BY <1>1, <1>2, <2>1 DEF Total
  <2>3. CASE i < b
    <3>1. t[i] = sum[i] + d /\ y[i] = x[i]
      BY <1>4, <2>1, <2>3
    <3>2. t[i - 1] = sum[i - 1] + d
      BY <1>2, <1>4, <2>1, <2>3
    <3>3. d \in Nat
      BY <1>2
    <3>4. sum[i] + d = sum[i - 1] + d + x[i]
      BY SMTT(20), <2>2, <3>3
    <3> QED
      BY <3>1, <3>2, <3>4
  <2>4. CASE i = b
    <3>1. t[i] = sum[i + 1] /\ y[i] = x[i + 1]
      BY <1>2, <1>4, <2>1, <2>4
    <3>2. t[i - 1] = sum[i - 1] + d
      BY <1>2, <1>4, <2>1, <2>4
    <3>3. sum[i] = sum[i - 1] + d
      BY <1>2, <2>4
    <3> QED
      BY <2>2, <3>1, <3>2, <3>3
  <2>5. CASE i > b
    <3>1. t[i] = sum[i + 1] /\ y[i] = x[i + 1]
      BY <1>2, <1>4, <2>1, <2>5
    <3>2. t[i - 1] = sum[i]
      <4>1. i - 1 >= b
        BY <1>2, <2>1, <2>5
      <4> QED
        BY <1>4, <2>1, <4>1
    <3> QED
      BY <2>2, <3>1, <3>2
  <2> QED
    BY <1>2, <2>1, <2>3, <2>4, <2>5
<1>8. ASSUME NEW i \in 0..n - 1, NEW j \in 0..n - 1, i <= j PROVE t[i] <= t[j]
  <2>1. /\ i \in 0..n /\ i + 1 \in 0..n /\ j \in 0..n /\ j + 1 \in 0..n
        /\ i \in Nat /\ j \in Nat
    BY <1>2
  <2>2. /\ sum[i] <= sum[j] /\ sum[i + 1] <= sum[j + 1]
        /\ sum[i] \in Nat /\ sum[j] \in Nat /\ sum[i + 1] \in Nat /\ sum[j + 1] \in Nat
        /\ sum[b] \in Nat /\ sum[b - 1] \in Nat
    <3>1. i + 1 <= j + 1
      BY <1>8, <2>1
    <3> QED
      BY <1>1, <1>2, <1>8, <2>1, <3>1 DEF Total
  <2>3. CASE j < b
    <3>1. i < b /\ d \in Nat
      BY <1>2, <1>8, <2>1, <2>3
    <3>2. t[i] = sum[i] + d /\ t[j] = sum[j] + d
      BY <1>4, <2>3, <3>1
    <3> QED
      BY SMTT(20), <2>2, <3>1, <3>2
  <2>4. CASE i < b /\ j >= b
    <3>1. t[i] = sum[i] + d /\ t[j] = sum[j + 1]
      BY <1>4, <2>4
    <3>2. i <= b - 1 /\ b <= j + 1
      BY <1>2, <2>1, <2>4
    <3>3. sum[i] <= sum[b - 1] /\ sum[b] <= sum[j + 1]
      BY <1>1, <1>2, <2>1, <3>2 DEF Total
    <3> QED
      BY SMTT(20), <1>2, <2>2, <3>1, <3>3
  <2>5. CASE i >= b
    <3>1. t[i] = sum[i + 1] /\ t[j] = sum[j + 1]
      BY <1>2, <1>4, <1>8, <2>1, <2>5
    <3> QED
      BY <2>2, <3>1
  <2> QED
    BY <1>2, <2>1, <2>3, <2>4, <2>5
<1>9. AddsUp(n - 1, y, a + d, z)
  BY <1>3, <1>5, <1>6, <1>7, <1>8 DEF AddsUp, Total
<1> QED
  BY <1>9 DEF d

\* How many reactions of kind k each batch holds; with what was told and what is
\* counted they add up to what was accepted.
InBatches(k) == [i \in 1..Len(batches) |-> batches[i][k]]

AllCounted ==
    \A k \in R!Kinds :
        AddsUp(Len(batches), InBatches(k), told[k] + counts[k], accepted[k])

\* Every reaction that was accepted is counted, in one batch or told, and none twice,
\* whichever of the lock sections and goroutines go first.
THEOREM RunningTotals == R!Spec => []AllCounted
<1>1. R!Init => AllCounted
  <2> SUFFICES ASSUME R!Init, NEW k \in R!Kinds
               PROVE  AddsUp(Len(batches), InBatches(k), told[k] + counts[k], accepted[k])
    BY DEF AllCounted
  <2>1. /\ Len(batches) = 0 /\ accepted[k] = 0
        /\ told[k] = 0 /\ counts[k] = 0 /\ told[k] + counts[k] = 0
    BY DEF R!Init, R!Nothing
  <2> QED
    BY <2>1, EmptyTotal
<1>2. ReactionsShape /\ AllCounted /\ [R!Next]_R!vars => AllCounted'
  <2> SUFFICES ASSUME ReactionsShape, AllCounted, [R!Next]_R!vars, NEW k \in R!Kinds
               PROVE  AddsUp(Len(batches'), InBatches(k)', told'[k] + counts'[k],
                             accepted'[k])
    BY DEF AllCounted
  <2> DEFINE n == Len(batches)
  <2>1. /\ n \in Nat /\ told[k] \in Nat /\ counts[k] \in Nat /\ accepted[k] \in Nat
        /\ \A i \in 1..n : InBatches(k)[i] = batches[i][k] /\ batches[i][k] \in Nat
        /\ batches \in Seq([R!Kinds -> Nat]) /\ counts \in [R!Kinds -> Nat]
    <3>1. batches \in Seq([R!Kinds -> Nat]) /\ counts \in [R!Kinds -> Nat]
      BY DEF ReactionsShape
    <3>2. told[k] \in Nat /\ counts[k] \in Nat /\ accepted[k] \in Nat
      BY DEF ReactionsShape
    <3>3. \A i \in 1..n : batches[i] \in [R!Kinds -> Nat]
      BY <3>1
    <3> QED
      BY <3>1, <3>2, <3>3 DEF InBatches
  <2>2. AddsUp(n, InBatches(k), told[k] + counts[k], accepted[k])
    BY DEF AllCounted
  <2>3. told[k] + counts[k] \in Nat /\ \A i \in 1..n : InBatches(k)[i] \in Nat
    <3>1. told[k] \in Nat /\ counts[k] \in Nat
      BY <2>1
    <3>2. \A i \in 1..n : InBatches(k)[i] \in Nat
      BY <2>1
    <3> QED
      BY <3>1, <3>2
  <2> HIDE DEF n
  <2>4. ASSUME NEW r \in R!Kinds, R!React(r)
        PROVE  AddsUp(Len(batches'), InBatches(k)', told'[k] + counts'[k], accepted'[k])
    <3> DEFINE d == IF r = k THEN 1 ELSE 0
    <3>1. batches' = batches /\ told' = told
      BY <2>4 DEF R!React
    <3>2. counts'[k] = counts[k] + d /\ accepted'[k] = accepted[k] + d
      BY <2>1, <2>4 DEF R!React, ReactionsShape
    <3>3. d \in Nat
      OBVIOUS
    <3> HIDE DEF d
    <3>4. AddsUp(n, InBatches(k), told[k] + counts[k] + d, accepted[k] + d)
      BY <2>1, <2>2, <2>3, <3>3, ShiftTotal
    <3>5. told'[k] + counts'[k] = told[k] + counts[k] + d
      BY <2>1, <3>1, <3>2, <3>3
    <3>6. InBatches(k)' = InBatches(k) /\ Len(batches') = n
      BY <3>1 DEF InBatches, n
    <3> QED
      BY <3>2, <3>4, <3>5, <3>6
  <2>5. CASE R!Take /\ counts = R!Nothing
    <3>1. UNCHANGED <<batches, told, counts, accepted>>
      BY <2>5 DEF R!Take
    <3> QED
      BY <2>2, <3>1 DEF InBatches, n
  <2>6. CASE R!Take /\ counts # R!Nothing
    <3>1. /\ batches' = Append(batches, counts) /\ told' = told /\ accepted' = accepted
          /\ counts'[k] = 0
      BY <2>6 DEF R!Take, R!Nothing
    <3>2. /\ Len(batches') = n + 1 /\ batches'[n + 1] = counts
          /\ \A i \in 1..n : batches'[i] = batches[i]
      BY <2>1, <3>1, Queued DEF n
    <3>3. /\ InBatches(k)'[n + 1] = counts[k]
          /\ \A i \in 1..n : InBatches(k)'[i] = InBatches(k)[i]
      <4>1. \A i \in 1..n + 1 : InBatches(k)'[i] = batches'[i][k]
        BY <3>2 DEF InBatches
      <4>2. n + 1 \in 1..n + 1 /\ \A i \in 1..n : i \in 1..n + 1
        BY <2>1
      <4> QED
        BY <2>1, <3>2, <4>1, <4>2
    <3>4. AddsUp(n + 1, InBatches(k)', told[k], accepted[k])
      BY <2>1, <2>2, <2>3, <3>3, AppendTotal
    <3>5. told'[k] + counts'[k] = told[k]
      BY <2>1, <3>1
    <3> QED
      BY <3>1, <3>2, <3>4, <3>5
  <2>7. ASSUME NEW b, R!Tell(b)
        PROVE  AddsUp(Len(batches'), InBatches(k)', told'[k] + counts'[k], accepted'[k])
    <3>1. /\ b \in 1..n /\ batches' = R!RemoveAt(batches, b)
          /\ told'[k] = told[k] + batches[b][k]
          /\ counts' = counts /\ accepted' = accepted
      BY <2>7 DEF R!Tell, n
    <3>2. /\ Len(batches') = n - 1
          /\ \A i \in 1..n - 1 :
                /\ i < b => batches'[i] = batches[i]
                /\ i >= b => batches'[i] = batches[i + 1]
      BY <2>1, <3>1, BatchRemoved DEF n
    <3>3. \A i \in 1..n - 1 :
             /\ i < b => InBatches(k)'[i] = InBatches(k)[i]
             /\ i >= b => InBatches(k)'[i] = InBatches(k)[i + 1]
      <4>1. \A i \in 1..n - 1 : InBatches(k)'[i] = batches'[i][k]
        BY <3>2 DEF InBatches
      <4>2. \A i \in 1..n - 1 : i \in 1..n /\ i + 1 \in 1..n
        BY <2>1
      <4> QED
        BY <2>1, <3>2, <4>1, <4>2
    <3>4. AddsUp(n - 1, InBatches(k)', told[k] + counts[k] + InBatches(k)[b], accepted[k])
      BY <2>1, <2>2, <2>3, <3>1, <3>3, RemoveTotal
    <3>5. told'[k] + counts'[k] = told[k] + counts[k] + InBatches(k)[b]
      BY <2>1, <3>1
    <3> QED
      BY <3>1, <3>2, <3>4, <3>5
  <2>8. CASE UNCHANGED R!vars
    BY <2>2, <2>8 DEF R!vars, InBatches, n
  <2> QED
    BY <2>4, <2>5, <2>6, <2>7, <2>8 DEF R!Next, R!TellOne
<1> QED
  BY <1>1, <1>2, ReactionsShaped, PTL DEF R!Spec

\* No reaction is lost or counted twice, whichever order flushes, their messages and
\* reactions come in.
THEOREM ReactionsCountedOnce == R!Spec => []R!CountedOnce
<1> USE ReactionsAssumption
<1>1. ReactionsShape /\ AllCounted => R!CountedOnce
  <2> SUFFICES ASSUME ReactionsShape, AllCounted, NEW k \in R!Kinds
               PROVE  \E sum \in [0..Len(batches) -> 0..MaxReactions] :
                         /\ sum[0] = told[k] + counts[k]
                         /\ \A i \in 1..Len(batches) : sum[i] = sum[i - 1] + batches[i][k]
                         /\ sum[Len(batches)] = accepted[k]
    BY DEF R!CountedOnce
  <2> DEFINE n == Len(batches)
  <2>1. PICK sum \in [0..n -> Nat] :
           Total(n, InBatches(k), sum, told[k] + counts[k], accepted[k])
    BY DEF AllCounted, AddsUp
  <2>2. n \in Nat /\ accepted[k] \in 0..MaxReactions
    BY DEF ReactionsShape
  <2>3. \A i \in 1..n : InBatches(k)[i] = batches[i][k]
    BY DEF InBatches
  <2> HIDE DEF n
  <2>4. ASSUME NEW i \in 0..n PROVE sum[i] \in 0..MaxReactions
    <3>1. i <= n /\ n \in 0..n
      BY <2>2
    <3>2. sum[i] <= accepted[k] /\ sum[i] \in Nat
      BY <2>1, <3>1 DEF Total
    <3> QED
      BY <2>2, <3>2
  <2>5. sum \in [0..n -> 0..MaxReactions]
    BY <2>1, <2>4
  <2> QED
    BY <2>1, <2>3, <2>5 DEF Total, n
<1> QED
  BY <1>1, ReactionsShaped, RunningTotals, PTL

\* Every variable of Reactions keeps its type: what adds up to the reactions that were
\* accepted is no more than they are.
THEOREM ReactionsTypeCorrect == R!Spec => []R!TypeOK
<1> USE ReactionsAssumption
<1>1. ReactionsShape /\ AllCounted => R!TypeOK
  <2> SUFFICES ASSUME ReactionsShape, AllCounted
               PROVE  R!TypeOK
    OBVIOUS
  <2> DEFINE n == Len(batches)
  <2>0. /\ n \in Nat /\ batches \in Seq([R!Kinds -> Nat])
        /\ \A i \in 1..n : batches[i] \in [R!Kinds -> Nat]
        /\ counts \in [R!Kinds -> Nat] /\ told \in [R!Kinds -> Nat]
    <3>1. batches \in Seq([R!Kinds -> Nat])
      BY DEF ReactionsShape
    <3>2. counts \in [R!Kinds -> Nat] /\ told \in [R!Kinds -> Nat]
      BY DEF ReactionsShape
    <3> QED
      BY <3>1, <3>2
  <2> HIDE DEF n
  <2>1. ASSUME NEW k \in R!Kinds
        PROVE  /\ told[k] \in 0..MaxReactions /\ counts[k] \in 0..MaxReactions
               /\ \A i \in 1..n : batches[i][k] \in 0..MaxReactions
    <3>1. PICK sum \in [0..n -> Nat] :
             Total(n, InBatches(k), sum, told[k] + counts[k], accepted[k])
      BY DEF AllCounted, AddsUp, n
    <3>2. accepted[k] \in 0..MaxReactions /\ told[k] \in Nat /\ counts[k] \in Nat
      BY DEF ReactionsShape
    <3>3. \A i \in 0..n : sum[i] \in Nat /\ sum[i] <= accepted[k]
      <4>1. n \in 0..n /\ \A i \in 0..n : i <= n
        BY <2>0
      <4> QED
        BY <3>1, <4>1 DEF Total
    <3>4. told[k] + counts[k] <= accepted[k]
      <4>1. 0 \in 0..n /\ sum[0] = told[k] + counts[k]
        BY <2>0, <3>1 DEF Total
      <4> QED
        BY <3>3, <4>1
    <3>5. ASSUME NEW i \in 1..n PROVE batches[i][k] \in 0..MaxReactions
      <4>1. /\ i \in 0..n /\ i - 1 \in 0..n
            /\ sum[i] = sum[i - 1] + InBatches(k)[i]
        <5>1. i \in 0..n /\ i - 1 \in 0..n
          BY <2>0
        <5> QED
          BY <3>1, <5>1 DEF Total
      <4>2. InBatches(k)[i] = batches[i][k] /\ batches[i][k] \in Nat
        BY <2>0 DEF InBatches, n
      <4>3. sum[i] \in Nat /\ sum[i - 1] \in Nat /\ sum[i] <= accepted[k]
        BY <3>3, <4>1
      <4> QED
        BY <3>2, <4>1, <4>2, <4>3
    <3> QED
      BY <3>2, <3>4, <3>5
  <2>2. counts \in [R!Kinds -> 0..MaxReactions] /\ told \in [R!Kinds -> 0..MaxReactions]
    BY <2>0, <2>1
  <2>3. batches \in Seq([R!Kinds -> 0..MaxReactions])
    <3>1. ASSUME NEW i \in 1..n PROVE batches[i] \in [R!Kinds -> 0..MaxReactions]
      BY <2>0, <2>1
    <3> QED
      BY <2>0, <3>1, SeqOf DEF n
  <2> QED
    BY <2>2, <2>3 DEF ReactionsShape, R!TypeOK
<1> QED
  BY <1>1, ReactionsShaped, RunningTotals, PTL

\* A flush is scheduled exactly while something is counted, and has one timer; what is
\* counted, and each batch, has kinds within the limit.
FewKinds(batch) ==
    /\ IsFiniteSet(R!Present(batch, R!Kinds))
    /\ Cardinality(R!Present(batch, R!Kinds)) <= MaxKinds

Flushed ==
    /\ scheduled <=> counts # R!Nothing
    /\ timers = IF counts = R!Nothing THEN 0 ELSE 1
    /\ FewKinds(counts)
    /\ \A i \in 1..Len(batches) : FewKinds(batches[i])

\* The module counts with the library's operator.
LEMMA KindsCount == \A S : R!Cardinality(S) = Cardinality(S)
  BY DEF R!Cardinality, Cardinality

\* An empty batch has few kinds.
LEMMA NoKinds == FewKinds(R!Nothing)
<1>1. R!Present(R!Nothing, R!Kinds) = {}
  BY DEF R!Present, R!Nothing
<1> QED
  BY <1>1, FS_EmptySet, ReactionsAssumption DEF FewKinds

\* However many viewers click: one timer runs, and only while there is something to
\* send, and no message has more kinds than the limit.
THEOREM ReactionsFlushedOnce == R!Spec => []R!OneFlush
<1> USE ReactionsAssumption
<1>1. R!Init => Flushed
  BY NoKinds DEF R!Init, Flushed
<1>2. ReactionsShape /\ Flushed /\ [R!Next]_R!vars => Flushed'
  <2> SUFFICES ASSUME ReactionsShape, Flushed, [R!Next]_R!vars
               PROVE  Flushed'
    OBVIOUS
  <2>0. batches \in Seq([R!Kinds -> Nat]) /\ counts \in [R!Kinds -> Nat]
    BY DEF ReactionsShape
  <2>1. ASSUME NEW k \in R!Kinds, R!React(k)
        PROVE  Flushed'
    <3>1. batches' = batches /\ counts' = [counts EXCEPT ![k] = @ + 1]
      BY <2>1 DEF R!React
    <3>2. counts' # R!Nothing
      <4>1. counts'[k] = counts[k] + 1 /\ counts[k] \in Nat /\ R!Nothing[k] = 0
        BY <2>0, <3>1 DEF R!Nothing
      <4> QED
        BY <4>1
    <3>3. scheduled' /\ timers' = 1
      <4>1. scheduled' = TRUE /\ timers' = IF scheduled THEN timers ELSE timers + 1
        BY <2>1 DEF R!React, R!Schedule
      <4>2. timers = IF scheduled THEN 1 ELSE 0
        BY DEF Flushed
      <4> QED
        BY <4>1, <4>2
    <3>4. FewKinds(counts')
      <4> DEFINE P == R!Present(counts, R!Kinds)
      <4>1. R!Present(counts', R!Kinds) = P \cup {k}
        <5>1. \A r \in R!Kinds : counts'[r] = IF r = k THEN counts[k] + 1 ELSE counts[r]
          BY <2>0, <3>1
        <5>2. counts[k] + 1 > 0
          BY <2>0
        <5> QED
          BY <5>1, <5>2 DEF R!Present
      <4>2. IsFiniteSet(P) /\ Cardinality(P) <= MaxKinds
        BY DEF Flushed, FewKinds
      <4>3. CASE counts[k] > 0
        <5>1. P \cup {k} = P
          BY <4>3 DEF R!Present
        <5> QED
          BY <4>1, <4>2, <5>1 DEF FewKinds
      <4>4. CASE Cardinality(P) < MaxKinds
        <5>1. /\ IsFiniteSet(P \cup {k})
              /\ Cardinality(P) \in Nat /\ Cardinality(P \cup {k}) \in Nat
              /\ Cardinality(P \cup {k}) <= Cardinality(P) + 1
          BY <4>2, OneMore, FS_AddElement
        <5> QED
          BY <4>1, <4>4, <5>1 DEF FewKinds
      <4>5. counts[k] > 0 \/ Cardinality(P) < MaxKinds
        BY <2>1, KindsCount DEF R!React, R!Room
      <4> QED
        BY <4>3, <4>4, <4>5
    <3> QED
      BY <3>1, <3>2, <3>3, <3>4 DEF Flushed
  <2>2. CASE R!Take
    <3>1. /\ counts' = R!Nothing /\ scheduled' = FALSE
          /\ batches' = IF counts = R!Nothing THEN batches ELSE Append(batches, counts)
      BY <2>2 DEF R!Take
    <3>2. timers' = 0
      BY <2>2 DEF R!Take, Flushed
    <3>3. \A i \in 1..Len(batches') : FewKinds(batches'[i])
      <4>1. CASE counts = R!Nothing
        BY <3>1, <4>1 DEF Flushed
      <4>2. CASE counts # R!Nothing
        <5>1. /\ Len(batches') = Len(batches) + 1
              /\ batches'[Len(batches) + 1] = counts
              /\ \A i \in 1..Len(batches) : batches'[i] = batches[i]
          BY <2>0, <3>1, <4>2, Queued
        <5>2. \A i \in 1..Len(batches') :
                 i \in 1..Len(batches) \/ i = Len(batches) + 1
          BY <2>0, <5>1
        <5> QED
          BY <5>1, <5>2 DEF Flushed
      <4> QED
        BY <4>1, <4>2
    <3>4. FewKinds(counts')
      BY <3>1, NoKinds DEF R!Nothing
    <3> QED
      BY <3>1, <3>2, <3>3, <3>4 DEF Flushed, R!Nothing
  <2>3. ASSUME NEW b, R!Tell(b)
        PROVE  Flushed'
    <3>1. /\ b \in 1..Len(batches) /\ batches' = R!RemoveAt(batches, b)
          /\ UNCHANGED <<counts, scheduled, timers>>
      BY <2>3 DEF R!Tell
    <3>2. /\ Len(batches') = Len(batches) - 1
          /\ \A i \in 1..Len(batches) - 1 :
                /\ i < b => batches'[i] = batches[i]
                /\ i >= b => batches'[i] = batches[i + 1]
      BY <2>0, <3>1, BatchRemoved
    <3>3. ASSUME NEW i \in 1..Len(batches') PROVE FewKinds(batches'[i])
      <4>1. i \in 1..Len(batches) /\ i + 1 \in 1..Len(batches) /\ (i < b \/ i >= b)
        BY <2>0, <3>1, <3>2
      <4> QED
        BY <3>2, <3>3, <4>1 DEF Flushed
    <3> QED
      BY <3>1, <3>3 DEF Flushed, FewKinds, R!Nothing
  <2>4. CASE UNCHANGED R!vars
    BY <2>4 DEF R!vars, Flushed, FewKinds, R!Nothing
  <2> QED
    BY <2>1, <2>2, <2>3, <2>4 DEF R!Next, R!TellOne
<1>3. Flushed => R!OneFlush
  BY KindsCount DEF Flushed, FewKinds, R!OneFlush
<1> QED
  BY <1>1, <1>2, <1>3, ReactionsShaped, PTL DEF R!Spec

\* What Reactions promises about what is counted and sent.
THEOREM ReactionsAreKept == R!Spec => []R!ReactionsKept
<1>1. R!TypeOK /\ R!CountedOnce /\ R!OneFlush => R!ReactionsKept
  BY DEF R!ReactionsKept
<1> QED
  BY <1>1, ReactionsTypeCorrect, ReactionsCountedOnce, ReactionsFlushedOnce, PTL

-----------------------------------------------------------------------------
(* The four of them together: what the run checks, for all constants. *)

\* A step of the composition is one of each part, or leaves it alone.
LEMMA StepsOfEach ==
    [MCNext]_all =>
        [Next]_vars /\ [D!Next]_D!vars /\ [F!Next]_F!vars /\ [R!Next]_R!vars
<1> SUFFICES ASSUME [MCNext]_all
             PROVE  /\ [Next]_vars
                    /\ [D!Next]_D!vars /\ [F!Next]_F!vars /\ [R!Next]_R!vars
  OBVIOUS
<1> USE DEF draft, forwarder, reaction, D!vars, F!vars, R!vars,
            F!queueing, F!sleeping, F!receiver, F!network
<1>0. CASE Next /\ UNCHANGED <<draft, forwarder, reaction>>
  BY <1>0
<1>1. CASE UNCHANGED <<vars, draft, forwarder, reaction>>
  BY <1>1
<1>2. CASE OfDrafts(D!Next)
  BY <1>2 DEF OfDrafts
<1>3. CASE OfForwarder(F!Next)
  BY <1>3 DEF OfForwarder
<1>4. CASE OfReactions(R!Next)
  BY <1>4 DEF OfReactions
<1> QED
  BY <1>0, <1>1, <1>2, <1>3, <1>4 DEF MCNext, all

\* A behaviour of the composition is one of each part.
LEMMA SpecOfEach == MCSpec => Spec /\ D!Spec /\ F!Spec /\ R!Spec
<1>1. MCInit => Init /\ D!Init /\ F!Init /\ R!Init
  BY DEF MCInit
<1> QED
  BY <1>1, StepsOfEach, PTL DEF MCSpec, Spec, D!Spec, F!Spec, R!Spec

\* The sessions of a stream have their members and are found or left behind as the
\* manager promises, whoever comes and goes.
THEOREM SessionsKeptAlways == MCSpec => [](TypeOK /\ ClosedNotFound /\ NothingLeftBehind)
BY SpecOfEach, SessionsTypeCorrect, ClosedGone, NothingIsLeft, PTL

\* The directory of drafts is kept, with any number of creators, readers and drafts.
THEOREM DraftsKeptAlways == MCSpec => []DraftsKept
<1>1. D!DraftsKept => DraftsKept
  BY DEF DraftsKept
<1> QED
  BY <1>1, SpecOfEach, DraftsAreKept, PTL

\* Connections take messages in order, none is lost that was not dropped or taken by a
\* broken connection that did not say so, and the server is not hammered.
THEOREM MessagesKeptAlways == MCSpec => MessagesKept
BY SpecOfEach, ForwardedMessagesKept DEF MessagesKept

\* Reactions are counted once, flushed once and limited in kinds.
THEOREM ReactionsKeptAlways == MCSpec => []ReactionsKept
<1>1. R!ReactionsKept => ReactionsKept
  BY DEF ReactionsKept
<1> QED
  BY <1>1, SpecOfEach, ReactionsAreKept, PTL

=============================================================================
