---------------------------- MODULE SessionManager ----------------------------
(***************************************************************************)
(* internal/webrtc/sessions/manager: the map from stream keys to sessions, *)
(* for one stream key.  Requests to publish and to watch look the session  *)
(* up or create it, join it some time later and leave it; the one that     *)
(* finds it empty closes it, which deletes the key from the map.           *)
(*                                                                         *)
(* A session is named by the request that created it.  Of the session      *)
(* itself only who is in it and whether it is closed is kept; module       *)
(* StreamSession has the rest.                                             *)
(***************************************************************************)
EXTENDS Naturals, FiniteSets

CONSTANTS
    Requests,    \* WHIP and WHEP requests for the stream key
    Publishers,  \* the WHIP requests among them
    NoSession    \* the absence of the key from the map

ASSUME PublishersAreRequests == Publishers \subseteq Requests
ASSUME NoSessionIsNil == NoSession \notin Requests

VARIABLES
    session,     \* m.sessions[streamKey]
    members,     \* members[s]: who is in session s, as host or as viewer
    closed,      \* the sessions whose closeOnce has been used
    pc,          \* pc[r]: where request r is
    got          \* got[r]: the session GetOrAddSession returned to r

vars == <<session, members, closed, pc, got>>

Init ==
    /\ session = NoSession
    /\ members = [s \in Requests |-> {}]
    /\ closed = {}
    /\ pc = [r \in Requests |-> "idle"]
    /\ got = [r \in Requests |-> NoSession]

Goto(r, label) == pc' = [pc EXCEPT ![r] = label]

\* GetOrAddSession, first half: the map is read under its read lock.
GetSessionByID(r) ==
    /\ pc[r] = "idle"
    /\ got' = [got EXCEPT ![r] = session]
    /\ Goto(r, IF session = NoSession THEN "add" ELSE "join")
    /\ UNCHANGED <<session, members, closed>>

\* Second half: addSession makes a session and enters it, whatever is there.
AddSession(r) ==
    /\ pc[r] = "add"
    /\ session' = r
    /\ got' = [got EXCEPT ![r] = r]
    /\ Goto(r, "join")
    /\ UNCHANGED <<members, closed>>

\* WHIP or WHEP returns an error before it comes to AddHost or AddWHEP, or
\* AddHost refuses the host.
Fail(r) ==
    /\ pc[r] = "join"
    /\ Goto(r, "failed")
    /\ UNCHANGED <<session, members, closed, got>>

\* AddWHEP, or AddHost, which replaces the host that is there.
Join(r) ==
    LET replaced == IF r \in Publishers THEN members[got[r]] \cap Publishers
                                       ELSE {} IN
    /\ pc[r] = "join"
    /\ members' = [members EXCEPT ![got[r]] = (@ \ replaced) \cup {r}]
    /\ pc' = [q \in Requests |-> IF q = r THEN "inside"
                                 ELSE IF q \in replaced THEN "done" ELSE pc[q]]
    /\ UNCHANGED <<session, closed, got>>

\* handleWHEPClose and handleHostClosed, for a member the session still has.
Leave(r) ==
    /\ pc[r] = "inside"
    /\ members' = [members EXCEPT ![got[r]] = @ \ {r}]
    /\ Goto(r, "check")
    /\ UNCHANGED <<session, closed, got>>

\* Slip: the test is the wrong way round.
CheckEmptyViewers(r) ==
    /\ pc[r] = "check"
    /\ Goto(r, IF members[got[r]] \subseteq Publishers THEN "done" ELSE "close")
    /\ UNCHANGED <<session, members, closed, got>>

\* isEmpty: a host counts once it has a track.
CheckEmpty(r) ==
    /\ pc[r] = "check"
    /\ \E trackless \in SUBSET (members[got[r]] \cap Publishers) :
          Goto(r, IF members[got[r]] \subseteq trackless THEN "close" ELSE "done")
    /\ UNCHANGED <<session, members, closed, got>>

\* Session.close: the first caller sends everybody away who has come since.
Close(r) ==
    LET s == got[r] IN
    /\ pc[r] = "close"
    /\ IF s \in closed
       THEN /\ Goto(r, "done")
            /\ UNCHANGED <<members, closed>>
       ELSE /\ closed' = closed \cup {s}
            /\ pc' = [q \in Requests |-> IF q = r THEN "onClose"
                                         ELSE IF q \in members[s] THEN "done"
                                         ELSE pc[q]]
            /\ members' = [members EXCEPT ![s] = {}]
    /\ UNCHANGED <<session, got>>

\* Slip: the callback that unregisters the session is missing.
OnCloseNothing(r) ==
    /\ pc[r] = "onClose"
    /\ Goto(r, "done")
    /\ UNCHANGED <<session, members, closed, got>>

\* The callback addSession gave to SetOnClose: the key is deleted.
OnClose(r) ==
    /\ pc[r] = "onClose"
    /\ session' = NoSession
    /\ Goto(r, "done")
    /\ UNCHANGED <<members, closed, got>>

Next == \E r \in Requests :
    \/ GetSessionByID(r) \/ AddSession(r) \/ Fail(r) \/ Join(r) \/ Leave(r)
    \/ CheckEmpty(r) \/ Close(r) \/ OnClose(r)

Spec == Init /\ [][Next]_vars

-----------------------------------------------------------------------------
(* Properties. *)

TypeOK ==
    /\ session \in Requests \cup {NoSession}
    /\ members \in [Requests -> SUBSET Requests]
    /\ closed \in SUBSET Requests
    /\ pc \in [Requests -> {"idle", "add", "join", "failed", "inside", "check",
                            "close", "onClose", "done"}]
    /\ got \in [Requests -> Requests \cup {NoSession}]
    /\ \A r \in Requests :
          pc[r] \notin {"idle", "add"} => got[r] \in Requests

\* A session that is closed is not found again: it is in the map only until
\* the one that closes it has run its callback.
ClosedNotFound ==
    session \in closed =>
        \E r \in Requests : pc[r] = "onClose" /\ got[r] = session

\* When everybody has gone, and no request failed on its way into a session
\* it had created, the map does not hold the stream any more.
AtRest == \A r \in Requests : pc[r] \in {"idle", "failed", "done"}
NothingLeftBehind ==
    AtRest /\ (\A r \in Requests : pc[r] # "failed") => session = NoSession

-----------------------------------------------------------------------------
(* What a comment says and the code does not ensure. *)

\* manager.go:52, "Get the stream requested, or create it, and add it to the
\* sessions context": whoever is in an open session can be found by the next
\* request for the stream.
MembersAreFound ==
    \A r \in Requests :
        pc[r] = "inside" /\ got[r] \notin closed => session = got[r]

=============================================================================
