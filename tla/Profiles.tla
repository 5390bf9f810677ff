------------------------------- MODULE Profiles -------------------------------
(***************************************************************************)
(* internal/server/authorization: a stream profile is a file whose name is *)
(* its stream key, an underscore and its token.  No lock and no rename     *)
(* guards a write: a request looks a name up, opens the file (which        *)
(* empties it) and fills it, and others may come in between.  What is      *)
(* stored is shown as the MOTD of the stream that is live.                 *)
(*                                                                         *)
(* A stream key is the sequence of its parts, which underscores separate;  *)
(* a token has none and is a number.  Keys differ by more than case, and   *)
(* every one passes isValidStreamKey.                                      *)
(***************************************************************************)
EXTENDS Naturals, SequencesExt

CONSTANTS
    ProfileKeys,   \* stream keys
    ProfileCalls,  \* HTTP requests, one goroutine each
    Texts,         \* what a streamer may set: MOTD and IsPublic of a payload
    Welcome,       \* the MOTD of a new profile
    Partial,       \* the content of a file that is not (yet) JSON
    Nothing,       \* nil, and no such file
    MaxToken,      \* bound: tokens that are generated
    MaxFaults      \* bound: failing writes and crashes

VARIABLES
    directory,     \* the names in STREAM_PROFILE_PATH, with their contents
    call,          \* call[r]: where request r is, and what it has read
    live,          \* live[k]: Session.MOTD of the stream k, Nothing when not live
    token,         \* how many tokens were generated
    faults,        \* how many writes failed or were cut off
    torn,          \* the names whose last write was cut off
    twins,         \* keys of which there may be two profiles: two calls have stored
                   \* one each, or another key's has been given to it
    unsettled      \* keys whose live stream may not show what is stored

vars == <<directory, call, live, token, faults, torn, twins, unsettled>>

Names    == [key : ProfileKeys, token : 1..MaxToken]
Contents == Texts \cup {Welcome, Partial}
Idle     == [op |-> "idle", key |-> Nothing, token |-> 0, name |-> Nothing,
             text |-> Nothing, alone |-> FALSE]

Init ==
    /\ directory = <<>>
    /\ call = [r \in ProfileCalls |-> Idle]
    /\ live = [k \in ProfileKeys |-> Nothing]
    /\ token = 0
    /\ faults = 0
    /\ torn = {}
    /\ twins = {}
    /\ unsettled = {}

-----------------------------------------------------------------------------
(* Finding a file. *)

Stored == DOMAIN directory

Without(f, n) == [m \in DOMAIN f \ {n} |-> f[m]]
With(f, n, x) == [m \in DOMAIN f \cup {n} |-> IF m = n THEN x ELSE f[m]]

\* hasExistingStreamKey: is the key with an underscore the beginning of a name?
HasStreamKey(k) == \E n \in Stored : IsPrefix(k, n.key)

\* Slip: what a name begins with is not compared.
OfStreamKeyAny(k) == Stored

\* getProfileFileNameByStreamKey compares the key with a name's first part, and
\* takes the first name in an order that the tokens decide.
OfStreamKey(k) == {n \in Stored : k = <<Head(n.key)>>}

\* getProfileFileNameByBearerToken.
OfToken(t) == {n \in Stored : n.token = t}

\* json.Unmarshal of what a file holds.
Whole(n) == directory[n] # Partial

-----------------------------------------------------------------------------
(* Which calls overlap. *)

About(k) == {r \in ProfileCalls : call[r].key = k}

\* Two calls about one key unsettle it, until one that is alone shows what it has
\* read; and a stream that is live goes on without the profile that is created.
\* Call r, about k, goes on from `op` with what it was given and has read.
Begins(r, op, k, t, name, text) ==
    /\ call[r].op = "idle"
    /\ call' = [s \in ProfileCalls |->
         IF s = r THEN [op |-> op, key |-> k, token |-> t, name |-> name,
                        text |-> text, alone |-> About(k) = {}]
         ELSE IF s \in About(k) THEN [call[s] EXCEPT !.alone = FALSE] ELSE call[s]]
    /\ unsettled' = IF About(k) = {} /\ (op = "create" => live[k] = Nothing)
                    THEN unsettled ELSE unsettled \cup {k}

Ends(r)     == call' = [call EXCEPT ![r] = Idle]
Goes(r, op) == call' = [call EXCEPT ![r].op = op]

Settles(r) ==
    unsettled' = IF call[r].alone THEN unsettled \ {call[r].key} ELSE unsettled

-----------------------------------------------------------------------------
(* CreateProfile. *)

CreateProfile(r, k) ==
    /\ ~HasStreamKey(k)
    /\ token < MaxToken
    /\ token' = token + 1
    /\ Begins(r, "create", k, token + 1, [key |-> k, token |-> token + 1], Welcome)
    /\ twins' = IF \E s \in About(k) : call[s].op \in {"create", "fillNew"}
                THEN twins \cup {k} ELSE twins
    /\ UNCHANGED <<directory, live, faults, torn>>

\* os.WriteFile creates the file or empties the one there is.
OpenFile(r) ==
    /\ call[r].op \in {"create", "update"}
    /\ directory' = With(directory, call[r].name, Partial)
    /\ twins' = IF call[r].op = "update" /\ call[r].name \notin Stored
                THEN twins \cup {call[r].key} ELSE twins
    /\ Goes(r, IF call[r].op = "create" THEN "fillNew" ELSE "fill")
    /\ UNCHANGED <<live, token, faults, torn, unsettled>>

\* A descriptor goes with its file, wherever that is renamed to or removed.
FillFile(r) ==
    /\ call[r].op \in {"fillNew", "fill"}
    /\ directory' = IF call[r].name \in Stored
                    THEN [directory EXCEPT ![call[r].name] = call[r].text]
                    ELSE directory
    /\ torn' = torn \ {call[r].name}
    /\ IF call[r].op = "fill" THEN Goes(r, "reread") ELSE Ends(r)
    /\ UNCHANGED <<live, token, faults, twins, unsettled>>

WriteFails(r) ==
    /\ call[r].op \in {"fillNew", "fill"}
    /\ faults < MaxFaults
    /\ faults' = faults + 1
    /\ torn' = torn \cup ({call[r].name} \cap Stored)
    /\ Ends(r)
    /\ UNCHANGED <<directory, live, token, twins, unsettled>>

-----------------------------------------------------------------------------
(* ProfileHandler: UpdateProfile, and the stream that is live. *)

\* GetPersonalProfile of the token; motd and isPublic are replaced.
UpdateProfile(r, n, text) ==
    /\ n \in OfToken(n.token)
    /\ Whole(n)
    /\ Begins(r, "find", n.key, n.token, n, text)
    /\ UNCHANGED <<directory, live, token, faults, torn, twins>>

\* The token's name is looked up once more; there may be none.
FindAgain(r) ==
    /\ call[r].op = "find"
    /\ IF OfToken(call[r].token) = {} THEN Ends(r) ELSE Goes(r, "update")
    /\ UNCHANGED <<directory, live, token, faults, torn, twins, unsettled>>

\* The handler reads the profile again; with a nil it would panic, and net/http
\* would recover.
Reread(r) ==
    /\ call[r].op = "reread"
    /\ LET found == {n \in OfToken(call[r].token) : Whole(n)} IN
          \/ \E n \in found :
                call' = [call EXCEPT ![r].op = "apply", ![r].text = directory[n]]
          \/ found = {} /\ Ends(r)
    /\ UNCHANGED <<directory, live, token, faults, torn, twins, unsettled>>

\* SessionManager.UpdateProfile: there may be no such stream.
Apply(r) ==
    /\ call[r].op = "apply"
    /\ live' = IF live[call[r].key] = Nothing THEN live
               ELSE [live EXCEPT ![call[r].key] = call[r].text]
    /\ Settles(r)
    /\ Ends(r)
    /\ UNCHANGED <<directory, token, faults, torn, twins>>

-----------------------------------------------------------------------------
(* RemoveProfile and ResetProfileToken. *)

FindToRemove(r, k) ==
    /\ \E n \in OfStreamKey(k) : Begins(r, "remove", k, 0, n, Nothing)
    /\ UNCHANGED <<directory, live, token, faults, torn, twins>>

\* Calls that hold the file old, or a name that is no longer there.
Moved(old, new) ==
    [s \in ProfileCalls |->
        IF call[s].op \in {"fillNew", "fill"} /\ call[s].name = old
        THEN [call[s] EXCEPT !.name = new] ELSE call[s]]

RemoveFile(r) ==
    /\ call[r].op = "remove"
    /\ directory' = Without(directory, call[r].name)
    /\ torn' = torn \ {call[r].name}
    /\ call' = [Moved(call[r].name, Nothing) EXCEPT ![r] = Idle]
    /\ UNCHANGED <<live, token, faults, twins, unsettled>>

FindToReset(r, k) ==
    /\ token < MaxToken
    /\ token' = token + 1
    /\ \E n \in OfStreamKey(k) : Begins(r, "rename", k, token + 1, n, Nothing)
    /\ UNCHANGED <<directory, live, faults, torn, twins>>

\* Slip: the profile is written under its new name, and the old one stays.
RenameFileCopies(r) ==
    /\ call[r].op = "rename"
    /\ LET new == [key |-> call[r].key, token |-> call[r].token] IN
          directory' = IF call[r].name \in Stored
                       THEN With(directory, new, directory[call[r].name])
                       ELSE directory
    /\ Ends(r)
    /\ UNCHANGED <<live, token, faults, torn, twins, unsettled>>

\* os.Rename fails when the file is gone.
RenameFile(r) ==
    /\ call[r].op = "rename"
    /\ LET old == call[r].name
           new == [key |-> call[r].key, token |-> call[r].token] IN
          IF old \in Stored
          THEN /\ directory' = With(Without(directory, old), new, directory[old])
               /\ torn' = IF old \in torn THEN (torn \ {old}) \cup {new} ELSE torn
               /\ call' = [Moved(old, new) EXCEPT ![r] = Idle]
               /\ twins' = IF old.key # new.key THEN twins \cup {new.key} ELSE twins
          ELSE Ends(r) /\ UNCHANGED <<directory, torn, twins>>
    /\ UNCHANGED <<live, token, faults, unsettled>>

-----------------------------------------------------------------------------
(* WHIP with a token, the end of a stream, and a crash. *)

\* GetPublicProfile of the publisher's token.
ReadProfile(r, n) ==
    /\ n \in OfToken(n.token)
    /\ Whole(n)
    /\ Begins(r, "join", n.key, n.token, n, directory[n])
    /\ UNCHANGED <<directory, live, token, faults, torn, twins>>

\* GetOrAddSession: addSession or UpdateStreamStatus with the profile.
Publish(r) ==
    /\ call[r].op = "join"
    /\ live' = [live EXCEPT ![call[r].key] = call[r].text]
    /\ Settles(r)
    /\ Ends(r)
    /\ UNCHANGED <<directory, token, faults, torn, twins>>

StreamEnds(k) ==
    /\ live[k] # Nothing
    /\ live' = [live EXCEPT ![k] = Nothing]
    /\ UNCHANGED <<directory, call, token, faults, torn, twins, unsettled>>

\* Files stay as they are, and nothing looks for what was cut off.
Restart ==
    /\ faults < MaxFaults
    /\ faults' = faults + 1
    /\ torn' = torn \cup {n \in Stored : ~Whole(n)}
    /\ call' = [r \in ProfileCalls |-> Idle]
    /\ live' = [k \in ProfileKeys |-> Nothing]
    /\ unsettled' = {}
    /\ UNCHANGED <<directory, token, twins>>

-----------------------------------------------------------------------------
Next ==
    \/ \E r \in ProfileCalls :
          \/ OpenFile(r) \/ FillFile(r) \/ WriteFails(r)
          \/ FindAgain(r) \/ Reread(r) \/ Apply(r)
          \/ RemoveFile(r) \/ RenameFile(r) \/ Publish(r)
          \/ \E k \in ProfileKeys :
                CreateProfile(r, k) \/ FindToRemove(r, k) \/ FindToReset(r, k)
          \/ \E n \in Stored :
                ReadProfile(r, n) \/ \E text \in Texts : UpdateProfile(r, n, text)
    \/ \E k \in ProfileKeys : StreamEnds(k)
    \/ Restart

Spec == Init /\ [][Next]_vars

-----------------------------------------------------------------------------
(* The variables have their types.                                         *)
TypeOK ==
    /\ Stored \subseteq Names
    /\ \A n \in Stored : directory[n] \in Contents
    /\ \A r \in ProfileCalls :
          /\ call[r].key \in ProfileKeys \cup {Nothing}
          /\ call[r].token \in 0..token
          /\ call[r].name \in Names \cup {Nothing}
          /\ call[r].alone \in BOOLEAN
          /\ (call[r].op = "idle") = (call[r].key = Nothing)
    /\ \A k \in ProfileKeys : live[k] \in (Contents \ {Partial}) \cup {Nothing}
    /\ torn \subseteq Stored
    /\ twins \subseteq ProfileKeys /\ unsettled \subseteq ProfileKeys

(* A stream key has one profile, through every reset: two only where two    *)
(* requests created it at once, where an update put back the file that a    *)
(* reset or a removal had just taken away, or where a reset renamed the     *)
(* profile of a longer key.                                                 *)
OneProfile ==
    \A m, n \in Stored : m.key = n.key /\ m # n => m.key \in twins

(* A profile that nobody writes can be read, whatever happened before: only *)
(* a write that was cut off leaves a file that is no profile.               *)
WholeAtRest ==
    \A n \in Stored :
        Whole(n) \/ n \in torn
        \/ \E r \in ProfileCalls : call[r].op \in {"fillNew", "fill"}
                                   /\ call[r].name = n

(* What viewers of a live stream see is what its profile says: a change by  *)
(* its owner is shown at once, and kept for the next stream.                *)
LiveFollowsProfile ==
    \A n \in Stored :
        (/\ About(n.key) = {}
         /\ n.key \notin unsettled \cup twins
         /\ n \notin torn)
        => live[n.key] \in {directory[n], Nothing}

(* A request about one stream key leaves the profiles of all others alone:  *)
(* none is changed, renamed or removed by it.  The code keeps this only for *)
(* keys without an underscore, since what is done to the profile of "a" may *)
(* be done to that of "a_b", and while no such profile has become that of   *)
(* the shorter key.                                                         *)
OthersKept ==
    [][\A n \in Stored :
          \/ n \in Stored' /\ directory'[n] = directory[n]
          \/ \E r \in ProfileCalls : call'[r] # call[r] /\ call[r].key = n.key
          \/ <<Head(n.key)>> # n.key
          \/ n.key \in twins]_vars

(* The profiles on disk, and what live streams show of them.                *)
ProfilesKept == TypeOK /\ OneProfile /\ WholeAtRest /\ LiveFollowsProfile

=============================================================================
