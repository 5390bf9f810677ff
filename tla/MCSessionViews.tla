---------------------------- MODULE MCSessionViews ----------------------------
(***************************************************************************)
(* What a stream shows, for TLC: SessionViews, and the profile whose MOTD  *)
(* it has.  They share no state, and a behaviour is one of those `part`    *)
(* names.  Publishers, viewers and HTTP requests are interchangeable.      *)
(***************************************************************************)
EXTENDS SessionViews, TLC

CONSTANTS
    Streamer, Other,                                                \* keys
    ProfileCalls, Texts, Welcome, Partial, Nothing, MaxToken, MaxFaults   \* Profiles

VARIABLES
    part,
    directory, call, live, token, faults, torn, twins, unsettled

\* A key, and another that begins with it and an underscore.
MCProfileKeys == {<<Streamer>>, <<Streamer, Other>>}

Symmetry == Permutations(Hosts) \cup Permutations(Viewers)
            \cup Permutations(ProfileCalls)

P == INSTANCE Profiles WITH ProfileKeys <- MCProfileKeys

\* What a file holds, what is shown and what is not there differ.
ASSUME ProfilesAssumption ==
    /\ MaxToken \in Nat
    /\ {Partial, Nothing} \cap (Texts \cup {Welcome}) = {}
    /\ Nothing \notin MCProfileKeys \cup P!Names

profile == <<directory, call, live, token, faults, torn, twins, unsettled>>

MCInit ==
    /\ part \in {"views", "profiles"}
    /\ Init /\ P!Init

MCNext ==
    \/ part = "views"    /\ Next   /\ UNCHANGED <<part, profile>>
    \/ part = "profiles" /\ P!Next /\ UNCHANGED <<part, vars>>

MCSpec == MCInit /\ [][MCNext]_<<part, vars, profile>>

-----------------------------------------------------------------------------

(* One whole profile for a key, and a stream that shows it (Profiles).     *)
ProfilesKept == part = "profiles" => P!ProfilesKept

(* A request about one stream leaves the profiles of others alone (Profiles). *)
OthersKept == P!OthersKept

=============================================================================
