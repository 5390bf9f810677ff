----------------------------- MODULE MCLifecycles -----------------------------
(***************************************************************************)
(* What comes and has to go, for TLC: sessions, the drafts of clips, the   *)
(* messages waiting for Social Stream Ninja and the counts of reactions.   *)
(* They share no state, and a behaviour is one of those `part` names.      *)
(***************************************************************************)
EXTENDS SessionManager, TLC

CONSTANTS
    Creators, Readers, MaxDrafts, DraftTTL, Whole, NoDraft, MaxID,     \* ClipDrafts
    Keys, StreamKeys, QueueSize, MaxAge, MinBackoff, MaxBackoff, Stable,
    MaxMessages,                                                       \* ChatForwarder
    Emojis, Emotes, MaxKinds, MaxReactions                             \* Reactions

VARIABLES
    part,
    drafts, files, size, age, writes, found, opened, begun, due,
    messages, made, waited, state, pending, backoff, pause, left, up, short, last,
    arrived, twice, broken, vanished, failed, dropped,
    counts, scheduled, timers, batches, accepted, told

\* What the code sees to (MaxDrafts is 10 when none or less is configured), and the
\* bounds and the nil value.
ASSUME DraftsAssumption ==
    /\ MaxDrafts \in Nat \ {0}
    /\ DraftTTL \in Nat /\ Whole \in Nat /\ MaxID \in Nat
    /\ NoDraft \notin 1..MaxID

\* The settings of ssn.go are constants, the first sleep no longer than the longest.
ASSUME ForwarderAssumption ==
    /\ QueueSize \in Nat /\ MaxAge \in Nat /\ Stable \in Nat /\ MaxMessages \in Nat
    /\ MinBackoff \in Nat /\ MaxBackoff \in Nat /\ MinBackoff <= MaxBackoff

\* maxReactionKinds is a constant of reactions.go.
ASSUME ReactionsAssumption == MaxKinds \in Nat /\ MaxReactions \in Nat

D == INSTANCE ClipDrafts
F == INSTANCE ChatForwarder WITH age <- waited, pc <- state
R == INSTANCE Reactions

draft     == <<drafts, files, size, age, writes, found, opened, begun, due>>
forwarder == <<messages, made, waited, state, pending, backoff, pause, left, up, short,
               last, arrived, twice, broken, vanished, failed, dropped>>
reaction  == <<counts, scheduled, timers, batches, accepted, told>>
all       == <<part, vars, draft, forwarder, reaction>>

MCInit ==
    /\ part \in {"sessions", "drafts", "forwarder", "reactions"}
    /\ Init /\ D!Init /\ F!Init /\ R!Init

OfDrafts(A) ==
    part = "drafts" /\ A /\ UNCHANGED <<part, vars, forwarder, reaction>>
OfForwarder(A) ==
    part = "forwarder" /\ A /\ UNCHANGED <<part, vars, draft, reaction>>
OfReactions(A) ==
    part = "reactions" /\ A /\ UNCHANGED <<part, vars, draft, forwarder>>

MCNext ==
    \/ part = "sessions" /\ Next
       /\ UNCHANGED <<part, draft, forwarder, reaction>>
    \/ OfDrafts(D!Next)
    \/ OfForwarder(F!Next)
    \/ OfReactions(R!Next)

\* The fairness of each module, for the behaviours that are its own.
MCFairness ==
    /\ WF_all(OfDrafts(D!Tick)) /\ WF_all(OfDrafts(D!Cleanup))
    /\ WF_all(OfForwarder(F!Tick)) /\ WF_all(OfForwarder(F!Wake))
    /\ WF_all(OfForwarder(F!Serve))
    /\ SF_all(OfForwarder(F!Connect)) /\ SF_all(OfForwarder(F!Take))
    /\ WF_all(OfReactions(R!Take)) /\ WF_all(OfReactions(R!TellOne))

MCSpec == MCInit /\ [][MCNext]_all /\ MCFairness

-----------------------------------------------------------------------------

(* What the directory of drafts holds (ClipDrafts).                        *)
DraftsKept == part = "drafts" => D!DraftsKept

(* What may happen to a message on its way (ChatForwarder).                *)
MessagesKept == F!MessagesKept

(* What is counted, and how often viewers hear of it (Reactions).          *)
ReactionsKept == part = "reactions" => R!ReactionsKept

(* Every draft goes away (ClipDrafts), no message waits for ever           *)
(* (ChatForwarder) and the viewers are told of every reaction (Reactions). *)
NothingLingers == D!DraftsExpire /\ F!Handled /\ R!AllTold

=============================================================================
