------------------------------- MODULE Reactions -------------------------------
(***************************************************************************)
(* internal/webrtc/sessions/session/reactions.go: reactions are counted    *)
(* under a lock, and a timer sends what was counted to all viewers.        *)
(***************************************************************************)
EXTENDS Naturals, Sequences, FiniteSets, SequencesExt

CONSTANTS
    Emojis, Emotes,   \* the kinds of reactions: emoji, and emotes by URL
    MaxKinds,         \* maxReactionKinds
    MaxReactions      \* bound: reactions that are counted

VARIABLES
    counts,           \* counts and emotes together
    scheduled,
    timers,           \* flushes that have been scheduled and have not run
    batches,          \* what running flushes have taken and not yet sent
    accepted,         \* accepted[k]: how many reactions were counted
    told              \* told[k]: how many the viewers have been told of

vars == <<counts, scheduled, timers, batches, accepted, told>>

Kinds == Emojis \cup Emotes
Nothing == [k \in Kinds |-> 0]
Present(batch, S) == {k \in S : batch[k] > 0}

Init ==
    /\ counts = Nothing
    /\ scheduled = FALSE
    /\ timers = 0
    /\ batches = <<>>
    /\ accepted = Nothing /\ told = Nothing

\* A new kind needs room among those of both maps.
Room(k) == counts[k] > 0 \/ Cardinality(Present(counts, Kinds)) < MaxKinds

Schedule ==
    /\ scheduled' = TRUE
    /\ timers' = IF scheduled THEN timers ELSE timers + 1

\* handleReactionMessage; a reaction without room is dropped.
React(k) ==
    /\ accepted[k] < MaxReactions
    /\ Room(k)
    /\ counts' = [counts EXCEPT ![k] = @ + 1]
    /\ accepted' = [accepted EXCEPT ![k] = @ + 1]
    /\ Schedule
    /\ UNCHANGED <<batches, told>>

\* Slip: the flag is left to the next flush.
TakeStaysScheduled ==
    /\ timers > 0
    /\ timers' = timers - 1
    /\ batches' = IF counts = Nothing THEN batches ELSE Append(batches, counts)
    /\ counts' = Nothing
    /\ UNCHANGED <<scheduled, accepted, told>>

\* flushReactions, under the lock; one that finds nothing sends nothing.
Take ==
    /\ timers > 0
    /\ timers' = timers - 1
    /\ batches' = IF counts = Nothing THEN batches ELSE Append(batches, counts)
    /\ counts' = Nothing
    /\ scheduled' = FALSE
    /\ UNCHANGED <<accepted, told>>

\* Slip: the maps are emptied once more when they have been sent.
TellAndClear(i) ==
    /\ i \in 1..Len(batches)
    /\ told' = [k \in Kinds |-> told[k] + batches[i][k]]
    /\ batches' = RemoveAt(batches, i)
    /\ counts' = Nothing
    /\ UNCHANGED <<scheduled, timers, accepted>>

\* The message is sent without the lock: a later flush may overtake it.
Tell(i) ==
    /\ i \in 1..Len(batches)
    /\ told' = [k \in Kinds |-> told[k] + batches[i][k]]
    /\ batches' = RemoveAt(batches, i)
    /\ UNCHANGED <<counts, scheduled, timers, accepted>>

TellOne == \E i \in 1..MaxReactions * Cardinality(Kinds) : Tell(i)

Next == (\E k \in Kinds : React(k)) \/ Take \/ TellOne

Spec == Init /\ [][Next]_vars

\* The timer fires, and its goroutine runs.
FairSpec == Spec /\ WF_vars(Take) /\ WF_vars(TellOne)

-----------------------------------------------------------------------------
(* Properties. *)

TypeOK ==
    /\ counts \in [Kinds -> 0..MaxReactions]
    /\ scheduled \in BOOLEAN
    /\ timers \in Nat
    /\ batches \in Seq([Kinds -> 0..MaxReactions])
    /\ accepted \in [Kinds -> 0..MaxReactions] /\ told \in [Kinds -> 0..MaxReactions]

\* No reaction is lost or counted twice, however flushes overlap with reactions and
\* with one another: what was told and what is counted, and one batch after the other
\* added to that, are all that were accepted.
CountedOnce ==
    \A k \in Kinds : \E sum \in [0..Len(batches) -> 0..MaxReactions] :
        /\ sum[0] = told[k] + counts[k]
        /\ \A i \in 1..Len(batches) : sum[i] = sum[i - 1] + batches[i][k]
        /\ sum[Len(batches)] = accepted[k]

\* One message for each interval, however many viewers click: one timer runs, and only
\* while there is something to send; a message has a limited number of kinds.
OneFlush ==
    /\ timers = IF counts = Nothing THEN 0 ELSE 1
    /\ \A i \in 1..Len(batches) : Cardinality(Present(batches[i], Kinds)) <= MaxKinds

\* The viewers are told of every reaction.
AllTold == \A k \in Kinds, n \in 1..MaxReactions : (accepted[k] = n) ~> (told[k] >= n)

\* What is counted, and how often the viewers hear of it.
ReactionsKept == TypeOK /\ CountedOnce /\ OneFlush

=============================================================================
