------------------------------ MODULE ClipDrafts ------------------------------
(***************************************************************************)
(* internal/clips/service.go: the drafts.  A request writes the recorder's *)
(* snapshot to a file and then enters the draft under the service's lock;  *)
(* the oldest make room for it and a loop removes the expired ones, while  *)
(* another request may have found a draft and not yet opened its file.     *)
(***************************************************************************)
EXTENDS Naturals, FiniteSets

CONSTANTS
    Creators,   \* goroutines of POST /api/clips/drafts
    Readers,    \* goroutines that preview or publish a draft
    MaxDrafts,  \* Config.MaxDrafts
    DraftTTL,   \* draftTTL
    Whole,      \* in how many pieces a file is written
    NoDraft,    \* the nil draft
    MaxID       \* bound: drafts that are begun

VARIABLES
    drafts,     \* the IDs in Service.drafts
    files,      \* the drafts with a file in Config.DraftDirectory
    size,       \* size[d]: how much of the file of d has been written
    age,        \* age[d]: how long ago its snapshot was, as far as it matters
    writes,     \* writes[c]: the draft request c is writing
    found,      \* found[r]: the draft request r has got from draft()
    opened,     \* opened[r]: the draft whose file it has opened
    begun,      \* how many drafts were begun: an ID is a number
    due         \* cleanupLoop has to go round

vars == <<drafts, files, size, age, writes, found, opened, begun, due>>

IDs == 1..MaxID

Init ==
    /\ drafts = {}
    /\ files = {}
    /\ size = [d \in IDs |-> 0]
    /\ age = [d \in IDs |-> 0]
    /\ writes = [c \in Creators |-> NoDraft]
    /\ found = [r \in Readers |-> NoDraft]
    /\ opened = [r \in Readers |-> NoDraft]
    /\ begun = 0
    /\ due = FALSE

-----------------------------------------------------------------------------
(* CreateDraft. *)

\* The snapshot, and the file that is created for it.
Begin(c) ==
    /\ writes[c] = NoDraft
    /\ begun < MaxID
    /\ begun' = begun + 1
    /\ writes' = [writes EXCEPT ![c] = begun + 1]
    /\ files' = files \cup {begun + 1}
    /\ UNCHANGED <<drafts, size, age, found, opened, due>>

WritePiece(c) ==
    /\ writes[c] # NoDraft
    /\ size[writes[c]] < Whole
    /\ size' = [size EXCEPT ![writes[c]] = @ + 1]
    /\ UNCHANGED <<drafts, files, age, writes, found, opened, begun, due>>

WriteFails(c) ==
    /\ writes[c] # NoDraft
    /\ size[writes[c]] < Whole
    /\ files' = files \ {writes[c]}
    /\ writes' = [writes EXCEPT ![c] = NoDraft]
    /\ UNCHANGED <<drafts, size, age, found, opened, begun, due>>

\* What the calls of removeOldestDraftLocked leave: the newest of them.
Newest(S, n) == {d \in S : Cardinality({e \in S : e > d}) < n}
RoomFor(n) == IF Cardinality(drafts) < n THEN drafts ELSE Newest(drafts, n - 1)

\* Slip: the draft is entered while its file is being written.
EnterEarly(c) ==
    /\ writes[c] # NoDraft
    /\ writes[c] \notin drafts
    /\ LET kept == RoomFor(MaxDrafts) IN
          /\ drafts' = kept \cup {writes[c]}
          /\ files' = files \ (drafts \ kept)
    /\ writes' = IF size[writes[c]] = Whole
                 THEN [writes EXCEPT ![c] = NoDraft] ELSE writes
    /\ UNCHANGED <<size, age, found, opened, begun, due>>

\* The draft is entered, and makes room for itself.
Enter(c) ==
    /\ writes[c] # NoDraft
    /\ size[writes[c]] = Whole
    /\ LET kept == RoomFor(MaxDrafts) IN
          /\ drafts' = kept \cup {writes[c]}
          /\ files' = files \ (drafts \ kept)
    /\ writes' = [writes EXCEPT ![c] = NoDraft]
    /\ UNCHANGED <<size, age, found, opened, begun, due>>

-----------------------------------------------------------------------------
(* ServeDraft and Publish, up to the file they read. *)

Find(r, d) ==
    /\ found[r] = NoDraft /\ opened[r] = NoDraft
    /\ d \in drafts
    /\ found' = [found EXCEPT ![r] = d]
    /\ UNCHANGED <<drafts, files, size, age, writes, opened, begun, due>>

\* Without the lock: the draft may have been removed, and is then not found.
Open(r) ==
    /\ found[r] # NoDraft
    /\ found' = [found EXCEPT ![r] = NoDraft]
    /\ opened' = [opened EXCEPT ![r] = IF found[r] \in files THEN found[r] ELSE NoDraft]
    /\ UNCHANGED <<drafts, files, size, age, writes, begun, due>>

\* An open file stays readable after its removal.
Done(r) ==
    /\ opened[r] # NoDraft
    /\ opened' = [opened EXCEPT ![r] = NoDraft]
    /\ UNCHANGED <<drafts, files, size, age, writes, found, begun, due>>

-----------------------------------------------------------------------------

Expired == {d \in drafts : age[d] > DraftTTL}

\* cleanupLoop goes round once in a unit of time.
Cleanup ==
    /\ due
    /\ due' = FALSE
    /\ drafts' = drafts \ Expired
    /\ files' = files \ Expired
    /\ UNCHANGED <<size, age, writes, found, opened, begun>>

\* Time passes, for the loop as well.
Tick ==
    /\ ~due
    /\ due' = TRUE
    /\ age' = [d \in IDs |-> IF d <= begun /\ age[d] <= DraftTTL
                             THEN age[d] + 1 ELSE age[d]]
    /\ UNCHANGED <<drafts, files, size, writes, found, opened, begun>>

\* The process stops and starts: NewService removes the directory.
Restart ==
    /\ drafts' = {} /\ files' = {}
    /\ writes' = [c \in Creators |-> NoDraft]
    /\ found' = [r \in Readers |-> NoDraft]
    /\ opened' = [r \in Readers |-> NoDraft]
    /\ UNCHANGED <<size, age, begun, due>>

Next ==
    \/ \E c \in Creators : Begin(c) \/ WritePiece(c) \/ WriteFails(c) \/ Enter(c)
    \/ \E r \in Readers : (\E d \in IDs : Find(r, d)) \/ Open(r) \/ Done(r)
    \/ Cleanup \/ Tick \/ Restart

Spec == Init /\ [][Next]_vars

\* cleanupLoop runs on its own goroutine, and time passes.
FairSpec == Spec /\ WF_vars(Tick) /\ WF_vars(Cleanup)

-----------------------------------------------------------------------------
(* Properties. *)

TypeOK ==
    /\ drafts \subseteq IDs /\ files \subseteq IDs
    /\ size \in [IDs -> 0..Whole]
    /\ age \in [IDs -> 0..DraftTTL + 1]
    /\ writes \in [Creators -> IDs \cup {NoDraft}]
    /\ found \in [Readers -> IDs \cup {NoDraft}]
    /\ opened \in [Readers -> IDs \cup {NoDraft}]
    /\ begun \in 0..MaxID
    /\ due \in BOOLEAN

\* The directory holds the files of the drafts and of those being written, and no
\* other, whatever fails, is evicted, expires or is cut short by a restart.
NoStrayFiles == files = (drafts \cup {writes[c] : c \in Creators}) \ {NoDraft}

\* Whoever gets at a draft's file gets all of it.
OpenedWhole == \A r \in Readers : opened[r] # NoDraft => size[opened[r]] = Whole

\* There are at most as many drafts as configured, however many are finished at
\* one time.
DraftsBounded == Cardinality(drafts) <= MaxDrafts

\* Every draft goes away, even one that took longer to write than a draft lives.
DraftsExpire == \A d \in IDs : (d \in drafts) ~> (d \notin drafts)

\* What the directory of drafts holds, and what is got out of it.
DraftsKept == TypeOK /\ NoStrayFiles /\ OpenedWhole /\ DraftsBounded

=============================================================================
