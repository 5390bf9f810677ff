------------------------------- MODULE ClipStore -------------------------------
(***************************************************************************)
(* internal/clips/service.go and storage.go: the published clips of one    *)
(* stream.  A clip is two objects, the video and its metadata, saved and   *)
(* deleted one after the other; lists are built from what is stored, one   *)
(* object at a time, and cached, and a change takes the cache away.  The   *)
(* process may stop at any point and start again.                          *)
(***************************************************************************)
EXTENDS Naturals, FiniteSets

CONSTANTS
    Clips,      \* the IDs of clips, a set of numbers: an ID is a time
    Deleters,   \* goroutines of DELETE /api/clips/<streamKey>/<id>
    Listers,    \* goroutines of GET /api/clips?key=<streamKey>
    MaxListed,  \* maxListedClips
    NoList      \* the absence of an entry of listCache

VARIABLES
    onS3,       \* Setup: S3 storage, or else a local directory
    stored,     \* the objects in the storage
    partial,    \* the objects of which there is a temporary file
    publisher,  \* publisher[c]: where the Publish that makes clip c is
    deleter,    \* deleter[d]: where Delete is, and what it returns
    lister,     \* lister[l]: where List is, the keys it has to read, its result
    cache,      \* listCache[streamKey], while it is fresh
    asked,      \* the clips that somebody has asked to delete
    gone,       \* the clips whose Delete has succeeded
    unsure,     \* the clips whose metadata S3 has stored and Save has failed
    behind,     \* the listers whose keys are older than the last invalidation, or
                \* who could not read a clip that was stored
    tainted     \* the cache was stored by a lister that was behind

vars == <<onS3, stored, partial, publisher, deleter, lister, cache, asked, gone,
          unsure, behind, tainted>>

Video(c) == <<c, ".mkv">>
Metadata(c) == <<c, ".json">>
Objects == Clips \X {".mkv", ".json"}

Stages == {"new", "video", "metadata", "saved", "published", "failed"}
Idle == [at |-> "idle", clip |-> 0, ok |-> TRUE]
NotListing == [at |-> "idle", toRead |-> {}, clips |-> {}]

Init ==
    /\ onS3 \in BOOLEAN
    /\ stored = {}
    /\ partial = {}
    /\ publisher = [c \in Clips |-> "new"]
    /\ deleter = [d \in Deleters |-> Idle]
    /\ lister = [l \in Listers |-> NotListing]
    /\ cache = NoList
    /\ asked = {}
    /\ gone = {}
    /\ unsure = {}
    /\ behind = {}
    /\ tainted = FALSE

-----------------------------------------------------------------------------
(* Publish: the two calls of Save, and the cache. *)

\* IDs start with the time: a clip is newer than those begun before it.
Begun(c) == publisher[c] # "new"
Publish(c) ==
    /\ publisher[c] = "new"
    /\ \A b \in Clips : b < c => Begun(b)
    /\ publisher' = [publisher EXCEPT ![c] = "video"]
    /\ UNCHANGED <<onS3, stored, partial, deleter, lister, cache, asked, gone, unsure,
                   behind, tainted>>

Saving(c) == IF publisher[c] = "video" THEN Video(c) ELSE Metadata(c)

\* localStorage.Save: the temporary file, which only its rename makes a clip.
CreateTemp(c) ==
    /\ publisher[c] \in {"video", "metadata"}
    /\ ~onS3 /\ Saving(c) \notin partial
    /\ partial' = partial \cup {Saving(c)}
    /\ UNCHANGED <<onS3, stored, publisher, deleter, lister, cache, asked, gone, unsure,
                   behind, tainted>>

\* Slip: the metadata is saved before the video.
SaveMetadataFirst(c) ==
    /\ publisher[c] \in {"video", "metadata"}
    /\ onS3 \/ Saving(c) \in partial
    /\ stored' = stored \cup
          {IF publisher[c] = "video" THEN Metadata(c) ELSE Video(c)}
    /\ partial' = partial \ {Saving(c)}
    /\ publisher' = [publisher EXCEPT
          ![c] = IF @ = "video" THEN "metadata" ELSE "saved"]
    /\ UNCHANGED <<onS3, deleter, lister, cache, asked, gone, unsure, behind, tainted>>

\* Save succeeds: the rename, or PutObject.
Save(c) ==
    /\ publisher[c] \in {"video", "metadata"}
    /\ onS3 \/ Saving(c) \in partial
    /\ stored' = stored \cup {Saving(c)}
    /\ partial' = partial \ {Saving(c)}
    /\ publisher' = [publisher EXCEPT
          ![c] = IF @ = "video" THEN "metadata" ELSE "saved"]
    /\ UNCHANGED <<onS3, deleter, lister, cache, asked, gone, unsure, behind, tainted>>

\* Save fails, at any point and also because the draft cannot be read; S3 may have
\* stored the object all the same.  Publish returns and leaves what it has saved.
SaveFails(c) ==
    /\ publisher[c] \in {"video", "metadata"}
    /\ partial' = partial \ {Saving(c)}
    /\ publisher' = [publisher EXCEPT ![c] = "failed"]
    /\ \/ UNCHANGED <<stored, unsure>>
       \/ /\ onS3
          /\ stored' = stored \cup {Saving(c)}
          /\ unsure' = IF publisher[c] = "metadata" THEN unsure \cup {c} ELSE unsure
    /\ UNCHANGED <<onS3, deleter, lister, cache, asked, gone, behind, tainted>>

\* delete(s.listCache, streamKey): it cannot reach a list that is being built.
Invalidate ==
    /\ cache' = NoList
    /\ tainted' = FALSE
    /\ behind' = {l \in Listers : lister[l].at = "reading"}

ReturnClip(c) ==
    /\ publisher[c] = "saved"
    /\ publisher' = [publisher EXCEPT ![c] = "published"]
    /\ Invalidate
    /\ UNCHANGED <<onS3, stored, partial, deleter, lister, asked, gone, unsure>>

-----------------------------------------------------------------------------
(* List. *)

\* The metadata in the directory: its temporary files have another extension.
MetadataKeys == {c \in Clips : Metadata(c) \in stored}

\* The newest are listed.
First(S) == {c \in S : Cardinality({b \in S : b > c}) < MaxListed}

\* A fresh cache is returned at once; otherwise the keys are listed.
ListKeys(l) ==
    /\ lister[l].at = "idle"
    /\ cache = NoList
    /\ lister' = [lister EXCEPT ![l] =
          [at |-> "reading", toRead |-> First(MetadataKeys), clips |-> {}]]
    /\ behind' = behind \ {l}
    /\ UNCHANGED <<onS3, stored, partial, publisher, deleter, cache, asked, gone, unsure,
                   tainted>>

\* An object that cannot be read is passed over, whether it is gone or the storage
\* failed (on S3 also because the request that wanted the list was cancelled).
ReadMetadata(l, c) ==
    /\ lister[l].at = "reading"
    /\ c \in lister[l].toRead
    /\ \A b \in lister[l].toRead : b <= c
    /\ \E error \in BOOLEAN :
          LET read == ~error /\ Metadata(c) \in stored IN
          /\ lister' = [lister EXCEPT
                ![l].toRead = @ \ {c},
                ![l].clips = IF read THEN @ \cup {c} ELSE @]
          /\ behind' = IF error /\ Metadata(c) \in stored
                       THEN behind \cup {l} ELSE behind
    /\ UNCHANGED <<onS3, stored, partial, publisher, deleter, cache, asked, gone, unsure,
                   tainted>>

StoreList(l) ==
    /\ lister[l].at = "reading"
    /\ lister[l].toRead = {}
    /\ cache' = lister[l].clips
    /\ tainted' = (l \in behind)
    /\ lister' = [lister EXCEPT ![l] = NotListing]
    /\ behind' = behind \ {l}
    /\ UNCHANGED <<onS3, stored, partial, publisher, deleter, asked, gone, unsure>>

\* After listCacheDuration the entry is as good as none.
CacheExpires ==
    /\ cache # NoList
    /\ cache' = NoList
    /\ tainted' = FALSE
    /\ UNCHANGED <<onS3, stored, partial, publisher, deleter, lister, asked, gone, unsure,
                   behind>>

-----------------------------------------------------------------------------
(* Delete: the two calls of storage.Delete, and the cache. *)

\* An ID is known when the clip has been listed or returned.
Delete(d, c) ==
    /\ deleter[d].at = "idle"
    /\ Metadata(c) \in stored \/ publisher[c] = "published"
    /\ deleter' = [deleter EXCEPT ![d] = [at |-> "video", clip |-> c, ok |-> TRUE]]
    /\ asked' = asked \cup {c}
    /\ UNCHANGED <<onS3, stored, partial, publisher, lister, cache, gone, unsure, behind,
                   tainted>>

Deleting(d) ==
    IF deleter[d].at = "video" THEN Video(deleter[d].clip) ELSE Metadata(deleter[d].clip)

\* The first error is returned, and the metadata is deleted whatever the video's
\* was.  Only a local directory tells that there was nothing to delete.
DeleteObject(d) ==
    /\ deleter[d].at \in {"video", "metadata"}
    /\ \E error \in BOOLEAN :
          /\ stored' = IF error THEN stored ELSE stored \ {Deleting(d)}
          /\ deleter' = [deleter EXCEPT
                ![d].at = IF @ = "video" THEN "metadata" ELSE "cache",
                ![d].ok = @ /\ ~error /\ (onS3 \/ Deleting(d) \in stored)]
    /\ UNCHANGED <<onS3, partial, publisher, lister, cache, asked, gone, unsure, behind,
                   tainted>>

ReturnDeleted(d) ==
    /\ deleter[d].at = "cache"
    /\ deleter' = [deleter EXCEPT ![d] = Idle]
    /\ gone' = IF deleter[d].ok THEN gone \cup {deleter[d].clip} ELSE gone
    /\ Invalidate
    /\ UNCHANGED <<onS3, stored, partial, publisher, lister, asked, unsure>>

-----------------------------------------------------------------------------

\* The process stops and starts: storage and temporary files stay.
Restart ==
    /\ publisher' = [c \in Clips |->
          IF publisher[c] \in {"new", "published"} THEN publisher[c] ELSE "failed"]
    /\ deleter' = [d \in Deleters |-> Idle]
    /\ lister' = [l \in Listers |-> NotListing]
    /\ cache' = NoList
    /\ behind' = {} /\ tainted' = FALSE
    /\ UNCHANGED <<onS3, stored, partial, asked, gone, unsure>>

Next ==
    \/ \E c \in Clips : \/ Publish(c) \/ CreateTemp(c)
                        \/ Save(c) \/ SaveFails(c) \/ ReturnClip(c)
    \/ \E l \in Listers : \/ ListKeys(l) \/ StoreList(l)
                          \/ \E c \in Clips : ReadMetadata(l, c)
    \/ \E d \in Deleters : \/ \E c \in Clips : Delete(d, c)
                           \/ DeleteObject(d) \/ ReturnDeleted(d)
    \/ CacheExpires \/ Restart

Spec == Init /\ [][Next]_vars

-----------------------------------------------------------------------------
(* Properties. *)

TypeOK ==
    /\ onS3 \in BOOLEAN
    /\ stored \subseteq Objects /\ partial \subseteq Objects
    /\ publisher \in [Clips -> Stages]
    /\ \A d \in Deleters : deleter[d] = Idle \/ deleter[d] \in
          [at : {"video", "metadata", "cache"}, clip : Clips, ok : BOOLEAN]
    /\ \A l \in Listers : lister[l] \in
          [at : {"idle", "reading"}, toRead : SUBSET Clips, clips : SUBSET Clips]
    /\ cache = NoList \/ cache \in SUBSET Clips
    /\ asked \subseteq Clips /\ gone \subseteq Clips /\ unsure \subseteq Clips
    /\ behind \subseteq Listers
    /\ tainted \in BOOLEAN

Listed(c) ==
    Metadata(c) \in stored \/ (cache # NoList /\ c \in cache)

\* What can be listed can be watched, also after a restart between the two calls
\* of Save, unless somebody has asked to delete it.
ListedPlays == \A c \in Clips : Listed(c) /\ c \notin asked => Video(c) \in stored

\* A clip that was published stays whole until somebody asks to delete it.
PublishedStays ==
    \A c \in Clips : publisher[c] = "published" /\ c \notin asked =>
        {Video(c), Metadata(c)} \subseteq stored

\* A clip that Delete has removed does not come back, not even half of it.
DeletedForGood == \A c \in gone : {Video(c), Metadata(c)} \cap stored = {}

\* A change of what is stored that has not yet taken the cache away.
Changing ==
    \/ \E c \in Clips : publisher[c] = "saved"
    \/ \E d \in Deleters : deleter[d].at \in {"metadata", "cache"}

\* A list from the cache holds the newest clips that are stored, unless the List
\* that has cached it overlapped a change or failed to read a clip, or S3 has stored
\* metadata and said no.
CachedListRight ==
    cache # NoList /\ ~Changing /\ ~tainted /\ unsure = {} =>
        cache = First(MetadataKeys)

\* What Publish, Delete and List promise about a clip.
ClipsKept ==
    TypeOK /\ ListedPlays /\ PublishedStays /\ DeletedForGood /\ CachedListRight

=============================================================================
