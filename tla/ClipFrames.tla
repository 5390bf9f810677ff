------------------------------ MODULE ClipFrames ------------------------------
(***************************************************************************)
(* The order of frames in a clip: internal/clips/mkv.go merges the two     *)
(* tracks into one line of blocks and groups them into clusters, and       *)
(* service.go cuts a clip out of a draft.  A frame is a record that has at *)
(* least the fields video, keyframe and pts, in milliseconds.              *)
(***************************************************************************)
EXTENDS Integers, Sequences

IsVideoKeyframe(f) == f.video /\ f.keyframe

SmallestOf(S) == CHOOSE i \in S : \A j \in S : i <= j

LargestOf(S) == CHOOSE i \in S : \A j \in S : j <= i

\* What is at the places S of a sequence, in its order.
Chosen(s, S) ==
    LET upTo[n \in 0..Len(s)] ==
            IF n = 0 THEN <<>>
            ELSE IF n \in S THEN Append(upTo[n - 1], s[n]) ELSE upTo[n - 1]
    IN  upTo[Len(s)]

Video(frames) == Chosen(frames, {i \in 1..Len(frames) : frames[i].video})
Audio(frames) == Chosen(frames, {i \in 1..Len(frames) : ~frames[i].video})

\* Frames of audio before the first that is not earlier than start are left out.
AudioFrom(audio, start) ==
    LET Kept == {i \in 1..Len(audio) : audio[i].pts >= start}
    IN  IF Kept = {} THEN <<>> ELSE SubSeq(audio, SmallestOf(Kept), Len(audio))

\* Block k is added to those before it, of which some are pictures: of two frames at one
\* time the picture comes first.
NextBlock(before, k, video, audio) ==
    LET v == before.pictures + 1
        a == k - before.pictures
    IN  IF v <= Len(video) /\ (a > Len(audio) \/ video[v].pts <= audio[a].pts)
        THEN [blocks |-> Append(before.blocks, video[v]), pictures |-> v]
        ELSE [blocks |-> Append(before.blocks, audio[a]), pictures |-> before.pictures]

\* Both tracks by time, each in its own order.
Merge(video, audio) ==
    LET merged[k \in 0..Len(video) + Len(audio)] ==
            IF k = 0 THEN [blocks |-> <<>>, pictures |-> 0]
            ELSE NextBlock(merged[k - 1], k, video, audio)
    IN  merged[Len(video) + Len(audio)].blocks

\* The blocks of a file, their times counted from the first frame of the video.
Interleave(frames) ==
    LET video == Video(frames)
        all == Audio(frames)
        start == IF video # <<>> THEN video[1].pts ELSE IF all # <<>> THEN all[1].pts ELSE 0
        audio == IF video # <<>> THEN AudioFrom(all, start) ELSE all
        merged == Merge(video, audio)
    IN  [i \in 1..Len(merged) |-> [merged[i] EXCEPT !.pts = @ - start]]

\* A draft's frames are the blocks of its file, counted from the first of them.
DraftFrames(frames) ==
    LET blocks == Interleave(frames)
    IN  [i \in 1..Len(blocks) |-> [blocks[i] EXCEPT !.pts = @ - blocks[1].pts]]

\* Slip: any frame may be the start, a keyframe or not.
ClipStartAnywhere(fs, hasVideo, start) ==
    LET Before == {i \in 1..Len(fs) : fs[i].pts <= start}
    IN  IF fs = <<>> THEN 0 ELSE IF Before = {} THEN 1 ELSE LargestOf(Before)

\* The frame that selectFrames begins with: the last start that is not beyond the
\* chosen one and comes before all that are, or else the first; 0 without any.
ClipStart(fs, hasVideo, start) ==
    LET Starts == {i \in 1..Len(fs) : ~hasVideo \/ IsVideoKeyframe(fs[i])}
        Beyond == {i \in Starts : fs[i].pts > start}
        Before == {i \in Starts : \A j \in Beyond : i < j}
    IN  IF Starts = {} THEN 0 ELSE IF Before = {} THEN SmallestOf(Starts) ELSE LargestOf(Before)

SelectFrames(fs, hasVideo, start, end) ==
    LET first == ClipStart(fs, hasVideo, start)
        Wanted == {i \in first..Len(fs) : fs[i].pts <= end /\
                                          (fs[i].video \/ fs[first].pts <= fs[i].pts)}
    IN  IF first = 0 THEN <<>> ELSE Chosen(fs, Wanted)

-----------------------------------------------------------------------------
(* Clusters.                                                               *)

\* Slip: a block that is long before its cluster is not looked for.
ClusterOfLater(blocks, max) ==
    LET begins[i \in 1..Len(blocks)] ==
            IF i = 1 \/ IsVideoKeyframe(blocks[i]) THEN i
            ELSE IF blocks[i].pts - blocks[begins[i - 1]].pts > max THEN i ELSE begins[i - 1]
    IN  begins

\* The blocks that begin a cluster: begins[i] is where the cluster of block i does.
\* max is maxClusterDuration.
ClusterOf(blocks, max) ==
    LET begins[i \in 1..Len(blocks)] ==
            IF i = 1 \/ IsVideoKeyframe(blocks[i]) THEN i
            ELSE LET from == begins[i - 1]
                     d == blocks[i].pts - blocks[from].pts
                 IN  IF d > max \/ d < -max THEN i ELSE from
    IN  begins
=============================================================================
