------------------------------- MODULE MkvWriter -------------------------------
(***************************************************************************)
(* internal/clips/mkv.go: a Matroska file is planned as a whole (its       *)
(* clusters, their sizes and positions, the seek head and the cues that    *)
(* point at them) and then written block by block; for a draft the offset  *)
(* of every frame is noted, where Publish reads it again.  Bytes are       *)
(* counted, not looked at.                                                 *)
(***************************************************************************)
EXTENDS ClipFrames

CONSTANTS
    Frames,      \* the frames to choose from: video, keyframe, pts, size
    MaxFrames,   \* bound: frames of a file
    MaxDuration, \* maxClusterDuration
    InfoSize,    \* bytes of the Info element: dates, title, duration
    TracksSize   \* bytes of the Tracks element

VARIABLES
    given,    \* what newMuxer gets
    phase,    \* "adding", "planned", "clusters", "blocks", "done" or "failed"
    blocks,   \* the frames in the order of the file
    clusters, \* of the first block of each cluster: what is planned for it
    segment,  \* the planned size of the segment
    next,     \* the block to write
    written,  \* bytes written
    offsets   \* the offset of each block's data, as given to onFrame

vars == <<given, phase, blocks, clusters, segment, next, written, offsets>>

Init ==
    /\ given = <<>> /\ phase = "adding"
    /\ blocks = <<>> /\ clusters = <<>> /\ segment = 0
    /\ next = 1 /\ written = 0 /\ offsets = <<>>

-----------------------------------------------------------------------------
(* Sizes of elements.                                                      *)

\* ebmlSize: as few bytes as hold the size, the value of all ones being reserved.
SizeLength(n) ==
    CHOOSE l \in 1..8 : (l = 8 \/ n < 2^(7 * l) - 1) /\ \A k \in 1..(l - 1) : n >= 2^(7 * k) - 1

\* ebmlUint: as few bytes as hold the value.
UintLength(n) ==
    CHOOSE l \in 1..8 : (l = 8 \/ n < 2^(8 * l)) /\ \A k \in 1..(l - 1) : n >= 2^(8 * k)

ElementSize(idLength, payload) == idLength + SizeLength(payload) + payload

ClusterId == 4
LargeSize == 8
BlockHeader == 4

\* EBML header, and the segment's ID and size.
EbmlHeaderSize == ElementSize(4, 4 * ElementSize(2, 1) + ElementSize(2, 8) + 2 * ElementSize(2, 1))
SegmentStart == EbmlHeaderSize + ClusterId + LargeSize

\* Three entries of an ID of four bytes and a position of eight.
SeekHeadSize == ElementSize(4, 3 * ElementSize(2, ElementSize(2, 4) + ElementSize(2, 8)))

\* A cue holds the time, the track and the cluster's position, the last in eight bytes.
CueSize(time) ==
    ElementSize(1, ElementSize(1, UintLength(time)) + ElementSize(1, ElementSize(1, 1) + ElementSize(1, 8)))

TotalOf(f, S) ==
    LET upTo[n \in 0..MaxFrames] ==
            IF n = 0 THEN 0 ELSE upTo[n - 1] + (IF n \in S THEN f[n] ELSE 0)
    IN  upTo[MaxFrames]

-----------------------------------------------------------------------------
(* newMuxer.                                                               *)

\* A video's first frame must be a keyframe (mkv.go:112), and the time of a cluster
\* is unsigned: no picture is earlier than the first.
Plannable(fs) ==
    LET video == Video(fs) IN
    /\ fs # <<>>
    /\ video # <<>> => IsVideoKeyframe(video[1])
    /\ \A i \in 1..Len(video) : video[1].pts <= video[i].pts
    /\ video = <<>> => \A i \in 1..Len(fs) : fs[1].pts <= fs[i].pts

AddFrame ==
    /\ phase = "adding" /\ Len(given) < MaxFrames
    /\ \E f \in Frames : given' = Append(given, f)
    /\ UNCHANGED <<phase, blocks, clusters, segment, next, written, offsets>>

\* The blocks of the cluster that begins at b.
BlocksOf(bs, begins, b) == {i \in 1..Len(bs) : begins[i] = b}

\* A cluster's time stamp, and its blocks with their headers.
PayloadSize(bs, begins, b) ==
    ElementSize(1, UintLength(bs[b].pts))
    + TotalOf([i \in 1..Len(bs) |-> ElementSize(1, BlockHeader + bs[i].size)], BlocksOf(bs, begins, b))

ClusterSize(payload) == ClusterId + LargeSize + payload

\* A cue points at a cluster that begins with a keyframe, or at each if there is no video.
IsCue(bs, hasVideo, b) == IsVideoKeyframe(bs[b]) \/ ~hasVideo

PlanOf(bs, hasVideo) ==
    LET begins == ClusterOf(bs, MaxDuration)
        Starts == {b \in 1..Len(bs) : begins[b] = b}
        payload == [b \in Starts |-> PayloadSize(bs, begins, b)]
        cues == TotalOf([b \in Starts |-> CueSize(bs[b].pts)], {b \in Starts : IsCue(bs, hasVideo, b)})
        first == SeekHeadSize + InfoSize + TracksSize + ElementSize(4, cues)
        sizes == [b \in Starts |-> ClusterSize(payload[b])]
        Before(b) == {c \in Starts : c < b}
    IN  [clusters |-> [b \in Starts |-> [position |-> first + TotalOf(sizes, Before(b)),
                                         payload |-> payload[b],
                                         cue |-> IsCue(bs, hasVideo, b)]],
         segment |-> first + TotalOf(sizes, Starts)]

Plan ==
    LET bs == Interleave(given)
        plan == PlanOf(bs, \E i \in 1..Len(given) : given[i].video)
    IN  /\ phase = "adding" /\ Plannable(given)
        /\ blocks' = bs
        /\ clusters' = plan.clusters
        /\ segment' = plan.segment
        /\ phase' = "planned"
        /\ UNCHANGED <<given, next, written, offsets>>

-----------------------------------------------------------------------------
(* WriteTo.                                                                *)

Cues == {b \in DOMAIN clusters : clusters[b].cue}

HeaderSize ==
    SegmentStart + SeekHeadSize + InfoSize + TracksSize
    + ElementSize(4, TotalOf([b \in DOMAIN clusters |-> CueSize(blocks[b].pts)], Cues))

WriteHeader ==
    /\ phase = "planned"
    /\ written' = HeaderSize
    /\ phase' = "clusters"
    /\ UNCHANGED <<given, blocks, clusters, segment, next, offsets>>

WriteCluster ==
    /\ phase = "clusters" /\ next <= Len(blocks)
    /\ written' = written + ClusterId + LargeSize + ElementSize(1, UintLength(blocks[next].pts))
    /\ phase' = "blocks"
    /\ UNCHANGED <<given, blocks, clusters, segment, next, offsets>>

\* The block's header, then its data; onFrame is called between the two.
WriteBlock ==
    LET size == blocks[next].size
        header == 1 + SizeLength(BlockHeader + size) + BlockHeader
    IN  /\ phase = "blocks" /\ next <= Len(blocks)
        /\ offsets' = Append(offsets, written + header)
        /\ written' = written + header + size
        /\ next' = next + 1
        /\ phase' = IF next + 1 > Len(blocks) \/ next + 1 \in DOMAIN clusters
                    THEN "clusters" ELSE "blocks"
        /\ UNCHANGED <<given, blocks, clusters, segment>>

\* The draft is gone, or it is shorter than it was, or the file cannot be written.
Fail ==
    /\ phase \in {"planned", "clusters", "blocks"}
    /\ phase' = "failed"
    /\ UNCHANGED <<given, blocks, clusters, segment, next, written, offsets>>

Flush ==
    /\ phase = "clusters" /\ next > Len(blocks)
    /\ phase' = "done"
    /\ UNCHANGED <<given, blocks, clusters, segment, next, written, offsets>>

Next == AddFrame \/ Plan \/ WriteHeader \/ WriteCluster \/ WriteBlock \/ Fail \/ Flush

Spec == Init /\ [][Next]_vars

-----------------------------------------------------------------------------
(* Type invariant.                                                         *)
TypeOK ==
    /\ given \in Seq(Frames) /\ Len(given) <= MaxFrames
    /\ phase \in {"adding", "planned", "clusters", "blocks", "done", "failed"}
    /\ blocks \in Seq([video : BOOLEAN, keyframe : BOOLEAN, pts : Int, size : Nat])
    /\ DOMAIN clusters \subseteq 1..Len(blocks)
    /\ segment \in Nat /\ written \in Nat
    /\ next \in 1..(Len(blocks) + 1)
    /\ offsets \in Seq(Nat) /\ Len(offsets) = next - 1

(* What is written is what was planned: the size that is promised to the   *)
(* storage before the first byte, the size in the segment's header, and    *)
(* the position of each cluster, which cues point at.                      *)
WrittenAsPlanned ==
    /\ phase = "done" => written = SegmentStart + segment
    /\ phase = "clusters" /\ next <= Len(blocks) =>
         next \in DOMAIN clusters /\ written = SegmentStart + clusters[next].position

(* The time of a block within its cluster, an int16 of milliseconds, does  *)
(* not overflow, however far the clocks of the two tracks are apart.       *)
RelativeTimesFit ==
    \A i \in 1..Len(blocks) :
        LET begins == LargestOf({b \in DOMAIN clusters : b <= i})
            d == blocks[i].pts - blocks[begins].pts
        IN  d >= -MaxDuration /\ d <= MaxDuration

(* A player that seeks finds a picture: each cue's cluster begins with a   *)
(* keyframe, each keyframe begins a cluster, and the file begins with one. *)
CuesAtKeyframes ==
    (\E i \in 1..Len(blocks) : blocks[i].video) =>
        /\ IsVideoKeyframe(blocks[1])
        /\ Cues = {i \in 1..Len(blocks) : IsVideoKeyframe(blocks[i])}

(* Frames are written in the order they were recorded in, track by track;  *)
(* none of the video is lost, and of the audio only what precedes it.      *)
TrackOrderKept ==
    LET Shifted(s) == [i \in 1..Len(s) |-> [s[i] EXCEPT !.pts = @ - s[1].pts]]
        video == Video(given)
        audio == Audio(given)
        kept == Audio(blocks)
        lost == Len(audio) - Len(kept)
    IN  phase # "adding" =>
            /\ Shifted(Video(blocks)) = Shifted(video)
            /\ Shifted(kept) = Shifted(SubSeq(audio, lost + 1, Len(audio)))
            /\ lost > 0 => /\ video # <<>>
                           /\ \A i \in 1..lost : audio[i].pts < video[1].pts
                           /\ kept # <<>> => audio[lost + 1].pts >= video[1].pts

(* A draft's frames are read back where they were written: the pieces of   *)
(* the file that onFrame named neither overlap nor reach beyond its end.   *)
FramesReadBack ==
    \A i \in 1..Len(offsets) :
        offsets[i] + blocks[i].size <= (IF i < Len(offsets) THEN offsets[i + 1] - BlockHeader ELSE written)

(* What players, the storage and the next clip rely on in a file.           *)
FileRight ==
    TypeOK /\ WrittenAsPlanned /\ RelativeTimesFit /\ CuesAtKeyframes
           /\ TrackOrderKept /\ FramesReadBack

=============================================================================
