----------------------------- MODULE ClipRecorder -----------------------------
(***************************************************************************)
(* internal/clips/recorder.go: the rolling buffer of one stream.  The      *)
(* publisher's writers push packets into a channel that drops what does    *)
(* not fit, a new publisher pushes a reset the same way (session.go:82),   *)
(* and one goroutine turns the inputs into frames, keeps the best layer    *)
(* and trims the buffer.  A viewer's draft is a snapshot of the buffer, of *)
(* which a clip is cut (service.go:346).                                   *)
(*                                                                         *)
(* A packet stands for a whole frame: the reassembly is the RTP library's. *)
(* Its time on the buffer's line follows the sender's clock, which leaves  *)
(* it within a window of Drift around its arrival; the origin of the line  *)
(* is moved so that the window begins at the arrival.                      *)
(***************************************************************************)
EXTENDS ClipFrames

CONSTANTS
    Layers,         \* the video layers (rids)
    Priority,       \* VideoTrack.Priority of each: the lower, the better
    Codecs,         \* video codecs
    Unsupported,    \* the codec that clips do not support
    None,           \* no codec, no layer, no publisher: Go's zero value
    QueueSize,      \* recorderQueueSize
    BufferDuration, \* CLIP_BUFFER_DURATION
    Drift,          \* the width of the window, twice maxTimestampDrift
    MaxInputs,      \* bound: packets pushed, but for those that are late
    MaxPublishers,  \* bound: publishers, one after the other
    Sends           \* the codecs that each of them may choose

ASSUME PriorityIsFunction == Priority \in [Layers -> Nat]
ASSUME NoneIsNothing == None \notin Layers \cup Codecs \cup Nat
ASSUME UnsupportedIsCodec == Unsupported \in Codecs
ASSUME SendsAreCodecs == Sends \in [1..MaxPublishers -> SUBSET Codecs]
ASSUME BoundsAreNat == /\ QueueSize \in Nat \ {0} /\ BufferDuration \in Nat /\ Drift \in Nat
                       /\ MaxInputs \in Nat /\ MaxPublishers \in Nat

VARIABLES
    clock,      \* time, a step of which passes before each packet
    publisher,  \* the current publisher, a number
    codec,      \* what it sends
    late,       \* what a writer of the publisher before sends that still holds a packet
    input,      \* Recorder.input
    closed,     \* Recorder.closed
    running,    \* the goroutine has not returned
    video,      \* Recorder.video: the codec of the time line, None for nil
    videoRID,   \* Recorder.videoRID
    frames,     \* Recorder.frames
    videoCodec, \* Recorder.videoCodec
    config,     \* whose parameter sets are kept: h264SPS, h264PPS, av1SequenceHeader
    mixed       \* a reset was dropped or a late packet followed one

sending == <<clock, publisher, codec, late, closed>>
recording == <<video, videoRID, frames, videoCodec, config>>
vars == <<sending, input, running, recording, mixed>>

Input == [kind : {"video", "audio", "reset"}, layer : Layers \cup {None},
          codec : Codecs \cup {None}, keyframe : BOOLEAN, arrival : Nat, from : Nat]
Frame == [video : BOOLEAN, keyframe : BOOLEAN, pts : Nat, layer : Layers \cup {None},
          codec : Codecs \cup {None}, from : Nat]

Init ==
    /\ clock = 0 /\ publisher = 0 /\ codec = None /\ late = None
    /\ input = <<>> /\ closed = FALSE /\ running = TRUE
    /\ video = None /\ videoRID = None /\ frames = <<>> /\ videoCodec = None /\ config = None
    /\ mixed = FALSE

-----------------------------------------------------------------------------
(* The publisher's side: AddHost and the writers.                          *)

Push(i) == input' = IF Len(input) < QueueSize THEN Append(input, i) ELSE input

Packets(p, c) ==
    {[kind |-> "audio", layer |-> None, codec |-> None, keyframe |-> TRUE,
      arrival |-> clock', from |-> p]}
    \cup {[kind |-> "video", layer |-> l, codec |-> c, keyframe |-> k,
           arrival |-> clock', from |-> p] : l \in Layers, k \in BOOLEAN}

\* A new publisher: Reset; a writer of the old one may hold a packet.
Reset ==
    /\ ~closed /\ publisher < MaxPublishers
    /\ publisher' = publisher + 1
    /\ codec' \in Sends[publisher + 1]
    /\ UNCHANGED clock
    /\ late' \in {None, codec}
    /\ Push([kind |-> "reset", layer |-> None, codec |-> None, keyframe |-> FALSE,
             arrival |-> clock, from |-> publisher + 1])
    /\ mixed' = (mixed \/ Len(input) = QueueSize \/ late' # None)
    /\ UNCHANGED <<closed, running, recording>>

\* PushVideo and PushAudio.  The publisher is gone when the session closes.
PushPacket ==
    /\ ~closed /\ clock < MaxInputs /\ publisher > 0
    /\ clock' = clock + 1
    /\ \E i \in Packets(publisher, codec) : Push(i)
    /\ UNCHANGED <<publisher, codec, late, closed, running, recording, mixed>>

PushLate ==
    /\ late # None
    /\ UNCHANGED clock
    /\ \E i \in Packets(publisher - 1, late) : Push(i)
    /\ late' = None
    /\ UNCHANGED <<publisher, codec, closed, running, recording, mixed>>

\* The session has closed.
Close ==
    /\ ~closed
    /\ closed' = TRUE
    /\ UNCHANGED <<clock, publisher, codec, late, input, running, recording, mixed>>

-----------------------------------------------------------------------------
(* The goroutine.                                                          *)

\* newVideoTimeline: nil for a codec without depacketizer.
Timeline(c) == IF c = Unsupported THEN None ELSE c

\* Slip: the buffer begins anew with its last keyframe.
TrimToLastStart(fs, c) ==
    LET cutoff == fs[Len(fs)].pts - BufferDuration
        Starts == {i \in 1..Len(fs) : /\ fs[i].pts >= cutoff
                                      /\ c = None \/ IsVideoKeyframe(fs[i])}
    IN  IF fs[1].pts >= cutoff \/ Starts = {} THEN fs ELSE SubSeq(fs, LargestOf(Starts), Len(fs))

\* Slip: the buffer begins anew with any frame that is recent enough.
TrimAnywhere(fs, c) ==
    LET cutoff == fs[Len(fs)].pts - BufferDuration
        Starts == {i \in 1..Len(fs) : fs[i].pts >= cutoff}
    IN  IF fs[1].pts >= cutoff \/ Starts = {} THEN fs ELSE SubSeq(fs, SmallestOf(Starts), Len(fs))

TrimLocked(fs, c) ==
    LET cutoff == fs[Len(fs)].pts - BufferDuration
        Starts == {i \in 1..Len(fs) : /\ fs[i].pts >= cutoff
                                      /\ c = None \/ IsVideoKeyframe(fs[i])}
    IN  IF fs[1].pts >= cutoff \/ Starts = {} THEN fs ELSE SubSeq(fs, SmallestOf(Starts), Len(fs))

\* A video frame that would be the first must be a keyframe.
AddFrame(fs, f, c) ==
    IF f.video /\ fs = <<>> /\ ~f.keyframe THEN fs ELSE TrimLocked(Append(fs, f), c)

FrameOf(i, pts) == [video |-> i.kind = "video", keyframe |-> i.keyframe, pts |-> pts,
                    layer |-> i.layer, codec |-> i.codec, from |-> i.from]

PTS(i) == i.arrival..(i.arrival + Drift)

Taking(kind) == running /\ input # <<>> /\ Head(input).kind = kind /\ input' = Tail(input)

HandleReset ==
    /\ Taking("reset")
    /\ video' = None /\ videoRID' = None
    /\ frames' = <<>> /\ videoCodec' = None /\ config' = None
    /\ UNCHANGED <<sending, running, mixed>>

HandleAudio ==
    /\ Taking("audio")
    /\ \E pts \in PTS(Head(input)) :
          frames' = AddFrame(frames, FrameOf(Head(input), pts), videoCodec)
    /\ UNCHANGED <<sending, running, video, videoRID, videoCodec, config, mixed>>

\* What the packet's frame adds to a buffer fs: nothing without a time line.
Record(i, fs, oldConfig) ==
    /\ videoCodec' = i.codec
    /\ video' = Timeline(i.codec)
    /\ IF video' = None
       THEN frames' = fs /\ config' = oldConfig
       ELSE /\ \E pts \in PTS(i) : frames' = AddFrame(fs, FrameOf(i, pts), i.codec)
            /\ config' = IF i.keyframe THEN i.from ELSE oldConfig

\* The first packet, or another codec: the buffer is cleared if there was a time line.
HandleOtherCodec ==
    LET i == Head(input) IN
    /\ Taking("video")
    /\ video = None \/ i.codec # video
    /\ videoRID' = i.layer
    /\ IF video = None THEN Record(i, frames, config) ELSE Record(i, <<>>, None)
    /\ UNCHANGED <<sending, running, mixed>>

\* A better layer than the one recorded: the buffer starts anew with it.
HandleBetterLayer ==
    LET i == Head(input) IN
    /\ Taking("video")
    /\ video # None /\ i.codec = video
    /\ i.layer # videoRID /\ Priority[i.layer] < Priority[videoRID]
    /\ videoRID' = i.layer
    /\ Record(i, <<>>, None)
    /\ UNCHANGED <<sending, running, mixed>>

\* A layer that is not better is left out.
IgnoreLayer ==
    LET i == Head(input) IN
    /\ Taking("video")
    /\ video # None /\ i.codec = video
    /\ i.layer # videoRID /\ Priority[i.layer] >= Priority[videoRID]
    /\ UNCHANGED <<sending, running, recording, mixed>>

HandleSameLayer ==
    LET i == Head(input) IN
    /\ Taking("video")
    /\ video # None /\ i.codec = video /\ i.layer = videoRID
    /\ Record(i, frames, config)
    /\ UNCHANGED <<sending, running, videoRID, mixed>>

\* The select may see closed while there is input, or the other way round.
Stop ==
    /\ closed /\ running
    /\ running' = FALSE
    /\ UNCHANGED <<sending, input, recording, mixed>>

Next ==
    \/ Reset \/ PushPacket \/ PushLate \/ Close
    \/ HandleReset \/ HandleAudio \/ HandleOtherCodec \/ HandleBetterLayer
    \/ IgnoreLayer \/ HandleSameLayer \/ Stop

Spec == Init /\ [][Next]_vars

-----------------------------------------------------------------------------
(* What is cut of the buffer.                                              *)

\* Whether Snapshot returns the frames, and not an error.
CanSnapshot ==
    /\ videoCodec # Unsupported
    /\ frames # <<>>
    /\ videoCodec # None => \E i \in 1..Len(frames) : IsVideoKeyframe(frames[i])

-----------------------------------------------------------------------------
(* Type invariant.                                                         *)
TypeOK ==
    /\ clock \in 0..MaxInputs /\ publisher \in 0..MaxPublishers
    /\ codec \in Codecs \cup {None}
    /\ late \in Codecs \cup {None}
    /\ input \in Seq(Input) /\ Len(input) <= QueueSize
    /\ closed \in BOOLEAN /\ running \in BOOLEAN /\ mixed \in BOOLEAN
    /\ video \in (Codecs \ {Unsupported}) \cup {None}
    /\ videoRID \in Layers \cup {None}
    /\ frames \in Seq(Frame)
    /\ videoCodec \in Codecs \cup {None}
    /\ config = None \/ config \in Nat

(* The buffer holds the pictures of one layer in one codec, those that the *)
(* recorder says it records, or else a clip would need two decoders.       *)
OneLayerOneCodec ==
    \A i \in 1..Len(frames) : frames[i].video =>
        frames[i].codec = videoCodec /\ frames[i].codec = video /\ frames[i].layer = videoRID

(* A clip holds the frames of one publisher and is described by the        *)
(* parameter sets of that publisher, unless a reset found the channel full *)
(* or a packet of the publisher before came after the reset.               *)
OnePublisher ==
    ~mixed =>
        /\ \A i, j \in 1..Len(frames) : frames[i].from = frames[j].from
        /\ config # None => \A i \in 1..Len(frames) : frames[i].from = config

(* "Clips start at the keyframe at or just before the chosen start, so     *)
(* they always play from the first frame" (README.md:342).  A draft is the *)
(* buffer muxed, a clip is cut of the draft and muxed again.  The first    *)
(* block of a clip's file is a keyframe, and it is not later than the      *)
(* chosen start, wherever the clip is cut, if trimming has left a picture  *)
(* at the front of the buffer.  When audio is there, and let in pictures   *)
(* before the first keyframe (DraftsPlay), it is so of clips that do not   *)
(* end before this keyframe, and the start is kept to if it is not before. *)
ClipsPlay ==
    CanSnapshot /\ videoCodec # None =>
        LET draft == DraftFrames(frames)
            Keys  == {i \in 1..Len(draft) : IsVideoKeyframe(draft[i])}
            first == draft[SmallestOf(Keys)].pts
        IN  \A start \in 0..(clock + Drift) : \A end \in start..(clock + Drift) :
              LET clip == SelectFrames(draft, TRUE, start, end)
              IN  /\ frames[1].video \/ first <= end
                       => clip # <<>> /\ IsVideoKeyframe(Interleave(clip)[1])
                  /\ frames[1].video \/ first <= start
                       => clip[1].pts <= start

(* Trimming takes no keyframe that is within the duration of the buffer:   *)
(* while the same layer is recorded, what the viewer could start a clip at *)
(* a moment ago is still there, unless it is too old.                      *)
RecentStartsKept ==
    [][ frames' # <<>> /\ videoRID' = videoRID /\ video' = video =>
            \A i \in 1..Len(frames) :
                IsVideoKeyframe(frames[i]) /\ frames[i].pts >= frames'[Len(frames')].pts - BufferDuration
                    => \E j \in 1..Len(frames') : frames'[j] = frames[i] ]_vars

(* The buffer is no longer than it must be: when it begins with a frame    *)
(* that is too old, there is nothing in it to begin with instead.          *)
NoOlderThanNeeded ==
    frames # <<>> /\ video # None =>
        LET cutoff == frames[Len(frames)].pts - BufferDuration IN
        frames[1].pts < cutoff =>
            \A i \in 1..Len(frames) : IsVideoKeyframe(frames[i]) => frames[i].pts < cutoff

(* What the recorder keeps, and what it lets go.                           *)
BufferKept ==
    []TypeOK /\ []OneLayerOneCodec /\ []OnePublisher /\ []NoOlderThanNeeded
             /\ RecentStartsKept

-----------------------------------------------------------------------------
(* What the code says of itself, and does not do.                          *)

(* "The first video frame must be a keyframe" (mkv.go:112), which the       *)
(* recorder is to see to: "the buffer always starts at a keyframe"         *)
(* (recorder.go:306), "so every snapshot is decodable" (recorder.go:315).  *)
DraftsPlay ==
    CanSnapshot /\ videoCodec # None => IsVideoKeyframe(Interleave(frames)[1])

=============================================================================
