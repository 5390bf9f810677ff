-------------------------------- MODULE MCMedia --------------------------------
(***************************************************************************)
(* What happens to the packets of a stream, for TLC: their numbers on the  *)
(* way to viewers, the payloads that are looked into, the recorder (with   *)
(* two layers of which High is the better one) and the writer of a clip    *)
(* (with pictures and audio whose times and sizes need a byte or two).     *)
(* They share no state, since a snapshot is a copy; a behaviour is one of  *)
(* those `part` names.                                                     *)
(***************************************************************************)
EXTENDS ClipRecorder

CONSTANTS
    High, Low, H264, H265,                               \* of the recorder
    Times, FrameSizes, MaxFrames, MaxDuration,           \* of the writer
    InfoSize, TracksSize,
    Bytes, MaxLength, MaxZeros, MaxLEB, NoPicture,       \* of the payloads
    Writers, Watchers, Modulus, Numbers, NoNumber, MaxPackets    \* of their numbers

VARIABLES
    part,
    given, phase, blocks, clusters, segment, next, written, offsets,
    data, sps,
    lastRead, packets, shared, queued, number, out

MCPictures ==
    {p \in [high : BOOLEAN, chroma : 0..3, scaled : BOOLEAN, order : 0..2,
            frames : 0..1, width : {1, 3}, height : {1, 2}, crop : 0..1] :
        ~p.high => p.chroma = 1 /\ ~p.scaled}

MCPriority == [l \in Layers |-> IF l = High THEN 1 ELSE 2]

MCSends == <<{H264}, {H264, H265}>>

MCFrames ==
    {f \in [video : BOOLEAN, keyframe : BOOLEAN, pts : Times, size : FrameSizes] :
        ~f.video => f.keyframe /\ f.size = SmallestOf(FrameSizes)}

\* Packets bring numbers that two bytes hold, and nil is none of them.
ASSUME NumbersAssumption ==
    /\ Modulus \in Nat \ {0} /\ MaxPackets \in Nat
    /\ Numbers \subseteq 0..Modulus - 1
    /\ NoNumber \notin Numbers

\* Times are counted in milliseconds, sizes in bytes.
ASSUME WriterAssumption ==
    /\ MaxFrames \in Nat /\ MaxDuration \in Nat
    /\ InfoSize \in Nat /\ TracksSize \in Nat
    /\ Times \subseteq Int /\ FrameSizes \subseteq Nat

W == INSTANCE MkvWriter WITH Frames <- MCFrames

P == INSTANCE RtpPayloads WITH Pictures <- MCPictures
N == INSTANCE PacketNumbers WITH last <- lastRead

writing   == <<given, phase, blocks, clusters, segment, next, written, offsets>>
reading   == <<data, sps>>
numbering == <<lastRead, packets, shared, queued, number, out>>
all       == <<part, vars, writing, reading, numbering>>

MCInit ==
    /\ part \in {"recorder", "writer", "payloads", "numbers"}
    /\ Init /\ W!Init /\ P!Init /\ N!Init

MCNext ==
    /\ UNCHANGED part
    /\ \/ part = "recorder" /\ Next   /\ UNCHANGED <<writing, reading, numbering>>
       \/ part = "writer"   /\ W!Next /\ UNCHANGED <<vars, reading, numbering>>
       \/ part = "payloads" /\ P!Next /\ UNCHANGED <<vars, writing, numbering>>
       \/ part = "numbers"  /\ N!Next /\ UNCHANGED <<vars, writing, reading>>

MCSpec == MCInit /\ [][MCNext]_all

-----------------------------------------------------------------------------

(* A file that players, the storage and the next clip can use (MkvWriter).  *)
FileRight == part = "writer" => W!FileRight

(* What is found in packets and access units (RtpPayloads, Bitstreams).     *)
PayloadsRead == part = "payloads" => P!PayloadsRead

(* The numbers a viewer gets, and the packets it shares (PacketNumbers).    *)
NumbersKept == part = "numbers" => N!NumbersKept

=============================================================================
