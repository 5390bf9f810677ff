----------------------------- MODULE RtpPayloads -----------------------------
(***************************************************************************)
(* What the server reads from RTP payloads: whether a packet starts a      *)
(* frame that a viewer can start with (internal/webrtc/codecs/keyframe.go) *)
(* and the size of its picture (internal/clips/resolution.go, which the    *)
(* writer of a track asks about packets of keyframes only).                *)
(*                                                                         *)
(* Both read the same headers, each with code of its own.  The packets of  *)
(* the properties are what publishers make of frames by the RFCs.          *)
(***************************************************************************)
EXTENDS Bitstreams

At(s, o)       == s[o + 1]                          \* as Go counts
TwoBytes(s, o) == 256 * At(s, o) + At(s, o + 1)
From(s, o)     == SubSeq(s, o + 1, Len(s))
NoSize         == [width |-> 0, height |-> 0, ok |-> FALSE]

\* The offsets of aggregated units, each after its length of two bytes.
Aggregated(s, first) ==
    LET units[o \in 0..Len(s)] ==
            IF o + 2 >= Len(s) THEN <<>>
            ELSE LET next == o + 2 + TwoBytes(s, o) IN
                 <<o + 2>> \o (IF next > Len(s) THEN <<>> ELSE units[next])
    IN  IF first > Len(s) THEN <<>> ELSE units[first]

-----------------------------------------------------------------------------
(* codecs/keyframe.go. *)

IsH264KeyframeNALU(type) == type \in {5, 7}

IsH264Keyframe(s) ==
    /\ Len(s) >= 2
    /\ LET type == At(s, 0) % 32 IN
          CASE type = 24 -> \E i \in DOMAIN Aggregated(s, 1) :
                               IsH264KeyframeNALU(At(s, Aggregated(s, 1)[i]) % 32)
            [] type = 28 -> BitAt(At(s, 1), 7) = 1 /\ IsH264KeyframeNALU(At(s, 1) % 32)
            [] OTHER -> IsH264KeyframeNALU(type)

IsH265KeyframeNALU(type) == type = 32 \/ type \in 16..21

IsH265Keyframe(s) ==
    /\ Len(s) >= 3
    /\ LET type(o) == (At(s, o) \div 2) % 64 IN
          CASE type(0) = 48 -> \E i \in DOMAIN Aggregated(s, 2) :
                                  IsH265KeyframeNALU(type(Aggregated(s, 2)[i]))
            [] type(0) = 49 -> BitAt(At(s, 2), 7) = 1 /\ IsH265KeyframeNALU(At(s, 2) % 64)
            [] OTHER -> IsH265KeyframeNALU(type(0))

IsAV1Keyframe(s) == s # <<>> /\ BitAt(At(s, 0), 3) = 1
IsVP9Keyframe(s) == s # <<>> /\ BitAt(At(s, 0), 6) = 0 /\ BitAt(At(s, 0), 3) = 1

\* S is set and the partition is the first.
StartsVP8(s) == s # <<>> /\ BitAt(At(s, 0), 4) = 1 /\ At(s, 0) % 16 = 0

\* Where the VP8 payload header is; past the end when the descriptor is cut short.
VP8Offset(s) ==
    LET extension == At(s, 1)
        id == IF BitAt(extension, 7) = 0 THEN 0
              ELSE IF Len(s) <= 2 THEN Len(s)
              ELSE IF BitAt(At(s, 2), 7) = 1 THEN 2 ELSE 1
    IN  IF BitAt(At(s, 0), 7) = 0 THEN 1
        ELSE IF Len(s) <= 1 THEN Len(s)
        ELSE 2 + id + BitAt(extension, 6)
             + (IF BitAt(extension, 5) = 1 \/ BitAt(extension, 4) = 1 THEN 1 ELSE 0)

IsVP8Keyframe(s) ==
    /\ StartsVP8(s)
    /\ VP8Offset(s) < Len(s)
    /\ BitAt(At(s, VP8Offset(s)), 0) = 0

-----------------------------------------------------------------------------
(* clips/resolution.go; nil is the empty sequence. *)

H264SPSFromRTP(s) ==
    LET unit == Aggregated(s, 1)
        size(i) == TwoBytes(s, unit[i] - 2)
        first == SelectInSeq(unit, LAMBDA o : At(s, o) % 32 = 7
                                              \/ o + TwoBytes(s, o - 2) > Len(s))
    IN  IF Len(s) < 2 THEN <<>>
        ELSE IF At(s, 0) % 32 = 7 THEN s
        ELSE IF At(s, 0) % 32 # 24 \/ first = 0 THEN <<>>
        ELSE IF unit[first] + size(first) > Len(s) THEN <<>>
        ELSE SubSeq(s, unit[first] + 1, unit[first] + size(first))

\* What a LEB128 length says of what follows it.
Sized(s) ==
    LET size == ReadLEB128(s) IN
    IF size.n = 0 \/ size.n + size.value > Len(s) THEN <<>>
    ELSE SubSeq(s, size.n + 1, size.n + size.value)

\* The aggregation header tells how many elements there are; one has no length.
AV1SequenceHeaderFromRTP(s) ==
    LET element == IF (At(s, 0) \div 16) % 4 = 1 THEN From(s, 1) ELSE Sized(From(s, 1))
        payload == From(element, IF BitAt(At(element, 0), 2) = 1 THEN 2 ELSE 1)
    IN  IF Len(s) < 3 THEN <<>>
        ELSE IF BitAt(At(s, 0), 3) = 0 THEN <<>>
        ELSE IF Len(element) < 2 THEN <<>>
        ELSE IF OBUType(At(element, 0)) # 1 THEN <<>>
        ELSE IF BitAt(At(element, 0), 1) = 1 THEN Sized(payload) ELSE payload

\* The bytes of the descriptor's optional fields.
Skipped(s) ==
    BitAt(At(s, 1), 6) + (IF (At(s, 1) \div 16) % 4 # 0 THEN 1 ELSE 0)
    + (IF BitAt(At(s, 1), 7) = 1 THEN 1 + BitAt(At(s, 2), 7) ELSE 0)

VP8PayloadFromRTP(s) ==
    CASE ~StartsVP8(s)         -> <<>>
      [] BitAt(At(s, 0), 7) = 0 -> From(s, 1)
      [] Len(s) < 2 \/ (Len(s) = 2 /\ BitAt(At(s, 1), 7) = 1) -> <<>>
      [] OTHER                 -> From(s, 2 + Skipped(s))

VP8FrameIsKeyframe(f) == f # <<>> /\ BitAt(At(f, 0), 0) = 0

VP8Dimensions(f) ==
    IF ~VP8FrameIsKeyframe(f) \/ Len(f) < 10 THEN NoSize
    ELSE IF SubSeq(f, 4, 6) # <<157, 1, 42>> THEN NoSize
    ELSE [width |-> (At(f, 6) + 256 * At(f, 7)) % 16384,
          height |-> (At(f, 8) + 256 * At(f, 9)) % 16384, ok |-> TRUE]

VP9Layers(flags) == IF BitAt(flags, 5) = 0 THEN 0 ELSE 2 - BitAt(flags, 4)

VP9ResolutionFromRTP(s) ==
    LET flags == At(s, 0)
        id    == IF BitAt(flags, 7) = 0 THEN 0 ELSE 1 + BitAt(At(s, 1), 7)
        layer == 1 + id + VP9Layers(flags)
        \* One to three references, of which all but the last say that more follow.
        last  == SelectInSubSeq(s, layer + 1, Len(s), LAMBDA b : b % 2 = 0)
        sizes == IF BitAt(flags, 6) = 0 \/ BitAt(flags, 4) = 0 THEN layer
                 ELSE IF last = 0 THEN Len(s) ELSE last
    IN  IF s = <<>> THEN NoSize
        ELSE IF BitAt(flags, 1) = 0 \/ (BitAt(flags, 7) = 1 /\ Len(s) < 2) THEN NoSize
        ELSE IF sizes >= Len(s) THEN NoSize
        ELSE IF BitAt(At(s, sizes), 4) = 0 \/ sizes + 5 > Len(s) THEN NoSize
        ELSE [width |-> TwoBytes(s, sizes + 1), height |-> TwoBytes(s, sizes + 3),
              ok |-> TRUE]

\* Those of H264 are parsed; a size of zero is none.
H264ResolutionFromRTP(s) ==
    LET info == ParseH264SPS(H264SPSFromRTP(s)) IN
    IF H264SPSFromRTP(s) # <<>> /\ info.ok /\ info.width > 0 THEN info ELSE NoSize

VP8ResolutionFromRTP(s) ==
    LET size == VP8Dimensions(VP8PayloadFromRTP(s)) IN
    IF size.width > 0 THEN size ELSE NoSize

-----------------------------------------------------------------------------
(* What publishers send. *)

TwoByteSize(u)   == <<Len(u) \div 256, Len(u) % 256>>
STAPA(u1, u2)    == <<24>> \o TwoByteSize(u1) \o u1 \o TwoByteSize(u2) \o u2
AP(u1, u2)       == <<96, 1>> \o TwoByteSize(u1) \o u1 \o TwoByteSize(u2) \o u2
H265Unit(t, s)   == <<2 * t, 1>> \o s \o <<128>>

\* A frame in two packets: of the first unit, and of its rest.
FUA(u)     == <<<<28, 128 + NALUType(u)>> \o From(u, 1), <<28, 64 + NALUType(u)>>>>
FU(t, s)   == <<<<98, 1, 128 + t>> \o s, <<98, 1, 64 + t>>>>

AV1Packet(elements, extended, sized, s) ==
    LET element == <<8 + (IF extended THEN 4 ELSE 0) + (IF sized THEN 2 ELSE 0)>>
                   \o (IF extended THEN <<0>> ELSE <<>>)
                   \o (IF sized THEN LEB128(Len(s)) ELSE <<>>) \o s
    IN  <<8 + 16 * elements>>
        \o (IF elements = 1 THEN element
            ELSE LEB128(Len(element)) \o element \o <<1, 18>>)

\* The fields of a VP8 descriptor: picture ID of 0, 1 or 2 bytes, TL0PICIDX, T and K.
VP8Descriptor(d) ==
    <<144, (IF d.id > 0 THEN 128 ELSE 0) + 64 * d.tl0 + 32 * d.tid + 16 * d.key>>
    \o (CASE d.id = 0 -> <<>> [] d.id = 1 -> <<5>> [] d.id = 2 -> <<129, 5>>)
    \o (IF d.tl0 = 1 THEN <<7>> ELSE <<>>)
    \o (IF d.tid + d.key > 0 THEN <<33>> ELSE <<>>)

VP8Keyframe == <<16, 0, 0, 157, 1, 42, 64, 65, 240, 0>>     \* 320 x 240, scaled

\* The fields of a VP9 descriptor of a keyframe, and a structure of one size.
VP9Packet(d) ==
    <<(IF d.id > 0 THEN 128 ELSE 0) + 32 * d.layers + 16 * d.flexible + 10>>
    \o (CASE d.id = 0 -> <<>> [] d.id = 1 -> <<5>> [] d.id = 2 -> <<129, 5>>)
    \o (IF d.layers = 1 THEN (IF d.flexible = 1 THEN <<0>> ELSE <<0, 9>>) ELSE <<>>)
    \o <<16, 1, 64, 0, 240>>

-----------------------------------------------------------------------------
(* A packet counts as the start of a keyframe exactly if it starts a unit    *)
(* from which a decoder can start, alone, aggregated or as the first         *)
(* fragment: a viewer that waits does not wait longer than it must, and is   *)
(* not sent what its decoder cannot use.                                     *)
KeyframeStartSeen ==
    \A i \in Cuts :
        /\ \A t1, t2 \in {1, 5, 7, 8} :
              LET first == NALU(t1, Before(i))  second == NALU(t2, After(i)) IN
              /\ IsH264Keyframe(STAPA(first, second)) = ({t1, t2} \cap {5, 7} # {})
              /\ IsH264Keyframe(first) = (t1 \in {5, 7})
              /\ IsH264Keyframe(FUA(first)[1]) = (t1 \in {5, 7})
              /\ ~IsH264Keyframe(FUA(first)[2])
        /\ \A t1, t2 \in {1, 19, 21, 32, 34} :
              LET first  == H265Unit(t1, Before(i))
                  second == H265Unit(t2, After(i))
              IN  /\ IsH265Keyframe(AP(first, second))
                        = ({t1, t2} \cap {19, 21, 32} # {})
                  /\ IsH265Keyframe(first) = (t1 \in {19, 21, 32})
                  /\ IsH265Keyframe(FU(t1, data)[1]) = (t1 \in {19, 21, 32})
                  /\ ~IsH265Keyframe(FU(t1, data)[2])

(* The two readings of the VP8 descriptor, one a copy of the other, agree on *)
(* every payload: a packet that is a keyframe for viewers is one for the     *)
(* size, and the other way round.                                            *)
OneVP8Descriptor ==
    \A first \in {16, 18, 128, 144} :
        LET payload == <<first>> \o data IN
        IsVP8Keyframe(payload) = VP8FrameIsKeyframe(VP8PayloadFromRTP(payload))

(* The size is found behind every form of header in which a publisher may    *)
(* send it, in a packet that passes for the start of a keyframe: the writer  *)
(* of the track looks at no other.                                           *)
SizeFoundInKeyframes ==
    /\ \A i \in Cuts, elements \in 0..2, extended, sized \in BOOLEAN :
          LET packet == AV1Packet(elements, extended, sized, <<10>> \o Before(i)) IN
          /\ IsAV1Keyframe(packet)
          /\ AV1SequenceHeaderFromRTP(packet) = <<10>> \o Before(i)
    /\ \A d \in [id : 0..2, tl0 : 0..1, tid : 0..1, key : 0..1] :
          LET packet == VP8Descriptor(d) \o VP8Keyframe \o data IN
          /\ IsVP8Keyframe(packet)
          /\ VP8ResolutionFromRTP(packet) = [width |-> 320, height |-> 240, ok |-> TRUE]
    /\ \A d \in [id : 0..2, layers : 0..1, flexible : 0..1] :
          LET packet == VP9Packet(d) \o data IN
          /\ IsVP9Keyframe(packet)
          /\ VP9ResolutionFromRTP(packet) = [width |-> 320, height |-> 240, ok |-> TRUE]
    /\ sps # NoPicture =>
          \A packet \in {SPSUnit(sps), STAPA(NALU(9, <<>>), SPSUnit(sps)),
                         STAPA(SPSUnit(sps), NALU(8, <<>>))} :
              /\ IsH264Keyframe(packet)
              /\ H264ResolutionFromRTP(packet) = ParseH264SPS(SPSUnit(sps))

(* What a program that looks into packets and access units finds in them:    *)
(* the properties above, and those of Bitstreams.                            *)
PayloadsRead ==
    /\ TypeOK /\ UnitsKept /\ EscapesRemoved /\ NumbersRead /\ SizeRead /\ OBUsKept
    /\ KeyframeStartSeen /\ OneVP8Descriptor /\ SizeFoundInKeyframes

=============================================================================
