------------------------------ MODULE Bitstreams ------------------------------
(***************************************************************************)
(* internal/clips/bitstream.go: what the recorder reads from encoded video *)
(* (NAL units, OBUs, Exp-Golomb numbers, the picture size in an H.264 SPS) *)
(* as functions of sequences of bytes or bits.  The properties read back   *)
(* what an encoder writes; the encoder's side follows the standards and is *)
(* not part of the program.                                                *)
(*                                                                         *)
(* `data` grows byte by byte and fills the units that are written, so that *)
(* every content up to MaxLength bytes is tried; `sps` is a parameter set. *)
(***************************************************************************)
EXTENDS Integers, SequencesExt

CONSTANTS
    Bytes,      \* what the contents of units are made of
    MaxLength,  \* bound: the length of contents
    MaxZeros,   \* of an Exp-Golomb code: 31 in ue and uvlc
    MaxLEB,     \* of a LEB128 number: 8 bytes in readLEB128
    Pictures,   \* parameter sets that are tried
    NoPicture

VARIABLES data, sps

vars == <<data, sps>>

Init == data = <<>> /\ sps = NoPicture

Receive(b) ==
    /\ sps = NoPicture
    /\ Len(data) < MaxLength
    /\ data' = Append(data, b)
    /\ UNCHANGED sps

Configure(p) ==
    /\ data = <<>> /\ sps = NoPicture
    /\ sps' = p
    /\ UNCHANGED data

Next == (\E b \in Bytes : Receive(b)) \/ (\E p \in Pictures : Configure(p))

-----------------------------------------------------------------------------
(* bitReader: a record of the bits, how many were read, whether there were  *)
(* enough, and the values that were got, the last one last.                 *)

BitAt(b, k) == (b \div 2^k) % 2
BitsOf(s)   == [i \in 1..8 * Len(s) |-> BitAt(s[(i - 1) \div 8 + 1], 7 - ((i - 1) % 8))]
Number(bits) == FoldLeft(LAMBDA n, b : 2 * n + b, 0, bits)

Reader(bits) == [bits |-> bits, pos |-> 0, ok |-> TRUE, got |-> <<>>]
Short(r)     == [r EXCEPT !.ok = FALSE, !.got = Append(@, 0)]
Got(r, i)    == r.got[Len(r.got) - i]      \* the last is Got(r, 0)

ReadBits(r, n) ==
    IF r.ok /\ r.pos + n <= Len(r.bits)
    THEN [r EXCEPT !.pos = @ + n,
                   !.got = Append(@, Number(SubSeq(r.bits, r.pos + 1, r.pos + n)))]
    ELSE Short(r)

\* As many zeros as bits follow the one.
WithSuffix(r, zeros, rest) ==
    IF zeros > MaxZeros \/ ~rest.ok THEN Short(r)
    ELSE [rest EXCEPT !.got = Append(r.got, Got(rest, 0) + 2^zeros - 1)]

FirstOne(r) == SelectInSubSeq(r.bits, r.pos + 1, Len(r.bits), LAMBDA b : b = 1)

ReadSuffix(r, one) ==
    IF ~r.ok \/ one = 0 THEN Short(r)
    ELSE WithSuffix(r, one - r.pos - 1,
                    ReadBits([r EXCEPT !.pos = one], one - r.pos - 1))

\* ue, and uvlc, which is the same.
ReadUE(r) == ReadSuffix(r, FirstOne(r))

Signed(u)  == IF u % 2 = 1 THEN (u + 1) \div 2 ELSE -(u \div 2)
WithSign(r) == [r EXCEPT !.got[Len(r.got)] = Signed(@)]
ReadSE(r)  == WithSign(ReadUE(r))

Reads(r, kinds) ==
    FoldLeft(LAMBDA s, k : IF k = "ue" THEN ReadUE(s)
                           ELSE IF k = "se" THEN ReadSE(s) ELSE ReadBits(s, 1),
             r, kinds)

\* readLEB128: the value and how many bytes it takes, none when it does not end.
ReadLEB128(s) ==
    LET n == SelectInSubSeq(s, 1, IF Len(s) < MaxLEB THEN Len(s) ELSE MaxLEB,
                            LAMBDA b : b < 128)
    IN  [n |-> n, value |-> FoldLeft(LAMBDA v, b : 128 * v + (b % 128), 0,
                                     Reverse(SubSeq(s, 1, n)))]

-----------------------------------------------------------------------------
(* H.264. *)

StartCodes(s) ==
    SetToSortSeq({i \in 1..Len(s) - 2 : SubSeq(s, i, i + 2) = <<0, 0, 1>>}, <)

\* Between the start codes at i and j; that at j may have four bytes.
UnitBetween(s, i, j) ==
    SubSeq(s, i + 3, IF j > i + 3 /\ s[j - 1] = 0 THEN j - 2 ELSE j - 1)

SplitAnnexB(s) ==
    LET code == StartCodes(s)
        n    == Len(code)
    IN  IF n = 0 THEN (IF s = <<>> THEN <<>> ELSE <<s>>)
        ELSE [k \in 1..n - 1 |-> UnitBetween(s, code[k], code[k + 1])]
             \o (IF code[n] + 3 <= Len(s) THEN <<SubSeq(s, code[n] + 3, Len(s))>>
                 ELSE <<>>)

\* Four bytes of length, the upper two of which are zero here.
AVCC(s) ==
    FoldLeft(LAMBDA out, u : out \o <<0, 0, Len(u) \div 256, Len(u) % 256>> \o u,
             <<>>, SplitAnnexB(s))

NALUType(u) == u[1] % 32
OfType(s, type) == SelectSeq(SplitAnnexB(s), LAMBDA u : u # <<>> /\ NALUType(u) = type)

IsH264KeyframeUnit(s) == OfType(s, 5) # <<>>
FirstOf(units)        == IF units = <<>> THEN <<>> ELSE Head(units)
ParameterSets(s)      == <<FirstOf(OfType(s, 7)), FirstOf(OfType(s, 8))>>

RemoveEmulationPrevention(s) ==
    FoldLeft(LAMBDA r, b :
                IF r.zeros >= 2 /\ b = 3 THEN [r EXCEPT !.zeros = 0]
                ELSE [out |-> Append(r.out, b), zeros |-> IF b = 0 THEN r.zeros + 1 ELSE 0],
             [out |-> <<>>, zeros |-> 0], s).out

\* A scaling list ends early when the next scale is zero.
NextScale(l) == (l.last + Got(l.r, 0) + 256) % 256
ScaleOf(l)   == [l EXCEPT !.next = NextScale(l),
                          !.last = IF NextScale(l) # 0 THEN NextScale(l) ELSE @]
ReadScale(l, i) == IF l.next = 0 THEN l ELSE ScaleOf([l EXCEPT !.r = ReadSE(@)])

ReadScales(r, size) ==
    IF Got(r, 0) = 0 THEN r
    ELSE FoldLeft(ReadScale, [r |-> r, last |-> 8, next |-> 8], [i \in 1..size |-> i]).r

ReadScalingList(r, size) == ReadScales(ReadBits(r, 1), size)

\* What is not there has a value all the same: the format is always the second.
Absent(r, values) == [r EXCEPT !.got = @ \o values]
FormatOf(r)       == r.got[2]

ReadLists(r) ==
    IF Got(r, 0) = 0 THEN r
    ELSE FoldLeft(ReadScalingList, r, [i \in 1..(IF FormatOf(r) = 3 THEN 12 ELSE 8) |->
                                          IF i <= 6 THEN 16 ELSE 64])

ReadDepths(r) ==
    Reads(IF FormatOf(r) = 3 THEN ReadBits(r, 1) ELSE r, <<"ue", "ue", "bit", "bit">>)

ReadChroma(r, high) ==
    IF high THEN ReadLists(ReadDepths(ReadUE(r))) ELSE Absent(r, <<1>>)

ReadOffsets(r) == Reads(r, [i \in 1..Got(r, 0) |-> "se"])

ReadOrderOf(r) ==
    CASE Got(r, 0) = 0 -> ReadUE(r)
      [] Got(r, 0) = 1 -> ReadOffsets(Reads(r, <<"bit", "se", "se", "ue">>))
      [] OTHER -> r

ReadPictureOrder(r) == ReadOrderOf(Reads(r, <<"ue", "ue">>))

\* Slip: a field is cropped like a frame.
CropUnitsOfFrames(format, frames) ==
    CASE format = 1 -> <<2, 2>>
      [] format = 2 -> <<2, 1>>
      [] OTHER -> <<1, 1>>

CropUnits(format, frames) ==
    CASE format = 1 -> <<2, 2 * (2 - frames)>>
      [] format = 2 -> <<2, 2 - frames>>
      [] OTHER -> <<1, 2 - frames>>

ReadAdaptive(r) == IF Got(r, 0) = 0 THEN ReadBits(r, 1) ELSE Absent(r, <<0>>)

ReadCropping(r) ==
    IF Got(r, 0) = 1 THEN Reads(r, <<"ue", "ue", "ue", "ue">>)
    ELSE Absent(r, <<0, 0, 0, 0>>)

\* The last that were got: width, height, frames, adaptive, inference, whether
\* there is cropping, and cropping on the left, right, top and bottom.
SizeOf(r, unit) ==
    [ok     |-> r.ok,
     width  |-> 16 * (Got(r, 9) + 1) - unit[1] * (Got(r, 3) + Got(r, 2)),
     height |-> 16 * (2 - Got(r, 7)) * (Got(r, 8) + 1)
                - unit[2] * (Got(r, 1) + Got(r, 0))]

Cropped(r) == SizeOf(r, CropUnits(FormatOf(r), Got(r, 7)))

\* parseH264SPS, after the byte of the level.
ReadSPS(bits, high) ==
    Cropped(ReadCropping(Reads(ReadAdaptive(Reads(
        ReadPictureOrder(ReadChroma(ReadUE(Reader(bits)), high)),
        <<"ue", "bit", "ue", "ue", "bit">>)), <<"bit", "bit">>)))

HighProfiles == {100, 110, 122, 244, 44, 83, 86, 118, 128, 138, 139, 134, 135}

ParseH264SPS(u) ==
    IF Len(u) < 4 THEN [ok |-> FALSE, width |-> 0, height |-> 0]
    ELSE ReadSPS(BitsOf(RemoveEmulationPrevention(SubSeq(u, 5, Len(u)))),
                 u[2] \in HighProfiles)

-----------------------------------------------------------------------------
(* AV1. *)

OBUType(header) == (header \div 8) % 16

\* splitAV1OBUs: the OBUs up to an error, which is a size that is missing or too big.
SplitOBUs(s) ==
    LET obus[o \in 0..Len(s)] ==
            IF o = Len(s) THEN [ok |-> TRUE, obus |-> <<>>]
            ELSE LET head == IF BitAt(s[o + 1], 2) = 1 THEN 2 ELSE 1
                     size == ReadLEB128(SubSeq(s, o + head + 1, Len(s)))
                     end  == o + head + size.n + size.value
                 IN  IF BitAt(s[o + 1], 1) = 0 \/ size.n = 0 \/ end > Len(s)
                     THEN [ok |-> FALSE, obus |-> <<>>]
                     ELSE [ok   |-> obus[end].ok,
                           obus |-> <<SubSeq(s, o + 1, end)>> \o obus[end].obus]
    IN  obus[0]

HasSequenceHeader(s) == \E i \in DOMAIN SplitOBUs(s).obus :
                            OBUType(SplitOBUs(s).obus[i][1]) = 1

\* av1StripOBUs takes out the temporal delimiters and the padding.
StripOBUs(s) ==
    IF ~SplitOBUs(s).ok THEN s
    ELSE FlattenSeq(SelectSeq(SplitOBUs(s).obus, LAMBDA o : OBUType(o[1]) \notin {2, 15}))

-----------------------------------------------------------------------------
(* What encoders write. *)

\* The number in as many bits as follow the zeros, and the one before them.
CodeZeros(n) == CHOOSE z \in 0..MaxZeros + 1 : 2^z <= n + 1 /\ n + 1 < 2^(z + 1)
UECode(n)    == [i \in 1..2 * CodeZeros(n) + 1 |-> BitAt(n + 1, 2 * CodeZeros(n) + 1 - i)]
SECode(n)    == UECode(IF n > 0 THEN 2 * n - 1 ELSE -2 * n)
LEB128(n)    == IF n < 128 THEN <<n>> ELSE <<128 + (n % 128), n \div 128>>

\* A byte of 3 keeps two zeros apart from what would end or escape a unit.
Escaped(s) ==
    FoldLeft(LAMBDA r, b :
                IF r.zeros = 2 /\ b <= 3
                THEN [out |-> r.out \o <<3, b>>, zeros |-> IF b = 0 THEN 1 ELSE 0]
                ELSE [out |-> Append(r.out, b), zeros |-> IF b = 0 THEN r.zeros + 1 ELSE 0],
             [out |-> <<>>, zeros |-> 0], s).out

\* A unit ends in a byte that is not zero.
NALU(type, s) == <<96 + type>> \o Escaped(s) \o <<128>>
StartCode(long) == IF long THEN <<0, 0, 0, 1>> ELSE <<0, 0, 1>>

\* Units that follow their lengths.
Unprefixed(s) ==
    LET units[o \in 0..Len(s)] ==
            IF o = Len(s) THEN <<>>
            ELSE LET end == o + 4 + 256 * s[o + 3] + s[o + 4] IN
                 <<SubSeq(s, o + 5, end)>> \o units[end]
    IN  units[0]

OBU(type, extended, s) ==
    (IF extended THEN <<8 * type + 6, 0>> ELSE <<8 * type + 2>>) \o LEB128(Len(s)) \o s

WrittenOrder(p) ==
    CASE p.order = 0 -> UECode(0)
      [] p.order = 1 -> <<0>> \o SECode(0) \o SECode(2) \o UECode(2)
                        \o SECode(-1) \o SECode(1)
      [] p.order = 2 -> <<>>

WrittenScaling(p) ==
    IF p.scaled
    THEN <<1, 1>> \o SECode(-8) \o [i \in 1..(IF p.chroma = 3 THEN 11 ELSE 7) |-> 0]
    ELSE <<0>>

WrittenChroma(p) ==
    UECode(p.chroma) \o (IF p.chroma = 3 THEN <<0>> ELSE <<>>)
    \o UECode(0) \o UECode(0) \o <<0>> \o WrittenScaling(p)

WrittenSPS(p) ==
    UECode(0) \o (IF p.high THEN WrittenChroma(p) ELSE <<>>)
    \o UECode(0) \o UECode(p.order) \o WrittenOrder(p)
    \o UECode(1) \o <<0>> \o UECode(p.width - 1) \o UECode(p.height - 1) \o <<p.frames>>
    \o (IF p.frames = 0 THEN <<0>> ELSE <<>>) \o <<1>>
    \o (IF p.crop = 0 THEN <<0>>
        ELSE <<1>> \o UECode(p.crop) \o UECode(0) \o UECode(0) \o UECode(p.crop))

SPSUnit(p) ==
    LET bits == WrittenSPS(p) \o <<1>>
        byte(i) == Number([k \in 1..8 |-> IF 8 * i + k <= Len(bits)
                                          THEN bits[8 * i + k] ELSE 0])
    IN  <<103, IF p.high THEN 100 ELSE 66, 0, 30>>
        \o Escaped([i \in 1..(Len(bits) + 7) \div 8 |-> byte(i - 1)])

\* Macroblocks of 16 samples, in pairs of fields unless there are frames only;
\* cropping counts samples of chroma.
PictureWidth(p)  == 16 * p.width - p.crop * (IF p.chroma \in {1, 2} THEN 2 ELSE 1)
PictureHeight(p) ==
    (2 - p.frames) * (16 * p.height - p.crop * (IF p.chroma = 1 THEN 2 ELSE 1))

-----------------------------------------------------------------------------
Cuts == 0..Len(data)
Before(i) == SubSeq(data, 1, i)
After(i)  == SubSeq(data, i + 1, Len(data))

(* The variables have their types.                                         *)
TypeOK == data \in BoundedSeq(Bytes, MaxLength) /\ sps \in Pictures \cup {NoPicture}

(* The recorder cuts an access unit where its encoder put start codes of    *)
(* three bytes or four, whatever the units contain; a clip's file holds the *)
(* same units by their lengths, and keyframe and parameter sets are seen.   *)
UnitsKept ==
    \A i \in Cuts, long1, long2 \in BOOLEAN :
        LET first  == NALU(7, Before(i))
            second == NALU(5, After(i))
            unit   == StartCode(long1) \o first \o StartCode(long2) \o second
        IN  /\ SplitAnnexB(unit) = <<first, second>>
            /\ Unprefixed(AVCC(unit)) = <<first, second>>
            /\ IsH264KeyframeUnit(unit) /\ ParameterSets(unit) = <<first, <<>>>>

(* What an encoder escapes is read as it was.                              *)
EscapesRemoved == RemoveEmulationPrevention(Escaped(data)) = data

(* Every number up to the longest code is read, followed by whatever it is, *)
(* and so many bits are taken; a longer code, or one cut short, is refused. *)
NumbersRead ==
    /\ \A n \in 0..2^(MaxZeros + 1) - 2 :
          LET r == ReadUE(Reader(UECode(n) \o BitsOf(data))) IN
          r.ok /\ r.got = <<n>> /\ r.pos = Len(UECode(n))
    /\ \A n \in -2^MaxZeros + 1..2^MaxZeros - 1 :
          ReadSE(Reader(SECode(n) \o BitsOf(data))).got = <<n>>
    /\ \A n \in {2^(MaxZeros + 1) - 1} :
          ~ReadUE(Reader(UECode(n) \o BitsOf(data))).ok
    /\ \A n \in {0, 1, 127, 128, 300} :
          ReadLEB128(LEB128(n) \o data) = [n |-> Len(LEB128(n)), value |-> n]

(* A clip and the status page give the size of the picture that is shown:   *)
(* of interlaced video, of every chroma format, with scaling lists and any  *)
(* picture order; and a parameter set that is cut short gives none.         *)
SizeRead ==
    sps # NoPicture =>
        /\ ParseH264SPS(SPSUnit(sps)) =
              [ok |-> TRUE, width |-> PictureWidth(sps), height |-> PictureHeight(sps)]
        /\ \A n \in {0, 1, 5, Len(WrittenSPS(sps)) - 1} :
              ~ReadSPS(SubSeq(WrittenSPS(sps), 1, n), sps.high).ok

(* What Matroska must not hold is taken out of a temporal unit, and all     *)
(* else stays in its order; a unit that is cut short stays as it is.        *)
OBUsKept ==
    \A i \in Cuts, extended \in BOOLEAN :
        LET first == OBU(1, extended, Before(i))
            last  == OBU(6, ~extended, After(i))
            unit  == OBU(2, FALSE, <<>>) \o first \o OBU(15, extended, data) \o last
        IN  /\ SplitOBUs(unit).ok /\ HasSequenceHeader(unit)
            /\ StripOBUs(unit) = first \o last
            /\ \A n \in 1..Len(last) - 1 :
                  StripOBUs(SubSeq(unit, 1, Len(unit) - n)) = SubSeq(unit, 1, Len(unit) - n)

=============================================================================
