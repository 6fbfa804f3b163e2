---------------------------- MODULE SimpleBlock ----------------------------
(***************************************************************************)
(* parser/block.go: the payload of a SimpleBlock read into its frames, and    *)
(* a block written back as payload bytes, here by a remuxer that receives a  *)
(* payload byte by byte, reads it, and appends the block (or one of its own) *)
(* to a buffer it keeps.                                                     *)
(*                                                                         *)
(* A byte is a number of OctetBits bits, of which the flags use the low four  *)
(* and the highest as in the code; the bits between are the reserved ones.   *)
(***************************************************************************)
EXTENDS Integers, SequencesExt

CONSTANTS
  OctetBits,    \* 8 in the code
  Bytes,        \* bound: what the payloads received are made of, at each place
  Held,         \* what the buffer holds at first
  OwnBlocks     \* bound: blocks the caller makes itself

ASSUME BlockAssumption ==
  /\ OctetBits \in 5..8
  /\ Bytes \in Seq(SUBSET (0..(2 ^ OctetBits - 1)))

VARIABLES
  payload,  \* the bytes received
  block,    \* the block in hand
  from,     \* where it came from: "nowhere", "payload" or "caller"
  refused,  \* why the last call refused, or "no"
  dst       \* the buffer

blockVars == <<payload, block, from, refused, dst>>

Lacing == {"none", "xiph", "fixed", "ebml"}
LacingOf(n) == <<"none", "xiph", "fixed", "ebml">>[n + 1]
LacingNumber(l) == CHOOSE n \in 0..3 : LacingOf(n) = l

AllOnes == 2 ^ OctetBits - 1   \* 0xff
ValueBits == OctetBits - 1     \* value bits in each byte of a VINT

NoBlock == [track |-> 0, timecode |-> 0, keyframe |-> FALSE, invisible |-> FALSE,
            discardable |-> FALSE, lacing |-> "none", frames |-> << >>]

Drop(b, n) == SubSeq(b, n + 1, Len(b))

Sum(sizes) == FoldLeft(LAMBDA total, size : total + size, 0, sizes)

-----------------------------------------------------------------------------
(* VINTs inside a block.                                                   *)

\* vintLen: one more than the leading zero bits.
VINTLen(first) ==
  IF first = 0 THEN OctetBits + 1
  ELSE CHOOSE n \in 1..OctetBits :
         first \in 2 ^ (OctetBits - n) .. 2 ^ (OctetBits - n + 1) - 1

VINTReads(b) == b # << >> /\ VINTLen(b[1]) <= OctetBits /\ Len(b) >= VINTLen(b[1])

VINTValue(b) ==
  LET n == VINTLen(b[1])
  IN FoldLeft(LAMBDA v, byte : v * 2 ^ OctetBits + byte,
              b[1] % 2 ^ (OctetBits - n), SubSeq(b, 2, n))

\* The largest value of that width: all ones are the unknown size.
MaxBlockVINT(width) == 2 ^ (ValueBits * width) - 2

\* The midpoint of that width, which a signed delta is stored biased by.
Bias(width) == 2 ^ (ValueBits * width - 1) - 1

VINTOfWidth(v, width) ==
  [i \in 1..width |->
     ((v + 2 ^ (ValueBits * width)) \div 2 ^ (OctetBits * (width - i))) % 2 ^ OctetBits]

\* Mutant: the largest value of a width is given the next one.
FitsBelow(v, width) == v < MaxBlockVINT(width)

FitsVINT(v, width) == v <= MaxBlockVINT(width)

FitsDelta(delta, width) == -Bias(width) <= delta /\ delta <= Bias(width)

\* The smallest of a set of widths, or none.
NarrowestWidth(widths) == {w \in widths : \A v \in widths : w <= v}

VINTWidth(v) == NarrowestWidth({w \in 1..OctetBits : FitsVINT(v, w)})

DeltaWidth(delta) == NarrowestWidth({w \in 1..OctetBits : FitsDelta(delta, w)})

-----------------------------------------------------------------------------
(* ParseSimpleBlock.  A failure is the NoBlock and its reason.             *)

Failed(why) == [result |-> why, block |-> NoBlock]

\* The declared sizes of the frames but the last, and what is left of b.
NoSizes(why) == [result |-> why, sizes |-> << >>, rest |-> << >>]

\* A size is the bytes up to and with the first that is not 0xff.
XiphSize(s) ==
  LET ends == {n \in DOMAIN s.rest : s.rest[n] # AllOnes}
      n == CHOOSE k \in ends : \A e \in ends : k <= e
  IN IF s.result # "ok" THEN s
     ELSE IF ends = {} THEN NoSizes("TruncatedXiph")
     ELSE [result |-> "ok",
           sizes |-> Append(s.sizes, (n - 1) * AllOnes + s.rest[n]),
           rest |-> Drop(s.rest, n)]

FixedSizes(b, count) ==
  IF Len(b) % count # 0 THEN NoSizes("NotDivisible")
  ELSE [result |-> "ok", sizes |-> [i \in 1..(count - 1) |-> Len(b) \div count], rest |-> b]

\* The first size as it is, every other as a delta from the one before.
EBMLSize(s) ==
  LET n == VINTLen(s.rest[1])
      raw == VINTValue(s.rest)
      size == IF s.sizes = << >> THEN raw ELSE Last(s.sizes) + raw - Bias(n)
  IN IF s.result # "ok" THEN s
     ELSE IF ~VINTReads(s.rest) THEN NoSizes("BadVINT")
     ELSE IF s.sizes = << >> /\ raw > Len(s.rest) - n THEN NoSizes("ExceedsPayload")
     ELSE IF size < 0 THEN NoSizes("NegativeSize")
     ELSE [result |-> "ok", sizes |-> Append(s.sizes, size), rest |-> Drop(s.rest, n)]

LacedSizes(lacing, b, count) ==
  LET from0 == [result |-> "ok", sizes |-> << >>, rest |-> b]
      Times(Size(_)) == FoldLeft(LAMBDA s, i : Size(s), from0, [i \in 1..(count - 1) |-> i])
  IN CASE lacing = "xiph" -> Times(XiphSize)
       [] lacing = "fixed" -> FixedSizes(b, count)
       [] lacing = "ebml" -> Times(EBMLSize)

\* Mutant: a frame is taken and what follows it forgotten.
FramesFromStart(b, sizes) == [i \in DOMAIN sizes |-> SubSeq(b, 1, sizes[i])]

\* Consecutive pieces of b of the given sizes.
Frames(b, sizes) ==
  [i \in DOMAIN sizes |->
     LET at == Sum(SubSeq(sizes, 1, i - 1)) IN SubSeq(b, at + 1, at + sizes[i])]

\* The frames of b, which starts with their number.
LacedFrames(lacing, b) ==
  IF b = << >> THEN [result |-> "TruncatedCount", frames |-> << >>]
  ELSE LET s == LacedSizes(lacing, Tail(b), b[1] + 1)
           last == Len(s.rest) - Sum(s.sizes)
       IN IF s.result # "ok" THEN [result |-> s.result, frames |-> << >>]
          ELSE IF last < 0 THEN [result |-> "ExceedsPayload", frames |-> << >>]
          ELSE [result |-> "ok", frames |-> Frames(s.rest, Append(s.sizes, last))]

\* A two-byte two's complement number (DecodeInt).
Signed16(hi, lo) ==
  LET u == hi * 2 ^ OctetBits + lo
  IN IF hi >= 2 ^ (OctetBits - 1) THEN u - 2 ^ (2 * OctetBits) ELSE u

WithFlags(track, timecode, flags, frames) ==
  [track |-> track, timecode |-> timecode, keyframe |-> flags >= 2 ^ (OctetBits - 1),
   invisible |-> (flags \div 8) % 2 = 1, discardable |-> flags % 2 = 1,
   lacing |-> LacingOf((flags \div 2) % 4), frames |-> frames]

ParseSimpleBlock(b) ==
  IF ~VINTReads(b) THEN Failed("BadTrack")
  ELSE LET track == VINTValue(b)
           head == Drop(b, VINTLen(b[1]))
           body == Drop(head, 3)
           lacing == LacingOf((head[3] \div 2) % 4)
           laced == LacedFrames(lacing, body)
           frames == IF lacing = "none" THEN <<body>> ELSE laced.frames
       IN IF track = 0 THEN Failed("ZeroTrack")
          ELSE IF Len(head) < 2 THEN Failed("TruncatedTimecode")
          ELSE IF Len(head) < 3 THEN Failed("TruncatedFlags")
          ELSE IF lacing # "none" /\ laced.result # "ok" THEN Failed(laced.result)
          ELSE [result |-> "ok",
                block |-> WithFlags(track, Signed16(head[1], head[2]), head[3], frames)]

-----------------------------------------------------------------------------
(* Append.                                                                 *)

Delta(b, i) == Len(b.frames[i]) - Len(b.frames[i - 1])

\* Frames no longer than the first fit a VINT when it does, but a delta may not.
AppendResult(b) ==
  LET n == Len(b.frames)
  IN IF b.track = 0 THEN "ZeroTrack"
     ELSE IF n = 0 THEN "NoFrame"
     ELSE IF b.lacing = "none" /\ n # 1 THEN "ManyFrames"
     ELSE IF n > 2 ^ OctetBits THEN "TooManyFrames"
     ELSE IF VINTWidth(b.track) = {} THEN "TrackOverflow"
     ELSE IF b.lacing = "fixed" /\ \E i \in 1..n : Len(b.frames[i]) # Len(b.frames[1])
          THEN "UnequalFrames"
     ELSE IF b.lacing = "ebml" /\ n > 1 /\ VINTWidth(Len(b.frames[1])) = {} THEN "SizeOverflow"
     ELSE IF b.lacing = "ebml" /\ \E i \in 2..(n - 1) : DeltaWidth(Delta(b, i)) = {}
          THEN "DeltaOverflow"
     ELSE "ok"

AppendVINT(v) == VINTOfWidth(v, CHOOSE w \in VINTWidth(v) : TRUE)

\* Mutant: the biased delta is written at the narrowest width that holds it.
AppendDeltaNarrow(delta) ==
  LET w == CHOOSE w \in DeltaWidth(delta) : TRUE IN AppendVINT(delta + Bias(w))

\* At the width its bias was taken from.
AppendDelta(delta) ==
  LET w == CHOOSE w \in DeltaWidth(delta) : TRUE IN VINTOfWidth(delta + Bias(w), w)

XiphBytes(size) == [i \in 1..(size \div AllOnes) |-> AllOnes] \o <<size % AllOnes>>

\* What precedes the frames: the sizes of all but the last.
SizeBytes(b) ==
  FlattenSeq([i \in 1..(Len(b.frames) - 1) |->
    CASE b.lacing = "xiph" -> XiphBytes(Len(b.frames[i]))
      [] b.lacing = "fixed" -> << >>
      [] b.lacing = "ebml" -> IF i = 1 THEN AppendVINT(Len(b.frames[1]))
                              ELSE AppendDelta(Delta(b, i))])

Flags(b) ==
  LacingNumber(b.lacing) * 2 + (IF b.keyframe THEN 2 ^ (OctetBits - 1) ELSE 0)
    + (IF b.invisible THEN 8 ELSE 0) + (IF b.discardable THEN 1 ELSE 0)

EncodedBlock(b) ==
  LET tc == b.timecode % 2 ^ (2 * OctetBits)
  IN AppendVINT(b.track)
       \o <<tc \div 2 ^ OctetBits, tc % 2 ^ OctetBits, Flags(b)>>
       \o (IF b.lacing = "none" THEN << >> ELSE <<Len(b.frames) - 1>> \o SizeBytes(b))
       \o FlattenSeq(b.frames)

-----------------------------------------------------------------------------
(* The remuxer.                                                            *)

BlockInit ==
  /\ payload = << >>
  /\ block = NoBlock /\ from = "nowhere" /\ refused = "no"
  /\ dst = Held

ReceiveBlock(byte) ==
  /\ from = "nowhere"
  /\ payload' = Append(payload, byte)
  /\ UNCHANGED <<block, from, refused, dst>>

ReadBlock ==
  /\ from = "nowhere"
  /\ LET r == ParseSimpleBlock(payload)
     IN /\ block' = r.block
        /\ refused' = IF r.result = "ok" THEN "no" ELSE r.result
        /\ from' = "payload"
  /\ UNCHANGED <<payload, dst>>

Make(b) ==
  /\ block' = b /\ from' = "caller"
  /\ UNCHANGED <<payload, refused, dst>>

WriteBlock ==
  /\ from # "nowhere" /\ refused = "no" /\ dst = Held
  /\ LET r == AppendResult(block)
     IN /\ refused' = IF r = "ok" THEN "no" ELSE r
        /\ dst' = IF r = "ok" THEN dst \o EncodedBlock(block) ELSE dst
  /\ UNCHANGED <<payload, block, from>>

BlockNext ==
  \/ /\ Len(payload) < Len(Bytes)
     /\ \E byte \in Bytes[Len(payload) + 1] : ReceiveBlock(byte)
  \/ ReadBlock
  \/ /\ from = "nowhere" /\ payload = << >>
     /\ \E b \in OwnBlocks : Make(b)
  \/ WriteBlock

BlockSpec == BlockInit /\ [][BlockNext]_blockVars

-----------------------------------------------------------------------------
(* What a canonical payload is.                                            *)

Written == dst # Held

Emitted == SubSeq(dst, Len(Held) + 1, Len(dst))

BlockHead == Drop(payload, VINTLen(payload[1]))

\* The VINTs that state sizes in an EBML-laced payload that reads: each as the
\* bytes from where it starts.
SizeVINTs ==
  FoldLeft(LAMBDA s, i : [list |-> Append(s.list, s.rest), rest |-> Drop(s.rest, VINTLen(s.rest[1]))],
           [list |-> << >>, rest |-> Drop(BlockHead, 4)],
           [i \in 1..BlockHead[4] |-> i]).list

\* No VINT of the payload is wider than it must be, and no reserved bit is set;
\* extra = 1 counts all ones as a value like any other.
NarrowestVINTs(extra) ==
  LET Of(v) == NarrowestWidth({w \in 1..OctetBits : v <= MaxBlockVINT(w) + extra})
      OfDelta(d) == NarrowestWidth({w \in 1..OctetBits : -Bias(w) <= d /\ d <= Bias(w) + extra})
  IN /\ BlockHead[3] % 2 ^ (OctetBits - 1) < 16
     /\ VINTLen(payload[1]) \in Of(VINTValue(payload))
     /\ block.lacing = "ebml" =>
          \A i \in DOMAIN SizeVINTs :
            LET n == VINTLen(SizeVINTs[i][1])
                v == VINTValue(SizeVINTs[i])
            IN n \in IF i = 1 THEN Of(v) ELSE OfDelta(v - Bias(n))

WasRead == from = "payload" /\ block # NoBlock

-----------------------------------------------------------------------------
(* Properties.                                                             *)

\* The state's types; a refusal left the buffer as it was (block.go:207).
BlockTypeOK ==
  /\ payload \in Seq(0..AllOnes) /\ dst \in Seq(0..AllOnes)
  /\ from \in {"nowhere", "payload", "caller"}
  /\ block.lacing \in Lacing
  /\ block.timecode \in -(2 ^ (2 * OctetBits - 1)) .. 2 ^ (2 * OctetBits - 1) - 1
  /\ refused # "no" => dst = Held

\* Append refuses rather than emit a payload that will not read back: what it
\* wrote, read again, is the block it was given (block.go:194).
ReadsBack == Written => ParseSimpleBlock(Emitted) = [result |-> "ok", block |-> block]

\* A canonically encoded payload, read and written, is the same bytes
\* (block.go:182), all ones being no canonical VINT.
ReproducesCanonical ==
  Written /\ WasRead /\ NarrowestVINTs(0) => Emitted = payload

\* No byte of a payload is lost, or read twice: the frames in order are the end
\* of it, and as many as it declares.
FramesTileThePayload ==
  WasRead =>
    LET all == FlattenSeq(block.frames)
    IN /\ Len(all) <= Len(payload) - VINTLen(payload[1]) - 3
       /\ all = Drop(payload, Len(payload) - Len(all))
       /\ block.lacing # "none" => Len(block.frames) = BlockHead[4] + 1

\* A payload that was read is taken apart exactly; what is written reads back,
\* and is the payload itself if that was canonical; a refusal writes nothing.
BlockInv == BlockTypeOK /\ FramesTileThePayload /\ ReadsBack /\ ReproducesCanonical

\* The comment at block.go:186 has it that a payload that reads can differ from
\* what Append makes of it in two ways only, a VINT wider than its value needs
\* and a reserved bit; that all ones are a value is what ParseSimpleBlock says.
\* The model refutes it (README, section 7).
TwoWaysToDiffer == Written /\ WasRead /\ NarrowestVINTs(1) => Emitted = payload

=============================================================================
