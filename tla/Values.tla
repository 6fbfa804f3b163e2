------------------------------- MODULE Values -------------------------------
(***************************************************************************)
(* The values of leaf elements and their payloads: writer/encode.go and the  *)
(* Writer's typed methods one way, parser/decode.go and the accessors of a    *)
(* tree.Element the other, used by a program that receives a payload, reads   *)
(* it as it likes, and writes what it read, or a value of its own.            *)
(*                                                                         *)
(* A byte has ByteBits bits and a word MaxWidth bytes.  A value is a sequence *)
(* of integers: of one for a number, of the bytes for a string, the time for  *)
(* a date, the bit pattern for a float of a word.                          *)
(***************************************************************************)
EXTENDS Ieee, SequencesExt

CONSTANTS
  ByteBits,      \* 8
  MaxWidth,      \* 8
  EpochSec,      \* the second 2001 begins
  PayloadBound,  \* bound: the longest payload received
  OwnValues,     \* bound: [kind, v], what the program may write of its own
  OtherSize      \* bound: a FloatSize that is neither

ASSUME ValuesAssumption ==
  /\ ByteBits \in Nat /\ MaxWidth \in Nat /\ ByteBits * MaxWidth = WordBits
  /\ EpochSec \in Words
  /\ SingleBits % ByteBits = 0

VARIABLES
  received,  \* the payload in the element
  elided,    \* Truncated: a retention cap dropped it
  kind,      \* of the value in hand, or "none"
  value,
  answer,    \* of the last call
  written    \* the payload written

valVars == <<received, elided, kind, value, answer, written>>

Kinds == {"uint", "int", "float", "string", "date"}

Byte == 0..(2 ^ ByteBits - 1)

-----------------------------------------------------------------------------
(* parser/decode.go and the accessors.                                     *)

Is(v) == [result |-> "ok", v |-> v]
Fails(why) == [result |-> why, v |-> << >>]

DecodeUint(b) == FoldLeft(LAMBDA v, byte : v * 2 ^ ByteBits + byte, 0, b)

Negative(b) == b # << >> /\ b[1] >= 2 ^ (ByteBits - 1)

\* Mutant: the sign fills no byte that is missing.
DecodeIntUnextended(b) == Signed(DecodeUint(b))

\* A negative number shorter than a word has ones in front of it.
DecodeInt(b) ==
  Signed(DecodeUint(b)
           + IF Negative(b) THEN WordSize - 2 ^ (ByteBits * Len(b)) ELSE 0)

Float32 == SingleBits \div ByteBits
Float64 == MaxWidth

DecodeFloat(b) == IF Len(b) = Float32 THEN Widened(DecodeUint(b)) ELSE DecodeUint(b)

\* What precedes the first NUL.
DecodeString(b) ==
  LET nul == SelectInSeq(b, LAMBDA byte : byte = 0)
  IN IF nul = 0 THEN b ELSE SubSeq(b, 1, nul - 1)

AsNumber(n, b) == IF Len(b) > MaxWidth THEN Fails("ValueLength") ELSE Is(<<n>>)

AsFloat(b) ==
  IF Len(b) \in {0, Float32, Float64} THEN Is(<<DecodeFloat(b)>>) ELSE Fails("ValueLength")

AsString(b) == Is(DecodeString(b))

AsTime(b) ==
  IF Len(b) \notin {0, MaxWidth} THEN Fails("ValueLength")
  ELSE LET after == UnixTime(DecodeInt(b))
       IN Is(<<EpochSec + after[1], after[2]>>)

Decoded(k, b) ==
  CASE k = "uint" -> AsNumber(DecodeUint(b), b)
    [] k = "int" -> AsNumber(DecodeInt(b), b)
    [] k = "float" -> AsFloat(b)
    [] k = "string" -> AsString(b)
    [] k = "date" -> AsTime(b)

\* An accessor when the payload was not retained.
DecodedElided(k) == IF k = "string" THEN Is(<< >>) ELSE Fails("TruncatedPayload")

-----------------------------------------------------------------------------
(* writer/encode.go.                                                       *)

\* The low bytes of a number, whatever its sign.
BytesOf(v, width) ==
  [i \in 1..width |-> (v \div 2 ^ (ByteBits * (width - i))) % 2 ^ ByteBits]

Narrowest(widths) == CHOOSE w \in widths : \A v \in widths : w <= v

EncodeUint(v) == BytesOf(v, Narrowest({w \in 1..MaxWidth : v < 2 ^ (ByteBits * w)}))

\* Mutant: the sign bit is not counted.
EncodeIntMagnitude(v) ==
  BytesOf(v, Narrowest({w \in 1..MaxWidth :
    -(2 ^ (ByteBits * w)) <= v /\ v <= 2 ^ (ByteBits * w) - 1}))

EncodeInt(v) ==
  BytesOf(v, Narrowest({w \in 1..MaxWidth :
    -(2 ^ (ByteBits * w - 1)) <= v /\ v <= 2 ^ (ByteBits * w - 1) - 1}))

EncodeFloat(v, size) ==
  CASE size = Float32 -> Is(BytesOf(Narrowed(v), Float32))
    [] size = Float64 -> Is(BytesOf(v, Float64))
    [] OTHER -> Fails("FloatSize")

EncodeString(s) == IF \E i \in DOMAIN s : s[i] = 0 THEN Fails("StringNUL") ELSE Is(s)

MaxSec == MaxWord \div Second

\* Seconds and nanoseconds since 2001: multiplied, they may not fit a word.
\* ns is never negative, so the code's test for that is never reached.
NanosSinceEpoch(t) ==
  LET sec == Signed(t[1] - EpochSec)
      total == Signed(sec * Second)
  IN IF sec > MaxSec \/ sec < -MaxSec - 1 THEN Fails("DateRange")
     ELSE IF t[2] > 0 /\ total > MaxWord - t[2] THEN Fails("DateRange")
     ELSE Is(<<total + t[2]>>)

EncodeDate(t) ==
  LET ns == NanosSinceEpoch(t)
  IN IF ns.result # "ok" THEN ns ELSE Is(BytesOf(ns.v[1], MaxWidth))

Encoded(k, v) ==
  CASE k = "uint" -> Is(EncodeUint(v[1]))
    [] k = "int" -> Is(EncodeInt(v[1]))
    [] k = "string" -> EncodeString(v)
    [] k = "date" -> EncodeDate(v)

-----------------------------------------------------------------------------
(* The program.                                                            *)

ValInit ==
  /\ received = << >> /\ elided = FALSE
  /\ kind = "none" /\ value = << >>
  /\ answer = "none" /\ written = << >>

Receive(byte) ==
  /\ answer = "none" /\ ~elided
  /\ received' = Append(received, byte)
  /\ UNCHANGED <<elided, kind, value, answer, written>>

\* The element is retained with its payload over the cap.
Elide ==
  /\ answer = "none" /\ received # << >>
  /\ received' = << >> /\ elided' = TRUE
  /\ UNCHANGED <<kind, value, answer, written>>

\* An accessor of any kind may be called: the caller says what the bytes are.
Read(k) ==
  /\ answer = "none"
  /\ LET d == IF elided THEN DecodedElided(k) ELSE Decoded(k, received)
     IN /\ kind' = IF d.result = "ok" THEN k ELSE "none"
        /\ value' = d.v
        /\ answer' = d.result
  /\ UNCHANGED <<received, elided, written>>

Choose(own) ==
  /\ answer = "none" /\ ~elided
  /\ kind' = own.kind /\ value' = own.v
  /\ answer' = "ok"
  /\ UNCHANGED <<received, elided, written>>

\* Uint, Int, Float, String, UTF8 and Date hand Leaf the payload or write nothing.
HandedToLeaf(e) ==
  /\ answer' = IF e.result = "ok" THEN "written" ELSE e.result
  /\ written' = e.v
  /\ UNCHANGED <<received, elided, kind, value>>

Write == kind \notin {"none", "float"} /\ answer = "ok" /\ HandedToLeaf(Encoded(kind, value))

\* Float, which is told a width as well.
WriteFloat(size) == kind = "float" /\ answer = "ok" /\ HandedToLeaf(EncodeFloat(value[1], size))

ValNext ==
  \/ /\ Len(received) < PayloadBound
     /\ \E byte \in Byte : Receive(byte)
  \/ Elide
  \/ \E k \in Kinds : Read(k)
  \/ /\ received = << >>
     /\ \E own \in OwnValues : Choose(own)
  \/ Write
  \/ \E size \in {Float32, Float64, OtherSize} : WriteFloat(size)

ValSpec == ValInit /\ [][ValNext]_valVars

-----------------------------------------------------------------------------
(* Properties.                                                             *)

\* The nanoseconds from 2001 to a time, as they are.
TrueNanos(t) == NanosOf(t) - EpochSec * Second

\* The first second a word holds nanoseconds of, and not all of them.
FirstSecond(t) == t[1] - EpochSec = -MaxSec - 1

\* The state's types; a value decoded from any payload is a value of its kind,
\* and one that was refused left nothing written (writer.go:323).
ValTypeOK ==
  /\ received \in Seq(Byte) /\ written \in Seq(Byte)
  /\ elided => received = << >>
  /\ kind = "uint" => value[1] \in UnsignedWords
  /\ kind = "int" => value[1] \in Words
  /\ kind = "float" => value[1] \in UnsignedWords
  /\ kind = "string" => value \in Seq(Byte)
  /\ kind = "date" => value \in Times
  /\ answer # "written" => written = << >>

\* What an encoder accepts, the decoder of its kind reads back (encode.go:211,
\* 230, 279, 312, 333); of dates, but in the first second, of floats, in a whole word.
EncodedReadsBack ==
  answer = "written" =>
    \/ kind = "date" /\ FirstSecond(value)
    \/ kind = "float" /\ Len(written) = Float32
    \/ Decoded(kind, written).v = value

\* Rounding happens once: a float that came in four bytes is passed on in four as it
\* came (a signaling NaN made quiet), and what was written in four bytes has its sign
\* and stays what it is read back as, however often it is passed on (encode.go:281).
RoundedOnce ==
  answer = "written" /\ kind = "float" /\ Len(written) = Float32 =>
    LET back == DecodeFloat(written)
    IN /\ BytesOf(Narrowed(back), Float32) = written
       /\ IsNaN(back) <=> IsNaN(value[1])
       /\ back \div 2 ^ (WordBits - 1) = value[1] \div 2 ^ (WordBits - 1)
       /\ Len(received) = Float32 =>
            back = value[1] /\ (written = received \/ IsNaN(back))

\* A number is as short as it can be: without its first byte it is another.
MinimalWidth ==
  answer = "written" /\ kind \in {"uint", "int"} =>
    /\ written # << >>
    /\ Len(written) > 1 => Decoded(kind, Tail(written)).v # value

\* A refusal is due: the string has a NUL, the date's nanoseconds do not fit
\* (but in the first second).
RefusalsAreDue ==
  /\ answer = "StringNUL" => \E i \in DOMAIN value : value[i] = 0
  /\ answer = "DateRange" => TrueNanos(value) \notin Words \/ FirstSecond(value)

\* A payload may be padded (foreign writers do): a number in front, by its sign,
\* a string at the end, by a NUL and anything after it.
PaddingKeepsTheValue ==
  kind # "none" /\ received # << >> =>
    LET ones == 2 ^ ByteBits - 1
        Keeps(b) == Decoded(kind, b).v = value
    IN /\ kind = "uint" /\ Len(received) < MaxWidth => Keeps(<<0>> \o received)
       /\ kind = "int" /\ Len(received) < MaxWidth =>
            Keeps(<<IF Negative(received) THEN ones ELSE 0>> \o received)
       /\ kind = "string" => \A byte \in Byte : Keeps(received \o <<0, byte>>)

\* An encoder accepts what can be read back, and all of that, writes it as short as
\* it can be, and writes nothing when it refuses; a decoder sees through padding.
ValInv ==
  /\ ValTypeOK /\ EncodedReadsBack /\ RoundedOnce /\ MinimalWidth /\ RefusalsAreDue
  /\ PaddingKeepsTheValue

\* "The function is the exact inverse of the date decoding for every t it
\* accepts" (encode.go:333).
\* The model refutes it (README, section 7).
DateReadsBack ==
  answer = "written" /\ kind = "date" => Decoded("date", written).v = value

=============================================================================
