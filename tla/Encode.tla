------------------------------- MODULE Encode -------------------------------
(***************************************************************************)
(* The headers of elements as bytes: writer/encode.go and writer/checksum.go.  *)
(*                                                                         *)
(* A byte is abstracted to what a reader takes it for: a part of an ID, of a *)
(* size VINT, of a payload, of the checksum of given bytes.                 *)
(***************************************************************************)
EXTENDS Integers, Sequences

CONSTANTS
  IDWidth,       \* how many bytes an ID takes
  SizeBits,      \* the value bits in each byte of a size VINT (7)
  MaxSizeWidth   \* the longest size VINT (8)

\* The largest size a VINT of that width can say: all ones are the unknown size.
MaxSizeForWidth(width) == 2 ^ (SizeBits * width) - 2

MaxKnownSize == MaxSizeForWidth(MaxSizeWidth)

EncodeID(id) == [i \in 1..IDWidth[id] |-> <<"id", i, id>>]

SizeBytes(n, width) == [i \in 1..width |-> <<"size", i, width, n>>]

UnknownSizeVINTWidth(width) == [i \in 1..width |-> <<"unknown", i, width>>]

UnknownSizeVINT == UnknownSizeVINTWidth(MaxSizeWidth)

SizeWidthResult(n, width) ==
  IF width \notin 1..MaxSizeWidth THEN "SizeWidth"
  ELSE IF n > MaxSizeForWidth(width) THEN "SizeOverflow"
  ELSE "ok"

\* The smallest width that holds n.
SizeWidth(n) ==
  CHOOSE w \in 1..MaxSizeWidth : /\ n <= MaxSizeForWidth(w)
                                 /\ \A v \in 1..(w - 1) : ~(n <= MaxSizeForWidth(v))

EncodeSize(n) == SizeBytes(n, SizeWidth(n))

Payload(n) == [i \in 1..n |-> <<"data", i, n>>]

\* crc.Size bytes, summed over the bytes covered.
Checksum(covered) == [i \in 1..4 |-> <<"crc", i, covered>>]

ChecksumElement(crcID, covered) ==
  EncodeID(crcID) \o EncodeSize(4) \o Checksum(covered)

=============================================================================
