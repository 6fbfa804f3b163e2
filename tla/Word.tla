-------------------------------- MODULE Word --------------------------------
(***************************************************************************)
(* Go's 64-bit integers, of WordBits bits here, and its points in time.       *)
(*                                                                         *)
(* A time is <<the second since 1970 of a word, the nanosecond in it>>, a     *)
(* second having Second nanoseconds.                                        *)
(***************************************************************************)
EXTENDS Integers

CONSTANTS
  WordBits,   \* 64
  Second      \* time.Second

ASSUME WordAssumption ==
  /\ WordBits \in Nat \ {0, 1}
  /\ Second \in 2..(2 ^ (WordBits - 1) - 1)

HalfWord == 2 ^ (WordBits - 1)

WordSize == 2 * HalfWord

MaxWord == HalfWord - 1

MinWord == -HalfWord

Words == MinWord..MaxWord

UnsignedWords == 0..(WordSize - 1)

\* int64(x), uint64(x): what is left of a result that does not fit.
Signed(x) == ((x - MinWord) % WordSize) + MinWord

Unsigned(x) == x % WordSize

Times == Words \X (0..(Second - 1))

\* The nanoseconds since 1970, which no word need hold.
NanosOf(t) == t[1] * Second + t[2]

\* time.Unix(0, nanos), for nanos of a word.
UnixTime(nanos) == <<nanos \div Second, nanos % Second>>

\* time.UnixNano: a word whether it holds them or not.
UnixNano(t) == Signed(NanosOf(t))

=============================================================================
