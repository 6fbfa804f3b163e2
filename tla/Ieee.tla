-------------------------------- MODULE Ieee --------------------------------
(***************************************************************************)
(* What Go's math package and its conversions do to floats: float64 as the   *)
(* bit pattern of a word, float32 as one of SingleBits bits, and IEEE 754     *)
(* between them, rounding to the nearest.                                   *)
(***************************************************************************)
EXTENDS Word

CONSTANTS
  SingleBits,       \* 32
  SingleFraction,   \* 23
  DoubleFraction    \* 52

ASSUME IeeeAssumption ==
  /\ SingleBits \in 4..WordBits
  /\ SingleFraction \in 2..(SingleBits - 3)
  /\ DoubleFraction \in (SingleFraction + 1)..(WordBits - SingleBits + SingleFraction - 1)

Single == [bits |-> SingleBits, fraction |-> SingleFraction]
Double == [bits |-> WordBits, fraction |-> DoubleFraction]

\* A pattern is a sign in front of a magnitude, whose numbers come in their order,
\* infinity after them, and then what is not a number.
Magnitude(f, b) == b % 2 ^ (f.bits - 1)

IsNegative(f, b) == b >= 2 ^ (f.bits - 1)

WithSign(f, negative, m) == m + IF negative THEN 2 ^ (f.bits - 1) ELSE 0

ExponentBits(f) == f.bits - 1 - f.fraction

ExponentBias(f) == 2 ^ (ExponentBits(f) - 1) - 1

InfinityOf(f) == (2 ^ ExponentBits(f) - 1) * 2 ^ f.fraction

\* The number a magnitude stands for, in units of the least Double there is.
\* Infinity stands for the number that would come next.
Amount(f, m) ==
  LET exponent == m \div 2 ^ f.fraction
      fraction == m % 2 ^ f.fraction
      unit == ExponentBias(Double) + DoubleFraction - ExponentBias(f) - f.fraction
  IN IF exponent = 0 THEN fraction * 2 ^ unit
     ELSE (2 ^ f.fraction + fraction) * 2 ^ (exponent - 1 + unit)

\* The magnitude nearest to an amount, the even one of two.
Nearest(f, amount) ==
  LET Distance(m) == IF Amount(f, m) < amount THEN amount - Amount(f, m)
                     ELSE Amount(f, m) - amount
      all == 0..InfinityOf(f)
  IN CHOOSE m \in all : \A k \in all \ {m} :
       Distance(m) < Distance(k) \/ (Distance(m) = Distance(k) /\ m % 2 = 0)

\* The fraction of a NaN keeps its upper bits and is made quiet.
Quiet(f, fraction) == InfinityOf(f) + 2 ^ (f.fraction - 1) + (fraction % 2 ^ (f.fraction - 1))

Lost == 2 ^ (DoubleFraction - SingleFraction)

\* float64(math.Float32frombits(b)), as bits.
Widened(b) ==
  LET m == Magnitude(Single, b)
  IN WithSign(Double, IsNegative(Single, b),
       IF m > InfinityOf(Single) THEN Quiet(Double, (m - InfinityOf(Single)) * Lost)
       ELSE IF m = InfinityOf(Single) THEN InfinityOf(Double)
       ELSE Nearest(Double, Amount(Single, m)))

\* math.Float32bits(float32(v)).
Narrowed(v) ==
  LET m == Magnitude(Double, v)
  IN WithSign(Single, IsNegative(Double, v),
       IF m > InfinityOf(Double) THEN Quiet(Single, (m - InfinityOf(Double)) \div Lost)
       ELSE IF m = InfinityOf(Double) THEN InfinityOf(Single)
       ELSE Nearest(Single, Amount(Double, m)))

IsNaN(v) == Magnitude(Double, v) > InfinityOf(Double)

=============================================================================
