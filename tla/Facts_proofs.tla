---------------------------- MODULE Facts_proofs ----------------------------
(***************************************************************************)
(* What the proofs of the components need of numbers, sequences and        *)
(* recursive functions.  Induction is had from the well-foundedness of <:  *)
(* a set of numbers with 0 and the successor of each of its members is Nat. *)
(***************************************************************************)
EXTENDS Integers, SequenceTheorems, WellFoundedInduction, TLAPS

-----------------------------------------------------------------------------
(* Numbers.                                                                *)

\* A set of numbers has a least.
LEMMA LeastOf ==
  ASSUME NEW S \in SUBSET Nat, S # {}
  PROVE  \E x \in S : \A y \in S : x <= y
  <1> DEFINE R == OpToRel(<, Nat)
  <1>1. IsWellFoundedOn(R, Nat)
    BY NatLessThanWellFounded
  <1>2. \A x, y \in Nat : y < x => <<y, x>> \in R
    BY DEF OpToRel
  <1> HIDE DEF R
  <1>3. PICK x \in S : \A y \in S : ~ (<<y, x>> \in R)
    BY <1>1, WFMin
  <1>4. \A y \in S : x \in Nat /\ y \in Nat /\ ~(y < x)
    BY <1>2, <1>3
  <1> QED BY <1>4

\* What 0 has, and n + 1 as soon as n does, every number has.
LEMMA Induction ==
  ASSUME NEW S \in SUBSET Nat, 0 \in S, \A n \in S : n + 1 \in S
  PROVE  S = Nat
  <1> SUFFICES ASSUME Nat \ S # {} PROVE FALSE
    OBVIOUS
  <1>1. PICK x \in Nat \ S : \A y \in Nat \ S : x <= y
    BY LeastOf
  <1>2. x - 1 \in S
    BY <1>1
  <1> QED BY <1>1, <1>2

\* The same of the numbers up to a bound.
LEMMA BoundedInduction ==
  ASSUME NEW m \in Nat, NEW S, 0 \in S, \A n \in 1..m : n - 1 \in S => n \in S
  PROVE  0..m \subseteq S
  <1> SUFFICES ASSUME (0..m) \ S # {} PROVE FALSE
    OBVIOUS
  <1>0. (0..m) \ S \in SUBSET Nat
    OBVIOUS
  <1>1. PICK x \in (0..m) \ S : \A y \in (0..m) \ S : x <= y
    BY <1>0, LeastOf
  <1>2. x \in 1..m /\ x - 1 \in 0..m /\ ~(x <= x - 1)
    BY <1>1
  <1> QED BY <1>1, <1>2

\* The numbers up to a bound, each by what is smaller.
LEMMA StrongInduction ==
  ASSUME NEW m \in Nat, NEW S, \A n \in 0..m : (\A k \in 0..(n - 1) : k \in S) => n \in S
  PROVE  0..m \subseteq S
  <1> SUFFICES ASSUME (0..m) \ S # {} PROVE FALSE
    OBVIOUS
  <1>0. (0..m) \ S \in SUBSET Nat
    OBVIOUS
  <1>1. PICK x \in (0..m) \ S : \A y \in (0..m) \ S : x <= y
    BY <1>0, LeastOf
  <1>2. \A k \in 0..(x - 1) : k \in S
    <2> SUFFICES ASSUME NEW k \in 0..(x - 1) PROVE k \in S
      OBVIOUS
    <2>1. k \in 0..m /\ ~(x <= k)
      BY <1>1
    <2> QED BY <1>1, <2>1
  <1> QED BY <1>1, <1>2

\* ... and the numbers up to a bound, from the bound downwards.
LEMMA DownwardInduction ==
  ASSUME NEW m \in Nat, NEW S, m \in S, \A n \in 0..(m - 1) : n + 1 \in S => n \in S
  PROVE  0..m \subseteq S
  <1> DEFINE T == {k \in 0..m : m - k \in S}
  <1>1. 0 \in T
    OBVIOUS
  <1>2. ASSUME NEW k \in 1..m, k - 1 \in T PROVE k \in T
    <2> DEFINE n == m - k
    <2>1. n \in 0..(m - 1) /\ m - (k - 1) = n + 1
      OBVIOUS
    <2>2. n + 1 \in S
      BY <1>2, <2>1
    <2>3. n \in S
      BY <2>1, <2>2
    <2> QED BY <2>3
  <1> HIDE DEF T
  <1>3. 0..m \subseteq T
    BY <1>1, <1>2, BoundedInduction
  <1> SUFFICES ASSUME NEW n \in 0..m PROVE n \in S
    OBVIOUS
  <1> DEFINE k == m - n
  <1>4. k \in 0..m /\ m - k = n
    OBVIOUS
  <1> HIDE DEF k
  <1> QED BY <1>3, <1>4 DEF T

-----------------------------------------------------------------------------
(* Recursive functions: that there is one.                                 *)

\* f has the value z at 0, and what follows goes by the steps g.
Stepwise(f, n, z, g) == f[0] = z /\ \A i \in 1..n : f[i] = g[i][f[i - 1]]

\* One that goes by steps from its value at 0.
LEMMA StepFunction ==
  ASSUME NEW n \in Nat, NEW z, NEW g
  PROVE  \E f : f = [i \in 0..n |-> f[i]] /\ Stepwise(f, n, z, g)
  <1> DEFINE Upto(m) == \E f : f = [i \in 0..m |-> f[i]] /\ Stepwise(f, m, z, g)
             T == {m \in 0..n : Upto(m)}
  <1> USE DEF Stepwise
  <1>1. 0 \in T
    <2> DEFINE f == [i \in 0..0 |-> z]
    <2>1. f = [i \in 0..0 |-> f[i]] /\ f[0] = z /\ 1..0 = {}
      OBVIOUS
    <2> HIDE DEF f
    <2>2. Upto(0)
      BY <2>1
    <2> HIDE DEF Upto
    <2> QED BY <2>2
  <1>2. ASSUME NEW m \in 1..n, m - 1 \in T PROVE m \in T
    <2>1. PICK f : f[0] = z /\ \A i \in 1..(m - 1) : f[i] = g[i][f[i - 1]]
      BY <1>2
    <2> DEFINE h == [i \in 0..m |-> IF i = m THEN g[m][f[m - 1]] ELSE f[i]]
    <2>2. h = [i \in 0..m |-> h[i]]
      OBVIOUS
    <2>3. h[0] = z
      BY <2>1
    <2>4. ASSUME NEW i \in 1..m PROVE h[i] = g[i][h[i - 1]]
      <3>1. i - 1 \in 0..m /\ i - 1 # m /\ i \in 0..m
        OBVIOUS
      <3>2. h[i - 1] = f[i - 1]
        BY <3>1
      <3>3. CASE i = m
        BY <3>1, <3>2, <3>3
      <3>4. CASE i # m
        <4>1. i \in 1..(m - 1) /\ h[i] = f[i]
          BY <3>1, <3>4
        <4> QED BY <2>1, <3>2, <4>1
      <3> QED BY <3>3, <3>4
    <2> HIDE DEF h
    <2>5. Upto(m)
      BY <2>2, <2>3, <2>4
    <2> HIDE DEF Upto
    <2> QED BY <2>5
  <1> HIDE DEF T
  <1>3. 0..n \subseteq T
    BY <1>1, <1>2, BoundedInduction
  <1>4. n \in T
    BY <1>3
  <1> QED BY <1>4 DEF T

\* The links of 1..n lead to smaller numbers.
Linked(b, n) == \A q \in 1..n : b[q] \in 0..(q - 1)

\* f is v where the links b stop, and as what is linked to elsewhere.
Follows(f, b, n, Stop, v) == \A q \in 0..n : f[q] = IF q \in Stop THEN v[q] ELSE f[b[q]]

\* One that follows links to smaller numbers, until a number at which it has a value.
LEMMA ChainFunction ==
  ASSUME NEW n \in Nat, NEW b, Linked(b, n), NEW Stop, 0 \in Stop, NEW v
  PROVE  \E f : Follows(f, b, n, Stop, v)
  <1> USE DEF Linked, Follows
  <1> DEFINE Upto(m) == \E f : Follows(f, b, m, Stop, v)
             T == {m \in 0..n : Upto(m)}
  <1>1. 0 \in T
    <2>1. \A q \in 0..0 : v[q] = IF q \in Stop THEN v[q] ELSE v[b[q]]
      OBVIOUS
    <2> QED BY <2>1
  <1>2. ASSUME NEW m \in 1..n, m - 1 \in T PROVE m \in T
    <2>1. PICK f : \A q \in 0..(m - 1) : f[q] = IF q \in Stop THEN v[q] ELSE f[b[q]]
      BY <1>2
    <2> DEFINE h == [q \in 0..m |-> IF q < m THEN f[q] ELSE IF q \in Stop THEN v[q] ELSE f[b[q]]]
    <2>2. \A q \in 0..(m - 1) : h[q] = f[q]
      OBVIOUS
    <2>3. ASSUME NEW q \in 0..m PROVE h[q] = IF q \in Stop THEN v[q] ELSE h[b[q]]
      <3>1. q # 0 => b[q] \in 0..(m - 1)
        <4>1. q # 0 => q \in 1..n
          OBVIOUS
        <4>2. \A x : x \in 0..(q - 1) => x \in 0..(m - 1)
          OBVIOUS
        <4> QED BY <4>1, <4>2
      <3>2. q \notin Stop => h[b[q]] = f[b[q]]
        BY <2>2, <3>1
      <3>3. CASE q = m
        BY <3>2, <3>3
      <3>4. CASE q # m
        <4>1. q \in 0..(m - 1) /\ h[q] = f[q]
          BY <3>4
        <4> QED BY <2>1, <3>2, <4>1
      <3> QED BY <3>3, <3>4
    <2> HIDE DEF h
    <2>4. Upto(m)
      BY <2>3
    <2> QED BY <2>4
  <1> HIDE DEF T
  <1>3. 0..n \subseteq T
    BY <1>1, <1>2, BoundedInduction
  <1>4. n \in T
    BY <1>3
  <1> QED BY <1>4 DEF T

\* f has the value z at 0, and goes from link to link by the steps g.
GoesAlong(f, b, n, z, g) == f[0] = z /\ \A q \in 1..n : f[q] = g[q][f[b[q]]]

\* One that is a step away from its value at a smaller number.
LEMMA LinkedFunction ==
  ASSUME NEW n \in Nat, NEW b, Linked(b, n), NEW z, NEW g
  PROVE  \E f : GoesAlong(f, b, n, z, g)
  <1> USE DEF Linked, GoesAlong
  <1> DEFINE Upto(m) == \E f : GoesAlong(f, b, m, z, g)
             T == {m \in 0..n : Upto(m)}
  <1>1. 0 \in T
    <2> DEFINE f == [i \in 0..0 |-> z]
    <2>1. f[0] = z /\ 1..0 = {}
      OBVIOUS
    <2> HIDE DEF f
    <2>2. Upto(0)
      BY <2>1
    <2> HIDE DEF Upto
    <2> QED BY <2>2
  <1>2. ASSUME NEW m \in 1..n, m - 1 \in T PROVE m \in T
    <2>1. PICK f : GoesAlong(f, b, m - 1, z, g)
      BY <1>2
    <2> DEFINE h == [q \in 0..m |-> IF q = m THEN g[m][f[b[m]]] ELSE f[q]]
    <2>2. \A q \in 0..(m - 1) : h[q] = f[q]
      OBVIOUS
    <2>3. h[0] = z
      BY <2>1
    <2>4. ASSUME NEW q \in 1..m PROVE h[q] = g[q][h[b[q]]]
      <3>1. b[q] \in 0..(m - 1)
        <4>1. q \in 1..n
          OBVIOUS
        <4>2. \A x : x \in 0..(q - 1) => x \in 0..(m - 1)
          OBVIOUS
        <4> QED BY <4>1, <4>2
      <3>2. h[b[q]] = f[b[q]]
        BY <2>2, <3>1
      <3>3. CASE q = m
        BY <3>2, <3>3
      <3>4. CASE q # m
        <4>1. q \in 1..(m - 1) /\ h[q] = f[q]
          BY <3>4
        <4> QED BY <2>1, <3>2, <4>1
      <3> QED BY <3>3, <3>4
    <2> HIDE DEF h
    <2>5. Upto(m)
      BY <2>3, <2>4
    <2> HIDE DEF Upto
    <2> QED BY <2>5
  <1> HIDE DEF T
  <1>3. 0..n \subseteq T
    BY <1>1, <1>2, BoundedInduction
  <1>4. n \in T
    BY <1>3
  <1> QED BY <1>4 DEF T

-----------------------------------------------------------------------------
(* Sequences.                                                              *)

\* Not all values have a set they are in: a sequence is one of its own elements.
IsSequence(s) == s \in Seq(Range(s))

\* Appending leaves a sequence, with the new element behind the others.
LEMMA AppendToSequence ==
  ASSUME NEW s, IsSequence(s), NEW e
  PROVE  /\ Len(s) \in Nat /\ DOMAIN s = 1..Len(s)
         /\ IsSequence(Append(s, e))
         /\ Len(Append(s, e)) = Len(s) + 1
         /\ DOMAIN Append(s, e) = 1..(Len(s) + 1)
         /\ \A i \in 1..Len(s) : Append(s, e)[i] = s[i]
         /\ Append(s, e)[Len(s) + 1] = e
  <1> DEFINE S == Range(s) \cup {e}
  <1>1. Len(s) \in Nat /\ DOMAIN s = 1..Len(s)
    BY DEF IsSequence
  <1>2. s \in Seq(S)
    BY <1>1 DEF IsSequence, Range
  <1>3. /\ Append(s, e) \in Seq(S) /\ Len(Append(s, e)) = Len(s) + 1
        /\ \A i \in 1..Len(s) : Append(s, e)[i] = s[i]
        /\ Append(s, e)[Len(s) + 1] = e
    BY <1>2
  <1>4. DOMAIN Append(s, e) = 1..(Len(s) + 1)
    BY <1>1, <1>3
  <1>5. \A i \in 1..(Len(s) + 1) : Append(s, e)[i] \in Range(Append(s, e))
    BY <1>4 DEF Range
  <1>6. IsSequence(Append(s, e))
    BY <1>1, <1>3, <1>4, <1>5 DEF IsSequence
  <1> QED BY <1>1, <1>3, <1>4, <1>6

\* Changing an element leaves a sequence.
LEMMA ExceptOfSequence ==
  ASSUME NEW s, IsSequence(s), NEW i \in DOMAIN s, NEW e
  PROVE  /\ IsSequence([s EXCEPT ![i] = e])
         /\ DOMAIN [s EXCEPT ![i] = e] = DOMAIN s
         /\ Len([s EXCEPT ![i] = e]) = Len(s)
  <1> DEFINE t == [s EXCEPT ![i] = e]
  <1>1. Len(s) \in Nat /\ DOMAIN s = 1..Len(s)
    BY DEF IsSequence
  <1>2. t \in [1..Len(s) -> Range(t)] /\ DOMAIN t = DOMAIN s
    BY <1>1 DEF Range
  <1> HIDE DEF t
  <1>3. t \in Seq(Range(t)) /\ Len(t) = Len(s)
    BY <1>1, <1>2
  <1> QED BY <1>2, <1>3 DEF IsSequence, t

\* So does leaving the last element out.
LEMMA FrontOfSequence ==
  ASSUME NEW s, IsSequence(s), s # << >>
  PROVE  /\ Len(s) \in Nat \ {0} /\ DOMAIN s = 1..Len(s)
         /\ IsSequence(SubSeq(s, 1, Len(s) - 1))
         /\ Len(SubSeq(s, 1, Len(s) - 1)) = Len(s) - 1
         /\ DOMAIN SubSeq(s, 1, Len(s) - 1) = 1..(Len(s) - 1)
         /\ \A i \in 1..(Len(s) - 1) : SubSeq(s, 1, Len(s) - 1)[i] = s[i]
  <1> DEFINE S == Range(s)
             t == SubSeq(s, 1, Len(s) - 1)
  <1>1. s \in Seq(S)
    BY DEF IsSequence
  <1>2. Len(s) \in Nat \ {0} /\ DOMAIN s = 1..Len(s)
    BY <1>1
  <1>3. t \in Seq(S) /\ Len(t) = Len(s) - 1 /\ \A i \in 1..(Len(s) - 1) : t[i] = s[i]
    BY <1>1, <1>2
  <1>4. DOMAIN t = 1..(Len(s) - 1)
    BY <1>2, <1>3
  <1>5. \A i \in 1..(Len(s) - 1) : t[i] \in Range(t)
    BY <1>4 DEF Range
  <1> HIDE DEF t
  <1>6. IsSequence(t)
    BY <1>2, <1>3, <1>4, <1>5 DEF IsSequence
  <1> QED BY <1>2, <1>3, <1>4, <1>6 DEF t

-----------------------------------------------------------------------------
(* Sequences that grow.                                                    *)

\* t is s, or s with more behind it.
Extends(s, t) == Len(s) <= Len(t) /\ \A i \in 1..Len(s) : t[i] = s[i]

\* What was appended to is still there.
LEMMA AppendExtends ==
  ASSUME NEW S, NEW s \in Seq(S), NEW g
  PROVE  Extends(s, Append(s, g))
  BY DEF Extends

\* Growing twice is growing.
LEMMA ExtendsOn ==
  ASSUME NEW S, NEW s \in Seq(S), NEW t \in Seq(S), NEW u \in Seq(S),
         Extends(s, t), Extends(t, u)
  PROVE  Extends(s, u)
  <1>1. Len(s) \in Nat /\ Len(t) \in Nat /\ Len(u) \in Nat
    BY LenProperties
  <1> QED BY <1>1 DEF Extends

\* What stands before two sequences does not matter.
LEMMA ExtendsBehind ==
  ASSUME NEW S, NEW d \in Seq(S), NEW s \in Seq(S), NEW t \in Seq(S), Extends(s, t)
  PROVE  Extends(d \o s, d \o t)
  <1>1. Len(d) \in Nat /\ Len(s) \in Nat /\ Len(t) \in Nat
    BY LenProperties
  <1>2. Len(d \o s) = Len(d) + Len(s) /\ Len(d \o t) = Len(d) + Len(t)
    BY ConcatProperties
  <1>3. ASSUME NEW i \in 1..(Len(d) + Len(s))
        PROVE  (d \o t)[i] = (d \o s)[i]
    <2>1. (d \o s)[i] = IF i <= Len(d) THEN d[i] ELSE s[i - Len(d)]
      BY ConcatProperties
    <2>2. (d \o t)[i] = IF i <= Len(d) THEN d[i] ELSE t[i - Len(d)]
      BY <1>1, ConcatProperties DEF Extends
    <2>3. i > Len(d) => i - Len(d) \in 1..Len(s)
      BY <1>1
    <2> QED BY <2>1, <2>2, <2>3 DEF Extends
  <1> QED BY <1>1, <1>2, <1>3 DEF Extends

\* A sequence that grew begins with what it was, and is it if it grew by nothing.
LEMMA ExtendsIsPrefix ==
  ASSUME NEW S, NEW s \in Seq(S), NEW t \in Seq(S), Extends(s, t)
  PROVE  /\ SubSeq(t, 1, Len(s)) = s
         /\ Len(s) < Len(t) \/ s = t
  <1>1. Len(s) \in Nat /\ Len(t) \in Nat /\ Len(s) <= Len(t)
    BY LenProperties DEF Extends
  <1>2. \A i \in 1..Len(s) : t[i] \in S
    BY <1>1, ElementOfSeq
  <1>3. /\ SubSeq(t, 1, Len(s)) \in Seq(S) /\ Len(SubSeq(t, 1, Len(s))) = Len(s)
        /\ \A i \in 1..Len(s) : SubSeq(t, 1, Len(s))[i] = t[i]
    BY <1>1, <1>2, SubSeqProperties
  <1>4. SubSeq(t, 1, Len(s)) = s
    BY <1>3, SeqEqual DEF Extends
  <1>5. Len(s) = Len(t) => s = t
    BY SeqEqual DEF Extends
  <1> QED BY <1>1, <1>4, <1>5

\* Moving the head of a queue behind what went before it moves nothing else.
LEMMA HeadMoves ==
  ASSUME NEW S, NEW s \in Seq(S), NEW q \in Seq(S), q # << >>
  PROVE  /\ Append(s, Head(q)) \in Seq(S) /\ Tail(q) \in Seq(S)
         /\ Append(s, Head(q)) \o Tail(q) = s \o q
         /\ Len(s) < Len(s \o q) /\ (s \o q)[Len(s) + 1] = Head(q)
  <1>1. /\ Head(q) \in S /\ Tail(q) \in Seq(S) /\ Len(Tail(q)) = Len(q) - 1
        /\ \A i \in 1..Len(Tail(q)) : Tail(q)[i] = q[i + 1]
        /\ Len(s) \in Nat /\ Len(q) \in Nat \ {0} /\ Head(q) = q[1]
    BY HeadTailProperties, LenProperties, EmptySeq
  <1> DEFINE a == Append(s, Head(q))
  <1>2. /\ a \in Seq(S) /\ Len(a) = Len(s) + 1 /\ a[Len(s) + 1] = Head(q)
        /\ \A i \in 1..Len(s) : a[i] = s[i]
    BY <1>1, AppendProperties
  <1> HIDE DEF a
  <1>3. a \o Tail(q) \in Seq(S) /\ s \o q \in Seq(S)
        /\ Len(a \o Tail(q)) = Len(s) + Len(q) /\ Len(s \o q) = Len(s) + Len(q)
    <2>1. a \o Tail(q) \in Seq(S) /\ Len(a \o Tail(q)) = Len(a) + Len(Tail(q))
      BY <1>1, <1>2, ConcatProperties
    <2>2. s \o q \in Seq(S) /\ Len(s \o q) = Len(s) + Len(q)
      BY ConcatProperties
    <2> QED BY <1>1, <1>2, <2>1, <2>2
  <1>4. ASSUME NEW i \in 1..(Len(s) + Len(q))
        PROVE  (a \o Tail(q))[i] = (s \o q)[i]
    <2>1. (s \o q)[i] = IF i <= Len(s) THEN s[i] ELSE q[i - Len(s)]
      BY ConcatProperties
    <2>2. i \in 1..(Len(a) + Len(Tail(q)))
      BY <1>1, <1>2
    <2>3. (a \o Tail(q))[i] = IF i <= Len(s) + 1 THEN a[i] ELSE Tail(q)[i - (Len(s) + 1)]
      <3>1. a \in Seq(S) /\ Tail(q) \in Seq(S)
        BY <1>1, <1>2
      <3>2. (a \o Tail(q))[i] = IF i <= Len(a) THEN a[i] ELSE Tail(q)[i - Len(a)]
        BY <2>2, <3>1, ConcatProperties
      <3> QED BY <1>2, <3>2
    <2>4. i > Len(s) + 1 => /\ i - (Len(s) + 1) \in 1..Len(Tail(q))
                            /\ (i - (Len(s) + 1)) + 1 = i - Len(s)
      BY <1>1
    <2>5. i = Len(s) + 1 => i - Len(s) = 1
      BY <1>1
    <2> QED BY <1>1, <1>2, <2>1, <2>3, <2>4, <2>5
  <1>5. a \o Tail(q) = s \o q
    BY <1>3, <1>4, SeqEqual
  <1>6. (s \o q)[Len(s) + 1] = Head(q)
    <2>1. Len(s) + 1 \in 1..(Len(s) + Len(q)) /\ (Len(s) + 1) - Len(s) = 1 /\ ~(Len(s) + 1 <= Len(s))
      BY <1>1
    <2> QED BY <1>1, <2>1, ConcatProperties
  <1> QED BY <1>1, <1>2, <1>3, <1>5, <1>6 DEF a

=============================================================================
